---------------------------- MODULE Publication ----------------------------
(***************************************************************************)
(* The durable execution authority of one publication request: the        *)
(* aggregate, its root attempt with its call budgets, the one-shot permit, *)
(* the work record, the provider call claims with their audits and staged  *)
(* evidence.  One operator per command of PublicationExecutionService and  *)
(* per append of the execution store; PublicationMachine says who issues   *)
(* them.                                                                   *)
(*                                                                         *)
(* Every command is a compare-and-swap on the whole authority it has read. *)
(* So it is one step here, whose clock reading t lies between the last     *)
(* change of that authority and the commit: a command that read the clock  *)
(* before the deadline may commit after it, but only if nothing changed.   *)
(***************************************************************************)
EXTENDS Naturals

CONSTANTS
  Deadline,     \* verification_deadline: requested_at is 0
  FreshUntil,   \* pricing_fresh_until
  ShopLimit,    \* shop GETs of the root attempt (3 in the code)
  ProductLimit  \* product GETs of the root attempt (100 in the code)

ASSUME PublicationAssumption ==
  /\ Deadline \in Nat \ {0} /\ FreshUntil \in Nat
  /\ ShopLimit \in Nat /\ ProductLimit \in Nat

VARIABLES
  now,            \* the clock; it stops at the deadline
  touched,        \* when the authority last changed
  state,          \* of the aggregate
  permit,         \* the one-shot publish permit
  work,           \* the publication work record
  reconstructed,  \* is there a provider authority?
  proven,         \* is there a preflight proof?
  post,           \* the POST observation
  call,           \* the provider call claims, by attempt record version
  claims,         \* how many there are
  shopGets, productGets, publishPosts  \* the spent budgets of the attempt

attemptVars == <<call, claims, shopGets, productGets, publishPosts>>
authority == <<state, permit, work, reconstructed, proven, post, attemptVars>>
pubVars == <<now, touched, authority>>

CallId == 1..(ShopLimit + ProductLimit + 1)
Purposes == {"shop", "preflight", "publish", "verify", "reconcile"}
PreflightPurposes == {"shop", "preflight"}
Terminal == {"published", "failed", "unknown"}
AfterPost == {"verifying", "reconciling"}

\* What may be staged for a call: good and bad preflights, an accepted or ambiguous POST, a
\* poll that proves the publication (observed before the deadline) or does not.
EvidenceOf(purpose) ==
  CASE purpose \in PreflightPurposes -> {"good", "bad"}
    [] purpose = "publish" -> {"accepted", "ambiguous"}
    [] OTHER -> {"proof", "unproven"}

Evidence == {"none", "good", "bad", "accepted", "ambiguous", "proof", "unproven"}

NewCall(purpose) ==
  [purpose |-> purpose, audited |-> FALSE, evidence |-> "none", consumed |-> FALSE]

PublicationInit ==
  /\ now = 0 /\ touched = 0
  /\ state = "requested" /\ permit = "available" /\ work = "pending"
  /\ reconstructed = FALSE /\ proven = FALSE /\ post = "none"
  /\ call = [c \in CallId |-> NewCall("none")] /\ claims = 0
  /\ shopGets = 0 /\ productGets = 0 /\ publishPosts = 0

-----------------------------------------------------------------------------
\* A clock reading of a command that commits now.
Reading == touched..now

Commit == touched' = now /\ UNCHANGED now

RequestedDispatched == state = "requested" /\ work = "dispatched"
PreCall == permit = "available" /\ ~proven

\* Evidence staged for call c and not consumed by a command yet.
Unconsumed(c) == call[c].evidence # "none" /\ ~call[c].consumed

Consume(S) ==
  /\ call' = [c \in CallId |->
       IF c \in S THEN [call[c] EXCEPT !.consumed = TRUE] ELSE call[c]]
  /\ UNCHANGED <<claims, shopGets, productGets, publishPosts>>

\* The next call of the attempt, for which the commit returns a fresh one-use grant.
AppendClaim(purpose) ==
  /\ claims' = claims + 1
  /\ call' = [call EXCEPT ![claims + 1] = NewCall(purpose)]

\* A permit that is not consumed is retired with the request.
Settle(outcome) ==
  /\ state' = outcome
  /\ work' = CASE outcome = "published" -> "succeeded"
               [] outcome = "failed" -> "failed"
               [] OTHER -> "outcome_unknown"
  /\ permit' = IF permit = "available" THEN "retired" ELSE permit

-----------------------------------------------------------------------------
(* The commands.                                                           *)

DispatchWork ==
  /\ work = "pending" /\ state = "requested" /\ work' = "dispatched"
  /\ Commit /\ UNCHANGED <<state, permit, reconstructed, proven, post, attemptVars>>

\* The source authority is re-read and must still carry fresh pricing.
ReconstructAuthority(t) ==
  /\ RequestedDispatched /\ t < Deadline /\ t < FreshUntil
  /\ ~reconstructed /\ claims = 0 /\ reconstructed' = TRUE
  /\ Commit /\ UNCHANGED <<state, permit, work, proven, post, attemptVars>>

ClaimShopGet(t) ==
  /\ t < Deadline /\ reconstructed /\ RequestedDispatched /\ PreCall
  /\ shopGets < ShopLimit /\ shopGets' = shopGets + 1
  /\ AppendClaim("shop")
  /\ Commit
  /\ UNCHANGED <<state, permit, work, reconstructed, proven, post, productGets, publishPosts>>

ClaimProductGet(purpose, t) ==
  /\ t < Deadline /\ reconstructed
  /\ \/ purpose = "preflight" /\ RequestedDispatched /\ PreCall
     \/ purpose = "verify" /\ state = "verifying"
     \/ purpose = "reconcile" /\ state = "reconciling"
  /\ productGets < ProductLimit /\ productGets' = productGets + 1
  /\ AppendClaim(purpose)
  /\ Commit
  /\ UNCHANGED <<state, permit, work, reconstructed, proven, post, shopGets, publishPosts>>

RecordPreflight(s, p, t) ==
  /\ RequestedDispatched /\ PreCall /\ t < Deadline
  /\ Unconsumed(s) /\ call[s].purpose = "shop" /\ call[s].evidence = "good"
  /\ Unconsumed(p) /\ call[p].purpose = "preflight" /\ call[p].evidence = "good"
  /\ proven' = TRUE /\ Consume({s, p})
  /\ Commit /\ UNCHANGED <<state, permit, work, reconstructed, post>>

ClaimPublish(t) ==
  /\ RequestedDispatched /\ t < Deadline /\ t < FreshUntil
  /\ permit = "available" /\ proven /\ publishPosts = 0
  /\ permit' = "consumed" /\ publishPosts' = 1
  /\ AppendClaim("publish")
  /\ Commit
  /\ UNCHANGED <<state, work, reconstructed, proven, post, shopGets, productGets>>

SettlePreflightFailure(c, t) ==
  /\ RequestedDispatched /\ t < Deadline /\ PreCall
  /\ Unconsumed(c) /\ call[c].evidence = "bad"
  /\ Settle("failed") /\ Consume({c})
  /\ Commit /\ UNCHANGED <<reconstructed, proven, post>>

\* The POST was answered and its answer staged.
RecordPostOutcome(c) ==
  /\ RequestedDispatched /\ permit = "consumed"
  /\ Unconsumed(c) /\ call[c].purpose = "publish"
  /\ post' = call[c].evidence
  /\ state' = IF call[c].evidence = "accepted" THEN "verifying" ELSE "reconciling"
  /\ work' = state'
  /\ Consume({c})
  /\ Commit /\ UNCHANGED <<permit, reconstructed, proven>>

\* Mutant of RecoverConsumedClaim: a claim without an answer is taken for an unsent one.
RecoverAsUnsent ==
  /\ RequestedDispatched /\ permit = "consumed"
  /\ Settle("failed")
  /\ Commit /\ UNCHANGED <<reconstructed, proven, post, attemptVars>>

\* The POST was claimed and no answer is known: its outcome is ambiguous from now on.
RecoverConsumedClaim ==
  /\ RequestedDispatched /\ permit = "consumed"
  /\ post' = "ambiguous" /\ state' = "reconciling" /\ work' = "reconciling"
  /\ Commit /\ UNCHANGED <<permit, reconstructed, proven, attemptVars>>

\* A proof was observed before the deadline, and counts even when recorded after it.
RecordProductObservation(c, t) ==
  /\ state \in AfterPost /\ permit = "consumed"
  /\ Unconsumed(c)
  /\ call[c].purpose = IF state = "verifying" THEN "verify" ELSE "reconcile"
  /\ IF call[c].evidence = "proof"
       THEN Settle("published")
       ELSE IF t >= Deadline THEN Settle("unknown") ELSE UNCHANGED <<state, work, permit>>
  /\ Consume({c})
  /\ Commit /\ UNCHANGED <<reconstructed, proven, post>>

\* Mutant of SettleDeadline: a request whose POST is claimed fails at the deadline too.
SettleDeadlineUnchecked(t) ==
  /\ t >= Deadline /\ state \notin Terminal
  /\ Settle(IF state = "requested" THEN "failed" ELSE "unknown")
  /\ Commit /\ UNCHANGED <<reconstructed, proven, post, attemptVars>>

\* A request whose POST is claimed must enter reconciliation first.
SettleDeadline(t) ==
  /\ t >= Deadline
  /\ \/ state = "requested" /\ permit = "available" /\ Settle("failed")
     \/ state \in AfterPost /\ permit = "consumed" /\ Settle("unknown")
  /\ Commit /\ UNCHANGED <<reconstructed, proven, post, attemptVars>>

-----------------------------------------------------------------------------
(* The appends of the provider boundary.                                   *)

\* The claim of call c is what the authority is waiting for.
ClaimLive(c) ==
  CASE call[c].purpose \in PreflightPurposes -> state = "requested" /\ PreCall
    [] call[c].purpose = "publish" -> state = "requested" /\ permit = "consumed"
    [] call[c].purpose = "verify" -> state = "verifying"
    [] OTHER -> state = "reconciling"

\* The allowed-route audit of call c, the last durable write before its wire request.  A
\* repetition finds it written: it does not refuse.
CommitAudit(c) ==
  IF call[c].audited THEN UNCHANGED pubVars
  ELSE /\ state \notin Terminal /\ ClaimLive(c)
       /\ call' = [call EXCEPT ![c].audited = TRUE]
       /\ Commit
       /\ UNCHANGED <<state, permit, work, reconstructed, proven, post,
                      claims, shopGets, productGets, publishPosts>>

\* One stage per audited call, whatever the authority is waiting for, until it is terminal.
StageEvidence(c, e) ==
  /\ state \notin Terminal /\ call[c].audited /\ call[c].evidence = "none"
  /\ call' = [call EXCEPT ![c].evidence = e]
  /\ Commit
  /\ UNCHANGED <<state, permit, work, reconstructed, proven, post,
                 claims, shopGets, productGets, publishPosts>>

Tick == now < Deadline /\ now' = now + 1 /\ UNCHANGED <<touched, authority>>

=============================================================================
