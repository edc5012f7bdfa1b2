------------------------- MODULE PublicationMachine -------------------------
(***************************************************************************)
(* The processes that drive one Publication: the dispatcher that starts    *)
(* its workflow, the bounded polling workflow, the worker invocations that *)
(* each advance the coordinator by one provider call at most, the recovery *)
(* of failed workflows, and the provider.  An invocation the workflow has  *)
(* given up runs on, so several may advance the same request.              *)
(*                                                                         *)
(* A command refused by the store is a worker that raises.                 *)
(***************************************************************************)
EXTENDS Publication, FiniteSets

CONSTANTS
  Workers,      \* worker invocations alive at once
  NoWorker,
  PollBudget,   \* poll_count of the workflow (90 in the code)
  MaxRedrives,  \* redrives of one execution (3 in the code)
  MaxFaults     \* bound: crashed or abandoned invocations

ASSUME MachineAssumption ==
  /\ NoWorker \notin Workers
  /\ PollBudget \in Nat /\ MaxRedrives \in Nat /\ MaxFaults \in Nat

VARIABLES
  exec,      \* the Step Functions execution
  task,      \* the invocation it waits for
  polls,     \* its poll_count
  redrives,
  pc,        \* where each invocation stands
  grant,     \* the call it holds the one-use grant of, 0 for none
  answer,    \* what the provider answered to it
  sent,      \* publish POSTs put on the wire
  listing,   \* what the provider made of them
  faults

flowVars == <<exec, task, polls, redrives>>
workerVars == <<pc, grant, answer>>
providerVars == <<sent, listing>>
machineVars == <<pubVars, flowVars, workerVars, providerVars, faults>>

MachineInit ==
  /\ PublicationInit
  /\ exec = "none" /\ task = NoWorker /\ polls = 0 /\ redrives = 0
  /\ pc = [w \in Workers |-> "idle"]
  /\ grant = [w \in Workers |-> 0]
  /\ answer = [w \in Workers |-> "none"]
  /\ sent = 0 /\ listing = "absent" /\ faults = 0

-----------------------------------------------------------------------------
(* The workflow and its invocations.                                       *)

\* Due work whose deadline has not passed starts the execution its name determines.
StartExecution ==
  /\ exec = "none" /\ work = "pending" /\ now < Deadline /\ exec' = "running"
  /\ UNCHANGED <<pubVars, task, polls, redrives, workerVars, providerVars, faults>>

Invoke(w) ==
  /\ exec = "running" /\ task = NoWorker /\ pc[w] = "idle"
  /\ task' = w /\ pc' = [pc EXCEPT ![w] = "running"]
  /\ UNCHANGED <<pubVars, exec, polls, redrives, grant, answer, providerVars, faults>>

\* Invocation w is over: nothing of it remains.
Leave(w) ==
  /\ pc' = [pc EXCEPT ![w] = "idle"]
  /\ grant' = [grant EXCEPT ![w] = 0]
  /\ answer' = [answer EXCEPT ![w] = "none"]

\* w returns the resulting state of the request: the workflow routes on it.
Return(w) ==
  /\ Leave(w)
  /\ IF task # w THEN UNCHANGED flowVars
     ELSE /\ task' = NoWorker
          /\ \/ state' \in Terminal /\ exec' = "succeeded" /\ polls' = polls
             \/ state' \notin Terminal /\ polls < PollBudget
                /\ exec' = "running" /\ polls' = polls + 1
             \/ state' \notin Terminal /\ polls >= PollBudget
                /\ exec' = "exhausted" /\ polls' = polls
          /\ UNCHANGED redrives

\* w raises: a provider error, a refused command, an unavailable dependency.
Raise(w) ==
  /\ pc[w] # "idle" /\ Leave(w)
  /\ IF task # w THEN UNCHANGED <<exec, task>> ELSE exec' = "failed" /\ task' = NoWorker
  /\ UNCHANGED <<pubVars, polls, redrives, providerVars, faults>>

\* The invocation dies, or the workflow loses it and it runs on; the workflow retries or fails.
Lose(w) ==
  /\ faults < MaxFaults /\ faults' = faults + 1 /\ task = w
  /\ Leave(w) \/ UNCHANGED workerVars
  /\ exec' \in {"running", "failed"} /\ task' = NoWorker
  /\ UNCHANGED <<pubVars, polls, redrives, providerVars>>

\* The execution times out a minute after the deadline.
TimeOut ==
  /\ exec = "running" /\ now = Deadline /\ exec' = "failed" /\ task' = NoWorker
  /\ UNCHANGED <<pubVars, polls, redrives, workerVars, providerVars, faults>>

-----------------------------------------------------------------------------
(* One coordinator step.  An invocation that finds the request terminal    *)
(* returns; otherwise the first of these that applies is what it does.     *)

NoWire == UNCHANGED <<providerVars, faults>>
Returns(w) == pc[w] = "running" /\ Return(w) /\ NoWire

\* Local authority was written: the invocation reloads the request and acts on what it finds,
\* but no longer looks for answers to record.
GoesOn(w) ==
  /\ pc' = [pc EXCEPT ![w] = "prepared"]
  /\ UNCHANGED <<grant, answer, flowVars>> /\ NoWire

Ends(w) == pc[w] \in {"running", "prepared"} /\ Return(w) /\ NoWire

FindTerminal(w) ==
  state \in Terminal /\ UNCHANGED pubVars /\ Returns(w)

\* The unconsumed evidence of the calls of one purpose, and the latest of it.
Staged(purpose) == {c \in 1..claims : call[c].purpose = purpose /\ Unconsumed(c)}
Latest(c, purpose) == c \in Staged(purpose) /\ \A d \in Staged(purpose) : d <= c

\* _recover_post_call_stage: a staged answer is recorded before anything else, deadline or not.
AdvancePostOutcome(w) ==
  \E c \in 1..claims :
    Latest(c, "publish") /\ RecordPostOutcome(c) /\ Returns(w)

AdvanceObservation(w) ==
  \E c \in 1..claims, t \in Reading :
    /\ Latest(c, IF state = "verifying" THEN "verify" ELSE "reconcile")
    /\ RecordProductObservation(c, t) /\ Returns(w)

\* Evidence that _recover_post_call_stage would record.
AnswerStaged ==
  \/ state = "requested" /\ permit = "consumed" /\ Staged("publish") # {}
  \/ state = "verifying" /\ Staged("verify") # {}
  \/ state = "reconciling" /\ Staged("reconcile") # {}

\* Has w looked for answers, and found none, or is it past that?
NoAnswerSeen(w) == pc[w] = "running" => ~AnswerStaged

AdvanceDeadline(w) ==
  \E t \in Reading :
    NoAnswerSeen(w) /\ SettleDeadline(t) /\ Returns(w)

\* Mutant of AdvanceRecover: a consumed permit without an answer gets its POST again.
AdvanceRetry(w) ==
  /\ NoAnswerSeen(w) /\ RequestedDispatched /\ permit = "consumed"
  /\ pc[w] \in {"running", "prepared"} /\ pc' = [pc EXCEPT ![w] = "granted"]
  /\ grant' = [grant EXCEPT ![w] = claims]
  /\ UNCHANGED <<pubVars, answer, flowVars>> /\ NoWire

\* A consumed permit without an answer is recovered, before the deadline and after it.
AdvanceRecover(w) ==
  NoAnswerSeen(w) /\ RecoverConsumedClaim /\ Ends(w)

AdvanceDispatch(w) ==
  \E t \in Reading : pc[w] = "running" /\ t < Deadline /\ DispatchWork /\ GoesOn(w)

AdvanceReconstruct(w) ==
  \E t \in Reading :
    pc[w] \in {"running", "prepared"} /\ ReconstructAuthority(t) /\ GoesOn(w)

\* The latest shop and product evidence, each good or bad.
AdvanceNegative(w) ==
  \E p \in PreflightPurposes, c \in 1..claims, t \in Reading :
    Latest(c, p) /\ SettlePreflightFailure(c, t) /\ Ends(w)

LatestGood(c, purpose) == Latest(c, purpose) /\ call[c].evidence = "good"

AdvancePreflight(w) ==
  \E s, p \in 1..claims, t \in Reading :
    /\ LatestGood(s, "shop") /\ LatestGood(p, "preflight")
    /\ RecordPreflight(s, p, t) /\ Ends(w)

\* The fresh grant of the call just claimed: the invocation is committed to that call.
Granted(w) ==
  /\ pc[w] \in {"running", "prepared"} /\ pc' = [pc EXCEPT ![w] = "granted"]
  /\ grant' = [grant EXCEPT ![w] = claims + 1]
  /\ UNCHANGED <<answer, flowVars>> /\ NoWire

AdvanceShop(w) ==
  \E t \in Reading :
    /\ Staged("shop") = {}
    /\ \A c \in 1..claims : Latest(c, "preflight") => call[c].evidence = "good"
    /\ ClaimShopGet(t) /\ Granted(w)

AdvanceProduct(w) ==
  \E s \in 1..claims, t \in Reading :
    /\ LatestGood(s, "shop") /\ Staged("preflight") = {}
    /\ ClaimProductGet("preflight", t) /\ Granted(w)

AdvancePublish(w) ==
  \E t \in Reading : ClaimPublish(t) /\ Granted(w)

AdvancePoll(w) ==
  \E t \in Reading :
    /\ NoAnswerSeen(w)
    /\ ClaimProductGet(IF state = "verifying" THEN "verify" ELSE "reconcile", t)
    /\ Granted(w)

Coordinate(w) ==
  \/ FindTerminal(w) \/ AdvancePostOutcome(w) \/ AdvanceObservation(w)
  \/ AdvanceDeadline(w) \/ AdvanceRecover(w) \/ AdvanceDispatch(w) \/ AdvanceReconstruct(w)
  \/ AdvanceNegative(w) \/ AdvancePreflight(w)
  \/ AdvanceShop(w) \/ AdvanceProduct(w) \/ AdvancePublish(w) \/ AdvancePoll(w)

-----------------------------------------------------------------------------
(* The provider boundary: validate, audit, one wire request, stage.        *)

Purpose(w) == call[grant[w]].purpose
NoFlow == UNCHANGED <<flowVars, faults>>

\* The grant is consumed here, if the claim is still within its times.
Validate(w) ==
  /\ pc[w] = "granted" /\ now < Deadline
  /\ Purpose(w) = "publish" => now < FreshUntil
  /\ pc' = [pc EXCEPT ![w] = "validated"]
  /\ UNCHANGED <<pubVars, grant, answer, providerVars>> /\ NoFlow

Audit(w) ==
  /\ pc[w] = "validated" /\ CommitAudit(grant[w])
  /\ pc' = [pc EXCEPT ![w] = "audited"]
  /\ UNCHANGED <<grant, answer, providerVars>> /\ NoFlow

Answered(w, e) ==
  /\ pc' = [pc EXCEPT ![w] = "answered"]
  /\ answer' = [answer EXCEPT ![w] = e]
  /\ UNCHANGED <<pubVars, grant>> /\ NoFlow

\* A product already published does not pass; anything else may or may not.
ReadPreflight(w) ==
  /\ pc[w] = "audited" /\ Purpose(w) \in PreflightPurposes
  /\ \E e \in {"good", "bad"} :
       /\ Purpose(w) = "preflight" /\ listing = "live" => e = "bad"
       /\ Answered(w, e)
  /\ UNCHANGED providerVars

\* The provider takes the POST or not; it answers a success only if it did, and any other
\* answer, or none, is ambiguous.
SendPost(w) ==
  /\ pc[w] = "audited" /\ Purpose(w) = "publish"
  /\ sent' = sent + 1
  /\ \E taken \in BOOLEAN, e \in {"accepted", "ambiguous"} :
       /\ e = "accepted" => taken
       /\ listing' = IF taken THEN "taken" ELSE listing
       /\ Answered(w, e)

\* A proof needs the listing, read before the deadline; the read may still not match.
ReadProduct(w) ==
  /\ pc[w] = "audited" /\ Purpose(w) \in {"verify", "reconcile"}
  /\ \E e \in {"proof", "unproven"} :
       /\ e = "proof" => listing = "live" /\ now < Deadline
       /\ Answered(w, e)
  /\ UNCHANGED providerVars

Stage(w) ==
  /\ pc[w] = "answered" /\ StageEvidence(grant[w], answer[w])
  /\ Return(w) /\ NoWire

Call(w) ==
  \/ Validate(w) \/ Audit(w) \/ ReadPreflight(w) \/ SendPost(w) \/ ReadProduct(w) \/ Stage(w)

-----------------------------------------------------------------------------
(* Recovery, the clock and the provider.                                   *)

NoWorkers == UNCHANGED <<task, polls, workerVars, providerVars, faults>>

\* A failed execution, not one that exhausted its polls, is redriven under its own name.
Redrive ==
  /\ exec = "failed" /\ now < Deadline /\ state \notin Terminal
  /\ redrives < MaxRedrives
  /\ exec' = "running" /\ redrives' = redrives + 1
  /\ UNCHANGED pubVars /\ NoWorkers

\* Mutant of RecoverySettle: only a request whose workflow has failed is settled.
RecoverySettleFailed ==
  /\ exec = "failed" /\ SettleDeadline(now) /\ UNCHANGED <<exec, redrives>> /\ NoWorkers

\* _settle_deadline of recover, recover_scheduled and settle_pre_dispatch_deadline: whatever
\* became of the execution, the deadline ends the request, in two commands if need be.
RecoverySettle ==
  SettleDeadline(now) /\ UNCHANGED <<exec, redrives>> /\ NoWorkers

RecoveryRecover ==
  now = Deadline /\ RecoverConsumedClaim /\ UNCHANGED <<exec, redrives>> /\ NoWorkers

Clock == Tick /\ UNCHANGED <<flowVars, workerVars, providerVars, faults>>

ProviderPublishes ==
  /\ listing = "taken" /\ listing' = "live"
  /\ UNCHANGED <<pubVars, flowVars, workerVars, sent, faults>>

MachineNext ==
  \/ StartExecution \/ TimeOut \/ Redrive \/ RecoverySettle \/ RecoveryRecover
  \/ Clock \/ ProviderPublishes
  \/ \E w \in Workers : Invoke(w) \/ Raise(w) \/ Lose(w) \/ Coordinate(w) \/ Call(w)

MachineSpec == MachineInit /\ [][MachineNext]_machineVars

-----------------------------------------------------------------------------
(* Properties.                                                             *)

\* The variables stay in their types.  (models of execution_models.py)
MachineTypeOK ==
  /\ now \in 0..Deadline /\ touched \in 0..now
  /\ state \in {"requested"} \cup AfterPost \cup Terminal
  /\ permit \in {"available", "consumed", "retired"}
  /\ work \in {"pending", "dispatched", "verifying", "reconciling",
               "succeeded", "failed", "outcome_unknown"}
  /\ reconstructed \in BOOLEAN /\ proven \in BOOLEAN
  /\ post \in {"none", "accepted", "ambiguous"}
  /\ call \in [CallId -> [purpose : Purposes \cup {"none"}, audited : BOOLEAN,
                          evidence : Evidence, consumed : BOOLEAN]]
  /\ shopGets \in 0..ShopLimit /\ productGets \in 0..ProductLimit /\ publishPosts \in 0..1
  /\ claims = shopGets + productGets + publishPosts
  /\ exec \in {"none", "running", "failed", "exhausted", "succeeded"}
  /\ task \in Workers \cup {NoWorker}
  /\ polls \in 0..PollBudget /\ redrives \in 0..MaxRedrives
  /\ pc \in [Workers -> {"idle", "running", "prepared", "granted", "validated",
                         "audited", "answered"}]
  /\ grant \in [Workers -> 0..claims] /\ answer \in [Workers -> Evidence]
  /\ sent \in Nat /\ listing \in {"absent", "taken", "live"}
  /\ faults \in 0..MaxFaults

\* However many invocations advance a request, are lost, retried or redriven, at most one
\* publish POST leaves, and only for a proven preflight and a consumed permit.
OnePost ==
  /\ sent <= 1
  /\ sent = 1 => proven /\ permit = "consumed"

\* A worker that may still put a publish POST on the wire.
MaySend(w) == pc[w] \in {"granted", "validated", "audited"} /\ Purpose(w) = "publish"

\* A request that failed sent nothing, and no invocation still running is about to: its
\* permit is retired.  (settle_deadline and settle_definitive_preflight_failure)
FailedUnsent ==
  state = "failed" =>
    permit = "retired" /\ sent = 0 /\ \A w \in Workers : ~MaySend(w)

\* Verification is of a POST the provider took: an accepted outcome is never guessed, not
\* even by the recovery of a claim.  (record_post_outcome, recover_consumed_claim)
AcceptedTaken == post = "accepted" => sent = 1 /\ listing # "absent"

\* A request is published exactly when a consumed observation proved it, and then the POST
\* was sent and the listing is there.  (record_product_observation)
PublishedProven ==
  /\ state = "published" <=> \E c \in CallId : call[c].evidence = "proof" /\ call[c].consumed
  /\ state = "published" => sent = 1 /\ listing = "live"

\* What the record says of the outcome is what happened at the provider.
OutcomesTrue == MachineTypeOK /\ FailedUnsent /\ AcceptedTaken /\ PublishedProven

\* The contract: unknown is the outcome without a positive proof by the deadline.
UnknownWithoutProof ==
  state = "unknown" => \A c \in CallId : call[c].evidence # "proof"

\* What the requester is promised about the outcome and the listing.
Promise == INSTANCE PublicationPromise WITH
  outcome <- IF state \in Terminal THEN state ELSE "open",
  posts <- sent, listed <- listing = "live"

\* Every step of the machine is a step of the promise: no POST after a failure, no
\* publication without a listing, and an outcome that never changes.
PromiseKept == Promise!SafeSpec

-----------------------------------------------------------------------------
(* The clock runs and the recovery sweep, which is scheduled, is repeated  *)
(* until it succeeds; nothing is assumed of workflows, workers or provider.*)

FairMachineSpec ==
  MachineSpec /\ WF_machineVars(Clock)
  /\ WF_machineVars(RecoverySettle) /\ WF_machineVars(RecoveryRecover)

\* Every request comes to one of the three outcomes, whatever its workers do.
Settles == <>(state \in Terminal)

=============================================================================
