----------------------------- MODULE Connection -----------------------------
(***************************************************************************)
(* One owner's Printify connection (connections/): a token is validated    *)
(* into a short-lived candidate whose secret is stored first, one shop of  *)
(* a validated candidate is selected for good, the selection is activated, *)
(* and a scheduled cleanup disposes of the secrets of candidates that      *)
(* nobody selected.                                                        *)
(*                                                                         *)
(* Every request is a sequence of store, secret and provider calls of one  *)
(* Lambda invocation, which dies at its time limit.  A transaction         *)
(* compares the whole rows it replaces with the rows read before, so it    *)
(* commits on what it has read; a lost reply is resolved by strong reads,  *)
(* and is then as good as the reply.  A refused or failed call ends the    *)
(* invocation (Raise).  Time is counted in windows, so that invocations    *)
(* that live seconds and candidates that live minutes fit one clock.       *)
(***************************************************************************)
EXTENDS Naturals, FiniteSets

CONSTANTS
  Candidates,   \* candidate ids: one per idempotency key of a validation
  Tokens,
  Shops,        \* Etsy shops; shops of other channels are never eligible
  SelectOps,    \* idempotency keys of selections
  Requests,     \* invocations of the request handlers alive at once
  Cleaners,     \* invocations of the scheduled cleanup alive at once
  None,
  Lifetime,     \* CANDIDATE_LIFETIME
  Window,       \* VALIDATION_BUDGET_WINDOW
  Limit,        \* VALIDATION_BUDGET_LIMIT
  Grace,        \* CLEANUP_GRACE_SECONDS
  InvocationLimit, \* time limit of a Lambda
  LastRequest,  \* bound: requests begin up to this time
  MaxClock      \* bound of the clock

ASSUME ConnectionAssumption ==
  /\ {Lifetime, Window, Limit, Grace, InvocationLimit, LastRequest, MaxClock} \subseteq Nat
  /\ Limit > 0 /\ InvocationLimit <= Grace
  /\ None \notin Candidates /\ None \notin Tokens /\ None \notin Shops

VARIABLES
  clock,
  workflow,    \* workflow_enabled: switched on once by a deployment
  candidate,   \* the candidate rows
  attempts,    \* the budget row: which reservations it still lists, and when
  setup,       \* the owner's setup row
  connection,  \* the binding rows
  receipt,     \* the selection receipts
  secret,      \* Secrets Manager: the token stored under the candidate's name
  seller,      \* is the account in the seller group
  request,     \* the request invocations
  cleaner      \* the cleanup invocations

storeVars == <<candidate, attempts, setup, connection, receipt>>
vars == <<clock, workflow, storeVars, secret, seller, request, cleaner>>

CandidateStates == {"absent", "pending", "validated", "consumed", "deleting", "deleted"}

Absent == [state |-> "absent", token |-> None, created |-> 0, version |-> 1, stores |-> {}]
Unbound == [version |-> 1, candidate |-> None, binding |-> None, shop |-> None, granted |-> FALSE]
NoConnection == [state |-> "absent", shop |-> None]
NoReceipt == [candidate |-> None, shop |-> None, version |-> 0]
NoSecret == [state |-> "absent", token |-> None]
Idle == [pc |-> "idle", candidate |-> None, token |-> None, op |-> None,
         shop |-> None, version |-> 0, stores |-> {}, now |-> 0, began |-> 0]
NoClean == [pc |-> "idle", candidate |-> None, began |-> 0]

Init ==
  /\ clock = 0 /\ workflow = FALSE
  /\ candidate = [c \in Candidates |-> Absent]
  /\ attempts = {}
  /\ setup = Unbound
  /\ connection = [c \in Candidates |-> NoConnection]
  /\ receipt = [o \in SelectOps |-> NoReceipt]
  /\ secret = [c \in Candidates |-> NoSecret]
  /\ seller = FALSE
  /\ request = [p \in Requests |-> Idle]
  /\ cleaner = [p \in Cleaners |-> NoClean]

Expired(c) == candidate[c].created + Lifetime <= clock
IsBound == setup.binding # None

\* Requests are let in while they can still be followed to their cleanup.
Begins(p) == request[p].pc = "idle" /\ clock <= LastRequest
Goes(p, r) == request' = [request EXCEPT ![p] = r]
Done(p) == Goes(p, Idle)
At(p, pc) == request[p].pc = pc

-----------------------------------------------------------------------------
(* validate                                                                *)

\* A known candidate has to be retried with its own token; a new one is dated now.
BeginValidate(p, c, t) ==
  /\ Begins(p) /\ ~IsBound
  /\ IF candidate[c].state = "absent"
     THEN Goes(p, [Idle EXCEPT !.pc = "reserve", !.candidate = c, !.token = t,
                               !.now = clock, !.began = clock])
     ELSE /\ candidate[c].token = t
          /\ Goes(p, [Idle EXCEPT !.pc = "check", !.candidate = c, !.token = t, !.began = clock])
  /\ UNCHANGED <<clock, workflow, storeVars, secret, seller, cleaner>>

\* The attempts that count against a candidate dated at now.
Recent(now) == {a \in attempts : a.at + Window > now}

\* The candidate, the charge on the budget and the check that no store is selected commit
\* together; a candidate another invocation reserved meanwhile is adopted.
Reserve(p) ==
  LET r == request[p] IN
  /\ At(p, "reserve")
  /\ IF candidate[r.candidate].state # "absent"
     THEN candidate[r.candidate].token = r.token /\ UNCHANGED <<candidate, attempts>>
     ELSE /\ ~IsBound
          /\ \A a \in attempts : a.at <= r.now
          /\ Cardinality(Recent(r.now)) < Limit
          /\ attempts' = Recent(r.now) \union {[candidate |-> r.candidate, at |-> r.now]}
          /\ candidate' = [candidate EXCEPT ![r.candidate] =
               [Absent EXCEPT !.state = "pending", !.token = r.token, !.created = r.now]]
  /\ Goes(p, [r EXCEPT !.pc = "check"])
  /\ UNCHANGED <<clock, workflow, setup, connection, receipt, secret, seller, cleaner>>

\* A candidate that is no longer pending is returned as it is (or refused).
Check(p) ==
  LET c == request[p].candidate IN
  /\ At(p, "check") /\ ~Expired(c)
  /\ \/ candidate[c].state # "pending" /\ Done(p)
     \/ candidate[c].state = "pending" /\ ~IsBound /\ Goes(p, [request[p] EXCEPT !.pc = "save"])
  /\ UNCHANGED <<clock, workflow, storeVars, secret, seller, cleaner>>

\* credentials.save: create_secret under the candidate's own name; an existing secret stays.
CreateSecret(p) ==
  LET c == request[p].candidate IN
  /\ At(p, "save")
  /\ secret' = IF secret[c].state # "absent" THEN secret
               ELSE [secret EXCEPT ![c] = [state |-> "live", token |-> request[p].token]]
  /\ Goes(p, [request[p] EXCEPT !.pc = "probe"])
  /\ UNCHANGED <<clock, workflow, storeVars, seller, cleaner>>

\* credentials.load: a secret scheduled for deletion cannot be read.
Readable(c) == secret[c].state = "live"

\* The stored secret is read back, compared, and used to list the token's shops.
ProbeShops(p) ==
  LET c == request[p].candidate IN
  /\ At(p, "probe") /\ Readable(c) /\ secret[c].token = request[p].token
  /\ ~Expired(c)
  /\ \E listed \in SUBSET Shops :
       Goes(p, [request[p] EXCEPT !.pc = "publish", !.stores = listed])
  /\ UNCHANGED <<clock, workflow, storeVars, secret, seller, cleaner>>

\* Mutant: the candidate row is not compared.
PublishUnfenced(p) ==
  LET r == request[p]
      version == IF IsBound THEN setup.version ELSE setup.version + 1 IN
  /\ At(p, "publish")
  /\ candidate' = [candidate EXCEPT ![r.candidate].state = "validated",
                                    ![r.candidate].version = version,
                                    ![r.candidate].stores = r.stores]
  /\ setup' = IF IsBound THEN setup
              ELSE [setup EXCEPT !.version = version, !.candidate = r.candidate]
  /\ Done(p)
  /\ UNCHANGED <<clock, workflow, attempts, connection, receipt, secret, seller, cleaner>>

\* The validated candidate becomes the open one of the setup, unless a store is selected.
PublishCandidate(p) ==
  LET r == request[p]
      version == IF IsBound THEN setup.version ELSE setup.version + 1 IN
  /\ At(p, "publish") /\ candidate[r.candidate].state = "pending"
  /\ candidate' = [candidate EXCEPT ![r.candidate].state = "validated",
                                    ![r.candidate].version = version,
                                    ![r.candidate].stores = r.stores]
  /\ setup' = IF IsBound THEN setup
              ELSE [setup EXCEPT !.version = version, !.candidate = r.candidate]
  /\ Done(p)
  /\ UNCHANGED <<clock, workflow, attempts, connection, receipt, secret, seller, cleaner>>

-----------------------------------------------------------------------------
(* select and activate                                                     *)

\* A known operation is replayed from its receipt; a new one needs the open candidate.
BeginSelect(p, o, c, s, v) ==
  /\ Begins(p)
  /\ IF receipt[o] # NoReceipt
     THEN /\ receipt[o] = [candidate |-> c, shop |-> s, version |-> v]
          /\ setup.binding = c /\ setup.shop = s
          /\ Goes(p, [Idle EXCEPT !.pc = "finish", !.began = clock])
     ELSE /\ ~IsBound /\ setup.version = v /\ setup.candidate = c
          /\ candidate[c].state = "validated" /\ candidate[c].version = v /\ ~Expired(c)
          /\ s \in candidate[c].stores
          /\ Goes(p, [Idle EXCEPT !.pc = "recheck", !.op = o, !.candidate = c, !.shop = s,
                                  !.version = v, !.began = clock])
  /\ UNCHANGED <<clock, workflow, storeVars, secret, seller, cleaner>>

\* The shop must still be there, and the candidate still be valid after the network call.
RecheckShop(p) ==
  LET c == request[p].candidate IN
  /\ At(p, "recheck") /\ Readable(c) /\ ~Expired(c)
  /\ \E listed \in SUBSET Shops : request[p].shop \in listed
  /\ Goes(p, [request[p] EXCEPT !.pc = "select"])
  /\ UNCHANGED <<clock, workflow, storeVars, secret, seller, cleaner>>

\* Candidate, binding, setup and receipt are written together.
Select(p) ==
  LET r == request[p] IN
  /\ At(p, "select")
  /\ candidate[r.candidate].state = "validated"
  /\ connection[r.candidate] = NoConnection
  /\ ~IsBound /\ setup.version = r.version /\ setup.candidate = r.candidate
  /\ receipt[r.op] = NoReceipt
  /\ candidate' = [candidate EXCEPT ![r.candidate].state = "consumed"]
  /\ connection' = [connection EXCEPT ![r.candidate] =
                      [state |-> "pending_activation", shop |-> r.shop]]
  /\ setup' = [Unbound EXCEPT !.version = setup.version + 1, !.binding = r.candidate,
                              !.shop = r.shop]
  /\ receipt' = [receipt EXCEPT ![r.op] =
                   [candidate |-> r.candidate, shop |-> r.shop, version |-> r.version]]
  /\ Goes(p, [r EXCEPT !.pc = "finish"])
  /\ UNCHANGED <<clock, workflow, attempts, secret, seller, cleaner>>

\* The transaction failed or its outcome is unknown: only its own receipt counts.
RecoverSelect(p) ==
  LET r == request[p] IN
  /\ At(p, "select")
  /\ receipt[r.op] = [candidate |-> r.candidate, shop |-> r.shop, version |-> r.version]
  /\ setup.binding = r.candidate /\ setup.shop = r.shop
  /\ Goes(p, [r EXCEPT !.pc = "finish"])
  /\ UNCHANGED <<clock, workflow, storeVars, secret, seller, cleaner>>

\* A page reload finishes a selection without its operation, candidate or secret.
Activate(p) ==
  /\ Begins(p) /\ workflow /\ IsBound
  /\ Goes(p, [Idle EXCEPT !.pc = "finish", !.began = clock])
  /\ UNCHANGED <<clock, workflow, storeVars, secret, seller, cleaner>>

\* _finish: group first, marker second; nothing to do while the workflow is off.
Finish(p) ==
  /\ At(p, "finish")
  /\ IF workflow /\ ~setup.granted
     THEN seller' = TRUE /\ Goes(p, [request[p] EXCEPT !.pc = "mark"])
     ELSE Done(p) /\ UNCHANGED seller
  /\ UNCHANGED <<clock, workflow, storeVars, secret, cleaner>>

\* Mutant: the connection is not activated with the setup.
MarkSetupOnly(p) ==
  /\ At(p, "mark")
  /\ setup' = [setup EXCEPT !.granted = TRUE]
  /\ UNCHANGED connection
  /\ Done(p)
  /\ UNCHANGED <<clock, workflow, candidate, attempts, receipt, secret, seller, cleaner>>

\* Both rows are replaced together; a lost or lost-out transaction finds them replaced.
MarkSellerGranted(p) ==
  /\ At(p, "mark")
  /\ setup' = [setup EXCEPT !.granted = TRUE]
  /\ connection' = [connection EXCEPT ![setup.binding].state = "active"]
  /\ Done(p)
  /\ UNCHANGED <<clock, workflow, candidate, attempts, receipt, secret, seller, cleaner>>

-----------------------------------------------------------------------------
(* cleanup                                                                 *)

\* Mutant: a cleanup that failed is not taken up again.
ClaimOnce(q, c) ==
  /\ cleaner[q].pc = "idle"
  /\ candidate[c].state \in {"pending", "validated"}
  /\ candidate[c].created + Lifetime + Grace < clock
  /\ connection[c] = NoConnection
  /\ candidate' = [candidate EXCEPT ![c].state = "deleting"]
  /\ cleaner' = [cleaner EXCEPT ![q] = [pc |-> "dispose", candidate |-> c, began |-> clock]]
  /\ UNCHANGED <<clock, workflow, attempts, setup, connection, receipt, secret, seller, request>>

\* claim_cleanup: the row read and the absence of its binding are conditions of the claim.
ClaimCleanup(q, c) ==
  /\ cleaner[q].pc = "idle"
  /\ candidate[c].state \in {"pending", "validated", "deleting"}
  /\ candidate[c].created + Lifetime + Grace < clock
  /\ connection[c] = NoConnection
  /\ candidate' = [candidate EXCEPT ![c].state = "deleting"]
  /\ cleaner' = [cleaner EXCEPT ![q] = [pc |-> "dispose", candidate |-> c, began |-> clock]]
  /\ UNCHANGED <<clock, workflow, attempts, setup, connection, receipt, secret, seller, request>>

\* schedule_delete: recoverable, so the name stays taken; an absent secret is fine.
Dispose(q) ==
  LET c == cleaner[q].candidate IN
  /\ cleaner[q].pc = "dispose"
  /\ secret' = IF secret[c].state = "absent" THEN secret
               ELSE [secret EXCEPT ![c].state = "scheduled"]
  /\ cleaner' = [cleaner EXCEPT ![q].pc = "tombstone"]
  /\ UNCHANGED <<clock, workflow, storeVars, seller, request>>

Tombstone(q) ==
  LET c == cleaner[q].candidate IN
  /\ cleaner[q].pc = "tombstone" /\ candidate[c].state = "deleting"
  /\ candidate' = [candidate EXCEPT ![c].state = "deleted"]
  /\ cleaner' = [cleaner EXCEPT ![q] = NoClean]
  /\ UNCHANGED <<clock, workflow, attempts, setup, connection, receipt, secret, seller, request>>

-----------------------------------------------------------------------------
(* The environment                                                         *)

Overdue(began) == clock + 1 > began + InvocationLimit

\* Time passes, and Lambda ends the invocations that have reached their limit.
Tick ==
  /\ clock < MaxClock /\ clock' = clock + 1
  /\ request' = [p \in Requests |->
       IF At(p, "idle") \/ Overdue(request[p].began) THEN Idle ELSE request[p]]
  /\ cleaner' = [q \in Cleaners |->
       IF cleaner[q].pc = "idle" \/ Overdue(cleaner[q].began) THEN NoClean ELSE cleaner[q]]
  /\ UNCHANGED <<workflow, storeVars, secret, seller>>

\* A request is refused, fails, or dies.
Raise(p) ==
  /\ ~At(p, "idle") /\ Done(p)
  /\ UNCHANGED <<clock, workflow, storeVars, secret, seller, cleaner>>

\* A cleanup fails or dies; the row stays due.
RaiseCleanup(q) ==
  /\ cleaner[q].pc # "idle" /\ cleaner' = [cleaner EXCEPT ![q] = NoClean]
  /\ UNCHANGED <<clock, workflow, storeVars, secret, seller, request>>

EnableWorkflow ==
  /\ ~workflow /\ workflow' = TRUE
  /\ UNCHANGED <<clock, storeVars, secret, seller, request, cleaner>>

RequestStep(p) ==
  \/ \E c \in Candidates, t \in Tokens : BeginValidate(p, c, t)
  \/ Reserve(p) \/ Check(p) \/ CreateSecret(p) \/ ProbeShops(p) \/ PublishCandidate(p)
  \/ \E o \in SelectOps, c \in Candidates, s \in Shops, v \in 1..(Cardinality(Candidates) + 1) :
       BeginSelect(p, o, c, s, v)
  \/ RecheckShop(p) \/ Select(p) \/ RecoverSelect(p)
  \/ Activate(p) \/ Finish(p) \/ MarkSellerGranted(p)
  \/ Raise(p)

CleanupStep(q) ==
  \/ \E c \in Candidates : ClaimCleanup(q, c)
  \/ Dispose(q) \/ Tombstone(q) \/ RaiseCleanup(q)

Next ==
  \/ Tick \/ EnableWorkflow
  \/ \E p \in Requests : RequestStep(p)
  \/ \E q \in Cleaners : CleanupStep(q)

Spec == Init /\ [][Next]_vars

\* The cleanup is scheduled every minute and retries a row until it is done; an invocation
\* that has done its work, or failed, ends.
Fairness ==
  /\ WF_vars(Tick)
  /\ \A q \in Cleaners : WF_vars(Tombstone(q) \/ RaiseCleanup(q))
  /\ \A c \in Candidates :
       /\ SF_vars(\E q \in Cleaners : ClaimCleanup(q, c))
       /\ SF_vars(\E q \in Cleaners : cleaner[q].candidate = c /\ Dispose(q))

-----------------------------------------------------------------------------
(* What the connection promises.                                           *)

ConnectionTypeOK ==
  /\ clock \in 0..MaxClock /\ workflow \in BOOLEAN /\ seller \in BOOLEAN
  /\ candidate \in [Candidates -> [state : CandidateStates, token : Tokens \union {None},
       created : Nat, version : Nat, stores : SUBSET Shops]]
  /\ attempts \subseteq [candidate : Candidates, at : Nat]
  /\ setup \in [version : Nat, candidate : Candidates \union {None},
       binding : Candidates \union {None}, shop : Shops \union {None}, granted : BOOLEAN]
  /\ connection \in [Candidates -> [state : {"absent", "pending_activation", "active"},
       shop : Shops \union {None}]]
  /\ receipt \in [SelectOps -> [candidate : Candidates \union {None},
       shop : Shops \union {None}, version : Nat]]
  /\ secret \in [Candidates -> [state : {"absent", "live", "scheduled"},
       token : Tokens \union {None}]]

\* The secret of a selected connection is the validated one and is never disposed of, although
\* the cleanup of expired candidates runs beside the selection of a candidate about to expire.
SelectedSecretKept ==
  \A c \in Candidates : connection[c] # NoConnection =>
    /\ candidate[c].state = "consumed"
    /\ secret[c] = [state |-> "live", token |-> candidate[c].token]

\* A tombstoned candidate leaves no readable secret, although a validation that was checked
\* just before the expiry may still be about to create it.
NoSecretLeftBehind ==
  \A c \in Candidates : candidate[c].state = "deleted" => secret[c].state # "live"

\* No window holds more reservations than the limit, whatever invocations race or replay.
BudgetHolds ==
  \A t \in 0..clock :
    Cardinality({c \in Candidates : /\ candidate[c].state # "absent"
                                    /\ candidate[c].created <= t
                                    /\ candidate[c].created + Window > t}) <= Limit

\* The setup, the binding rows and the receipts tell of the same one destination, and a grant
\* is marked only where the group was granted and the connection made active.
OneDestination ==
  /\ \A c \in Candidates : connection[c] # NoConnection <=> setup.binding = c
  /\ \A o \in SelectOps : receipt[o] # NoReceipt =>
       receipt[o].candidate = setup.binding /\ receipt[o].shop = setup.shop
  /\ IsBound => /\ connection[setup.binding].shop = setup.shop
                /\ setup.granted <=> connection[setup.binding].state = "active"
                /\ setup.granted => seller

\* Secrets are where they are needed and nowhere else, whatever cleanups and selections cross.
SecretsSafe == SelectedSecretKept /\ NoSecretLeftBehind

\* The rows of a setup agree, and its budget holds, after any race, replay or lost reply.
ConnectionSound == ConnectionTypeOK /\ BudgetHolds /\ OneDestination

\* A selected destination is never changed: no later validation, selection or cleanup, however
\* stale what it read, gives the setup another binding or shop.  (select, publish_candidate)
DestinationKept == [][IsBound => setup'.binding = setup.binding /\ setup'.shop = setup.shop]_vars

\* A selected destination stays, and the secret of every candidate that nobody selects is at
\* last disposed of, by cleanups that die and are repeated.
SetupSettles ==
  /\ DestinationKept
  /\ Fairness =>
       \A c \in Candidates :
         secret[c].state = "live" ~> (candidate[c].state = "consumed" \/ secret[c].state # "live")

=============================================================================
