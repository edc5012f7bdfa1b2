------------------------------ MODULE Dispatch ------------------------------
(***************************************************************************)
(* The transactional outbox of control/dispatch.py: several dispatcher     *)
(* Lambdas (a one-minute sweep of the due-work index, and stream           *)
(* invocations for single rows) claim work under a lease, start its        *)
(* deterministically named Step Functions execution, and mark or defer the *)
(* claim.  Leases expire under slow dispatchers, starts are ambiguous,     *)
(* dispatchers crash, and a fast worker may settle its work before it is   *)
(* marked.                                                                 *)
(*                                                                         *)
(* The due index is a sequence in due order whose first `ripe` entries are *)
(* due now.  A claim or a deferral gives a row a later due time than every *)
(* other: overtaking among leases of different length is left out.         *)
(***************************************************************************)
EXTENDS Naturals, Sequences

CONSTANTS
  Works,        \* the work requests of all jobs
  Dispatchers,  \* concurrent dispatcher invocations
  Rejected,     \* works whose start Step Functions refuses for good
  Limit,        \* dispatch_due(limit): rows one sweep takes
  MaxFaults,    \* bound: ambiguous calls, crashes, overrun leases, dead executions
  None          \* no work, no dispatcher

ASSUME DispatchAssumption ==
  Rejected \subseteq Works /\ Limit \in Nat \ {0} /\ MaxFaults \in Nat
  /\ None \notin Works /\ None \notin Dispatchers

VARIABLES
  status,  \* WorkRequestStatus
  claim,   \* claim_id, by the dispatcher that holds it; None outside CLAIMED
  due,     \* DueWorkIndex, in due order
  ripe,    \* how many of its entries are due
  exec,    \* the execution of each work
  pc,      \* where a dispatcher stands in dispatch_one
  work,    \* the work it has claimed
  todo,    \* the rest of the batch it listed
  faults

dispatchVars == <<status, claim, due, ripe, exec, pc, work, todo, faults>>

DispatchInit ==
  /\ status = [w \in Works |-> "absent"] /\ claim = [w \in Works |-> None]
  /\ due = <<>> /\ ripe = 0
  /\ exec = [w \in Works |-> "none"]
  /\ pc = [d \in Dispatchers |-> "idle"] /\ work = [d \in Dispatchers |-> None]
  /\ todo = [d \in Dispatchers |-> <<>>]
  /\ faults = 0

-----------------------------------------------------------------------------
(* The index: DynamoDB derives it from the row's status.                   *)

Fault == faults < MaxFaults /\ faults' = faults + 1

Due(w) == \E i \in 1..ripe : due[i] = w

Position(w) == CHOOSE i \in 1..Len(due) : due[i] = w

Without(w) == [j \in 1..(Len(due) - 1) |-> due[IF j < Position(w) THEN j ELSE j + 1]]

Leave(w) == due' = Without(w) /\ ripe' = IF Due(w) THEN ripe - 1 ELSE ripe

\* Mutant of Requeue: the row keeps its old due time.
RequeueFirst(w) == due' = <<w>> \o Without(w) /\ ripe' = IF Due(w) THEN ripe ELSE ripe + 1

Requeue(w) == due' = Append(Without(w), w) /\ ripe' = IF Due(w) THEN ripe - 1 ELSE ripe

\* A dispatcher is between its claim and the end of dispatch_one.
Serving(d, w) == pc[d] # "idle" /\ work[d] = w

\* The clock reaches the next entry.  A lease that ends under its dispatcher is a fault.
Ripen ==
  /\ ripe < Len(due) /\ ripe' = ripe + 1
  /\ LET w == due[ripe + 1] IN
       IF status[w] = "claimed" /\ \E d \in Dispatchers : claim[w] = d /\ Serving(d, w)
         THEN Fault ELSE UNCHANGED faults
  /\ UNCHANGED <<status, claim, due, exec, pc, work, todo>>

-----------------------------------------------------------------------------
(* The jobs' side.                                                         *)

OpenWork(w) ==
  /\ status[w] = "absent"
  /\ status' = [status EXCEPT ![w] = "pending"]
  /\ due' = Append(due, w)
  /\ UNCHANGED <<claim, ripe, exec, pc, work, todo, faults>>

CancelWork(w) ==
  /\ status[w] = "pending"
  /\ status' = [status EXCEPT ![w] = "cancelled"]
  /\ Leave(w)
  /\ UNCHANGED <<claim, exec, pc, work, todo, faults>>

-----------------------------------------------------------------------------
(* dispatch_due and dispatch_one.                                          *)

At(d, label) == pc[d] = label
Goto(d, label) == pc' = [pc EXCEPT ![d] = label] /\ UNCHANGED <<work, todo>>

\* The result is taken and the batch goes on.
Continue(d) ==
  /\ pc' = [pc EXCEPT ![d] = "idle"] /\ work' = [work EXCEPT ![d] = None]
  /\ UNCHANGED todo

\* An exception leaves dispatch_due: the rest of the batch is dropped.
Abort(d) ==
  /\ pc' = [pc EXCEPT ![d] = "idle"] /\ work' = [work EXCEPT ![d] = None]
  /\ todo' = [todo EXCEPT ![d] = <<>>]

Idle(d) == At(d, "idle") /\ todo[d] = <<>>

Sweep(d) ==
  /\ Idle(d) /\ ripe > 0
  /\ todo' = [todo EXCEPT ![d] = SubSeq(due, 1, IF ripe < Limit THEN ripe ELSE Limit)]
  /\ UNCHANGED <<status, claim, due, ripe, exec, pc, work, faults>>

\* A stream record of the row: at any time, for any row, as often as it is written.
StreamEvent(d, w) ==
  /\ Idle(d) /\ status[w] # "absent"
  /\ todo' = [todo EXCEPT ![d] = <<w>>]
  /\ UNCHANGED <<status, claim, due, ripe, exec, pc, work, faults>>

Claimable(w) == status[w] \in {"pending", "claimed"} /\ Due(w)

ClaimWork(d, w) ==
  /\ At(d, "idle") /\ todo[d] # <<>> /\ w = Head(todo[d])
  /\ todo' = [todo EXCEPT ![d] = Tail(@)]
  /\ \/ /\ Claimable(w)
        /\ status' = [status EXCEPT ![w] = "claimed"]
        /\ claim' = [claim EXCEPT ![w] = d]
        /\ Requeue(w)
        /\ pc' = [pc EXCEPT ![d] = "start"] /\ work' = [work EXCEPT ![d] = w]
     \/ ~Claimable(w) /\ UNCHANGED <<status, claim, due, ripe, pc, work>>
  /\ UNCHANGED <<exec, faults>>

Started(w) == exec' = [exec EXCEPT ![w] = IF @ = "none" THEN "running" ELSE @]

\* Mutant of StartExecution: an ambiguous answer is taken for a started execution.
StartExecutionAssumed(d, w) ==
  /\ At(d, "start") /\ w = work[d] /\ UNCHANGED <<status, claim, due, ripe>>
  /\ \/ w \notin Rejected /\ Started(w) /\ Goto(d, "mark") /\ UNCHANGED faults
     \/ w \in Rejected /\ Abort(d) /\ UNCHANGED <<exec, faults>>
     \/ /\ w \notin Rejected /\ Fault /\ Goto(d, "mark")
        /\ Started(w) \/ UNCHANGED exec

\* A second start of the same name answers like the first, or with the execution that exists,
\* which is then described.  A transient answer says nothing about what happened.
StartExecution(d, w) ==
  /\ At(d, "start") /\ w = work[d] /\ UNCHANGED <<status, claim, due, ripe>>
  /\ \/ w \notin Rejected /\ Started(w) /\ Goto(d, "mark") /\ UNCHANGED faults
     \/ w \in Rejected /\ Abort(d) /\ UNCHANGED <<exec, faults>>
     \/ /\ w \notin Rejected /\ Fault /\ Goto(d, "defer")
        /\ Started(w) \/ UNCHANGED exec

ClaimCurrent(d, w) == status[w] = "claimed" /\ claim[w] = d

\* Mutant of MarkWorkDispatched: the row is marked whatever became of the claim.
MarkAnyWork(d, w) ==
  /\ At(d, "mark") /\ w = work[d] /\ UNCHANGED <<exec, faults>>
  /\ Continue(d)
  /\ status' = [status EXCEPT ![w] = "dispatched"]
  /\ claim' = [claim EXCEPT ![w] = None]
  /\ IF status[w] = "claimed" THEN Leave(w) ELSE UNCHANGED <<due, ripe>>

MarkWorkDispatched(d, w) ==
  /\ At(d, "mark") /\ w = work[d] /\ UNCHANGED <<exec, faults>>
  /\ \/ /\ ClaimCurrent(d, w) /\ Continue(d)
        /\ status' = [status EXCEPT ![w] = "dispatched"]
        /\ claim' = [claim EXCEPT ![w] = None]
        /\ Leave(w)
     \/ status[w] = "completed" /\ Continue(d) /\ UNCHANGED <<status, claim, due, ripe>>
     \/ /\ ~ClaimCurrent(d, w) /\ status[w] # "completed" /\ Abort(d)
        /\ UNCHANGED <<status, claim, due, ripe>>

\* Mutant of DeferClaimedWork: release_work, which gives the row back to PENDING.
ReleaseWork(d, w) ==
  /\ At(d, "defer") /\ w = work[d] /\ UNCHANGED <<exec, faults>>
  /\ \/ /\ ClaimCurrent(d, w) /\ Continue(d) /\ Requeue(w)
        /\ status' = [status EXCEPT ![w] = "pending"]
        /\ claim' = [claim EXCEPT ![w] = None]
     \/ status[w] = "completed" /\ Continue(d) /\ UNCHANGED <<status, claim, due, ripe>>
     \/ /\ ~ClaimCurrent(d, w) /\ status[w] # "completed" /\ Abort(d)
        /\ UNCHANGED <<status, claim, due, ripe>>

\* The claim is kept under a longer lease, so that a worker that did start can settle it.
DeferClaimedWork(d, w) ==
  /\ At(d, "defer") /\ w = work[d] /\ UNCHANGED <<status, claim, exec, faults>>
  /\ \/ ClaimCurrent(d, w) /\ Continue(d) /\ Requeue(w)
     \/ status[w] = "completed" /\ Continue(d) /\ UNCHANGED <<due, ripe>>
     \/ /\ ~ClaimCurrent(d, w) /\ status[w] # "completed" /\ Abort(d)
        /\ UNCHANGED <<due, ripe>>

DispatcherDies(d) ==
  /\ ~Idle(d) /\ Fault /\ Abort(d)
  /\ UNCHANGED <<status, claim, due, ripe, exec>>

-----------------------------------------------------------------------------
(* The executions' side.                                                   *)

SettlesWork(w) ==
  /\ status' = [status EXCEPT ![w] = "completed"]
  /\ claim' = [claim EXCEPT ![w] = None]
  /\ IF status[w] = "claimed" THEN Leave(w) ELSE UNCHANGED <<due, ripe>>
  /\ UNCHANGED <<pc, work, todo>>

\* Worker commands and the settlement that follows accept claimed and dispatched work.
ExecutionSettles(w) ==
  /\ exec[w] = "running" /\ status[w] \in {"claimed", "dispatched"}
  /\ exec' = [exec EXCEPT ![w] = "ended"]
  /\ SettlesWork(w) /\ UNCHANGED faults

ExecutionDies(w) ==
  /\ exec[w] = "running" /\ Fault
  /\ exec' = [exec EXCEPT ![w] = "dead"]
  /\ UNCHANGED <<status, claim, due, ripe, pc, work, todo>>

\* The recovery sweep reads marked rows only.
RecoverExecution(w) ==
  /\ status[w] = "dispatched" /\ exec[w] = "dead"
  /\ SettlesWork(w) /\ UNCHANGED <<exec, faults>>

-----------------------------------------------------------------------------

DispatchOne(d) ==
  \E w \in Works : \/ ClaimWork(d, w) \/ StartExecution(d, w)
                   \/ MarkWorkDispatched(d, w) \/ DeferClaimedWork(d, w)

DispatchNext ==
  \/ Ripen
  \/ \E w \in Works : OpenWork(w) \/ CancelWork(w)
  \/ \E d \in Dispatchers : \/ Sweep(d) \/ (\E w \in Works : StreamEvent(d, w))
                            \/ DispatchOne(d) \/ DispatcherDies(d)
  \/ \E w \in Works : ExecutionSettles(w) \/ ExecutionDies(w) \/ RecoverExecution(w)

DispatchSpec == DispatchInit /\ [][DispatchNext]_dispatchVars

\* The sweep is scheduled every minute whatever stream events arrive, a Lambda runs until it
\* returns, raises or dies, an execution ends or dies, and the clock advances.
DispatchFairness ==
  /\ WF_dispatchVars(Ripen)
  /\ SF_dispatchVars(\E d \in Dispatchers : Sweep(d))
  /\ \A d \in Dispatchers : WF_dispatchVars(DispatchOne(d))
  /\ \A w \in Works : WF_dispatchVars(ExecutionSettles(w)) /\ WF_dispatchVars(RecoverExecution(w))

FairDispatch == DispatchSpec /\ DispatchFairness

-----------------------------------------------------------------------------
(* Properties.                                                             *)

\* Rows, claims and dispatchers stay in their domains, and the index holds exactly the rows
\* that are pending or claimed, once each (dynamodb.py:134).
DispatchTypeOK ==
  /\ status \in [Works -> {"absent", "pending", "claimed", "dispatched", "completed",
                            "cancelled"}]
  /\ claim \in [Works -> Dispatchers \cup {None}]
  /\ \A w \in Works : claim[w] # None <=> status[w] = "claimed"
  /\ exec \in [Works -> {"none", "running", "ended", "dead"}]
  /\ pc \in [Dispatchers -> {"idle", "start", "mark", "defer"}]
  /\ work \in [Dispatchers -> Works \cup {None}]
  /\ \A d \in Dispatchers : pc[d] = "idle" <=> work[d] = None
  /\ faults \in 0..MaxFaults /\ ripe \in 0..Len(due)
  /\ {due[i] : i \in 1..Len(due)} = {w \in Works : status[w] \in {"pending", "claimed"}}
  /\ \A i, j \in 1..Len(due) : due[i] = due[j] => i = j

\* Work whose execution exists stays settleable: the authority checks of its worker accept
\* it whatever the dispatchers do, so no execution is stranded (dispatch.py:344).
StartedSettleable ==
  \A w \in Works : exec[w] # "none" => status[w] \in {"claimed", "dispatched", "completed"}

\* Marked work has an execution, so that the recovery sweep, which looks at marked rows only,
\* finds one to describe.
DispatchedRuns == \A w \in Works : status[w] = "dispatched" => exec[w] # "none"

\* The rows are what they seem to the sweeps that look for work.
RowsTrue == DispatchTypeOK /\ DispatchedRuns

\* However dispatchers race, overrun their leases and crash, each row goes through the steps
\* of WorkDelivery.
Delivery == INSTANCE WorkDelivery
DeliveryKept == Delivery!Spec

\* Every work that can be started is settled or cancelled in the end, also when the rows
\* before it are refused by Step Functions on every sweep and abort its batch.
WorkSettles ==
  \A w \in Works \ Rejected : status[w] = "pending" ~> status[w] \in {"completed", "cancelled"}

=============================================================================
