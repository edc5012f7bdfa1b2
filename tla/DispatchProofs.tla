--------------------------- MODULE DispatchProofs ---------------------------
(***************************************************************************)
(* The outbox for any number of works, dispatchers, faults and any batch   *)
(* limit: executions are never stranded, marked work has an execution, the *)
(* index holds the rows that wait, and Dispatch implements WorkDelivery.   *)
(*                                                                         *)
(* The argument: a row that was claimed is never pending or cancelled      *)
(* again, and only a dispatcher that claimed it starts its execution; so a *)
(* dispatcher that is still serving a row, however stale its claim, finds  *)
(* it claimed, marked or completed.                                        *)
(***************************************************************************)
EXTENDS Dispatch, TLAPS

Statuses == {"absent", "pending", "claimed", "dispatched", "completed", "cancelled"}
Execs == {"none", "running", "ended", "dead"}
Labels == {"idle", "start", "mark", "defer"}

RowsTyped ==
  /\ status \in [Works -> Statuses]
  /\ exec \in [Works -> Execs]
  /\ pc \in [Dispatchers -> Labels]
  /\ work \in [Dispatchers -> Works \cup {None}]

\* A row that was marked or settled had an execution.
SettledRan == \A w \in Works : status[w] \in {"dispatched", "completed"} => exec[w] # "none"

Touched(w) == status[w] \in {"claimed", "dispatched", "completed"}

\* Whoever serves a row claimed it, and has started it once it comes to mark it.
ServesTouched ==
  \A d \in Dispatchers :
    pc[d] # "idle" => /\ work[d] \in Works /\ Touched(work[d])
                      /\ pc[d] = "mark" => exec[work[d]] # "none"

DispatchInv == RowsTyped /\ StartedSettleable /\ SettledRan /\ ServesTouched

LEMMA InvInit == DispatchInit => DispatchInv
BY DispatchAssumption DEF DispatchInit, DispatchInv, RowsTyped, StartedSettleable, SettledRan,
     ServesTouched, Statuses, Execs, Labels

\* A row moves on without losing what its dispatchers and its execution rely on.
LEMMA RowsMove ==
  ASSUME DispatchInv, NEW w \in Works, NEW to \in Statuses,
         status' = [status EXCEPT ![w] = to],
         exec' \in [Works -> Execs],
         \A v \in Works : exec[v] # "none" => exec'[v] # "none",
         \A v \in Works \ {w} : exec'[v] # "none" => exec[v] # "none",
         Touched(w) => to \in {"claimed", "dispatched", "completed"},
         exec'[w] # "none" => to \in {"claimed", "dispatched", "completed"},
         to \in {"dispatched", "completed"} => exec'[w] # "none",
         pc' \in [Dispatchers -> Labels], work' \in [Dispatchers -> Works \cup {None}],
         \A d \in Dispatchers :
           pc'[d] # "idle" => \/ pc'[d] = pc[d] /\ work'[d] = work[d]
                              \/ pc'[d] # "mark" /\ work'[d] = w
                                   /\ to \in {"claimed", "dispatched", "completed"}
  PROVE  DispatchInv'
<1>1. RowsTyped' BY DEF DispatchInv, RowsTyped
<1>2. StartedSettleable' BY DEF DispatchInv, RowsTyped, StartedSettleable
<1>3. SettledRan' BY DEF DispatchInv, RowsTyped, SettledRan
<1>4. ServesTouched'
  <2> SUFFICES ASSUME NEW d \in Dispatchers, pc'[d] # "idle"
               PROVE  /\ work'[d] \in Works /\ Touched(work[d])'
                      /\ pc'[d] = "mark" => exec'[work'[d]] # "none"
      BY DEF ServesTouched
  <2>1. CASE pc'[d] = pc[d] /\ work'[d] = work[d]
    BY <2>1 DEF DispatchInv, RowsTyped, ServesTouched, Touched
  <2>2. CASE pc'[d] # "mark" /\ work'[d] = w /\ to \in {"claimed", "dispatched", "completed"}
    BY <2>2 DEF DispatchInv, RowsTyped, Touched
  <2> QED BY <2>1, <2>2
<1> QED BY <1>1, <1>2, <1>3, <1>4 DEF DispatchInv

\* Only executions and dispatchers move.
LEMMA RowsStay ==
  ASSUME DispatchInv, UNCHANGED status,
         exec' \in [Works -> Execs],
         \A v \in Works : exec[v] # "none" => exec'[v] # "none",
         \A v \in Works : exec'[v] # "none" => exec[v] # "none" \/ Touched(v),
         pc' \in [Dispatchers -> Labels], work' \in [Dispatchers -> Works \cup {None}],
         \A d \in Dispatchers :
           pc'[d] # "idle" => /\ pc[d] # "idle" /\ work'[d] = work[d]
                              /\ pc'[d] = "mark" => exec'[work[d]] # "none"
  PROVE  DispatchInv'
<1>1. RowsTyped' BY DEF DispatchInv, RowsTyped
<1>2. StartedSettleable' BY DEF DispatchInv, RowsTyped, StartedSettleable, Touched
<1>3. SettledRan' BY DEF DispatchInv, RowsTyped, SettledRan
<1>4. ServesTouched' BY DEF DispatchInv, RowsTyped, ServesTouched, Touched
<1> QED BY <1>1, <1>2, <1>3, <1>4 DEF DispatchInv

LEMMA IdleTyped ==
  ASSUME DispatchInv, NEW d \in Dispatchers, Continue(d) \/ Abort(d)
  PROVE  /\ pc' \in [Dispatchers -> Labels] /\ work' \in [Dispatchers -> Works \cup {None}]
         /\ \A e \in Dispatchers : pc'[e] # "idle" => pc'[e] = pc[e] /\ work'[e] = work[e]
BY DEF Continue, Abort, DispatchInv, RowsTyped, Labels

LEMMA GotoTyped ==
  ASSUME DispatchInv, NEW d \in Dispatchers, NEW label \in Labels, Goto(d, label)
  PROVE  /\ pc' \in [Dispatchers -> Labels] /\ work' \in [Dispatchers -> Works \cup {None}]
         /\ \A e \in Dispatchers \ {d} : pc'[e] = pc[e]
         /\ pc'[d] = label /\ UNCHANGED work
BY DEF Goto, DispatchInv, RowsTyped

LEMMA StartedTyped ==
  ASSUME DispatchInv, NEW w \in Works, Touched(w), Started(w) \/ UNCHANGED exec
  PROVE  /\ exec' \in [Works -> Execs]
         /\ \A v \in Works : exec[v] # "none" => exec'[v] # "none"
         /\ \A v \in Works : exec'[v] # "none" => exec[v] # "none" \/ Touched(v)
         /\ Started(w) => exec'[w] # "none"
BY DEF Started, DispatchInv, RowsTyped, Execs

-----------------------------------------------------------------------------
(* One lemma per action.                                                   *)

LEMMA ClaimStep ==
  ASSUME DispatchInv, NEW d \in Dispatchers, NEW w \in Works, ClaimWork(d, w)
  PROVE  DispatchInv'
<1>1. CASE Claimable(w)
  <2>1. /\ status' = [status EXCEPT ![w] = "claimed"] /\ UNCHANGED exec
        /\ pc' = [pc EXCEPT ![d] = "start"] /\ work' = [work EXCEPT ![d] = w]
    BY <1>1 DEF ClaimWork
  <2>2. pc' \in [Dispatchers -> Labels] /\ work' \in [Dispatchers -> Works \cup {None}]
    BY <2>1 DEF DispatchInv, RowsTyped, Labels
  <2>3. status[w] \in {"pending", "claimed"} BY <1>1 DEF Claimable
  <2>4. exec[w] # "none" => status[w] = "claimed"
    BY <2>3 DEF DispatchInv, StartedSettleable
  <2>5. \A e \in Dispatchers :
          pc'[e] # "idle" => \/ pc'[e] = pc[e] /\ work'[e] = work[e]
                             \/ pc'[e] # "mark" /\ work'[e] = w
    BY <2>1 DEF DispatchInv, RowsTyped
  <2>6. exec' \in [Works -> Execs] BY <2>1 DEF DispatchInv, RowsTyped
  <2> QED BY <2>1, <2>2, <2>3, <2>4, <2>5, <2>6, RowsMove DEF Statuses, Touched
<1>2. CASE ~Claimable(w)
  <2>1. UNCHANGED <<status, pc, work, exec>> BY <1>2 DEF ClaimWork
  <2> QED BY <2>1, RowsStay DEF DispatchInv, RowsTyped, ServesTouched
<1> QED BY <1>1, <1>2

LEMMA StartStep ==
  ASSUME DispatchInv, NEW d \in Dispatchers, NEW w \in Works, StartExecution(d, w)
  PROVE  DispatchInv'
<1>1. pc[d] = "start" /\ work[d] = w /\ Touched(w) /\ UNCHANGED status
  BY DEF StartExecution, At, DispatchInv, ServesTouched
<1>2. Started(w) \/ UNCHANGED exec BY DEF StartExecution
<1>3. CASE Started(w) /\ Goto(d, "mark")
  BY <1>1, <1>3, StartedTyped, GotoTyped, RowsStay DEF Labels, DispatchInv, ServesTouched
<1>4. CASE Abort(d)
  BY <1>1, <1>2, <1>4, StartedTyped, IdleTyped, RowsStay DEF DispatchInv, ServesTouched
<1>5. CASE Goto(d, "defer")
  BY <1>1, <1>2, <1>5, StartedTyped, GotoTyped, RowsStay DEF Labels, DispatchInv, ServesTouched
<1> QED BY <1>3, <1>4, <1>5 DEF StartExecution

LEMMA MarkStep ==
  ASSUME DispatchInv, NEW d \in Dispatchers, NEW w \in Works, MarkWorkDispatched(d, w)
  PROVE  DispatchInv'
<1>1. pc[d] = "mark" /\ work[d] = w /\ exec[w] # "none" /\ UNCHANGED exec
  BY DEF MarkWorkDispatched, At, DispatchInv, ServesTouched
<1>2. Continue(d) \/ Abort(d) BY DEF MarkWorkDispatched
<1>3. exec' \in [Works -> Execs] BY <1>1 DEF DispatchInv, RowsTyped
<1>4. CASE status' = [status EXCEPT ![w] = "dispatched"]
  BY <1>1, <1>2, <1>3, <1>4, IdleTyped, RowsMove DEF Statuses
<1>5. CASE UNCHANGED status
  BY <1>1, <1>2, <1>3, <1>5, IdleTyped, RowsStay DEF DispatchInv, ServesTouched
<1> QED BY <1>4, <1>5 DEF MarkWorkDispatched

LEMMA DeferStep ==
  ASSUME DispatchInv, NEW d \in Dispatchers, NEW w \in Works, DeferClaimedWork(d, w)
  PROVE  DispatchInv'
<1>1. UNCHANGED <<status, exec>> BY DEF DeferClaimedWork
<1>2. Continue(d) \/ Abort(d) BY DEF DeferClaimedWork
<1>3. exec' \in [Works -> Execs] BY <1>1 DEF DispatchInv, RowsTyped
<1> QED BY <1>1, <1>2, <1>3, IdleTyped, RowsStay DEF DispatchInv, ServesTouched

LEMMA JobStep ==
  ASSUME DispatchInv, NEW w \in Works, OpenWork(w) \/ CancelWork(w)
  PROVE  DispatchInv'
<1>1. UNCHANGED <<exec, pc, work>> /\ status[w] \in {"absent", "pending"}
  BY DEF OpenWork, CancelWork
<1>2. exec[w] = "none" /\ ~Touched(w)
  BY <1>1 DEF DispatchInv, StartedSettleable, RowsTyped, Touched
<1>3. \/ status' = [status EXCEPT ![w] = "pending"]
      \/ status' = [status EXCEPT ![w] = "cancelled"]
  BY DEF OpenWork, CancelWork
<1>4. exec' \in [Works -> Execs] /\ pc' \in [Dispatchers -> Labels]
      /\ work' \in [Dispatchers -> Works \cup {None}]
  BY <1>1 DEF DispatchInv, RowsTyped
<1>5. CASE status' = [status EXCEPT ![w] = "pending"]
  BY <1>1, <1>2, <1>4, <1>5, RowsMove DEF Statuses
<1>6. CASE status' = [status EXCEPT ![w] = "cancelled"]
  BY <1>1, <1>2, <1>4, <1>6, RowsMove DEF Statuses
<1> QED BY <1>3, <1>5, <1>6

LEMMA ExecutionStep ==
  ASSUME DispatchInv, NEW w \in Works,
         ExecutionSettles(w) \/ ExecutionDies(w) \/ RecoverExecution(w)
  PROVE  DispatchInv'
<1>1. UNCHANGED <<pc, work>>
  BY DEF ExecutionSettles, ExecutionDies, RecoverExecution, SettlesWork
<1>2. pc' \in [Dispatchers -> Labels] /\ work' \in [Dispatchers -> Works \cup {None}]
  BY <1>1 DEF DispatchInv, RowsTyped
<1>3. CASE ExecutionSettles(w)
  <2>1. exec' = [exec EXCEPT ![w] = "ended"] /\ status' = [status EXCEPT ![w] = "completed"]
    BY <1>3 DEF ExecutionSettles, SettlesWork
  <2>2. exec' \in [Works -> Execs] BY <2>1 DEF DispatchInv, RowsTyped, Execs
  <2>3. exec'[w] = "ended" /\ \A v \in Works \ {w} : exec'[v] = exec[v]
    BY <2>1 DEF DispatchInv, RowsTyped
  <2> QED BY <1>1, <1>2, <2>1, <2>2, <2>3, RowsMove DEF Statuses
<1>4. CASE ExecutionDies(w)
  <2>1. exec' = [exec EXCEPT ![w] = "dead"] /\ exec[w] = "running" /\ UNCHANGED status
    BY <1>4 DEF ExecutionDies
  <2>2. exec' \in [Works -> Execs] BY <2>1 DEF DispatchInv, RowsTyped, Execs
  <2>3. exec'[w] = "dead" /\ \A v \in Works \ {w} : exec'[v] = exec[v]
    BY <2>1 DEF DispatchInv, RowsTyped
  <2> QED BY <1>1, <1>2, <2>1, <2>2, <2>3, RowsStay DEF DispatchInv, ServesTouched
<1>5. CASE RecoverExecution(w)
  <2>1. exec[w] = "dead" /\ UNCHANGED exec /\ status' = [status EXCEPT ![w] = "completed"]
    BY <1>5 DEF RecoverExecution, SettlesWork
  <2>2. exec' \in [Works -> Execs] BY <2>1 DEF DispatchInv, RowsTyped
  <2> QED BY <1>1, <1>2, <2>1, <2>2, RowsMove DEF Statuses
<1> QED BY <1>3, <1>4, <1>5

LEMMA IdleStep ==
  ASSUME DispatchInv, UNCHANGED <<status, exec, pc, work>>
  PROVE  DispatchInv'
<1>1. exec' \in [Works -> Execs] /\ pc' \in [Dispatchers -> Labels]
      /\ work' \in [Dispatchers -> Works \cup {None}]
  BY DEF DispatchInv, RowsTyped
<1> QED BY <1>1, RowsStay DEF DispatchInv, ServesTouched

LEMMA DieStep ==
  ASSUME DispatchInv, NEW d \in Dispatchers, DispatcherDies(d)
  PROVE  DispatchInv'
<1>1. Abort(d) /\ UNCHANGED <<status, exec>> BY DEF DispatcherDies
<1>2. exec' \in [Works -> Execs] BY <1>1 DEF DispatchInv, RowsTyped
<1> QED BY <1>1, <1>2, IdleTyped, RowsStay DEF DispatchInv, ServesTouched

LEMMA InvStep == DispatchInv /\ [DispatchNext]_dispatchVars => DispatchInv'
<1> SUFFICES ASSUME DispatchInv, [DispatchNext]_dispatchVars PROVE DispatchInv'
    OBVIOUS
<1>1. CASE Ripen BY <1>1, IdleStep DEF Ripen
<1>2. CASE \E w \in Works : OpenWork(w) \/ CancelWork(w) BY <1>2, JobStep
<1>3. ASSUME NEW d \in Dispatchers,
             Sweep(d) \/ (\E w \in Works : StreamEvent(d, w)) PROVE DispatchInv'
  BY <1>3, IdleStep DEF Sweep, StreamEvent
<1>4. ASSUME NEW d \in Dispatchers, DispatchOne(d) PROVE DispatchInv'
  BY <1>4, ClaimStep, StartStep, MarkStep, DeferStep DEF DispatchOne
<1>5. ASSUME NEW d \in Dispatchers, DispatcherDies(d) PROVE DispatchInv' BY <1>5, DieStep
<1>6. CASE \E w \in Works : ExecutionSettles(w) \/ ExecutionDies(w) \/ RecoverExecution(w)
  BY <1>6, ExecutionStep
<1>7. CASE UNCHANGED dispatchVars BY <1>7, IdleStep DEF dispatchVars
<1> QED BY <1>1, <1>2, <1>3, <1>4, <1>5, <1>6, <1>7 DEF DispatchNext

LEMMA InvAlways == DispatchSpec => []DispatchInv
BY InvInit, InvStep, PTL DEF DispatchSpec

-----------------------------------------------------------------------------

\* No execution is ever stranded on a row its worker may not settle, and every marked row has
\* an execution, for all works, dispatchers and interleavings (dispatch.py:344).
THEOREM OutboxSafe == DispatchSpec => [](StartedSettleable /\ DispatchedRuns)
<1>1. DispatchInv => StartedSettleable /\ DispatchedRuns
  BY DEF DispatchInv, SettledRan, DispatchedRuns
<1> QED BY <1>1, InvAlways, PTL

-----------------------------------------------------------------------------
(* Refinement: each step moves one row of WorkDelivery, or none.           *)

DeliveryStep == [Delivery!Next]_(Delivery!deliveryVars)

LEMMA StutterStep == ASSUME UNCHANGED <<status, exec>> PROVE DeliveryStep
BY DEF DeliveryStep, Delivery!deliveryVars

LEMMA ClaimMaps ==
  ASSUME DispatchInv, NEW d \in Dispatchers, NEW w \in Works, ClaimWork(d, w)
  PROVE  DeliveryStep
<1>1. CASE Claimable(w) /\ status[w] = "pending"
  <2>1. Delivery!Claim(w) BY <1>1 DEF ClaimWork, Delivery!Claim, Delivery!Moves
  <2> QED BY <2>1 DEF DeliveryStep, Delivery!Next
<1>2. CASE Claimable(w) /\ status[w] # "pending"
  <2>1. status[w] = "claimed" BY <1>2 DEF Claimable
  <2>2. status' = [status EXCEPT ![w] = "claimed"] /\ UNCHANGED exec
    BY <1>2 DEF ClaimWork
  <2> QED BY <2>1, <2>2, StutterStep DEF DispatchInv, RowsTyped
<1>3. CASE ~Claimable(w) BY <1>3, StutterStep DEF ClaimWork
<1> QED BY <1>1, <1>2, <1>3

\* A stale claim starts nothing: its row is still claimed, or it has run already.
LEMMA StartMaps ==
  ASSUME DispatchInv, NEW d \in Dispatchers, NEW w \in Works, StartExecution(d, w)
  PROVE  DeliveryStep
<1>1. Touched(w) /\ UNCHANGED status
  BY DEF StartExecution, At, DispatchInv, ServesTouched
<1>2. Started(w) \/ UNCHANGED exec BY DEF StartExecution
<1>3. CASE Started(w) /\ exec[w] = "none"
  <2>1. status[w] = "claimed" BY <1>1, <1>3 DEF Touched, DispatchInv, SettledRan
  <2>2. exec' = [exec EXCEPT ![w] = "running"] BY <1>3 DEF Started, DispatchInv, RowsTyped
  <2>3. Delivery!Start(w) BY <1>1, <1>3, <2>1, <2>2 DEF Delivery!Start
  <2> QED BY <2>3 DEF DeliveryStep, Delivery!Next
<1>4. CASE Started(w) /\ exec[w] # "none"
  <2>1. exec' = exec BY <1>4 DEF Started, DispatchInv, RowsTyped
  <2> QED BY <1>1, <2>1, StutterStep
<1>5. CASE UNCHANGED exec BY <1>1, <1>5, StutterStep
<1> QED BY <1>2, <1>3, <1>4, <1>5

LEMMA MarkMaps ==
  ASSUME DispatchInv, NEW d \in Dispatchers, NEW w \in Works, MarkWorkDispatched(d, w)
  PROVE  DeliveryStep
<1>1. exec[w] # "none" /\ UNCHANGED exec
  BY DEF MarkWorkDispatched, At, DispatchInv, ServesTouched
<1>2. CASE ClaimCurrent(d, w) /\ status' = [status EXCEPT ![w] = "dispatched"]
  <2>1. Delivery!Mark(w) BY <1>1, <1>2 DEF ClaimCurrent, Delivery!Mark, Delivery!Moves
  <2> QED BY <2>1 DEF DeliveryStep, Delivery!Next
<1>3. CASE UNCHANGED status BY <1>1, <1>3, StutterStep
<1> QED BY <1>2, <1>3 DEF MarkWorkDispatched

LEMMA RowMaps ==
  ASSUME NEW w \in Works,
         \/ OpenWork(w) \/ CancelWork(w)
         \/ ExecutionSettles(w) \/ ExecutionDies(w) \/ RecoverExecution(w)
  PROVE  DeliveryStep
<1>1. CASE OpenWork(w)
  BY <1>1 DEF OpenWork, DeliveryStep, Delivery!Next, Delivery!Open, Delivery!Moves
<1>2. CASE CancelWork(w)
  BY <1>2 DEF CancelWork, DeliveryStep, Delivery!Next, Delivery!Cancel, Delivery!Moves
<1>3. CASE ExecutionSettles(w)
  BY <1>3 DEF ExecutionSettles, SettlesWork, DeliveryStep, Delivery!Next, Delivery!Settle,
              Delivery!Moves
<1>4. CASE ExecutionDies(w)
  BY <1>4 DEF ExecutionDies, DeliveryStep, Delivery!Next, Delivery!Die
<1>5. CASE RecoverExecution(w)
  BY <1>5 DEF RecoverExecution, SettlesWork, DeliveryStep, Delivery!Next, Delivery!Settle,
              Delivery!Moves
<1> QED BY <1>1, <1>2, <1>3, <1>4, <1>5

LEMMA StepMaps == DispatchInv /\ [DispatchNext]_dispatchVars => DeliveryStep
<1> SUFFICES ASSUME DispatchInv, [DispatchNext]_dispatchVars PROVE DeliveryStep
    OBVIOUS
<1>1. CASE Ripen BY <1>1, StutterStep DEF Ripen
<1>2. CASE \E w \in Works : OpenWork(w) \/ CancelWork(w) BY <1>2, RowMaps
<1>3. ASSUME NEW d \in Dispatchers,
             Sweep(d) \/ (\E w \in Works : StreamEvent(d, w)) PROVE DeliveryStep
  BY <1>3, StutterStep DEF Sweep, StreamEvent
<1>4. ASSUME NEW d \in Dispatchers, DispatchOne(d) PROVE DeliveryStep
  <2>1. ASSUME NEW w \in Works, DeferClaimedWork(d, w) PROVE DeliveryStep
    BY <2>1, StutterStep DEF DeferClaimedWork
  <2> QED BY <1>4, <2>1, ClaimMaps, StartMaps, MarkMaps DEF DispatchOne
<1>5. ASSUME NEW d \in Dispatchers, DispatcherDies(d) PROVE DeliveryStep
  BY <1>5, StutterStep DEF DispatcherDies
<1>6. CASE \E w \in Works : ExecutionSettles(w) \/ ExecutionDies(w) \/ RecoverExecution(w)
  BY <1>6, RowMaps
<1>7. CASE UNCHANGED dispatchVars BY <1>7, StutterStep DEF dispatchVars
<1> QED BY <1>1, <1>2, <1>3, <1>4, <1>5, <1>6, <1>7 DEF DispatchNext

\* The dispatchers implement the delivery of work that ProductMachine takes for granted, with
\* status and execution read as they are.
THEOREM DispatchImplementsDelivery == DispatchSpec => DeliveryKept
<1>1. DispatchInit => Delivery!Init BY DEF DispatchInit, Delivery!Init
<1>2. DispatchInv /\ [DispatchNext]_dispatchVars => [Delivery!Next]_(Delivery!deliveryVars)
  BY StepMaps DEF DeliveryStep
<1> QED BY <1>1, <1>2, InvAlways, PTL DEF DispatchSpec, DeliveryKept, Delivery!Spec

-----------------------------------------------------------------------------
(* The due index and the claims.                                           *)

Live == {w \in Works : status[w] \in {"pending", "claimed"}}

\* The index is a sequence of the live rows, each of them once.
IndexInv ==
  /\ due \in Seq(Works) /\ ripe \in 0..Len(due)
  /\ {due[i] : i \in 1..Len(due)} = Live
  /\ \A i, j \in 1..Len(due) : due[i] = due[j] => i = j

LEMMA Taken ==
  ASSUME IndexInv, NEW w \in Live
  PROVE  /\ Position(w) \in 1..Len(due) /\ due[Position(w)] = w
         /\ Without(w) \in Seq(Works) /\ Len(Without(w)) = Len(due) - 1
         /\ {Without(w)[i] : i \in 1..Len(Without(w))} = Live \ {w}
         /\ \A i, j \in 1..Len(Without(w)) : Without(w)[i] = Without(w)[j] => i = j
         /\ (IF Due(w) THEN ripe - 1 ELSE ripe) \in 0..(Len(due) - 1)
<1> DEFINE k == Position(w)
           n == Len(due)
           rest == Without(w)
<1>1. k \in 1..n /\ due[k] = w
  <2>1. \E i \in 1..n : due[i] = w
    BY DEF IndexInv
  <2> QED
    BY <2>1 DEF Position
<1>2. n \in Nat \ {0} /\ \A i \in 1..n : due[i] \in Works
  BY <1>1 DEF IndexInv
<1> HIDE DEF k, n
<1>3. rest = [j \in 1..(n - 1) |-> due[IF j < k THEN j ELSE j + 1]]
  BY DEF Without, n, k
<1> HIDE DEF rest
<1>4. \A j \in 1..(n - 1) : /\ (IF j < k THEN j ELSE j + 1) \in 1..n
                            /\ (IF j < k THEN j ELSE j + 1) # k
  BY <1>1, <1>2
<1>5. rest \in Seq(Works) /\ Len(rest) = n - 1
  BY <1>2, <1>3, <1>4
<1>6. \A j \in 1..(n - 1) : rest[j] = due[IF j < k THEN j ELSE j + 1]
  BY <1>3
<1>7. \A i, j \in 1..n : due[i] = due[j] => i = j
  BY DEF IndexInv, n
<1>8. \A i, j \in 1..(n - 1) : rest[i] = rest[j] => i = j
  BY <1>1, <1>2, <1>4, <1>6, <1>7
<1>9. {rest[i] : i \in 1..(n - 1)} = Live \ {w}
  <2>1. ASSUME NEW i \in 1..(n - 1) PROVE rest[i] \in Live \ {w}
    BY <1>1, <1>4, <1>6, <1>7 DEF IndexInv, n
  <2>2. ASSUME NEW v \in Live \ {w} PROVE \E i \in 1..(n - 1) : rest[i] = v
    <3>1. PICK i \in 1..n : due[i] = v
      BY DEF IndexInv, n
    <3>2. CASE i < k
      <4>1. i \in 1..(n - 1) BY <1>1, <1>2, <3>2
      <4> QED BY <1>6, <3>1, <3>2, <4>1
    <3>3. CASE i > k
      <4>1. i - 1 \in 1..(n - 1) /\ ~(i - 1 < k) /\ (i - 1) + 1 = i BY <1>1, <1>2, <3>3
      <4> QED BY <1>6, <3>1, <4>1
    <3> QED BY <1>1, <1>2, <3>1, <3>2, <3>3
  <2> QED BY <2>1, <2>2
<1>10. (IF Due(w) THEN ripe - 1 ELSE ripe) \in 0..(n - 1)
  <2>1. ripe \in 0..n BY DEF IndexInv, n
  <2>2. Due(w) => ripe >= 1 BY <2>1 DEF Due
  <2>3. ~Due(w) => k > ripe BY <1>1, <2>1 DEF Due
  <2> QED BY <1>1, <1>2, <2>1, <2>2, <2>3
<1> QED BY <1>1, <1>5, <1>8, <1>9, <1>10 DEF k, n, rest

LEMMA IndexLeaves ==
  ASSUME IndexInv, NEW w \in Live, Leave(w), Live' = Live \ {w}
  PROVE  IndexInv'
<1>1. due' = Without(w) /\ ripe' = IF Due(w) THEN ripe - 1 ELSE ripe
  BY DEF Leave
<1>2. /\ due' \in Seq(Works) /\ Len(due') = Len(due) - 1
      /\ {due'[i] : i \in 1..Len(due')} = Live \ {w}
      /\ \A i, j \in 1..Len(due') : due'[i] = due'[j] => i = j
      /\ ripe' \in 0..(Len(due) - 1)
  BY <1>1, Taken
<1> QED
  BY <1>2 DEF IndexInv

LEMMA Appended ==
  ASSUME NEW s \in Seq(Works), NEW w \in Works, \A i \in 1..Len(s) : s[i] # w,
         \A i, j \in 1..Len(s) : s[i] = s[j] => i = j
  PROVE  /\ Append(s, w) \in Seq(Works) /\ Len(Append(s, w)) = Len(s) + 1
         /\ {Append(s, w)[i] : i \in 1..Len(Append(s, w))}
              = {s[i] : i \in 1..Len(s)} \cup {w}
         /\ \A i, j \in 1..Len(Append(s, w)) : Append(s, w)[i] = Append(s, w)[j] => i = j
<1> DEFINE a == Append(s, w)
           n == Len(s)
<1>1. a \in Seq(Works) /\ Len(a) = n + 1 /\ n \in Nat
  OBVIOUS
<1>2. (\A i \in 1..n : a[i] = s[i]) /\ a[n + 1] = w
  OBVIOUS
<1> HIDE DEF a, n
<1>3. \A i \in 1..(n + 1) : i \in 1..n \/ i = n + 1
  BY <1>1
<1>4. \A i \in 1..n : s[i] # w
  BY DEF n
<1>5. \A i, j \in 1..(n + 1) : a[i] = a[j] => i = j
  BY <1>2, <1>3, <1>4 DEF n
<1>6. {a[i] : i \in 1..(n + 1)} = {s[i] : i \in 1..n} \cup {w}
  <2>1. \A i \in 1..n : i \in 1..(n + 1)
    BY <1>1
  <2>2. n + 1 \in 1..(n + 1)
    BY <1>1
  <2> QED
    BY <1>2, <1>3, <2>1, <2>2
<1> QED
  BY <1>1, <1>5, <1>6 DEF a, n

LEMMA IndexRequeues ==
  ASSUME IndexInv, NEW w \in Live, Requeue(w), Live' = Live
  PROVE  IndexInv'
<1>1. \A i \in 1..Len(Without(w)) : Without(w)[i] # w
  BY Taken
<1>2. /\ due' \in Seq(Works) /\ Len(due') = Len(due)
      /\ {due'[i] : i \in 1..Len(due')} = Live
      /\ \A i, j \in 1..Len(due') : due'[i] = due'[j] => i = j
  <2>1. due' = Append(Without(w), w) /\ w \in Works
    BY DEF Requeue, Live
  <2>2. Len(due) \in Nat
    BY DEF IndexInv
  <2> QED
    BY <1>1, <2>1, <2>2, Taken, Appended
<1>3. ripe' \in 0..Len(due)
  BY Taken DEF Requeue, IndexInv
<1> QED
  BY <1>2, <1>3 DEF IndexInv

LEMMA IndexGrows ==
  ASSUME IndexInv, NEW w \in Works \ Live, due' = Append(due, w), UNCHANGED ripe,
         Live' = Live \cup {w}
  PROVE  IndexInv'
<1>1. \A i \in 1..Len(due) : due[i] # w
  BY DEF IndexInv
<1>2. /\ due' \in Seq(Works) /\ Len(due') = Len(due) + 1
      /\ {due'[i] : i \in 1..Len(due')} = Live \cup {w}
      /\ \A i, j \in 1..Len(due') : due'[i] = due'[j] => i = j
  BY <1>1, Appended DEF IndexInv
<1>3. ripe' \in 0..Len(due')
  BY <1>2 DEF IndexInv
<1> QED
  BY <1>2, <1>3 DEF IndexInv

LEMMA IndexStays ==
  ASSUME IndexInv, UNCHANGED due, ripe' \in 0..Len(due), Live' = Live
  PROVE  IndexInv'
BY DEF IndexInv

LEMMA IndexStep == ASSUME DispatchInv, IndexInv, [DispatchNext]_dispatchVars PROVE IndexInv'
<1> USE DEF DispatchInv, RowsTyped
<1>1. ASSUME UNCHANGED <<due, ripe, status>> PROVE IndexInv'
  BY <1>1, IndexStays DEF IndexInv, Live
<1>2. ASSUME NEW w \in Works, NEW to, status' = [status EXCEPT ![w] = to]
      PROVE  /\ to \in {"pending", "claimed"} => Live' = Live \cup {w}
             /\ to \notin {"pending", "claimed"} => Live' = Live \ {w}
  BY <1>2 DEF Live
<1>3. CASE Ripen
  <2>1. ripe' = ripe + 1 /\ ripe < Len(due) /\ UNCHANGED <<due, status>>
    BY <1>3 DEF Ripen
  <2> QED
    BY <2>1, IndexStays DEF IndexInv, Live
<1>4. ASSUME NEW w \in Works, OpenWork(w) \/ CancelWork(w) PROVE IndexInv'
  <2>1. CASE OpenWork(w)
    BY <1>2, <2>1, IndexGrows DEF OpenWork, Live
  <2>2. CASE CancelWork(w)
    BY <1>2, <2>2, IndexLeaves DEF CancelWork, Live
  <2> QED
    BY <1>4, <2>1, <2>2
<1>5. ASSUME NEW d \in Dispatchers, NEW w \in Works, ClaimWork(d, w) PROVE IndexInv'
  <2>1. CASE Claimable(w)
    <3>1. w \in Live /\ Requeue(w) /\ status' = [status EXCEPT ![w] = "claimed"]
      BY <1>5, <2>1 DEF ClaimWork, Claimable, Live
    <3>2. Live' = Live
      BY <3>1 DEF Live
    <3> QED
      BY <3>1, <3>2, IndexRequeues
  <2> QED
    BY <1>1, <1>5, <2>1 DEF ClaimWork
<1>6. ASSUME NEW d \in Dispatchers, NEW w \in Works, StartExecution(d, w) PROVE IndexInv'
  BY <1>1, <1>6 DEF StartExecution
<1>7. ASSUME NEW d \in Dispatchers, NEW w \in Works, MarkWorkDispatched(d, w) PROVE IndexInv'
  <2>1. CASE ClaimCurrent(d, w) /\ Leave(w) /\ status' = [status EXCEPT ![w] = "dispatched"]
    BY <1>2, <2>1, IndexLeaves DEF ClaimCurrent, Live
  <2> QED
    BY <1>1, <1>7, <2>1 DEF MarkWorkDispatched
<1>8. ASSUME NEW d \in Dispatchers, NEW w \in Works, DeferClaimedWork(d, w) PROVE IndexInv'
  <2>1. CASE ClaimCurrent(d, w) /\ Requeue(w) /\ UNCHANGED status
    BY <2>1, IndexRequeues DEF ClaimCurrent, Live
  <2> QED
    BY <1>1, <1>8, <2>1 DEF DeferClaimedWork
<1>9. ASSUME NEW w \in Works, status[w] \in {"claimed", "dispatched"}, SettlesWork(w)
      PROVE  IndexInv'
  <2>1. CASE status[w] = "claimed"
    BY <1>2, <1>9, <2>1, IndexLeaves DEF SettlesWork, Live
  <2>2. CASE status[w] = "dispatched"
    <3>1. Live' = Live /\ UNCHANGED <<due, ripe>>
      BY <1>9, <2>2 DEF SettlesWork, Live
    <3> QED
      BY <3>1, IndexStays DEF IndexInv
  <2> QED
    BY <1>9, <2>1, <2>2
<1>10. ASSUME NEW w \in Works, ExecutionSettles(w) \/ ExecutionDies(w) \/ RecoverExecution(w)
       PROVE  IndexInv'
  BY <1>1, <1>9, <1>10 DEF ExecutionSettles, ExecutionDies, RecoverExecution
<1>11. ASSUME NEW d \in Dispatchers,
              Sweep(d) \/ (\E w \in Works : StreamEvent(d, w)) \/ DispatcherDies(d)
       PROVE  IndexInv'
  BY <1>1, <1>11 DEF Sweep, StreamEvent, DispatcherDies
<1>12. CASE UNCHANGED dispatchVars
  BY <1>1, <1>12 DEF dispatchVars
<1> QED
  BY <1>3, <1>4, <1>5, <1>6, <1>7, <1>8, <1>10, <1>11, <1>12 DEF DispatchNext, DispatchOne

\* A claim lasts exactly while its row is claimed, and a dispatcher serves one row or none.
ClaimsTyped ==
  /\ claim \in [Works -> Dispatchers \cup {None}]
  /\ \A w \in Works : claim[w] # None <=> status[w] = "claimed"
  /\ \A d \in Dispatchers : pc[d] = "idle" <=> work[d] = None
  /\ faults \in 0..MaxFaults

LEMMA ClaimMoves ==
  ASSUME DispatchInv, ClaimsTyped, NEW w \in Works, NEW to, NEW c \in Dispatchers \cup {None},
         status' = [status EXCEPT ![w] = to], claim' = [claim EXCEPT ![w] = c],
         c # None <=> to = "claimed"
  PROVE  /\ claim' \in [Works -> Dispatchers \cup {None}]
         /\ \A v \in Works : claim'[v] # None <=> status'[v] = "claimed"
BY DEF DispatchInv, RowsTyped, ClaimsTyped

LEMMA ServerMoves ==
  ASSUME DispatchInv, ClaimsTyped, NEW d \in Dispatchers,
         \/ Continue(d) \/ Abort(d)
         \/ \E label \in {"mark", "defer"} : At(d, "start") /\ Goto(d, label)
         \/ \E w \in Works : /\ pc' = [pc EXCEPT ![d] = "start"]
                             /\ work' = [work EXCEPT ![d] = w]
         \/ UNCHANGED <<pc, work>>
  PROVE  \A e \in Dispatchers : pc'[e] = "idle" <=> work'[e] = None
BY DispatchAssumption DEF DispatchInv, RowsTyped, ClaimsTyped, Continue, Abort, Goto, At

LEMMA FaultTyped ==
  ASSUME ClaimsTyped, Fault \/ UNCHANGED faults
  PROVE  faults' \in 0..MaxFaults
BY DispatchAssumption DEF ClaimsTyped, Fault

LEMMA ClaimsStep ==
  ASSUME DispatchInv, ClaimsTyped, [DispatchNext]_dispatchVars PROVE ClaimsTyped'
<1> DEFINE Claims == /\ claim' \in [Works -> Dispatchers \cup {None}]
                     /\ \A v \in Works : claim'[v] # None <=> status'[v] = "claimed"
           Servers == \A e \in Dispatchers : pc'[e] = "idle" <=> work'[e] = None
<1>1. Fault \/ UNCHANGED faults
  BY DEF DispatchNext, Ripen, OpenWork, CancelWork, Sweep, StreamEvent, DispatchOne, ClaimWork,
     StartExecution, MarkWorkDispatched, DeferClaimedWork, DispatcherDies, ExecutionSettles,
     ExecutionDies, RecoverExecution, dispatchVars
<1>2. ASSUME UNCHANGED <<status, claim>> PROVE Claims
  BY <1>2 DEF ClaimsTyped
<1>3. ASSUME NEW w \in Works, NEW to \in Statuses \ {"claimed"},
             \/ status[w] # "claimed" /\ UNCHANGED claim
             \/ claim' = [claim EXCEPT ![w] = None],
             status' = [status EXCEPT ![w] = to]
      PROVE  Claims
  BY <1>3 DEF DispatchInv, RowsTyped, ClaimsTyped
<1>4. ASSUME NEW w \in Works, OpenWork(w) \/ CancelWork(w) PROVE Claims /\ Servers
  BY <1>3, <1>4, ServerMoves DEF OpenWork, CancelWork, Statuses, ClaimsTyped
<1>5. ASSUME NEW d \in Dispatchers, NEW w \in Works, ClaimWork(d, w) PROVE Claims /\ Servers
  <2>1. CASE Claimable(w)
    BY <1>5, <2>1, ClaimMoves, ServerMoves, DispatchAssumption DEF ClaimWork
  <2>2. CASE ~Claimable(w)
    BY <1>2, <1>5, <2>2, ServerMoves DEF ClaimWork
  <2> QED
    BY <2>1, <2>2
<1>6. ASSUME NEW d \in Dispatchers, NEW w \in Works, StartExecution(d, w) PROVE Claims /\ Servers
  BY <1>2, <1>6, ServerMoves DEF StartExecution
<1>7. ASSUME NEW d \in Dispatchers, NEW w \in Works, MarkWorkDispatched(d, w)
      PROVE  Claims /\ Servers
  BY <1>2, <1>3, <1>7, ServerMoves DEF MarkWorkDispatched, Statuses
<1>8. ASSUME NEW d \in Dispatchers, NEW w \in Works, DeferClaimedWork(d, w)
      PROVE  Claims /\ Servers
  BY <1>2, <1>8, ServerMoves DEF DeferClaimedWork
<1>9. ASSUME NEW w \in Works, ExecutionSettles(w) \/ ExecutionDies(w) \/ RecoverExecution(w)
      PROVE  Claims /\ Servers
  BY <1>2, <1>3, <1>9, ServerMoves DEF ExecutionSettles, ExecutionDies, RecoverExecution,
     SettlesWork, Statuses, ClaimsTyped
<1>10. ASSUME NEW d \in Dispatchers,
              Sweep(d) \/ (\E w \in Works : StreamEvent(d, w)) \/ DispatcherDies(d)
       PROVE  Claims /\ Servers
  BY <1>2, <1>10, ServerMoves DEF Sweep, StreamEvent, DispatcherDies, ClaimsTyped
<1>11. ASSUME Ripen \/ UNCHANGED dispatchVars PROVE Claims /\ Servers
  <2>1. UNCHANGED <<status, claim, pc, work>>
    BY <1>11 DEF Ripen, dispatchVars
  <2> QED
    BY <1>2, <2>1 DEF ClaimsTyped
<1> HIDE DEF Claims, Servers
<1>12. Claims /\ Servers
  BY <1>4, <1>5, <1>6, <1>7, <1>8, <1>9, <1>10, <1>11 DEF DispatchNext, DispatchOne
<1> QED
  BY <1>1, <1>12, FaultTyped DEF ClaimsTyped, Claims, Servers

\* The rows are what the sweeps take them for: every row that is pending or claimed is in the
\* index exactly once and no other row is, a claim lasts exactly while its row is claimed, and
\* a marked row has an execution for the recovery sweep to describe (dynamodb.py:134).
THEOREM RowsAlwaysTrue == DispatchSpec => []RowsTrue
<1>1. DispatchInit => IndexInv /\ ClaimsTyped
  BY DispatchAssumption DEF DispatchInit, IndexInv, ClaimsTyped, Live
<1>2. DispatchInv /\ IndexInv /\ ClaimsTyped => RowsTrue
  BY DEF DispatchInv, RowsTyped, SettledRan, IndexInv, ClaimsTyped, RowsTrue, DispatchTypeOK,
     DispatchedRuns, Live, Statuses, Execs, Labels
<1>3. DispatchInv /\ IndexInv /\ ClaimsTyped /\ [DispatchNext]_dispatchVars
        => (DispatchInv /\ IndexInv /\ ClaimsTyped)'
  BY InvStep, IndexStep, ClaimsStep
<1> QED
  BY <1>1, <1>2, <1>3, InvInit, PTL DEF DispatchSpec

=============================================================================
