----------------------- MODULE PublicationSideProofs ------------------------
(***************************************************************************)
(* Proofs about what surrounds the execution of a publication: its birth   *)
(* and end (PublicationRequest, PublicationRetention), and the sweeps that *)
(* recover what has stuck (ExecutionSweep, PublicationSweep), for every    *)
(* number of commands, rows, works, publications, sweeps and redrives.     *)
(*                                                                         *)
(* SideInv says that an invocation about to commit holds an authority over *)
(* the job as it is, unless the job has moved since; that there is one     *)
(* request, the receipt's, and nobody has been told of another; that every *)
(* appended row is counted by the aggregate and by the root; and that the  *)
(* marker is written only when all that was counted is marked.             *)
(*                                                                         *)
(* A sweep settles later what it has read.  SweepInv and PubInv say what   *)
(* its reading is worth by then: it is dated by a version, and while the   *)
(* version is still the row's, what was read is still so.                  *)
(***************************************************************************)
EXTENDS PublicationRetention, ExecutionSweep, PublicationSweep, FiniteSetTheorems,
  SequenceTheorems, TLAPS

-----------------------------------------------------------------------------
(* The publication's birth and end.                                         *)

Records == [state : {"review", "approved", "deleted"}, version : Versions, linked : BOOLEAN,
            fresh : 0..(MaxClock + Freshness), updated : 0..MaxClock, expiring : BOOLEAN]
CallStates == [pc : {"idle", "resolve", "load", "commit", "store", "service"},
               key : Keys \cup {"none"}, version : Versions, at : 0..MaxClock]

\* The types of the command's variables; an invocation at work has a key.
CommandTyped ==
  /\ clock \in 0..MaxClock /\ pinned \in BOOLEAN /\ job \in Records
  /\ rows \in [Rows -> RowState] /\ receipt \in Requests \cup {NoRequest}
  /\ call \in [Calls -> CallStates]
  /\ \A c \in Calls : call[c].pc # "idle" => call[c].key \in Keys

\* How far the job's version can have got.
VersionBounded ==
  /\ job.state = "review" => job.version <= MaxEdits
  /\ ~job.linked => job.version <= MaxEdits + 1
  /\ ~Terminal => job.version <= MaxEdits + 2

\* Until a request is committed nothing of a publication is there; from then on the receipt is
\* the one permit's request, and nobody has been told anything else.
OneRequest ==
  \/ /\ ~job.linked /\ job.state # "deleted" /\ issued = <<>> /\ told = {}
     /\ ~Terminal /\ \A r \in Rows : ~Present(r)
  \/ /\ job.linked /\ job.state # "review" /\ receipt \in Requests
     /\ issued = <<receipt>> /\ told \subseteq {receipt}

\* What an invocation is about to commit was authorised, unless the job has moved since.
CommitAuthorised ==
  \A c \in Calls : call[c].pc = "commit" =>
    /\ call[c].version <= job.version
    /\ call[c].version = job.version =>
         ~job.linked /\ job.updated <= call[c].at /\ call[c].at < job.fresh

\* The rows of the publication move its aggregate until the settlement, and none after it.
AppendsCounted ==
  /\ root \in [version : 0..MaxRoot, terminal : 0..NoTime]
  /\ worker \in 0..MaxRoot \cup {NotRead}
  /\ ~Terminal => root.version = Cardinality({r \in Appended : Present(r)})
  /\ worker # NotRead => worker <= root.version
  /\ Terminal /\ worker # NotRead => worker < root.version

\* Rows are given their expiry after the settlement only; whoever may write the marker has seen
\* every row expire.
MarkerEarned ==
  /\ stream \in [tries : 0..MaxDeliveries, at : {"none", "waiting", "delivered", "done", "dead"}]
  /\ ret \in [Deliveries -> [pc : {"idle", "load", "inventory", "first", "next", "mark", "replay"},
                             todo : SUBSET Rows]]
  /\ marker \in Deliveries \cup {NoDelivery}
  /\ stream.at # "none" => Terminal
  /\ \A d \in Deliveries : ret[d].pc # "idle" => Terminal
  /\ marker # NoDelivery => Terminal
  /\ (marker # NoDelivery \/ \E d \in Deliveries : ret[d].pc = "mark")
       => job.expiring /\ \A r \in Rows : rows[r] # "kept"

SideInv == CommandTyped /\ VersionBounded /\ OneRequest /\ CommitAuthorised /\ AppendsCounted
           /\ MarkerEarned

-----------------------------------------------------------------------------

CommandSteps == /\ UNCHANGED retentionVars
                /\ Tick \/ Edit \/ Approve \/ Disconnect

LEMMA RowNames ==
  /\ {"meta", "locator", "receipt", "report"} \subseteq Rows /\ "job" \notin Rows
  /\ Appended \cap NewRows = {} /\ "report" \notin Appended /\ "job" \notin Appended
  /\ Appended \subseteq Rows
BY RetentionAssumption DEF Rows, NewRows

LEMMA SideInvInit == Init => SideInv
<1> SUFFICES ASSUME Init PROVE SideInv
  OBVIOUS
<1> USE RequestAssumption, RetentionAssumption
<1>1. CommandTyped
  BY DEF Init, RequestInit, CommandTyped, Records, CallStates, Versions, Idle, RowState
<1>2. VersionBounded
  BY DEF Init, RequestInit, VersionBounded, Terminal, NoTime
<1>3. OneRequest
  BY DEF Init, RequestInit, OneRequest, Terminal, NoTime, Present
<1>4. CommitAuthorised
  BY DEF Init, RequestInit, CommitAuthorised, Idle
<1>5. AppendsCounted
  <2>1. {r \in Appended : Present(r)} = {}
    BY RowNames DEF Init, RequestInit, Present
  <2>2. MaxRoot \in Nat
    BY FS_CardinalityType DEF MaxRoot
  <2> QED
    BY <2>1, <2>2, FS_EmptySet DEF Init, AppendsCounted, Terminal, NoTime, NotRead
<1>6. MarkerEarned
  BY DEF Init, MarkerEarned, Terminal, NoTime, Asleep
<1> QED
  BY <1>1, <1>2, <1>3, <1>4, <1>5, <1>6 DEF SideInv

\* What each conjunct of the invariant rests on in one step of one invocation.
LEMMA CommandTypedStep == ASSUME SideInv, [Next]_vars PROVE CommandTyped'
<1> USE RequestAssumption, RetentionAssumption DEF CommandTyped
<1> CommandTyped /\ VersionBounded /\ CommitAuthorised
  BY DEF SideInv
<1> MaxClock \in Nat /\ MaxEdits \in Nat /\ Freshness \in Nat
  OBVIOUS
<1>1. ASSUME UNCHANGED requestVars PROVE CommandTyped'
  BY <1>1 DEF requestVars, jobVars
<1>2. ASSUME CommandSteps PROVE CommandTyped'
  <2>1. CASE Tick \/ Disconnect
    <3>1. UNCHANGED <<job, rows, receipt, call>>
      BY <2>1 DEF Tick, Disconnect
    <3>2. clock' \in 0..MaxClock
      BY <2>1 DEF Tick, Disconnect
    <3>3. pinned' \in BOOLEAN
      BY <2>1, ZenonT(20) DEF Tick, Disconnect
    <3> QED
      BY <3>1, <3>2, <3>3
  <2>2. CASE Edit
    <3>1. job.version + 1 \in Versions
      BY <2>2 DEF Edit, Versions, Records
    <3>2. job' \in Records
      BY <2>2, <3>1 DEF Edit, Records
    <3> QED
      BY <2>2, <3>2 DEF Edit
  <2>3. CASE Approve
    <3>1. job.version + 1 \in Versions
      BY <2>3 DEF Approve, VersionBounded, Versions, Records
    <3>2. PICK f \in (clock + 1)..(clock + Freshness) :
            job' = [job EXCEPT !.state = "approved", !.version = @ + 1, !.updated = clock,
                               !.fresh = f]
      BY <2>3 DEF Approve
    <3>3. f \in 0..(MaxClock + Freshness)
      OBVIOUS
    <3>4. job' \in Records
      BY <3>1, <3>2, <3>3 DEF Records
    <3> QED
      BY <2>3, <3>4 DEF Approve
  <2> QED
    BY <1>2, <2>1, <2>2, <2>3 DEF CommandSteps
<1>3. ASSUME NEW c \in Calls, CallStep(c) PROVE CommandTyped'
  <2>0. call[c] \in CallStates /\ (call[c].pc # "idle" => call[c].key \in Keys)
    OBVIOUS
  <2>1. ASSUME Submit(c) PROVE CommandTyped'
    BY <2>1 DEF Submit, ReadOnly, jobVars, CallStates, Records, Versions
  <2>2. ASSUME ReadOnly, Returns(c) PROVE CommandTyped'
    BY <2>2 DEF ReadOnly, Returns, jobVars, CallStates, Idle, Versions
  <2>3. ASSUME ReadOnly, call[c].pc # "idle", NEW pc \in {"load", "store", "service"}, Goes(c, pc)
        PROVE  CommandTyped'
    BY <2>0, <2>3 DEF ReadOnly, Goes, jobVars, CallStates
  <2>4. ASSUME Load(c) PROVE CommandTyped'
    <3>1. CASE Returns(c)
      BY <2>2, <2>4, <3>1 DEF Load
    <3>2. CASE call' = [call EXCEPT ![c] = [@ EXCEPT !.pc = "commit", !.version = job.version,
                                                     !.at = clock]]
      BY <2>0, <2>4, <3>2 DEF Load, ReadOnly, jobVars, CallStates, Records
    <3> QED
      BY <2>4, <3>1, <3>2 DEF Load
  <2>5. ASSUME Commit(c) PROVE CommandTyped'
    <3>1. job' \in Records
      <4>1. job.version + 1 \in Versions
        BY <2>5 DEF Commit, AuthorityUnchanged, CommitAuthorised, VersionBounded, Versions, Records
      <4> QED
        BY <2>0, <2>5, <4>1 DEF Commit, Committed, CallStates, Records
    <3>2. rows' \in [Rows -> RowState]
      BY <2>5 DEF Commit, Committed, RowState
    <3>3. receipt' \in Requests
      BY <2>0, <2>5 DEF Commit, Committed, CallStates, Requests
    <3>4. /\ call' \in [Calls -> CallStates]
          /\ \A d \in Calls : call'[d].pc # "idle" => call'[d].key \in Keys
      BY <2>5 DEF Commit, Returns, Idle, CallStates, Versions
    <3> QED
      BY <2>5, <3>1, <3>2, <3>3, <3>4 DEF Commit
  <2> QED
    BY <1>3, <2>0, <2>1, <2>2, <2>3, <2>4, <2>5 DEF CallStep, Replay, NoReplay, Cancelled,
       StoreResolves,
       ServiceResolves, Fails, AnswerFromReceipt
<1>4. ASSUME UNCHANGED <<clock, pinned, receipt, call, issued, told>>, job' \in Records,
             rows' \in [Rows -> RowState]
      PROVE  CommandTyped'
  BY <1>4
<1>5. ASSUME AppendRow PROVE CommandTyped'
  BY <1>4, <1>5 DEF AppendRow, jobVars, RowState
<1>6. ASSUME SettlePublication PROVE CommandTyped'
  <2>1. job.version + 1 \in Versions
    BY <1>6 DEF SettlePublication, VersionBounded, Versions, Records
  <2>2. job' \in Records /\ rows' \in [Rows -> RowState]
    BY <1>6, <2>1 DEF SettlePublication, RowState, Records
  <2> QED
    BY <1>4, <1>6, <2>2 DEF SettlePublication
<1>7. ASSUME NEW batch, Assign(batch) PROVE job' \in Records /\ rows' \in [Rows -> RowState]
  BY <1>7 DEF Assign, RowState, Records
<1>8. ASSUME NEW d \in Deliveries, AssignFirst(d) \/ AssignNext(d) PROVE CommandTyped'
  BY <1>4, <1>7, <1>8 DEF AssignFirst, AssignNext
<1>9. ASSUME DeleteRow PROVE CommandTyped'
  BY <1>4, <1>9 DEF DeleteRow, RowState, Records
<1> QED
  BY <1>1, <1>2, <1>3, <1>5, <1>6, <1>8, <1>9 DEF Next, vars, RequestStep, CommandSteps, ReadRoot,
     Redeliver, Deliver, Raise, RetentionStep, LoadAuthority, LoadInventory, FindMarker, Prove,
     Mark,
     MarkRefused, ReplayMarker, Quiet

\* The invocations and the retention handler change the job in few ways.
LEMMA JobMoves ==
  ASSUME SideInv, [Next]_vars
  PROVE  \/ UNCHANGED <<job, root>>
         \/ Edit /\ UNCHANGED root
         \/ Approve /\ UNCHANGED root
         \/ (\E c \in Calls : Commit(c)) /\ UNCHANGED root
         \/ SettlePublication
         \/ AppendRow
         \/ UNCHANGED root /\ job' = [job EXCEPT !.expiring = TRUE]
         \/ UNCHANGED root /\ Terminal /\ job' = [job EXCEPT !.state = "deleted"]
<1> DEFINE Goal == \/ UNCHANGED <<job, root>>
                   \/ Edit /\ UNCHANGED root
                   \/ Approve /\ UNCHANGED root
                   \/ (\E c \in Calls : Commit(c)) /\ UNCHANGED root
                   \/ SettlePublication
                   \/ AppendRow
                   \/ UNCHANGED root /\ job' = [job EXCEPT !.expiring = TRUE]
                   \/ UNCHANGED root /\ Terminal /\ job' = [job EXCEPT !.state = "deleted"]
<1> SUFFICES Goal
  OBVIOUS
<1> job \in Records
  BY DEF SideInv, CommandTyped
<1>1. ASSUME NEW batch, Assign(batch), UNCHANGED root PROVE Goal
  <2>1. CASE "job" \in batch
    <3>1. job' = [job EXCEPT !.expiring = TRUE]
      BY <1>1, <2>1 DEF Assign
    <3> QED
      BY <1>1, <3>1
  <2>2. CASE "job" \notin batch
    <3>1. job' = job
      BY <1>1, <2>2 DEF Assign, Records
    <3> QED
      BY <1>1, <3>1
  <2> QED
    BY <2>1, <2>2
<1>2. ASSUME NEW d \in Deliveries, AssignFirst(d) \/ AssignNext(d) PROVE Goal
  <2> HIDE DEF Goal
  <2> QED
    BY <1>1, <1>2 DEF AssignFirst, AssignNext
<1>3. ASSUME DeleteRow PROVE Goal
  BY <1>3 DEF DeleteRow, retentionVars
<1>4. ASSUME NEW c \in Calls, CallStep(c), UNCHANGED retentionVars PROVE Goal
  BY <1>4 DEF CallStep, Submit, Replay, NoReplay, Load, Cancelled, StoreResolves,
     ServiceResolves, Fails,
     ReadOnly, jobVars, retentionVars
<1>5. ASSUME NEW d \in Deliveries,
             Deliver(d) \/ Raise(d) \/ LoadAuthority(d) \/ LoadInventory(d) \/ FindMarker(d)
               \/ Prove(d) \/ Mark(d) \/ MarkRefused(d) \/ ReplayMarker(d)
      PROVE  Goal
  BY <1>5 DEF Deliver, Raise, LoadAuthority, LoadInventory, FindMarker, Prove, Mark, MarkRefused,
     ReplayMarker, Quiet, requestVars, jobVars
<1>6. ASSUME ReadRoot \/ Redeliver \/ UNCHANGED vars PROVE Goal
  BY <1>6 DEF ReadRoot, Redeliver, Quiet, requestVars, jobVars, vars, retentionVars
<1>7. ASSUME Tick \/ Disconnect, UNCHANGED retentionVars PROVE Goal
  BY <1>7 DEF Tick, Disconnect, retentionVars
<1>8. ASSUME Edit \/ Approve, UNCHANGED retentionVars PROVE Goal
  BY <1>8 DEF retentionVars
<1> HIDE DEF Goal
<1>9. ASSUME SettlePublication \/ AppendRow PROVE Goal
  BY <1>9 DEF Goal
<1> QED
  BY <1>2, <1>3, <1>4, <1>5, <1>6, <1>7, <1>8, <1>9 DEF Next, RequestStep, RetentionStep

\* The only step that writes what the permit and its answers are about is the commit, and the
\* only ones that tell anybody of it repeat the receipt.
LEMMA AnswerMoves ==
  ASSUME SideInv, [Next]_vars
  PROVE  \/ \E c \in Calls : Commit(c) /\ UNCHANGED retentionVars
         \/ UNCHANGED <<receipt, issued, told>>
         \/ UNCHANGED <<receipt, issued>> /\ Present("receipt") /\ told' = told \cup {receipt}
<1> DEFINE Goal == \/ \E c \in Calls : Commit(c) /\ UNCHANGED retentionVars
                   \/ UNCHANGED <<receipt, issued, told>>
                   \/ UNCHANGED <<receipt, issued>> /\ Present("receipt") /\ told' = told \cup {receipt}
<1> SUFFICES Goal
  OBVIOUS
<1>1. ASSUME NEW c \in Calls, CallStep(c), UNCHANGED retentionVars PROVE Goal
  BY <1>1 DEF CallStep, Submit, Replay, NoReplay, Load, Cancelled, StoreResolves,
     ServiceResolves, Fails,
     ReadOnly, AnswerFromReceipt, Resolved
<1>2. ASSUME UNCHANGED <<receipt, issued, told>> PROVE Goal
  BY <1>2
<1> HIDE DEF Goal
<1> QED
  BY <1>1, <1>2 DEF Next, RequestStep, RetentionStep, vars, requestVars, Tick, Edit, Approve,
     Disconnect,
     ReadRoot, AppendRow, SettlePublication, Redeliver, DeleteRow, Deliver, Raise, LoadAuthority,
     LoadInventory, FindMarker, AssignFirst, AssignNext, Prove, Mark, MarkRefused, ReplayMarker, Quiet

\* Until the settlement rows only come, and after it they only lose their lifetime.
LEMMA RowMoves ==
  ASSUME SideInv, [Next]_vars
  PROVE  \/ UNCHANGED rows
         \/ (\E c \in Calls : Commit(c)) /\ UNCHANGED retentionVars
         \/ AppendRow
         \/ SettlePublication
         \/ /\ Terminal /\ UNCHANGED root /\ rows' \in [Rows -> RowState]
            /\ \A r \in Rows : rows'[r] = "kept" => rows[r] = "kept"
<1> DEFINE Goal == \/ UNCHANGED rows
                   \/ (\E c \in Calls : Commit(c)) /\ UNCHANGED retentionVars
                   \/ AppendRow
                   \/ SettlePublication
                   \/ /\ Terminal /\ UNCHANGED root /\ rows' \in [Rows -> RowState]
                      /\ \A r \in Rows : rows'[r] = "kept" => rows[r] = "kept"
<1> SUFFICES Goal
  OBVIOUS
<1> rows \in [Rows -> RowState] /\ MarkerEarned /\ CommandTyped'
  BY CommandTypedStep DEF SideInv, CommandTyped
<1>1. ASSUME NEW d \in Deliveries, NEW batch, Assign(batch), ret[d].pc # "idle", UNCHANGED root
      PROVE  Goal
  BY <1>1 DEF Assign, MarkerEarned, CommandTyped
<1>2. ASSUME DeleteRow PROVE Goal
  BY <1>2 DEF DeleteRow, retentionVars, CommandTyped
<1>3. ASSUME UNCHANGED rows PROVE Goal
  BY <1>3
<1>4. ASSUME AppendRow \/ SettlePublication PROVE Goal
  BY <1>4
<1>5. ASSUME NEW c \in Calls, Commit(c), UNCHANGED retentionVars PROVE Goal
  BY <1>5
<1> HIDE DEF Goal
<1>6. ASSUME NEW d \in Deliveries, AssignFirst(d) \/ AssignNext(d) PROVE Goal
  BY <1>1, <1>6 DEF AssignFirst, AssignNext
<1> QED
  BY <1>2, <1>3, <1>4, <1>5, <1>6 DEF Next, RequestStep, CallStep, Submit, Replay, NoReplay,
     Load, Cancelled,
     StoreResolves, ServiceResolves, Fails, ReadOnly, RetentionStep, vars, requestVars, Tick, Edit,
     Approve, Disconnect, ReadRoot, Redeliver, Deliver, Raise, LoadAuthority,
     LoadInventory, FindMarker, Prove, Mark, MarkRefused, ReplayMarker, Quiet

LEMMA BoundsTyped == MaxClock \in Nat /\ MaxEdits \in Nat /\ Freshness \in Nat /\ NoTime \in Nat
                     /\ MaxClock < NoTime
BY RequestAssumption DEF NoTime

LEMMA VersionStep == ASSUME SideInv, [Next]_vars PROVE VersionBounded'
<1> job \in Records /\ VersionBounded /\ OneRequest /\ CommitAuthorised /\ clock \in 0..MaxClock
  BY DEF SideInv, CommandTyped
<1> job.version \in Nat
  BY RequestAssumption DEF Records, Versions
<1> USE BoundsTyped DEF VersionBounded, Terminal
<1>1. CASE UNCHANGED <<job, root>>
  BY <1>1
<1>2. CASE Edit /\ UNCHANGED root
  BY <1>2 DEF Edit, Records
<1>3. CASE Approve /\ UNCHANGED root
  BY <1>3 DEF Approve, Records
<1>4. ASSUME NEW c \in Calls, Commit(c), UNCHANGED root PROVE VersionBounded'
  BY <1>4 DEF Commit, Committed, AuthorityUnchanged, CommitAuthorised, Records
<1>5. CASE SettlePublication
  <2>1. root'.terminal # NoTime /\ job'.version = job.version + 1 /\ job'.state = job.state
        /\ job'.linked = job.linked
    BY <1>5 DEF SettlePublication, Records
  <2>2. job.linked /\ job.state # "review"
    BY <1>5, RowNames DEF SettlePublication, OneRequest
  <2> QED
    BY <2>1, <2>2
<1>6. CASE AppendRow
  BY <1>6, SideInv DEF AppendRow, jobVars, SideInv, AppendsCounted
<1>7. CASE UNCHANGED root /\ job' = [job EXCEPT !.expiring = TRUE]
  BY <1>7 DEF Records
<1>8. CASE UNCHANGED root /\ Terminal /\ job' = [job EXCEPT !.state = "deleted"]
  BY <1>8 DEF Records
<1> QED
  BY <1>1, <1>2, <1>3, <1>4, <1>5, <1>6, <1>7, <1>8, JobMoves

\* The one permit is for the request that finds nothing there.
LEMMA CommitFirst ==
  ASSUME SideInv, NEW c \in Calls, Commit(c)
  PROVE  /\ ~job.linked /\ issued = <<>> /\ told = {} /\ job.state = "approved"
         /\ job.version = call[c].version /\ job.updated <= call[c].at /\ call[c].at < job.fresh
<1> CommitAuthorised /\ OneRequest
  BY DEF SideInv
<1> QED
  BY DEF Commit, AuthorityUnchanged, CommitAuthorised, OneRequest

LEMMA OneRequestStep == ASSUME SideInv, [Next]_vars PROVE OneRequest'
<1> job \in Records /\ OneRequest /\ AppendsCounted /\ CommandTyped'
  BY CommandTypedStep DEF SideInv, CommandTyped
<1>1. ASSUME NEW c \in Calls, Commit(c) PROVE OneRequest'
  <2>1. issued' = <<receipt'>> /\ told' \subseteq {receipt'}
    <3>1. issued = <<>> /\ told = {}
      BY <1>1, CommitFirst
    <3>2. issued' = Append(issued, receipt') /\ told' \in {told, told \cup {receipt'}}
      BY <1>1 DEF Commit, Committed
    <3> HIDE <1>1
    <3> QED
      BY <3>1, <3>2
  <2>2. job'.linked /\ job'.state # "review"
    BY <1>1, CommitFirst DEF Commit, Committed, Records
  <2>3. receipt' \in Requests
    BY <1>1, CommitFirst, SideInv DEF Commit, Committed, SideInv, CommandTyped, CallStates, Requests
  <2> QED
    BY <2>1, <2>2, <2>3 DEF OneRequest
<1>2. CASE ~job.linked /\ ~\E c \in Calls : Commit(c)
  <2>1. /\ ~Terminal /\ job.state # "deleted" /\ issued = <<>> /\ told = {}
        /\ \A r \in Rows : ~Present(r)
    BY <1>2 DEF OneRequest
  <2>2. UNCHANGED <<receipt, issued, told>>
    BY <1>2, <2>1, AnswerMoves, RowNames
  <2>3. ~SettlePublication /\ ~AppendRow
    BY <2>1, RowNames DEF SettlePublication, AppendRow
  <2>4. UNCHANGED rows
    BY <1>2, <2>1, <2>3, RowMoves
  <2>5. UNCHANGED root /\ job'.state # "deleted" /\ ~job'.linked
    BY <1>2, <2>1, <2>3, JobMoves DEF Edit, Approve, Records
  <2> QED
    BY <2>1, <2>2, <2>4, <2>5 DEF OneRequest, Terminal, Present
<1>3. CASE job.linked /\ ~\E c \in Calls : Commit(c)
  <2>1. /\ job.state # "review" /\ receipt \in Requests /\ issued = <<receipt>>
        /\ told \subseteq {receipt}
    BY <1>3 DEF OneRequest
  <2>2. UNCHANGED <<receipt, issued>> /\ told' \subseteq {receipt}
    BY <1>3, <2>1, AnswerMoves
  <2>3. job'.linked /\ job'.state # "review"
    BY <1>3, <2>1, JobMoves DEF Edit, Approve, SettlePublication, AppendRow, jobVars, Records
  <2> QED
    BY <2>1, <2>2, <2>3 DEF OneRequest
<1> QED
  BY <1>1, <1>2, <1>3

\* An invocation is about to commit because it has just been authorised, or was already.
LEMMA CallMoves ==
  ASSUME SideInv, [Next]_vars, NEW c \in Calls, call'[c].pc = "commit"
  PROVE  \/ call'[c] = call[c]
         \/ /\ UNCHANGED job /\ ~job.linked /\ call'[c].version = job.version
            /\ call'[c].at = clock /\ job.updated <= clock /\ clock < job.fresh
<1> call \in [Calls -> CallStates]
  BY DEF SideInv, CommandTyped
<1>1. CASE UNCHANGED call
  BY <1>1
<1>2. ASSUME NEW d \in Calls, CallStep(d), d # c PROVE call'[c] = call[c]
  BY <1>2 DEF CallStep, Submit, Replay, NoReplay, Load, Commit, Cancelled, StoreResolves,
     ServiceResolves,
     Fails, AnswerFromReceipt, Goes, Returns
<1>3. CASE CallStep(c)
  <2>1. CASE Load(c)
    <3>1. CASE Returns(c)
      BY <2>1, <3>1 DEF Returns, Idle
    <3>2. CASE ~Returns(c)
      <4>1. /\ Admitted(c) /\ FreshlyPriced
            /\ call' = [call EXCEPT ![c] = [@ EXCEPT !.pc = "commit", !.version = job.version,
                                                     !.at = clock]]
        BY <2>1, <3>2 DEF Load
      <4> QED
        BY <2>1, <4>1 DEF Load, Admitted, FreshlyPriced, ReadOnly, jobVars, CallStates
    <3> QED
      BY <3>1, <3>2
  <2>2. CASE Submit(c)
    BY <2>2 DEF Submit
  <2>3. ASSUME Returns(c) PROVE FALSE
    BY <2>3 DEF Returns, Idle
  <2>4. ASSUME Goes(c, "load") \/ Goes(c, "store") \/ Goes(c, "service") PROVE FALSE
    BY <2>4 DEF Goes, CallStates
  <2> QED
    BY <1>3, <2>1, <2>2, <2>3, <2>4 DEF CallStep, Replay, NoReplay, Commit, Cancelled,
       StoreResolves,
       ServiceResolves, Fails, AnswerFromReceipt
<1> QED
  BY <1>1, <1>2, <1>3 DEF Next, RequestStep, RetentionStep, vars, requestVars, Tick, Edit,
     Approve, Disconnect,
     ReadRoot, AppendRow, SettlePublication, Redeliver, DeleteRow, Deliver, Raise, LoadAuthority,
     LoadInventory, FindMarker, AssignFirst, AssignNext, Prove, Mark, MarkRefused, ReplayMarker, Quiet

LEMMA AuthorisedStep == ASSUME SideInv, [Next]_vars PROVE CommitAuthorised'
<1> job \in Records /\ CommitAuthorised /\ OneRequest /\ call \in [Calls -> CallStates]
  BY DEF SideInv, CommandTyped
<1>0. \A c \in Calls : call[c].version \in Nat /\ job.version \in Nat
  BY RequestAssumption DEF CallStates, Records, Versions
<1>1. \/ job'.version = job.version + 1
      \/ /\ job'.version = job.version /\ job'.updated = job.updated /\ job'.fresh = job.fresh
         /\ job'.linked = job.linked
  <2>1. ASSUME NEW c \in Calls, Commit(c) PROVE job'.version = job.version + 1
    BY <2>1 DEF Commit, Committed, Records
  <2>2. CASE SettlePublication
    BY <2>2 DEF SettlePublication, Records
  <2>3. CASE AppendRow
    BY <2>3 DEF AppendRow, jobVars
  <2>4. CASE Edit \/ Approve
    BY <2>4 DEF Edit, Approve, Records
  <2>5. CASE job' = [job EXCEPT !.expiring = TRUE] \/ job' = [job EXCEPT !.state = "deleted"]
    BY <2>5 DEF Records
  <2> QED
    BY <2>1, <2>2, <2>3, <2>4, <2>5, JobMoves
<1> SUFFICES ASSUME NEW c \in Calls, call'[c].pc = "commit"
             PROVE  /\ call'[c].version <= job'.version
                    /\ call'[c].version = job'.version =>
                         ~job'.linked /\ job'.updated <= call'[c].at /\ call'[c].at < job'.fresh
  BY DEF CommitAuthorised
<1>2. CASE call'[c] = call[c]
  BY <1>0, <1>1, <1>2 DEF CommitAuthorised
<1>3. CASE call'[c] # call[c]
  BY <1>0, <1>3, CallMoves
<1> QED
  BY <1>2, <1>3

\* The rows that workers have appended.
Appends == {r \in Appended : Present(r)}

LEMMA AppendsFinite ==
  IsFiniteSet(Appends) /\ Cardinality(Appends) \in Nat /\ Cardinality(Appends) <= Cardinality(Appended)
  /\ Cardinality(Appended) \in Nat
<1>1. Appends \subseteq Appended /\ IsFiniteSet(Appended)
  BY RetentionAssumption DEF Appends
<1> QED
  BY <1>1, FS_Subset, FS_CardinalityType

LEMMA RootMoves ==
  ASSUME SideInv, [Next]_vars
  PROVE  \/ UNCHANGED <<root, worker>>
         \/ UNCHANGED <<root, rows>> /\ ~Terminal /\ worker' = root.version
         \/ AppendRow
         \/ SettlePublication
BY DEF Next, RequestStep, RetentionStep, vars, requestVars, retentionVars,
     ReadRoot, Redeliver, DeleteRow, Deliver, Raise, LoadAuthority,
     LoadInventory, FindMarker, AssignFirst, AssignNext, Prove, Mark, MarkRefused, ReplayMarker, Quiet

LEMMA AppendsStep == ASSUME SideInv, [Next]_vars PROVE AppendsCounted'
<1> AppendsCounted /\ OneRequest /\ CommandTyped /\ CommandTyped'
  BY CommandTypedStep DEF SideInv
<1>0. /\ MaxRoot \in Nat /\ MaxRoot = Cardinality(Appended) + 1 /\ NotRead = MaxRoot + 1
      /\ NoTime \in Nat
      /\ MaxClock < NoTime /\ root.version \in 0..MaxRoot
  BY AppendsFinite, BoundsTyped DEF MaxRoot, NotRead, AppendsCounted
<1>1. CASE UNCHANGED <<root, worker>> /\ ~AppendRow /\ ~SettlePublication
  <2>1. CASE Terminal
    BY <1>1, <2>1 DEF AppendsCounted, Terminal
  <2>2. CASE ~Terminal
    <3>1. \A r \in Appended : Present(r)' = Present(r)
      <4>1. CASE UNCHANGED rows
        BY <4>1 DEF Present
      <4>2. ASSUME NEW c \in Calls, Commit(c) PROVE \A r \in Appended : Present(r)' = Present(r)
        BY <4>2, RowNames DEF Commit, Committed, Present
      <4> QED
        BY <1>1, <2>2, <4>1, <4>2, RowMoves
    <3>2. {r \in Appended : Present(r)}' = {r \in Appended : Present(r)}
      BY <3>1
    <3>3. root'.version = root.version /\ root' = root /\ worker' = worker
      BY <1>1
    <3> QED
      BY <2>2, <3>2, <3>3 DEF AppendsCounted, Terminal
  <2> QED
    BY <2>1, <2>2
<1>2. CASE UNCHANGED <<root, rows>> /\ ~Terminal /\ worker' = root.version
  BY <1>0, <1>2 DEF AppendsCounted, Terminal, Present
<1>3. CASE AppendRow
  <2>1. worker = root.version /\ worker' = NotRead /\ root' = [root EXCEPT !.version = @ + 1]
    BY <1>3 DEF AppendRow
  <2>2. ~Terminal
    BY <1>0, <2>1 DEF AppendsCounted
  <2>3. PICK r \in Appended : ~Present(r) /\ rows' = [rows EXCEPT ![r] = "kept"]
    BY <1>3 DEF AppendRow
  <2>4. Appends' = Appends \cup {r} /\ r \notin Appends
    BY <2>3, RowNames DEF Appends, Present, CommandTyped
  <2>5. Cardinality(Appends') = Cardinality(Appends) + 1
    BY <2>4, AppendsFinite, FS_AddElement
  <2>6. Appends' \subseteq Appended
    BY <2>4 DEF Appends
  <2>7. Cardinality(Appends') <= Cardinality(Appended)
    BY <2>6, RetentionAssumption, FS_Subset
  <2>8. root.version = Cardinality(Appends) /\ ~Terminal'
    BY <2>1, <2>2 DEF AppendsCounted, Appends, Terminal
  <2>9. root'.version = root.version + 1 /\ root'.terminal = root.terminal
        /\ root' \in [version : Nat, terminal : 0..NoTime]
    BY <2>1 DEF AppendsCounted
  <2>10. root'.version = Cardinality(Appends') /\ root'.version <= MaxRoot
    BY <1>0, <2>5, <2>7, <2>8, <2>9, AppendsFinite
  <2>11. root' \in [version : 0..MaxRoot, terminal : 0..NoTime]
    BY <1>0, <2>9, <2>10
  <2> QED
    BY <2>1, <2>8, <2>10, <2>11 DEF AppendsCounted, Appends
<1>4. CASE SettlePublication
  <2>1. ~Terminal /\ root' = [version |-> root.version + 1, terminal |-> clock] /\ worker' = worker
    BY <1>4 DEF SettlePublication
  <2>2. root.version = Cardinality(Appends)
    BY <2>1 DEF AppendsCounted, Appends
  <2>3. root.version + 1 \in 0..MaxRoot
    BY <1>0, <2>2, AppendsFinite
  <2>4. clock \in 0..NoTime /\ clock # NoTime
    BY <1>0, BoundsTyped DEF CommandTyped
  <2>5. root' \in [version : 0..MaxRoot, terminal : 0..NoTime] /\ Terminal'
    BY <2>1, <2>3, <2>4 DEF Terminal
  <2>6. worker \in 0..MaxRoot \cup {NotRead} /\ (worker # NotRead => worker <= root.version)
    BY DEF AppendsCounted
  <2>7. worker' # NotRead => worker' < root'.version
    BY <1>0, <2>1, <2>6
  <2> QED
    BY <1>0, <2>1, <2>5, <2>6, <2>7 DEF AppendsCounted
<1> QED
  BY <1>1, <1>2, <1>3, <1>4, RootMoves

\* What the marker and its writers rest on lasts.
LEMMA ExpiryLasts ==
  ASSUME SideInv, [Next]_vars, Terminal, job.expiring, \A r \in Rows : rows[r] # "kept"
  PROVE  Terminal' /\ job'.expiring /\ \A r \in Rows : rows'[r] # "kept"
<1> AppendsCounted /\ OneRequest /\ job \in Records /\ rows \in [Rows -> RowState]
  BY DEF SideInv, CommandTyped
<1>1. job.linked /\ ~\E c \in Calls : Commit(c)
  BY CommitFirst DEF OneRequest
<1>2. ~SettlePublication /\ ~AppendRow
  <2>1. ASSUME AppendRow PROVE FALSE
    <3>1. worker = root.version /\ root.version \in Nat /\ worker # NotRead
      BY <2>1, AppendsFinite DEF AppendRow, AppendsCounted, NotRead, MaxRoot
    <3> QED
      BY <3>1 DEF AppendsCounted
  <2> QED
    BY <2>1 DEF SettlePublication
<1>3. UNCHANGED root /\ job'.expiring
  BY <1>1, <1>2, JobMoves DEF Edit, Approve, OneRequest, Records
<1>4. \A r \in Rows : rows'[r] # "kept"
  BY <1>1, <1>2, RowMoves
<1> QED
  BY <1>3, <1>4 DEF Terminal

LEMMA TerminalStays == ASSUME SideInv, [Next]_vars, Terminal PROVE Terminal'
<1>1. root \in [version : 0..MaxRoot, terminal : 0..NoTime]
  BY DEF SideInv, AppendsCounted
<1> QED
  BY <1>1, RootMoves DEF AppendRow, SettlePublication, Terminal

LEMMA MarkerStep == ASSUME SideInv, [Next]_vars PROVE MarkerEarned'
<1> MarkerEarned /\ AppendsCounted /\ CommandTyped
  BY DEF SideInv
<1> DEFINE Steps == {"idle", "load", "inventory", "first", "next", "mark", "replay"}
           Held == Terminal /\ job.expiring /\ \A r \in Rows : rows[r] # "kept"
<1> USE RetentionAssumption
\* The delivery d is where it was, or one step further, or asleep.
<1>1. ASSUME NEW d \in Deliveries, NEW st \in [pc : Steps, todo : SUBSET Rows],
             ret' = [ret EXCEPT ![d] = st], ret[d].pc # "idle" \/ Terminal,
             stream' \in [tries : 0..MaxDeliveries,
                          at : {"none", "waiting", "delivered", "done", "dead"}],
             UNCHANGED marker, st.pc = "mark" => Held
      PROVE  MarkerEarned'
  <2>1. Terminal'
    BY <1>1, TerminalStays DEF MarkerEarned
  <2>2. ret' \in [Deliveries -> [pc : Steps, todo : SUBSET Rows]]
    BY <1>1 DEF MarkerEarned
  <2>3. marker' # NoDelivery \/ (\E e \in Deliveries : ret'[e].pc = "mark") => Held
    <3>1. CASE marker' # NoDelivery
      BY <1>1, <3>1 DEF MarkerEarned
    <3>2. ASSUME NEW e \in Deliveries, ret'[e].pc = "mark" PROVE Held
      <4>1. CASE e = d
        BY <1>1, <3>2, <4>1 DEF MarkerEarned
      <4>2. CASE e # d
        BY <1>1, <3>2, <4>2 DEF MarkerEarned
      <4> QED
        BY <4>1, <4>2
    <3> QED
      BY <3>1, <3>2
  <2>4. marker' # NoDelivery \/ (\E e \in Deliveries : ret'[e].pc = "mark")
          => job'.expiring /\ \A r \in Rows : rows'[r] # "kept"
    BY <2>3, ExpiryLasts
  <2>5. marker' \in Deliveries \cup {NoDelivery}
    BY <1>1 DEF MarkerEarned
  <2> QED
    BY <1>1, <2>1, <2>2, <2>4, <2>5 DEF MarkerEarned
<1>2. CASE UNCHANGED <<ret, marker>> /\ stream' \in [tries : 0..MaxDeliveries,
                at : {"none", "waiting", "delivered", "done", "dead"}]
           /\ (stream'.at # "none" => stream.at # "none" \/ Terminal')
  <2>1. /\ (stream'.at # "none" => Terminal')
        /\ (\A d \in Deliveries : ret'[d].pc # "idle" => Terminal')
        /\ (marker' # NoDelivery => Terminal')
    BY <1>2, TerminalStays DEF MarkerEarned
  <2>2. marker' # NoDelivery \/ (\E d \in Deliveries : ret'[d].pc = "mark") => Held
    BY <1>2 DEF MarkerEarned
  <2>3. marker' # NoDelivery \/ (\E d \in Deliveries : ret'[d].pc = "mark")
          => job'.expiring /\ \A r \in Rows : rows'[r] # "kept"
    BY <2>2, ExpiryLasts
  <2> QED
    BY <1>2, <2>1, <2>3 DEF MarkerEarned
<1>3. ASSUME NEW d \in Deliveries, NEW pc \in Steps, Turn(d, pc)
      PROVE  \E st \in [pc : Steps, todo : SUBSET Rows] : ret' = [ret EXCEPT ![d] = st] /\ st.pc = pc
  <2>1. ret[d] \in [pc : Steps, todo : SUBSET Rows]
    BY DEF MarkerEarned
  <2>2. ret' = [ret EXCEPT ![d] = [ret[d] EXCEPT !.pc = pc]]
    BY <1>3 DEF Turn
  <2>3. [ret[d] EXCEPT !.pc = pc] \in [pc : Steps, todo : SUBSET Rows]
        /\ [ret[d] EXCEPT !.pc = pc].pc = pc
    BY <2>1
  <2> QED
    BY <2>2, <2>3
<1>4. stream.tries \in 0..MaxDeliveries
      /\ \A at \in {"none", "waiting", "delivered", "done", "dead"} :
           [stream EXCEPT !.at = at] \in [tries : 0..MaxDeliveries,
                                          at : {"none", "waiting", "delivered", "done", "dead"}]
  BY DEF MarkerEarned
<1>5. Asleep \in [pc : Steps, todo : SUBSET Rows] /\ Asleep.pc = "idle"
  BY DEF Asleep
<1> HIDE DEF Held
<1>6. ASSUME NEW d \in Deliveries, Done(d), ret[d].pc # "idle", UNCHANGED marker PROVE MarkerEarned'
  BY <1>1, <1>4, <1>5, <1>6 DEF Done
<1>7. ASSUME NEW d \in Deliveries, NEW pc \in Steps \ {"mark"}, Turn(d, pc), ret[d].pc # "idle",
             UNCHANGED <<stream, marker>>
      PROVE  MarkerEarned'
  BY <1>1, <1>3, <1>7 DEF MarkerEarned
<1>8. ASSUME NEW d \in Deliveries, Deliver(d) PROVE MarkerEarned'
  <2>1. Terminal
    BY <1>8 DEF Deliver, MarkerEarned
  <2>2. [pc |-> "load", todo |-> {}] \in [pc : Steps, todo : SUBSET Rows]
    OBVIOUS
  <2>3. stream' \in [tries : 0..MaxDeliveries, at : {"none", "waiting", "delivered", "done", "dead"}]
    BY <1>8 DEF Deliver, MarkerEarned
  <2>4. ret' = [ret EXCEPT ![d] = [pc |-> "load", todo |-> {}]] /\ UNCHANGED marker
    BY <1>8 DEF Deliver, Quiet
  <2> QED
    BY <1>1, <2>1, <2>2, <2>3, <2>4
<1>9. ASSUME NEW d \in Deliveries, Raise(d) PROVE MarkerEarned'
  <2>1. stream' \in [tries : 0..MaxDeliveries, at : {"none", "waiting", "delivered", "done", "dead"}]
    BY <1>4, <1>9 DEF Raise
  <2>2. ret' = [ret EXCEPT ![d] = Asleep] /\ ret[d].pc # "idle" /\ UNCHANGED marker
    BY <1>9 DEF Raise, Quiet
  <2> QED
    BY <1>1, <1>5, <2>1, <2>2
<1>10. ASSUME NEW d \in Deliveries,
              LoadAuthority(d) \/ MarkRefused(d) \/ FindMarker(d) \/ ReplayMarker(d)
       PROVE  MarkerEarned'
  BY <1>6, <1>7, <1>10 DEF LoadAuthority, MarkRefused, FindMarker, ReplayMarker, Quiet
<1>11. ASSUME NEW d \in Deliveries, LoadInventory(d) PROVE MarkerEarned'
  <2>1. [pc |-> "first", todo |-> Targets \ {"meta", "job"}] \in [pc : Steps, todo : SUBSET Rows]
    BY DEF Targets
  <2>2. /\ ret' = [ret EXCEPT ![d] = [pc |-> "first", todo |-> Targets \ {"meta", "job"}]]
        /\ UNCHANGED <<stream, marker>> /\ ret[d].pc # "idle"
    BY <1>11 DEF LoadInventory, Quiet
  <2> QED
    BY <1>1, <2>1, <2>2 DEF MarkerEarned
<1>12. ASSUME NEW d \in Deliveries, AssignFirst(d) \/ AssignNext(d) PROVE MarkerEarned'
  <2>1. PICK chunk \in SUBSET ret[d].todo :
          \/ ret' = [ret EXCEPT ![d] = [pc |-> "next", todo |-> @.todo \ chunk]]
          \/ ret[d].pc = "next" /\ ret' = [ret EXCEPT ![d].todo = @ \ chunk]
    BY <1>12 DEF AssignFirst, AssignNext
  <2>2. /\ ret[d] \in [pc : Steps, todo : SUBSET Rows] /\ ret[d].pc # "idle"
        /\ UNCHANGED <<stream, marker>>
    BY <1>12 DEF AssignFirst, AssignNext, MarkerEarned
  <2>3. [pc |-> "next", todo |-> ret[d].todo \ chunk] \in [pc : Steps, todo : SUBSET Rows]
    BY <2>2
  <2>4. ret' = [ret EXCEPT ![d] = [pc |-> "next", todo |-> ret[d].todo \ chunk]]
    <3>1. CASE ret' = [ret EXCEPT ![d] = [pc |-> "next", todo |-> @.todo \ chunk]]
      BY <3>1
    <3>2. CASE ret[d].pc = "next" /\ ret' = [ret EXCEPT ![d].todo = @ \ chunk]
      <4>1. [ret[d] EXCEPT !.todo = @ \ chunk] = [pc |-> "next", todo |-> ret[d].todo \ chunk]
        BY <2>2, <3>2
      <4>2. ret' = [ret EXCEPT ![d] = [ret[d] EXCEPT !.todo = @ \ chunk]]
        BY <3>2
      <4> QED
        BY <4>1, <4>2
    <3> QED
      BY <2>1, <3>1, <3>2
  <2> QED
    BY <1>1, <2>2, <2>3, <2>4 DEF MarkerEarned
<1>13. ASSUME NEW d \in Deliveries, Prove(d) PROVE MarkerEarned'
  <2>1. Terminal
    BY <1>13 DEF Prove, MarkerEarned
  <2>2. job.expiring /\ \A r \in Rows : rows[r] # "kept"
    <3>1. Expiring("job") /\ \A r \in Rows : Present(r) => Expiring(r)
      BY <1>13 DEF Prove, Targets
    <3> QED
      BY <3>1, RowNames DEF Expiring, Present
  <2>3. Held
    BY <2>1, <2>2 DEF Held
  <2>4. ret[d].pc # "idle" /\ UNCHANGED <<stream, marker>> /\ Turn(d, "mark")
    BY <1>13 DEF Prove, Quiet
  <2> QED
    BY <1>1, <1>3, <2>3, <2>4 DEF MarkerEarned
<1>14. ASSUME NEW d \in Deliveries, Mark(d) PROVE MarkerEarned'
  <2>1. Terminal /\ job.expiring /\ \A r \in Rows : rows[r] # "kept"
    BY <1>14 DEF Mark, MarkerEarned
  <2>2. Terminal' /\ job'.expiring /\ \A r \in Rows : rows'[r] # "kept"
    BY <2>1, ExpiryLasts
  <2>3. marker' = d
    BY <1>14 DEF Mark
  <2>4. ret' \in [Deliveries -> [pc : Steps, todo : SUBSET Rows]]
    BY <1>3, <1>5, <1>14 DEF Mark, Done, MarkerEarned
  <2>5. stream' \in [tries : 0..MaxDeliveries, at : {"none", "waiting", "delivered", "done", "dead"}]
    BY <1>4, <1>14 DEF Mark, Done, MarkerEarned
  <2> QED
    BY <2>2, <2>3, <2>4, <2>5 DEF MarkerEarned
<1>15. CASE Redeliver
  BY <1>2, <1>4, <1>15 DEF Redeliver, Quiet
<1>16. CASE SettlePublication
  <2>1. Terminal'
    BY <1>16, BoundsTyped DEF SettlePublication, Terminal, CommandTyped
  <2> QED
    BY <1>2, <1>4, <1>16, <2>1 DEF SettlePublication
<1>17. CASE UNCHANGED <<stream, ret, marker>>
  BY <1>2, <1>17 DEF MarkerEarned
<1> QED
  BY <1>8, <1>9, <1>10, <1>11, <1>12, <1>13, <1>14, <1>15, <1>16, <1>17 DEF Next, RequestStep,
     RetentionStep, vars, retentionVars, ReadRoot, AppendRow, DeleteRow

LEMMA SideInvStep == ASSUME SideInv, [Next]_vars PROVE SideInv'
BY CommandTypedStep, VersionStep, OneRequestStep, AuthorisedStep, AppendsStep, MarkerStep
   DEF SideInv

\* One request gets the permit of a job, and every answer is about it: whichever keys are used
\* again, with whatever body, while the rows of the publication disappear one by one
\* (publication/service.py request_publication, publication/dynamodb.py).
THEOREM RequestAlwaysSound == Spec => []RequestSound
<1>1. ASSUME SideInv PROVE RequestSound
  <2> CommandTyped /\ OneRequest
    BY <1>1 DEF SideInv
  <2>1. Len(issued) <= 1 /\ issued \in Seq(Requests) /\ told \subseteq Requests
    <3>1. CASE issued = <<>> /\ told = {}
      BY <3>1
    <3>2. CASE receipt \in Requests /\ issued = <<receipt>> /\ told \subseteq {receipt}
      <4>1. Len(<<receipt>>) = 1 /\ <<receipt>> \in Seq(Requests)
        BY <3>2
      <4> QED
        BY <3>2, <4>1
    <3> QED
      BY <3>1, <3>2 DEF OneRequest
  <2>2. \A t \in told : issued # <<>> /\ t = issued[1]
    BY DEF OneRequest
  <2>3. RequestTypeOK
    BY <2>1 DEF RequestTypeOK, CommandTyped, Records, CallStates
  <2> QED
    BY <2>1, <2>2, <2>3 DEF RequestSound, OnePermitEver, AnswersAgree
<1> QED
  BY <1>1, SideInvInit, SideInvStep, PTL DEF Spec

\* No permit is granted but for the version that was asked for, with pricing that was fresh when
\* it was looked at and with the store connection in place, although the job can change and the
\* connection go between the reads and the transaction (_require_temporal_authority).
THEOREM GrantAlwaysOnAuthority == Spec => GrantedOnAuthority
<1> DEFINE Granted == issued' # issued => LET r == issued'[Len(issued')] IN
                        /\ job.state = "approved" /\ job.version = r.version
                        /\ job.updated <= r.at /\ r.at < job.fresh
                        /\ pinned
<1>1. ASSUME SideInv, [Next]_vars PROVE [Granted]_requestVars
  <2>1. CASE UNCHANGED issued
    BY <2>1
  <2>2. ASSUME NEW c \in Calls, Commit(c) PROVE Granted
    <3>1. issued' = <<[key |-> call[c].key, version |-> call[c].version, at |-> call[c].at]>>
      <4>1. issued = <<>>
        BY <1>1, <2>2, CommitFirst
      <4>2. issued' = Append(issued, [key |-> call[c].key, version |-> call[c].version,
                                      at |-> call[c].at])
        BY <2>2 DEF Commit, Committed
      <4> QED
        BY <4>1, <4>2
    <3>2. /\ job.state = "approved" /\ job.version = call[c].version
          /\ job.updated <= call[c].at /\ call[c].at < job.fresh /\ pinned
      BY <1>1, <2>2, CommitFirst DEF Commit, AuthorityUnchanged
    <3> QED
      BY <3>1, <3>2
  <2> QED
    BY <1>1, <2>1, <2>2, AnswerMoves
<1> QED
  BY <1>1, SideInvInit, SideInvStep, PTL DEF Spec, GrantedOnAuthority

\* A completion marker is never wrong: whatever slow workers, overlapping deliveries, crashes and
\* expiring rows there are, once it is written no row of the publication and not the job's row
\* is without an expiry (publication/retention.py).
THEOREM MarkerAlwaysMeansExpiring == Spec => []MarkedMeansExpiring
<1>1. ASSUME SideInv PROVE MarkedMeansExpiring
  <2> MarkerEarned /\ AppendsCounted
    BY <1>1 DEF SideInv
  <2> QED
    BY DEF MarkerEarned, AppendsCounted, MarkedMeansExpiring, RetentionTypeOK
<1> QED
  BY <1>1, SideInvInit, SideInvStep, PTL DEF Spec

-----------------------------------------------------------------------------
(* The recovery of stuck executions.                                       *)

\* The types of the variables, with those that SweepTypeOK leaves open.
SweepTyped ==
  /\ row \in [Works -> {"absent", "dispatched", "completed", "failed", "cancelled"}]
  /\ index \subseteq Works /\ crossed \subseteq Works
  /\ exec \in [Works -> {"running", "over", "missing"}]
  /\ now \in 0..LastTick
  /\ version \in [Works -> Nat] /\ cancelled \in [Works -> BOOLEAN]
  /\ sweepPc \in [Sweeps -> {"idle", "read", "describe", "reread", "settle"}]
  /\ page \in [Sweeps -> Seq(Works)]
  /\ seen \in [Sweeps -> [version : Nat, cancelled : BOOLEAN]]
  /\ tries \in [Sweeps -> 0..MaxRechecks]

\* A sweep at work has a candidate in hand.
HandsFull ==
  \A s \in Sweeps : /\ (sweepPc[s] = "idle") = (page[s] = <<>>)
                    /\ Len(page[s]) <= BatchLimit

\* What a sweep has read of the job it is about to settle is the job as it is, or the job has
\* moved since.
ReadingDated ==
  \A s \in Sweeps : sweepPc[s] = "settle" =>
    LET w == Head(page[s]) IN
    /\ seen[s].version <= version[w]
    /\ seen[s].version = version[w] => seen[s].cancelled = cancelled[w]

\* A sweep settles what it has seen over, unless it was redriven since; and so it was settled.
DeadOrCrossed ==
  /\ \A s \in Sweeps, w \in Works : Settling(s, w) /\ exec[w] = "running" => w \in crossed
  /\ \A w \in Works : row[w] \in {"failed", "cancelled"} /\ exec[w] = "running" => w \in crossed

SweepInv == SweepTyped /\ HandsFull /\ ReadingDated /\ DeadOrCrossed /\ CancellationKept

LEMMA SeqFacts ==
  ASSUME NEW S, NEW q \in Seq(S), q # <<>>
  PROVE  /\ Head(q) \in S /\ Tail(q) \in Seq(S) /\ Len(q) \in Nat /\ Len(q) > 0
         /\ Len(Tail(q)) = Len(q) - 1 /\ (Len(q) = 1) = (Tail(q) = <<>>)
<1>1. Head(q) \in S /\ Tail(q) \in Seq(S) /\ Len(q) \in Nat /\ Len(q) > 0
  OBVIOUS
<1>2. Len(Tail(q)) = Len(q) - 1
  OBVIOUS
<1>3. Tail(q) = <<>> <=> Len(Tail(q)) = 0
  BY <1>1, EmptySeq
<1> QED
  BY <1>1, <1>2, <1>3

LEMMA SweepInvInit == SweepInit => SweepInv
<1> SUFFICES ASSUME SweepInit PROVE SweepInv
  OBVIOUS
<1> USE SweepAssumption DEF SweepInit
<1>1. SweepTyped
  <2>1. <<>> \in Seq(Works)
    OBVIOUS
  <2> QED
    BY <2>1 DEF SweepTyped, Unread
<1>2. HandsFull
  BY DEF HandsFull
<1>3. ReadingDated /\ DeadOrCrossed /\ CancellationKept
  BY DEF ReadingDated, DeadOrCrossed, CancellationKept, Settling
<1> QED
  BY <1>1, <1>2, <1>3 DEF SweepInv

\* What the workers, the sellers and Step Functions do leaves the sweeps where they are.
OutsideStep ==
  \/ \E w \in Works :
       \/ MarkDispatched(w) \/ Complete(w) \/ SellerCommand(w) \/ EndExecution(w)
       \/ ForgetExecution(w) \/ RedriveExecution(w) \/ IndexCatchesUp(w)
  \/ ExecutionTick

LEMMA OutsideTyped == ASSUME SweepInv, OutsideStep PROVE SweepTyped' /\ HandsFull'
<1> SweepTyped /\ HandsFull
  BY DEF SweepInv
<1>1. UNCHANGED sweepVars
  BY DEF OutsideStep, MarkDispatched, Complete, SellerCommand, EndExecution, ForgetExecution,
     RedriveExecution, IndexCatchesUp, ExecutionTick, NoSweep, sweepVars
<1>2. HandsFull'
  BY <1>1 DEF HandsFull, sweepVars
<1> USE DEF SweepTyped
<1>3. ASSUME NEW w \in Works, MarkDispatched(w) PROVE SweepTyped'
  BY <1>1, <1>3 DEF MarkDispatched, sweptJobVars, NoSweep, sweepVars
<1>4. ASSUME NEW w \in Works, Complete(w) PROVE SweepTyped'
  BY <1>1, <1>4 DEF Complete, NoSweep, sweepVars
<1>5. ASSUME NEW w \in Works, SellerCommand(w) PROVE SweepTyped'
  <2>1. cancelled' \in [Works -> BOOLEAN]
    <3>1. CASE cancelled' = [cancelled EXCEPT ![w] = TRUE]
      BY <3>1
    <3>2. CASE UNCHANGED cancelled
      BY <3>2
    <3> QED
      BY <1>5, <3>1, <3>2 DEF SellerCommand
  <2>2. version' \in [Works -> Nat]
    BY <1>5 DEF SellerCommand
  <2> QED
    BY <1>1, <1>5, <2>1, <2>2 DEF SellerCommand, NoSweep, sweepVars, workVars
<1>6. ASSUME NEW w \in Works, EndExecution(w) \/ ForgetExecution(w) PROVE SweepTyped'
  BY <1>1, <1>6 DEF EndExecution, ForgetExecution, sweptJobVars, NoSweep, sweepVars
<1>7. ASSUME NEW w \in Works, RedriveExecution(w) PROVE SweepTyped'
  BY <1>1, <1>7 DEF RedriveExecution, sweptJobVars, sweepVars
<1>8. ASSUME NEW w \in Works, IndexCatchesUp(w) PROVE SweepTyped'
  BY <1>1, <1>8 DEF IndexCatchesUp, sweptJobVars, workVars, NoSweep, sweepVars
<1>9. CASE ExecutionTick
  <2>1. now' \in 0..LastTick
    BY <1>9, SweepAssumption DEF ExecutionTick
  <2>2. UNCHANGED <<workVars, index, sweptJobVars, crossed>>
    BY <1>9 DEF ExecutionTick, NoSweep
  <2>3. /\ row' = row /\ index' = index /\ exec' = exec /\ version' = version /\ crossed' = crossed
        /\ sweepPc' = sweepPc /\ page' = page /\ seen' = seen /\ tries' = tries
    BY <1>1, <2>2 DEF sweptJobVars, workVars, sweepVars
  <2>4. cancelled' = cancelled
    BY <2>2 DEF sweptJobVars
  <2> QED
    BY <1>2, <2>1, <2>3, <2>4
<1> QED
  BY <1>2, <1>3, <1>4, <1>5, <1>6, <1>7, <1>8, <1>9 DEF OutsideStep

LEMMA OutsideDated == ASSUME SweepInv, OutsideStep PROVE ReadingDated'
<1> SweepTyped /\ HandsFull /\ ReadingDated
  BY DEF SweepInv
<1>1. UNCHANGED sweepVars
  BY DEF OutsideStep, MarkDispatched, Complete, SellerCommand, EndExecution, ForgetExecution,
     RedriveExecution, IndexCatchesUp, ExecutionTick, NoSweep, sweepVars
<1>2. \A w \in Works : \/ version'[w] = version[w] /\ cancelled'[w] = cancelled[w]
                       \/ version'[w] = version[w] + 1
  BY DEF OutsideStep, MarkDispatched, Complete, SellerCommand, EndExecution, ForgetExecution,
     RedriveExecution, IndexCatchesUp, ExecutionTick, sweptJobVars, SweepTyped
<1> SUFFICES ASSUME NEW s \in Sweeps, sweepPc[s] = "settle"
             PROVE  LET w == Head(page[s]) IN
                    /\ seen[s].version <= version'[w]
                    /\ seen[s].version = version'[w] => seen[s].cancelled = cancelled'[w]
  BY <1>1 DEF ReadingDated, sweepVars
<1>3. Head(page[s]) \in Works
  BY SeqFacts DEF SweepTyped, HandsFull
<1>4. version[Head(page[s])] \in Nat /\ seen[s].version \in Nat
  BY <1>3 DEF SweepTyped
<1> QED
  BY <1>2, <1>3, <1>4 DEF ReadingDated

LEMMA OutsideDead == ASSUME SweepInv, OutsideStep PROVE DeadOrCrossed' /\ CancellationKept'
<1> SweepTyped /\ HandsFull /\ DeadOrCrossed /\ CancellationKept
  BY DEF SweepInv
<1>1. UNCHANGED sweepVars
  BY DEF OutsideStep, MarkDispatched, Complete, SellerCommand, EndExecution, ForgetExecution,
     RedriveExecution, IndexCatchesUp, ExecutionTick, NoSweep, sweepVars
<1>2. \A s \in Sweeps, w \in Works : Settling(s, w)' = Settling(s, w)
  BY <1>1 DEF Settling, sweepVars
<1>3. ASSUME NEW w \in Works, RedriveExecution(w) PROVE DeadOrCrossed'
  <2>1. \A v \in Works : v # w => exec'[v] = exec[v]
    BY <1>3 DEF RedriveExecution, SweepTyped
  <2>2. row[w] = "dispatched" /\ UNCHANGED row
    BY <1>3 DEF RedriveExecution
  <2>3. (\E s \in Sweeps : Settling(s, w)) => w \in crossed'
    BY <1>3 DEF RedriveExecution
  <2>4. crossed \subseteq crossed'
    BY <1>3 DEF RedriveExecution
  <2> QED
    BY <1>2, <2>1, <2>2, <2>3, <2>4 DEF DeadOrCrossed
<1>4. ASSUME NEW w \in Works,
             MarkDispatched(w) \/ Complete(w) \/ SellerCommand(w) \/ EndExecution(w)
               \/ ForgetExecution(w) \/ IndexCatchesUp(w) \/ ExecutionTick
      PROVE  DeadOrCrossed'
  <2>1. \A v \in Works : exec'[v] = "running" => exec[v] = "running"
    BY <1>4 DEF MarkDispatched, Complete, SellerCommand, EndExecution, ForgetExecution,
       IndexCatchesUp,
       ExecutionTick, workVars, SweepTyped
  <2>2. \A v \in Works : row'[v] \in {"failed", "cancelled"} => row[v] = row'[v]
    BY <1>4 DEF MarkDispatched, Complete, SellerCommand, EndExecution, ForgetExecution,
       IndexCatchesUp,
       ExecutionTick, workVars, SweepTyped
  <2>3. UNCHANGED crossed
    BY <1>4 DEF MarkDispatched, Complete, SellerCommand, EndExecution, ForgetExecution,
       IndexCatchesUp,
       ExecutionTick, NoSweep
  <2> QED
    BY <1>2, <2>1, <2>2, <2>3 DEF DeadOrCrossed
<1>5. CancellationKept'
  <2>1. \A v \in Works : row'[v] = "failed" => row[v] = "failed" /\ cancelled'[v] = cancelled[v]
    BY DEF OutsideStep, MarkDispatched, Complete, SellerCommand, EndExecution, ForgetExecution,
       RedriveExecution, IndexCatchesUp, ExecutionTick, workVars, sweptJobVars, SweepTyped
  <2> QED
    BY <2>1 DEF CancellationKept
<1>6. ExecutionTick => DeadOrCrossed'
  BY <1>1, <1>2 DEF ExecutionTick, workVars, NoSweep, DeadOrCrossed
<1> QED
  BY <1>3, <1>4, <1>5, <1>6 DEF OutsideStep

\* A page is a non-empty sequence of rows, no longer than the limit.
LEMMA PageFacts ==
  ASSUME NEW S, NEW limit \in Nat, NEW n \in 1..limit, NEW q \in [1..n -> S]
  PROVE  q \in Seq(S) /\ q # <<>> /\ Len(q) <= limit
<1>1. n \in Nat
  OBVIOUS
<1>2. q \in Seq(S)
  BY <1>1, SeqDef
<1>3. Len(q) = n
  BY <1>1, <1>2, LenProperties
<1> QED
  BY <1>2, <1>3, EmptySeq

\* What one sweep does is seen in that sweep's own variables, the row it settles, and the job.
LEMMA SweepLocal ==
  ASSUME SweepTyped, NEW s \in Sweeps, List(s) \/ SweepStep(s) \/ Unavailable(s)
  PROVE  \A t \in Sweeps \ {s} : /\ sweepPc'[t] = sweepPc[t] /\ page'[t] = page[t]
                                 /\ seen'[t] = seen[t] /\ tries'[t] = tries[t]
BY DEF List, SweepStep, ReadAuthority, Describe, Reread, Settle, SettleConflict, Unavailable,
   Disposed,
   Goto, SweepTyped

\* The sweeps leave everything but rows and jobs alone.
LEMMA SweepLeaves ==
  ASSUME NEW s \in Sweeps, List(s) \/ SweepStep(s) \/ Unavailable(s)
  PROVE  UNCHANGED <<dispatched, exec, started, index, now, cancelled, crossed, redrives>>
BY DEF List, SweepStep, ReadAuthority, Describe, Reread, Settle, SettleConflict, Unavailable, World,
   Others, workVars, sweptJobVars

LEMMA DisposedTyped ==
  ASSUME SweepTyped, HandsFull, NEW s \in Sweeps, sweepPc[s] # "idle", Disposed(s)
  PROVE  /\ sweepPc' \in [Sweeps -> {"idle", "read", "describe", "reread", "settle"}]
         /\ page' \in [Sweeps -> Seq(Works)]
         /\ seen' \in [Sweeps -> [version : Nat, cancelled : BOOLEAN]]
         /\ tries' \in [Sweeps -> 0..MaxRechecks]
         /\ (sweepPc'[s] = "idle") = (page'[s] = <<>>) /\ Len(page'[s]) <= BatchLimit
         /\ sweepPc'[s] \in {"idle", "read"}
<1> USE SweepAssumption DEF SweepTyped, Disposed
<1>1. page[s] \in Seq(Works) /\ page[s] # <<>> /\ Len(page[s]) <= BatchLimit
  BY DEF HandsFull
<1>2. /\ Tail(page[s]) \in Seq(Works) /\ Len(Tail(page[s])) <= BatchLimit
      /\ (Len(page[s]) = 1) = (Tail(page[s]) = <<>>)
  <2>1. /\ Tail(page[s]) \in Seq(Works) /\ Len(page[s]) \in Nat
        /\ Len(Tail(page[s])) = Len(page[s]) - 1 /\ (Len(page[s]) = 1) = (Tail(page[s]) = <<>>)
    BY <1>1, SeqFacts
  <2> QED
    BY <1>1, <2>1
<1>3. page'[s] = Tail(page[s]) /\ sweepPc'[s] = IF Len(page[s]) = 1 THEN "idle" ELSE "read"
  OBVIOUS
<1>4. page' \in [Sweeps -> Seq(Works)]
  BY <1>2
<1>5. sweepPc' \in [Sweeps -> {"idle", "read", "describe", "reread", "settle"}]
  OBVIOUS
<1>6. /\ seen' \in [Sweeps -> [version : Nat, cancelled : BOOLEAN]]
      /\ tries' \in [Sweeps -> 0..MaxRechecks]
  BY DEF Unread
<1> QED
  BY <1>2, <1>3, <1>4, <1>5, <1>6

LEMMA SweepTypedStep ==
  ASSUME SweepInv, NEW s \in Sweeps, List(s) \/ SweepStep(s) \/ Unavailable(s)
  PROVE  SweepTyped' /\ HandsFull'
<1> SweepTyped /\ HandsFull
  BY DEF SweepInv
<1> USE SweepAssumption
<1> DEFINE Moved == /\ sweepPc' \in [Sweeps -> {"idle", "read", "describe", "reread", "settle"}]
                    /\ page' \in [Sweeps -> Seq(Works)]
                    /\ seen' \in [Sweeps -> [version : Nat, cancelled : BOOLEAN]]
                    /\ tries' \in [Sweeps -> 0..MaxRechecks]
                    /\ (sweepPc'[s] = "idle") = (page'[s] = <<>>) /\ Len(page'[s]) <= BatchLimit
<1>1. ASSUME NEW label \in {"read", "describe", "reread", "settle"}, Goto(s, label),
             sweepPc[s] # "idle",
             seen' \in [Sweeps -> [version : Nat, cancelled : BOOLEAN]]
      PROVE  Moved
  BY <1>1 DEF Goto, SweepTyped, HandsFull
<1>2. ASSUME Disposed(s), sweepPc[s] # "idle" PROVE Moved
  BY <1>2, DisposedTyped
<1>3. ASSUME List(s) PROVE Moved
  <2>1. PICK n \in 1..BatchLimit : \E q \in [1..n -> Stale] : page' = [page EXCEPT ![s] = q]
    BY <1>3 DEF List
  <2>2. PICK q \in [1..n -> Stale] : page' = [page EXCEPT ![s] = q]
    BY <2>1
  <2>3. q \in [1..n -> Works]
    BY DEF Stale, SweepTyped
  <2>4. q \in Seq(Works) /\ q # <<>> /\ Len(q) <= BatchLimit
    BY <2>3, PageFacts
  <2>5. page' \in [Sweeps -> Seq(Works)] /\ page'[s] = q
    BY <2>2, <2>4 DEF SweepTyped
  <2>6. sweepPc' = [sweepPc EXCEPT ![s] = "read"] /\ UNCHANGED <<seen, tries>>
    BY <1>3 DEF List
  <2> QED
    BY <2>4, <2>5, <2>6 DEF SweepTyped
<1>4. ASSUME ReadAuthority(s) PROVE Moved
  BY <1>1, <1>2, <1>4 DEF ReadAuthority, SweepTyped
<1>5. ASSUME Describe(s) PROVE Moved
  BY <1>1, <1>2, <1>5 DEF Describe, SweepTyped
<1>6. ASSUME Reread(s) PROVE Moved
  <2>1. CASE Disposed(s)
    BY <1>2, <1>6, <2>1 DEF Reread
  <2>2. CASE ~Disposed(s)
    <3>1. Head(page[s]) \in Works
      BY <1>6, SeqFacts DEF Reread, SweepTyped, HandsFull
    <3>2. version[Head(page[s])] \in Nat /\ cancelled[Head(page[s])] \in BOOLEAN
      BY <3>1 DEF SweepTyped
    <3>3. [version |-> version[Head(page[s])], cancelled |-> cancelled[Head(page[s])]]
            \in [version : Nat, cancelled : BOOLEAN]
      BY <3>2
    <3>4. /\ Goto(s, "settle") /\ sweepPc[s] # "idle"
          /\ seen' = [seen EXCEPT ![s] = [version |-> version[Head(page[s])],
                                          cancelled |-> cancelled[Head(page[s])]]]
      BY <1>6, <2>2 DEF Reread
    <3>5. seen' \in [Sweeps -> [version : Nat, cancelled : BOOLEAN]]
      BY <3>3, <3>4 DEF SweepTyped
    <3> QED
      BY <1>1, <3>4, <3>5
  <2> QED
    BY <2>1, <2>2
<1>7. ASSUME Settle(s) PROVE Moved
  BY <1>2, <1>7 DEF Settle
<1>8. ASSUME SettleConflict(s) PROVE Moved
  <2>1. CASE Disposed(s)
    BY <1>2, <1>8, <2>1 DEF SettleConflict
  <2>2. CASE ~Disposed(s)
    <3>1. tries[s] \in 0..MaxRechecks /\ tries[s] < MaxRechecks
      BY <1>8, <2>2 DEF SettleConflict, SweepTyped
    <3>2. tries[s] + 1 \in 0..MaxRechecks
      BY <3>1
    <3>3. /\ sweepPc' = [sweepPc EXCEPT ![s] = "reread"] /\ tries' = [tries EXCEPT ![s] = @ + 1]
          /\ seen' = [seen EXCEPT ![s] = Unread] /\ UNCHANGED page /\ sweepPc[s] = "settle"
      BY <1>8, <2>2 DEF SettleConflict
    <3>4. /\ Unread \in [version : Nat, cancelled : BOOLEAN] /\ page[s] # <<>>
          /\ Len(page[s]) <= BatchLimit
      BY <3>3 DEF Unread, HandsFull
    <3> QED
      BY <3>2, <3>3, <3>4 DEF SweepTyped
  <2> QED
    BY <2>1, <2>2
<1>9. ASSUME Unavailable(s) PROVE Moved
  <2>1. CASE Disposed(s)
    BY <1>2, <1>9, <2>1 DEF Unavailable
  <2>2. CASE ~Disposed(s)
    <3>1. <<>> \in Seq(Works) /\ Len(<<>>) = 0 /\ Unread \in [version : Nat, cancelled : BOOLEAN]
      BY DEF Unread
    <3>2. /\ sweepPc' = [sweepPc EXCEPT ![s] = "idle"] /\ page' = [page EXCEPT ![s] = <<>>]
          /\ seen' = [seen EXCEPT ![s] = Unread] /\ tries' = [tries EXCEPT ![s] = 0]
      BY <1>9, <2>2 DEF Unavailable
    <3> QED
      BY <3>1, <3>2 DEF SweepTyped
  <2> QED
    BY <2>1, <2>2
<1> HIDE DEF Moved
<1>10. Moved
  BY <1>3, <1>4, <1>5, <1>6, <1>7, <1>8, <1>9 DEF SweepStep
<1> USE DEF Moved
<1>11. HandsFull'
  <2> SUFFICES ASSUME NEW t \in Sweeps
               PROVE  (sweepPc'[t] = "idle") = (page'[t] = <<>>) /\ Len(page'[t]) <= BatchLimit
    BY DEF HandsFull
  <2>1. CASE t = s
    BY <1>10, <2>1
  <2>2. CASE t # s
    <3>1. sweepPc'[t] = sweepPc[t] /\ page'[t] = page[t]
      BY <2>2, SweepLocal
    <3> QED
      BY <3>1 DEF HandsFull
  <2> QED
    BY <2>1, <2>2
<1> HIDE DEF Moved
<1>12. version' \in [Works -> Nat]
  <2>1. CASE Settle(s)
    <3>1. Head(page[s]) \in Works
      BY <2>1, SeqFacts DEF Settle, SweepTyped, HandsFull
    <3>2. PICK w \in Works : version' = [version EXCEPT ![w] = @ + 1]
      BY <2>1, <3>1 DEF Settle
    <3> QED
      BY <3>2 DEF SweepTyped
  <2>2. CASE ~Settle(s)
    BY <2>2 DEF List, SweepStep, ReadAuthority, Describe, Reread, SettleConflict, Unavailable,
       World,
       sweptJobVars, SweepTyped
  <2> QED
    BY <2>1, <2>2
<1>13. row' \in [Works -> {"absent", "dispatched", "completed", "failed", "cancelled"}]
  <2>1. CASE Settle(s)
    <3>1. PICK to \in {"cancelled", "failed"} : row' = [row EXCEPT ![Head(page[s])] = to]
      BY <2>1 DEF Settle
    <3> QED
      BY <3>1 DEF SweepTyped
  <2>2. CASE ~Settle(s)
    BY <2>2 DEF List, SweepStep, ReadAuthority, Describe, Reread, SettleConflict, Unavailable,
       World,
       workVars, SweepTyped
  <2> QED
    BY <2>1, <2>2
<1> USE DEF Moved
<1> QED
  BY <1>10, <1>11, <1>12, <1>13, SweepLeaves DEF SweepTyped

\* A sweep reads the job before it settles, and settles the reading it has.
LEMMA SweepDatedStep ==
  ASSUME SweepInv, NEW s \in Sweeps, List(s) \/ SweepStep(s) \/ Unavailable(s)
  PROVE  ReadingDated'
<1> SweepTyped /\ HandsFull /\ ReadingDated
  BY DEF SweepInv
<1>1. UNCHANGED cancelled
  BY SweepLeaves
<1>2. \A w \in Works : /\ version[w] \in Nat
                         /\ (version'[w] = version[w] \/ version'[w] = version[w] + 1)
  <2>1. CASE Settle(s)
    BY <2>1 DEF Settle, SweepTyped
  <2>2. CASE ~Settle(s)
    BY <2>2 DEF List, SweepStep, ReadAuthority, Describe, Reread, SettleConflict, Unavailable,
       World,
       sweptJobVars, SweepTyped
  <2> QED
    BY <2>1, <2>2
<1> SUFFICES ASSUME NEW t \in Sweeps, sweepPc'[t] = "settle"
             PROVE  LET w == Head(page'[t]) IN
                    /\ seen'[t].version <= version'[w]
                    /\ seen'[t].version = version'[w] => seen'[t].cancelled = cancelled'[w]
  BY DEF ReadingDated
<1>3. CASE t # s
  <2>1. sweepPc[t] = "settle" /\ page'[t] = page[t] /\ seen'[t] = seen[t]
    BY <1>3, SweepLocal
  <2>2. Head(page[t]) \in Works /\ seen[t].version \in Nat
    BY <2>1, SeqFacts DEF SweepTyped, HandsFull
  <2> QED
    BY <1>1, <1>2, <2>1, <2>2 DEF ReadingDated
<1>4. CASE t = s
  <2>1. ~Disposed(s)
    BY <1>4, DisposedTyped DEF Disposed, SweepTyped
  <2>2. Reread(s)
    BY <1>4, <2>1 DEF List, SweepStep, ReadAuthority, Describe, Settle, SettleConflict,
       Unavailable, Goto,
       SweepTyped
  <2>3. seen' = [seen EXCEPT ![s] = [version |-> version[Head(page[s])],
                                     cancelled |-> cancelled[Head(page[s])]]]
        /\ UNCHANGED <<page, version>> /\ page[s] # <<>>
    BY <2>1, <2>2 DEF Reread, Goto, World, sweptJobVars, HandsFull
  <2>4. Head(page[s]) \in Works
    BY <2>3, SeqFacts DEF SweepTyped
  <2> QED
    BY <1>1, <1>2, <1>4, <2>3, <2>4 DEF SweepTyped
<1> QED
  BY <1>3, <1>4

LEMMA SweepDeadStep ==
  ASSUME SweepInv, NEW s \in Sweeps, List(s) \/ SweepStep(s) \/ Unavailable(s)
  PROVE  DeadOrCrossed' /\ CancellationKept'
<1> SweepTyped /\ HandsFull /\ ReadingDated /\ DeadOrCrossed /\ CancellationKept
  BY DEF SweepInv
<1>1. UNCHANGED <<exec, crossed, cancelled>>
  BY SweepLeaves
<1>2. ASSUME NEW t \in Sweeps, NEW w \in Works, Settling(t, w)', exec'[w] = "running"
      PROVE  w \in crossed'
  <2>1. CASE t # s
    BY <1>1, <1>2, <2>1, SweepLocal DEF Settling, DeadOrCrossed
  <2>2. CASE t = s /\ Settling(s, w)
    BY <1>1, <1>2, <2>2 DEF DeadOrCrossed
  <2>3. CASE t = s /\ ~Settling(s, w)
    <3>1. ~Disposed(s)
      BY <1>2, <2>3, DisposedTyped DEF Disposed, SweepTyped, Settling
    <3>2. Describe(s)
      BY <1>2, <2>3, <3>1 DEF List, SweepStep, ReadAuthority, Reread, Settle, SettleConflict,
         Unavailable,
         Goto, Settling, SweepTyped
    <3>3. exec[Head(page[s])] # "running" /\ UNCHANGED page
      BY <3>1, <3>2 DEF Describe, Goto
    <3>4. w = Head(page[s])
      BY <1>2, <2>3, <3>3 DEF Settling
    <3> QED
      BY <1>1, <1>2, <3>3, <3>4
  <2> QED
    BY <2>1, <2>2, <2>3
<1>3. ASSUME NEW w \in Works, row'[w] \in {"failed", "cancelled"}
      PROVE  /\ exec'[w] = "running" => w \in crossed'
             /\ row'[w] = "failed" => ~cancelled'[w]
  <2>1. CASE row'[w] = row[w]
    BY <1>1, <1>3, <2>1 DEF DeadOrCrossed, CancellationKept
  <2>2. CASE row'[w] # row[w]
    <3>1. Settle(s) /\ w = Head(page[s])
      BY <2>2 DEF List, SweepStep, ReadAuthority, Describe, Reread, Settle, SettleConflict,
         Unavailable,
         World, workVars, SweepTyped
    <3>2. Settling(s, w)
      BY <3>1 DEF Settle, Settling
    <3>3. seen[s].cancelled = cancelled[w]
      BY <3>1 DEF Settle, Current, ReadingDated
    <3>4. row'[w] = IF seen[s].cancelled THEN "cancelled" ELSE "failed"
      BY <3>1 DEF Settle, SweepTyped
    <3> QED
      BY <1>1, <3>2, <3>3, <3>4 DEF DeadOrCrossed
  <2> QED
    BY <2>1, <2>2
<1> QED
  BY <1>2, <1>3 DEF DeadOrCrossed, CancellationKept

LEMMA SweepInvStep == ASSUME SweepInv, [SweepNext]_executionVars PROVE SweepInv'
<1>1. CASE OutsideStep
  BY <1>1, OutsideTyped, OutsideDated, OutsideDead DEF SweepInv
<1>2. ASSUME NEW s \in Sweeps, List(s) \/ SweepStep(s) \/ Unavailable(s) PROVE SweepInv'
  BY <1>2, SweepTypedStep, SweepDatedStep, SweepDeadStep DEF SweepInv
<1>3. CASE UNCHANGED executionVars
  BY <1>3 DEF SweepInv, SweepTyped, HandsFull, ReadingDated, DeadOrCrossed, CancellationKept,
     Settling,
     executionVars, workVars, sweptJobVars, sweepVars
<1> QED
  BY <1>1, <1>2, <1>3 DEF SweepNext, OutsideStep

\* Recovery ends no work under an execution that runs, but for one redriven after it was seen
\* over, and gives no job that is being cancelled a failure the seller could retry, although
\* sweeps overlap and sellers, workers and operators act between a sweep's reads and its write
\* (control/execution_recovery.py, _recover_one and _settle).
THEOREM RecoveryAlwaysSound == SweepSpec => []RecoverySound
<1>1. ASSUME SweepInv PROVE RecoverySound
  <2> SweepTyped /\ HandsFull /\ ReadingDated /\ DeadOrCrossed /\ CancellationKept
    BY <1>1 DEF SweepInv
  <2>1. SweepTypeOK
    <3>1. \A s \in Sweeps : tries[s] <= MaxRechecks
      BY SweepAssumption DEF SweepTyped
    <3> QED
      BY <3>1 DEF SweepTypeOK, SweepTyped, HandsFull, ReadingDated
  <2>2. EndsOnlyTheDead
    BY DEF DeadOrCrossed, EndsOnlyTheDead
  <2> QED
    BY <2>1, <2>2 DEF RecoverySound
<1> QED
  BY <1>1, SweepInvInit, SweepInvStep, PTL DEF SweepSpec

\* What a worker, the machine or another sweep has settled is never settled again by a sweep that
\* read it open: the settlement is bound to the work and to the version of the job (_settle).
THEOREM SettledAlwaysStays == SweepSpec => SettledStays
<1>1. ASSUME SweepInv, [SweepNext]_executionVars
      PROVE  [\A w \in Works : row[w] \notin {"absent", "dispatched"} => row'[w] = row[w]]_row
  <2> SweepTyped
    BY <1>1 DEF SweepInv
  <2>1. ASSUME NEW s \in Sweeps, Settle(s)
        PROVE  \A w \in Works : row[w] \notin {"absent", "dispatched"} => row'[w] = row[w]
    BY <2>1 DEF Settle, Current, SweepTyped
  <2>2. ASSUME NEW w \in Works, MarkDispatched(w) \/ Complete(w)
        PROVE  \A v \in Works : row[v] \notin {"absent", "dispatched"} => row'[v] = row[v]
    BY <2>2 DEF MarkDispatched, Complete, SweepTyped
  <2> QED
    BY <1>1, <2>1, <2>2 DEF SweepNext, SellerCommand, EndExecution, ForgetExecution,
       RedriveExecution,
       IndexCatchesUp, ExecutionTick, List, SweepStep, ReadAuthority, Describe, Reread,
       SettleConflict,
       Unavailable, World, workVars, executionVars
<1> QED
  BY <1>1, SweepInvInit, SweepInvStep, PTL DEF SweepSpec, SettledStays

-----------------------------------------------------------------------------
(* The dispatcher and the recovery of publications.                        *)

Stages == {"idle", "start", "loaded", "described", "bound"}
Candidates == [kind : {"hint", "failure", "deadline"}, pub : Pubs, epoch : Nat]

\* The types of the rows, the executions, the indexes and the dispatcher.
RowsTyped ==
  /\ work \in [Pubs -> {"pending", "active", "terminal"}]
  /\ outcome \in [Pubs -> {"open", "workflow", "deadline"}]
  /\ \A p \in Pubs : (work[p] = "terminal") = (outcome[p] # "open")
  /\ pubExec \in [Pubs -> {"none", "running", "failed", "exhausted", "succeeded"}]
  /\ pubVersion \in [Pubs -> Nat \ {0}] /\ pubRedrives \in [Pubs -> 0..MaxPubRedrives]
  /\ pubNow \in 0..Deadline /\ updated \in [Pubs -> 0..pubNow]
  /\ due \subseteq Pubs /\ hint \in [Pubs -> 0..pubNow \cup {Absent}]
  /\ queue \subseteq {"failure", "deadline"} \X Pubs
  /\ pubBatch \in Seq(Pubs) /\ Len(pubBatch) <= Limit

\* The types of the recoveries' variables; one at work has a candidate in hand.
RecoverersTyped ==
  /\ stage \in [Recoverers -> Stages] /\ todo \in [Recoverers -> Seq(Candidates)]
  /\ \A r \in Recoverers :
       /\ (stage[r] = "idle") = (todo[r] = <<>>) /\ Len(todo[r]) <= Limit
       /\ pubSeen[r].version \in Nat

\* A recovery that has read its candidate as it still is has read it open.
ReadOpen ==
  \A r \in Recoverers :
    /\ pubSeen \in [Recoverers -> [work : {"unread", "pending", "active", "terminal"}, version : Nat,
                                   exec : {"unread", "none", "running", "failed", "exhausted",
                                           "succeeded"},
                                   redrives : Nat]]
    /\ stage[r] = "idle" => pubSeen[r].version = 0
    /\ stage[r] # "idle" => /\ pubSeen[r].version <= pubVersion[InHand(r).pub]
                            /\ pubSeen[r].version = pubVersion[InHand(r).pub] =>
                                 work[InHand(r).pub] # "terminal"

PubInv == RowsTyped /\ RecoverersTyped /\ ReadOpen

LEMMA PubInvInit == PubSweepInit => PubInv
<1> SUFFICES ASSUME PubSweepInit PROVE PubInv
  OBVIOUS
<1> USE PubSweepAssumption DEF PubSweepInit
<1>0. <<>> \in Seq(Pubs) /\ <<>> \in Seq(Candidates) /\ Len(<<>>) = 0
  OBVIOUS
<1>1. RowsTyped
  BY <1>0 DEF RowsTyped, Absent
<1>2. RecoverersTyped
  BY <1>0 DEF RecoverersTyped, Stages, Unseen
<1>3. ReadOpen
  BY DEF ReadOpen, Unseen
<1> QED
  BY <1>1, <1>2, <1>3 DEF PubInv

\* What the workflow, Step Functions, the clock, the indexes and the dispatcher do.
WorkflowStep ==
  \/ \E p \in Pubs :
       \/ WorkflowTouches(p) \/ WorkflowEnds(p) \/ ExecutionSucceeds(p) \/ ExecutionFails(p)
       \/ PubIndexCatchesUp(p)
  \/ PubTick \/ ListDue \/ Dispatch

LEMMA InHandTyped ==
  ASSUME RecoverersTyped, NEW r \in Recoverers, stage[r] # "idle"
  PROVE  /\ InHand(r) \in Candidates /\ InHand(r).pub \in Pubs /\ todo[r] # <<>>
         /\ Tail(todo[r]) \in Seq(Candidates) /\ Len(Tail(todo[r])) <= Limit
         /\ (Len(todo[r]) = 1) = (Tail(todo[r]) = <<>>)
<1>1. todo[r] \in Seq(Candidates) /\ todo[r] # <<>> /\ Len(todo[r]) <= Limit /\ Limit \in Nat
  BY PubSweepAssumption DEF RecoverersTyped
<1>2. /\ Head(todo[r]) \in Candidates /\ Tail(todo[r]) \in Seq(Candidates) /\ Len(todo[r]) \in Nat
      /\ Len(Tail(todo[r])) = Len(todo[r]) - 1 /\ (Len(todo[r]) = 1) = (Tail(todo[r]) = <<>>)
  BY <1>1, SeqFacts
<1>3. InHand(r) \in Candidates
  BY <1>2 DEF InHand
<1>4. InHand(r).pub \in Pubs
  BY <1>3 DEF Candidates
<1> QED
  BY <1>1, <1>2, <1>3, <1>4

LEMMA WorkflowTyped == ASSUME PubInv, WorkflowStep PROVE RowsTyped'
<1> RowsTyped
  BY DEF PubInv
<1> USE PubSweepAssumption
<1>1. ASSUME NEW p \in Pubs, WorkflowTouches(p) PROVE RowsTyped'
  <2>1. pubVersion' = [pubVersion EXCEPT ![p] = @ + 1] /\ pubVersion[p] + 1 \in Nat \ {0}
    BY <1>1 DEF WorkflowTouches, RowsTyped
  <2>2. pubVersion' \in [Pubs -> Nat \ {0}]
    BY <2>1 DEF RowsTyped
  <2>3. work' \in [Pubs -> {"pending", "active", "terminal"}]
        /\ outcome' \in [Pubs -> {"open", "workflow", "deadline"}]
    BY <1>1 DEF WorkflowTouches, RowsTyped
  <2>4. \A o \in Pubs : (work'[o] = "terminal") = (outcome'[o] # "open")
    BY <1>1 DEF WorkflowTouches, RowsTyped
  <2>5. /\ updated' \in [Pubs -> 0..pubNow]
        /\ UNCHANGED <<execVars, pubNow, queue, indexVars, pubBatch>>
    BY <1>1 DEF WorkflowTouches, RowsTyped, NoRecovery
  <2> QED
    BY <2>2, <2>3, <2>4, <2>5 DEF RowsTyped, execVars, indexVars
<1>2. ASSUME NEW p \in Pubs, WorkflowEnds(p) PROVE RowsTyped'
  <2>1. pubVersion' = [pubVersion EXCEPT ![p] = @ + 1] /\ pubVersion[p] + 1 \in Nat \ {0}
    BY <1>2 DEF WorkflowEnds, RowsTyped
  <2>2. pubVersion' \in [Pubs -> Nat \ {0}]
    BY <2>1 DEF RowsTyped
  <2>3. work' \in [Pubs -> {"pending", "active", "terminal"}]
        /\ outcome' \in [Pubs -> {"open", "workflow", "deadline"}]
    BY <1>2 DEF WorkflowEnds, RowsTyped
  <2>4. \A o \in Pubs : (work'[o] = "terminal") = (outcome'[o] # "open")
    BY <1>2 DEF WorkflowEnds, RowsTyped
  <2>5. /\ updated' \in [Pubs -> 0..pubNow]
        /\ UNCHANGED <<execVars, pubNow, queue, indexVars, pubBatch>>
    BY <1>2 DEF WorkflowEnds, RowsTyped, NoRecovery
  <2> QED
    BY <2>2, <2>3, <2>4, <2>5 DEF RowsTyped, execVars, indexVars
<1>3. ASSUME NEW p \in Pubs, ExecutionSucceeds(p) PROVE RowsTyped'
  BY <1>3 DEF ExecutionSucceeds, RowsTyped, rowVars, NoRecovery, indexVars
<1>4. ASSUME NEW p \in Pubs, ExecutionFails(p) PROVE RowsTyped'
  <2>1. queue' \subseteq {"failure", "deadline"} \X Pubs
    BY <1>4 DEF ExecutionFails, RowsTyped
  <2>2. pubExec' \in [Pubs -> {"none", "running", "failed", "exhausted", "succeeded"}]
    BY <1>4 DEF ExecutionFails, RowsTyped
  <2> QED
    BY <1>4, <2>1, <2>2 DEF ExecutionFails, RowsTyped, rowVars, NoRecovery, indexVars
<1>5. ASSUME NEW p \in Pubs, PubIndexCatchesUp(p) PROVE RowsTyped'
  BY <1>5 DEF PubIndexCatchesUp, RecoveryRow, RowsTyped, rowVars, execVars
<1>6. CASE PubTick
  BY <1>6 DEF PubTick, RowsTyped, rowVars, execVars, NoRecovery, indexVars
<1>7. CASE ListDue
  <2>1. PICK n \in 1..Limit : \E q \in [1..n -> due] : pubBatch' = q
    BY <1>7 DEF ListDue
  <2>2. pubBatch' \in [1..n -> Pubs]
    BY <2>1 DEF RowsTyped
  <2>3. pubBatch' \in Seq(Pubs) /\ Len(pubBatch') <= Limit
    BY <2>2, PageFacts
  <2> QED
    BY <1>7, <2>3 DEF ListDue, RowsTyped, rowVars, execVars, indexVars
<1>8. CASE Dispatch
  <2>1. pubBatch # <<>> /\ pubBatch \in Seq(Pubs) /\ Len(pubBatch) <= Limit
    BY <1>8 DEF Dispatch, RowsTyped
  <2>2. /\ Head(pubBatch) \in Pubs /\ Tail(pubBatch) \in Seq(Pubs) /\ Len(pubBatch) \in Nat
        /\ Len(Tail(pubBatch)) = Len(pubBatch) - 1
    BY <2>1, SeqFacts
  <2>3. pubBatch' \in Seq(Pubs) /\ Len(pubBatch') <= Limit
    BY <1>8, <2>1, <2>2 DEF Dispatch
  <2>4. queue' \subseteq {"failure", "deadline"} \X Pubs
    BY <1>8, <2>2 DEF Dispatch, RowsTyped
  <2>5. pubExec' \in [Pubs -> {"none", "running", "failed", "exhausted", "succeeded"}]
    BY <1>8 DEF Dispatch, RowsTyped
  <2> QED
    BY <1>8, <2>3, <2>4, <2>5 DEF Dispatch, RowsTyped, rowVars, indexVars
<1> QED
  BY <1>1, <1>2, <1>3, <1>4, <1>5, <1>6, <1>7, <1>8 DEF WorkflowStep

\* Every end of a publication is a new version of it.
LEMMA WorkflowOpen == ASSUME PubInv, WorkflowStep PROVE RecoverersTyped' /\ ReadOpen'
<1> RowsTyped /\ RecoverersTyped /\ ReadOpen
  BY DEF PubInv
<1>1. UNCHANGED <<todo, stage, pubSeen>>
  BY DEF WorkflowStep, WorkflowTouches, WorkflowEnds, ExecutionSucceeds, ExecutionFails,
     PubIndexCatchesUp,
     PubTick, ListDue, Dispatch, NoRecovery, recVars
<1>2. \A p \in Pubs : \/ pubVersion'[p] = pubVersion[p] /\ work'[p] = work[p]
                      \/ pubVersion'[p] = pubVersion[p] + 1
  <2>1. ASSUME NEW p \in Pubs, WorkflowTouches(p) \/ WorkflowEnds(p)
        PROVE  \A o \in Pubs : \/ pubVersion'[o] = pubVersion[o] /\ work'[o] = work[o]
                              \/ pubVersion'[o] = pubVersion[o] + 1
    BY <2>1 DEF WorkflowTouches, WorkflowEnds, RowsTyped
  <2>2. UNCHANGED <<work, pubVersion>> \/ \E p \in Pubs : WorkflowTouches(p) \/ WorkflowEnds(p)
    BY DEF WorkflowStep, ExecutionSucceeds, ExecutionFails, PubIndexCatchesUp, PubTick, ListDue,
       Dispatch,
       rowVars
  <2> QED
    BY <2>1, <2>2
<1>3. RecoverersTyped'
  BY <1>1 DEF RecoverersTyped
<1> SUFFICES ASSUME NEW r \in Recoverers, stage[r] # "idle"
             PROVE  /\ pubSeen[r].version <= pubVersion'[InHand(r).pub]
                    /\ pubSeen[r].version = pubVersion'[InHand(r).pub] =>
                         work'[InHand(r).pub] # "terminal"
  BY <1>1, <1>3 DEF ReadOpen, InHand
<1>4. InHand(r).pub \in Pubs
  BY InHandTyped
<1>5. pubVersion[InHand(r).pub] \in Nat /\ pubSeen[r].version \in Nat
  BY <1>4 DEF RowsTyped, RecoverersTyped
<1> QED
  BY <1>2, <1>4, <1>5 DEF ReadOpen

RecovererStep(r) ==
  Sweep(r) \/ (\E m \in queue : Receive(r, m)) \/ RecoverStep(r) \/ PubUnavailable(r)

LEMMA RecovererLocal ==
  ASSUME PubInv, NEW r \in Recoverers, RecovererStep(r)
  PROVE  \A s \in Recoverers \ {r} : /\ todo'[s] = todo[s] /\ stage'[s] = stage[s]
                                     /\ pubSeen'[s] = pubSeen[s]
<1> RecoverersTyped /\ ReadOpen
  BY DEF PubInv
<1>1. ASSUME Leave(r)
      PROVE  \A s \in Recoverers \ {r} : /\ todo'[s] = todo[s] /\ stage'[s] = stage[s]
                                                        /\ pubSeen'[s] = pubSeen[s]
  BY <1>1 DEF Leave, RecoverersTyped, ReadOpen
<1>2. CASE Sweep(r) \/ \E m \in queue : Receive(r, m)
  BY <1>2 DEF Sweep, Receive, RecoverersTyped
<1>3. CASE LoadPublication(r) \/ DescribePublication(r)
  BY <1>1, <1>3 DEF LoadPublication, DescribePublication, PubDone, PubGoto, Loaded, Described,
     RecoverersTyped, ReadOpen
<1> QED
  BY <1>1, <1>2, <1>3 DEF RecovererStep, RecoverStep, SettleDeadline, FindRunning, Redrive, Refuse,
     PubUnavailable, PubDone, GiveUp

LEMMA LeaveTyped ==
  ASSUME PubInv, NEW r \in Recoverers, stage[r] # "idle", Leave(r)
  PROVE  /\ stage' \in [Recoverers -> Stages] /\ todo' \in [Recoverers -> Seq(Candidates)]
         /\ (stage'[r] = "idle") = (todo'[r] = <<>>) /\ Len(todo'[r]) <= Limit
         /\ pubSeen' = [pubSeen EXCEPT ![r] = Unseen] /\ pubSeen'[r] = Unseen
<1> RecoverersTyped /\ ReadOpen
  BY DEF PubInv
<1>1. /\ Tail(todo[r]) \in Seq(Candidates) /\ Len(Tail(todo[r])) <= Limit
      /\ (Len(todo[r]) = 1) = (Tail(todo[r]) = <<>>)
  BY InHandTyped
<1>2. /\ todo' = [todo EXCEPT ![r] = Tail(todo[r])]
      /\ stage' = [stage EXCEPT ![r] = IF Len(todo[r]) = 1 THEN "idle" ELSE "start"]
      /\ pubSeen' = [pubSeen EXCEPT ![r] = Unseen]
  BY DEF Leave
<1>3. todo' \in [Recoverers -> Seq(Candidates)] /\ todo'[r] = Tail(todo[r])
  BY <1>1, <1>2 DEF RecoverersTyped
<1>4. stage' \in [Recoverers -> Stages] /\ stage'[r] = IF Len(todo[r]) = 1 THEN "idle" ELSE "start"
  BY <1>2 DEF RecoverersTyped, Stages
<1>5. pubSeen'[r] = Unseen
  BY <1>2 DEF ReadOpen
<1> QED
  BY <1>1, <1>2, <1>3, <1>4, <1>5

\* A recovery writes one row, when the deadline is over, or redrives one execution.
LEMMA RecovererRows ==
  ASSUME PubInv, NEW r \in Recoverers, RecovererStep(r)
  PROVE  /\ UNCHANGED <<pubNow, indexVars, pubBatch, updated>>
         /\ UNCHANGED <<work, outcome, pubVersion>> \/ SettleDeadline(r)
         /\ UNCHANGED <<pubExec, pubRedrives>> \/ Redrive(r)
BY DEF RecovererStep, RecoverStep, Sweep, Receive, LoadPublication, DescribePublication,
   SettleDeadline,
   FindRunning, Redrive, Refuse, PubUnavailable, PubRows, PubWorld, rowVars, execVars

LEMMA RecovererRowsTyped ==
  ASSUME PubInv, NEW r \in Recoverers, RecovererStep(r) PROVE RowsTyped'
<1> RowsTyped /\ RecoverersTyped /\ ReadOpen
  BY DEF PubInv
<1> USE PubSweepAssumption
<1>1. queue' \subseteq queue
  BY DEF RecovererStep, RecoverStep, Sweep, Receive, LoadPublication, DescribePublication,
     SettleDeadline,
     FindRunning, Redrive, Refuse, PubUnavailable, PubDone, GiveUp, PubGoto
<1>2. /\ work' \in [Pubs -> {"pending", "active", "terminal"}]
      /\ outcome' \in [Pubs -> {"open", "workflow", "deadline"}]
      /\ \A p \in Pubs : (work'[p] = "terminal") = (outcome'[p] # "open")
      /\ pubVersion' \in [Pubs -> Nat \ {0}]
  <2>1. CASE UNCHANGED <<work, outcome, pubVersion>>
    BY <2>1 DEF RowsTyped
  <2>2. CASE SettleDeadline(r)
    <3>1. InHand(r).pub \in Pubs
      BY <2>2, InHandTyped DEF SettleDeadline
    <3>2. PICK p \in Pubs : /\ work' = [work EXCEPT ![p] = "terminal"]
                            /\ outcome' = [outcome EXCEPT ![p] = "deadline"]
                            /\ pubVersion' = [pubVersion EXCEPT ![p] = @ + 1]
      BY <2>2, <3>1 DEF SettleDeadline
    <3>3. pubVersion[p] + 1 \in Nat \ {0}
      BY DEF RowsTyped
    <3>4. pubVersion' \in [Pubs -> Nat \ {0}]
      BY <3>2, <3>3 DEF RowsTyped
    <3>5. work' \in [Pubs -> {"pending", "active", "terminal"}]
      BY <3>2 DEF RowsTyped
    <3>6. outcome' \in [Pubs -> {"open", "workflow", "deadline"}]
      BY <3>2 DEF RowsTyped
    <3>7. \A o \in Pubs : (work'[o] = "terminal") = (outcome'[o] # "open")
      BY <3>2 DEF RowsTyped
    <3> QED
      BY <3>4, <3>5, <3>6, <3>7
  <2> QED
    BY <2>1, <2>2, RecovererRows
<1>3. /\ pubExec' \in [Pubs -> {"none", "running", "failed", "exhausted", "succeeded"}]
      /\ pubRedrives' \in [Pubs -> 0..MaxPubRedrives]
  <2>1. CASE UNCHANGED <<pubExec, pubRedrives>>
    BY <2>1 DEF RowsTyped
  <2>2. CASE Redrive(r) /\ ~UNCHANGED <<pubExec, pubRedrives>>
    <3>1. InHand(r).pub \in Pubs
      BY <2>2, InHandTyped DEF Redrive
    <3>2. PICK p \in Pubs : /\ pubExec' = [pubExec EXCEPT ![p] = "running"]
                            /\ pubRedrives' = [pubRedrives EXCEPT ![p] = @ + 1]
                            /\ pubSeen[r].redrives < MaxPubRedrives
                            /\ pubSeen[r].redrives = pubRedrives[p]
      BY <2>2, <3>1 DEF Redrive, Redrivable, Redriven
    <3>3. pubRedrives[p] \in 0..MaxPubRedrives
      BY DEF RowsTyped
    <3>6. pubRedrives[p] + 1 \in 0..MaxPubRedrives
      BY <3>2, <3>3
    <3>4. pubRedrives' \in [Pubs -> 0..MaxPubRedrives]
      BY <3>2, <3>6 DEF RowsTyped
    <3> QED
      BY <3>2, <3>4 DEF RowsTyped
  <2> QED
    BY <2>1, <2>2, RecovererRows
<1> QED
  BY <1>1, <1>2, <1>3, RecovererRows DEF RowsTyped, indexVars

\* One recovery has what it has taken up, and has read it open.
LEMMA RecovererReads ==
  ASSUME PubInv, NEW r \in Recoverers, RecovererStep(r)
  PROVE  /\ stage' \in [Recoverers -> Stages] /\ todo' \in [Recoverers -> Seq(Candidates)]
         /\ (stage'[r] = "idle") = (todo'[r] = <<>>) /\ Len(todo'[r]) <= Limit
         /\ pubSeen' \in [Recoverers ->
              [work : {"unread", "pending", "active", "terminal"}, version : Nat,
               exec : {"unread", "none", "running", "failed", "exhausted", "succeeded"},
               redrives : Nat]]
         /\ \/ pubSeen'[r].version = 0
            \/ stage'[r] # "idle" /\ stage[r] # "idle" /\ todo'[r] = todo[r]
               /\ \/ pubSeen'[r].version = pubSeen[r].version
                  \/ /\ pubSeen'[r].version = pubVersion[InHand(r).pub]
                     /\ work[InHand(r).pub] # "terminal"
               /\ UNCHANGED <<work, pubVersion>>
<1> RowsTyped /\ RecoverersTyped /\ ReadOpen
  BY DEF PubInv
<1> USE PubSweepAssumption
<1> DEFINE Readings == [work : {"unread", "pending", "active", "terminal"}, version : Nat,
                        exec : {"unread", "none", "running", "failed", "exhausted", "succeeded"},
                        redrives : Nat]
           Kept == /\ stage' \in [Recoverers -> Stages] /\ todo' \in [Recoverers -> Seq(Candidates)]
                   /\ (stage'[r] = "idle") = (todo'[r] = <<>>) /\ Len(todo'[r]) <= Limit
                   /\ pubSeen' \in [Recoverers -> Readings]
                   /\ \/ pubSeen'[r].version = 0
                      \/ stage'[r] # "idle" /\ stage[r] # "idle" /\ todo'[r] = todo[r]
                         /\ \/ pubSeen'[r].version = pubSeen[r].version
                            \/ /\ pubSeen'[r].version = pubVersion[InHand(r).pub]
                               /\ work[InHand(r).pub] # "terminal"
                         /\ UNCHANGED <<work, pubVersion>>
<1> SUFFICES Kept
  OBVIOUS
<1>1. ASSUME Leave(r), stage[r] # "idle" PROVE Kept
  <2>1. Unseen \in Readings /\ Unseen.version = 0
    BY DEF Unseen
  <2>2. pubSeen' \in [Recoverers -> Readings]
    BY <1>1, <2>1, LeaveTyped DEF ReadOpen
  <2> QED
    BY <1>1, <2>1, <2>2, LeaveTyped
<1>2. ASSUME NEW n \in 1..Limit, NEW q \in [1..n -> Candidates], todo' = [todo EXCEPT ![r] = q],
             stage' = [stage EXCEPT ![r] = "start"], UNCHANGED pubSeen, stage[r] = "idle"
      PROVE  Kept
  <2>1. q \in Seq(Candidates) /\ q # <<>> /\ Len(q) <= Limit
    BY PageFacts
  <2>2. todo' \in [Recoverers -> Seq(Candidates)] /\ todo'[r] = q
    BY <1>2, <2>1 DEF RecoverersTyped
  <2>3. stage' \in [Recoverers -> Stages] /\ stage'[r] = "start"
    BY <1>2 DEF RecoverersTyped, Stages
  <2>4. pubSeen'[r].version = 0 /\ pubSeen' \in [Recoverers -> Readings]
    BY <1>2 DEF ReadOpen
  <2> QED
    BY <2>1, <2>2, <2>3, <2>4
<1>3. ASSUME Sweep(r) PROVE Kept
  <2>1. PICK n \in 1..Limit : \E q \in [1..n -> {p \in Pubs : hint[p] + PubStaleAfter <= pubNow}] :
          todo' = [todo EXCEPT ![r] = [i \in 1..n |-> Candidate("hint", q[i], hint[q[i]])]]
    BY <1>3 DEF Sweep
  <2>2. PICK q \in [1..n -> {p \in Pubs : hint[p] + PubStaleAfter <= pubNow}] :
          todo' = [todo EXCEPT ![r] = [i \in 1..n |-> Candidate("hint", q[i], hint[q[i]])]]
    BY <2>1
  <2>3. \A p \in Pubs : hint[p] \in Nat
    BY DEF RowsTyped, Absent
  <2>4. [i \in 1..n |-> Candidate("hint", q[i], hint[q[i]])] \in [1..n -> Candidates]
    BY <2>3 DEF Candidate, Candidates
  <2>5. stage' = [stage EXCEPT ![r] = "start"] /\ UNCHANGED pubSeen /\ stage[r] = "idle"
    BY <1>3 DEF Sweep
  <2> QED
    BY <1>2, <2>2, <2>4, <2>5
<1>4. ASSUME NEW m \in queue, Receive(r, m) PROVE Kept
  <2>1. m[1] \in {"failure", "deadline"} /\ m[2] \in Pubs
    BY DEF RowsTyped
  <2>2. Candidate(m[1], m[2], Absent) \in Candidates
    BY <2>1 DEF Candidate, Candidates, Absent
  <2>3. <<Candidate(m[1], m[2], Absent)>> \in [1..1 -> Candidates] /\ 1 \in 1..Limit
    BY <2>2
  <2> QED
    BY <1>2, <1>4, <2>3 DEF Receive
<1>5. ASSUME NEW label \in Stages \ {"idle"}, PubGoto(r, label), stage[r] # "idle"
      PROVE  /\ stage' \in [Recoverers -> Stages] /\ todo' \in [Recoverers -> Seq(Candidates)]
             /\ stage'[r] # "idle" /\ todo'[r] # <<>> /\ Len(todo'[r]) <= Limit /\ todo'[r] = todo[r]
  BY <1>5 DEF PubGoto, RecoverersTyped
<1>6. ASSUME LoadPublication(r) PROVE Kept
  <2>1. CASE PubDone(r)
    BY <1>1, <1>6, <2>1 DEF LoadPublication, PubDone
  <2>2. CASE ~PubDone(r)
    <3>1. /\ stage[r] # "idle" /\ work[InHand(r).pub] # "terminal" /\ Loaded(r, InHand(r).pub)
          /\ \E label \in Stages \ {"idle"} : PubGoto(r, label)
          /\ UNCHANGED <<work, pubVersion>>
      BY <1>6, <2>2 DEF LoadPublication, PubRows, rowVars, Stages
    <3>2. InHand(r).pub \in Pubs
      BY <3>1, InHandTyped
    <3>3. work[InHand(r).pub] \in {"pending", "active"} /\ pubVersion[InHand(r).pub] \in Nat
      BY <3>1, <3>2 DEF RowsTyped
    <3>4. PICK w \in {"pending", "active"}, v \in Nat :
            /\ w = work[InHand(r).pub] /\ v = pubVersion[InHand(r).pub]
            /\ pubSeen' = [pubSeen EXCEPT ![r].work = w, ![r].version = v]
      BY <3>1, <3>3 DEF Loaded
    <3>5. pubSeen' \in [Recoverers -> Readings] /\ pubSeen'[r].version = v
      BY <3>4 DEF ReadOpen
    <3> QED
      BY <1>5, <3>1, <3>4, <3>5
  <2> QED
    BY <2>1, <2>2
<1>7. ASSUME DescribePublication(r) PROVE Kept
  <2>1. /\ stage[r] # "idle" /\ Described(r, InHand(r).pub)
        /\ \E label \in Stages \ {"idle"} : PubGoto(r, label)
        /\ UNCHANGED <<work, pubVersion>>
    BY <1>7 DEF DescribePublication, PubRows, rowVars, Stages
  <2>2. InHand(r).pub \in Pubs
    BY <2>1, InHandTyped
  <2>9. pubExec[InHand(r).pub] \in {"none", "running", "failed", "exhausted", "succeeded"}
        /\ pubRedrives[InHand(r).pub] \in 0..MaxPubRedrives
    BY <2>2 DEF RowsTyped
  <2>3. pubExec[InHand(r).pub] \in {"none", "running", "failed", "exhausted", "succeeded"}
        /\ pubRedrives[InHand(r).pub] \in Nat
    BY <2>9
  <2>4. PICK e \in {"none", "running", "failed", "exhausted", "succeeded"}, k \in Nat :
          pubSeen' = [pubSeen EXCEPT ![r].exec = e, ![r].redrives = k]
    BY <2>1, <2>3 DEF Described
  <2>5. pubSeen \in [Recoverers -> Readings] /\ pubSeen[r] \in Readings
    BY DEF ReadOpen
  <2>6. [pubSeen[r] EXCEPT !.exec = e] \in Readings
    BY <2>5
  <2>7. [pubSeen[r] EXCEPT !.exec = e, !.redrives = k] \in Readings
    BY <2>5
  <2>10. [pubSeen[r] EXCEPT !.exec = e, !.redrives = k].version = pubSeen[r].version
    BY <2>5
  <2>11. pubSeen' \in [Recoverers -> Readings]
    BY <2>4, <2>5
  <2>8. pubSeen' \in [Recoverers -> Readings] /\ pubSeen'[r].version = pubSeen[r].version
    BY <2>4, <2>5, <2>10, <2>11
  <2> QED
    BY <1>5, <2>1, <2>8
<1> HIDE DEF Kept
<1> QED
  BY <1>1, <1>3, <1>4, <1>6, <1>7 DEF RecovererStep, RecoverStep, SettleDeadline, FindRunning,
     Redrive,
     Refuse, PubUnavailable, PubDone, GiveUp

\* A recovery writes a publication only under a new version, which dates what others have read.
LEMMA RecovererOpen ==
  ASSUME PubInv, NEW r \in Recoverers, RecovererStep(r) PROVE RecoverersTyped' /\ ReadOpen'
<1> RowsTyped /\ RecoverersTyped /\ ReadOpen
  BY DEF PubInv
<1>1. \A p \in Pubs : \/ pubVersion'[p] = pubVersion[p] /\ work'[p] = work[p]
                      \/ pubVersion'[p] = pubVersion[p] + 1
  <2>1. CASE SettleDeadline(r)
    <3>1. InHand(r).pub \in Pubs
      BY <2>1, InHandTyped DEF SettleDeadline
    <3>2. PICK p \in Pubs : /\ work' = [work EXCEPT ![p] = "terminal"]
                            /\ pubVersion' = [pubVersion EXCEPT ![p] = @ + 1]
      BY <2>1, <3>1 DEF SettleDeadline
    <3> QED
      BY <3>2 DEF RowsTyped
  <2> QED
    BY <2>1, RecovererRows
<1>2. /\ stage' \in [Recoverers -> Stages] /\ todo' \in [Recoverers -> Seq(Candidates)]
      /\ (stage'[r] = "idle") = (todo'[r] = <<>>) /\ Len(todo'[r]) <= Limit
      /\ pubSeen' \in [Recoverers ->
           [work : {"unread", "pending", "active", "terminal"}, version : Nat,
            exec : {"unread", "none", "running", "failed", "exhausted", "succeeded"},
            redrives : Nat]]
  BY RecovererReads
<1>3. \A s \in Recoverers \ {r} : /\ todo'[s] = todo[s] /\ stage'[s] = stage[s]
                                  /\ pubSeen'[s] = pubSeen[s]
  BY RecovererLocal
<1>4. \A s \in Recoverers : pubSeen'[s].version \in Nat
  BY <1>2
<1>5. RecoverersTyped'
  <2>1. ASSUME NEW s \in Recoverers
        PROVE  (stage'[s] = "idle") = (todo'[s] = <<>>) /\ Len(todo'[s]) <= Limit
    BY <1>2, <1>3 DEF RecoverersTyped
  <2> QED
    BY <1>2, <1>4, <2>1 DEF RecoverersTyped
<1>6. ASSUME NEW s \in Recoverers
      PROVE  /\ stage'[s] = "idle" => pubSeen'[s].version = 0
             /\ stage'[s] # "idle" =>
                  /\ pubSeen'[s].version <= pubVersion'[Head(todo'[s]).pub]
                  /\ pubSeen'[s].version = pubVersion'[Head(todo'[s]).pub] =>
                       work'[Head(todo'[s]).pub] # "terminal"
  <2>1. CASE s # r /\ stage[s] = "idle"
    BY <1>3, <2>1 DEF ReadOpen
  <2>2. CASE s # r /\ stage[s] # "idle"
    <3>1. InHand(s).pub \in Pubs /\ Head(todo'[s]).pub = InHand(s).pub
      BY <1>3, <2>2, InHandTyped DEF InHand
    <3>2. pubVersion[InHand(s).pub] \in Nat /\ pubSeen[s].version \in Nat
      BY <3>1 DEF RowsTyped, RecoverersTyped
    <3>3. /\ pubSeen[s].version <= pubVersion[InHand(s).pub]
          /\ pubSeen[s].version = pubVersion[InHand(s).pub] => work[InHand(s).pub] # "terminal"
      BY <2>2 DEF ReadOpen
    <3>4. pubSeen'[s] = pubSeen[s] /\ stage'[s] = stage[s]
      BY <1>3, <2>2
    <3> QED
      BY <1>1, <2>2, <3>1, <3>2, <3>3, <3>4
  <2>3. CASE s = r /\ pubSeen'[r].version = 0
    <3>1. CASE stage'[r] = "idle"
      BY <2>3, <3>1
    <3>2. CASE stage'[r] # "idle"
      <4>1. todo'[r] \in Seq(Candidates) /\ todo'[r] # <<>>
        BY <1>2, <3>2
      <4>2. Head(todo'[r]) \in Candidates
        BY <4>1
      <4>3. Head(todo'[r]).pub \in Pubs
        BY <4>2 DEF Candidates
      <4>4. pubVersion[Head(todo'[r]).pub] \in Nat \ {0}
        BY <4>3 DEF RowsTyped
      <4>5. pubVersion'[Head(todo'[r]).pub] \in Nat \ {0}
        BY <4>3, <4>4, <1>1
      <4> QED
        BY <2>3, <3>2, <4>5
    <3> QED
      BY <3>1, <3>2
  <2>4. CASE s = r /\ pubSeen'[r].version # 0
    <3>1. /\ stage'[r] # "idle" /\ stage[r] # "idle" /\ todo'[r] = todo[r]
          /\ \/ pubSeen'[r].version = pubSeen[r].version
             \/ /\ pubSeen'[r].version = pubVersion[InHand(r).pub]
                /\ work[InHand(r).pub] # "terminal"
          /\ UNCHANGED <<work, pubVersion>>
      BY <2>4, RecovererReads
    <3>2. Head(todo'[r]).pub = InHand(r).pub
      BY <3>1 DEF InHand
    <3>3. /\ pubSeen[r].version <= pubVersion[InHand(r).pub]
          /\ pubSeen[r].version = pubVersion[InHand(r).pub] => work[InHand(r).pub] # "terminal"
      BY <3>1 DEF ReadOpen
    <3>4. InHand(r).pub \in Pubs
      BY <3>1, InHandTyped
    <3>5. pubVersion[InHand(r).pub] \in Nat
      BY <3>4 DEF RowsTyped
    <3> QED
      BY <2>4, <3>1, <3>2, <3>3, <3>5
  <2> QED
    BY <2>1, <2>2, <2>3, <2>4
<1> QED
  BY <1>2, <1>5, <1>6 DEF ReadOpen, InHand

LEMMA PubInvStep == ASSUME PubInv, [PubSweepNext]_pubSweepVars PROVE PubInv'
<1>1. CASE WorkflowStep
  BY <1>1, WorkflowTyped, WorkflowOpen DEF PubInv
<1>2. ASSUME NEW r \in Recoverers, RecovererStep(r) PROVE PubInv'
  BY <1>2, RecovererRowsTyped, RecovererOpen DEF PubInv
<1>3. CASE UNCHANGED pubSweepVars
  BY <1>3 DEF PubInv, RowsTyped, RecoverersTyped, ReadOpen, InHand, pubSweepVars, rowVars, execVars,
     indexVars, recVars
<1> QED
  BY <1>1, <1>2, <1>3 DEF PubSweepNext, WorkflowStep, RecovererStep

\* However many recoveries hold one failed execution, from its event, from the dispatcher and from
\* the sweep, it is redriven no more often than allowed: a redrive counts only under the token of
\* the count that was read (publication/recovery.py, _redrive_token, maximum_redrives).
THEOREM RedrivesAlwaysBounded == PubSweepSpec => []RedrivesBounded
<1>1. ASSUME PubInv PROVE RedrivesBounded
  <2> RowsTyped /\ RecoverersTyped /\ ReadOpen
    BY <1>1 DEF PubInv
  <2>1. PubSweepTypeOK
    BY DEF PubSweepTypeOK, RowsTyped, RecoverersTyped, ReadOpen, Stages
  <2>2. \A p \in Pubs : pubRedrives[p] <= MaxPubRedrives
    BY PubSweepAssumption DEF RowsTyped
  <2> QED
    BY <2>1, <2>2 DEF RedrivesBounded
<1> QED
  BY <1>1, PubInvInit, PubInvStep, PTL DEF PubSweepSpec

\* The end a publication has reached, by its workflow or by its deadline, is never replaced by a
\* recovery that had read it open: a recovery settles the version it has read and no other
\* (publication/recovery.py, _settle_deadline and _command_basis).
THEOREM OutcomeAlwaysKept == PubSweepSpec => OutcomeKept
<1>1. ASSUME PubInv, [PubSweepNext]_pubSweepVars
      PROVE  [\A p \in Pubs : outcome[p] # "open" => outcome'[p] = outcome[p]]_outcome
  <2> RowsTyped /\ RecoverersTyped /\ ReadOpen
    BY <1>1 DEF PubInv
  <2>1. ASSUME NEW r \in Recoverers, SettleDeadline(r)
        PROVE  \A p \in Pubs : outcome[p] # "open" => outcome'[p] = outcome[p]
    <3>1. InHand(r).pub \in Pubs /\ stage[r] # "idle"
      BY <2>1, InHandTyped DEF SettleDeadline
    <3>2. work[InHand(r).pub] # "terminal"
      BY <2>1, <3>1 DEF SettleDeadline, Unchanged, ReadOpen
    <3>3. outcome[InHand(r).pub] = "open"
      BY <3>1, <3>2 DEF RowsTyped
    <3>4. PICK o \in Pubs : outcome[o] = "open" /\ outcome' = [outcome EXCEPT ![o] = "deadline"]
      BY <2>1, <3>1, <3>3 DEF SettleDeadline
    <3> QED
      BY <3>4 DEF RowsTyped
  <2>2. ASSUME NEW o \in Pubs, WorkflowEnds(o)
        PROVE  \A p \in Pubs : outcome[p] # "open" => outcome'[p] = outcome[p]
    <3>1. outcome[o] = "open"
      BY <2>2 DEF WorkflowEnds, RowsTyped
    <3> QED
      BY <2>2, <3>1 DEF WorkflowEnds, RowsTyped
  <2>3. ASSUME NEW r \in Recoverers, RecovererStep(r), ~SettleDeadline(r) PROVE UNCHANGED outcome
    BY <2>3, RecovererRows, <1>1
  <2>4. ASSUME WorkflowStep, ~\E p \in Pubs : WorkflowEnds(p) PROVE UNCHANGED outcome
    BY <2>4 DEF WorkflowStep, WorkflowTouches, ExecutionSucceeds, ExecutionFails, PubIndexCatchesUp,
       PubTick, ListDue, Dispatch, rowVars
  <2>5. \/ WorkflowStep \/ \E r \in Recoverers : RecovererStep(r)
        \/ UNCHANGED outcome
    BY <1>1 DEF PubSweepNext, WorkflowStep, RecovererStep, pubSweepVars, rowVars
  <2> QED
    BY <2>1, <2>2, <2>3, <2>4, <2>5
<1> QED
  BY <1>1, PubInvInit, PubInvStep, PTL DEF PubSweepSpec, OutcomeKept

=============================================================================
