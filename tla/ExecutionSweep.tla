--------------------------- MODULE ExecutionSweep ---------------------------
(***************************************************************************)
(* The stuck-execution recovery of control/execution_recovery.py: every    *)
(* five minutes a sweep takes the first page of the recovery index, an     *)
(* eventually consistent copy of the DISPATCHED work, oldest first, and    *)
(* ends the work whose execution is over and left it unsettled.  Sweeps    *)
(* overlap, the seller and the workers change the job meanwhile, and what  *)
(* a sweep may not end stays at the head of the index.                     *)
(*                                                                         *)
(* One job has one work here: what the settlement does to the job beyond   *)
(* the work is in ControlJob.                                              *)
(***************************************************************************)
EXTENDS Naturals, Sequences, Functions

CONSTANTS
  Works,          \* numbers: the older of two rows of one second has the smaller
  Sweeps,         \* sweep invocations alive at once
  BatchLimit,     \* rows of one sweep (25 in the code)
  StaleAfter,     \* age a row must have (20 minutes in the code)
  Timeout,        \* of an execution (15 minutes in the state machines)
  MaxRechecks,    \* _maximum_cas_rechecks
  MaxCommands,    \* bound: seller commands on one job
  MaxRedrives,    \* bound: redrives by an operator, of all executions
  MaxSweepFaults, \* bound: unavailable dependencies and crashed sweeps
  LastTick        \* bound: no work is dispatched so late that it never becomes due

ASSUME SweepAssumption ==
  /\ Works \subseteq Nat /\ BatchLimit \in Nat \ {0} /\ MaxRechecks \in Nat
  /\ StaleAfter \in Nat /\ Timeout \in 1..StaleAfter /\ StaleAfter < LastTick
  /\ MaxCommands \in Nat /\ MaxRedrives \in Nat /\ MaxSweepFaults \in Nat /\ LastTick \in Nat

VARIABLES
  row,        \* WorkRequestStatus, and who settled it: "absent", "dispatched", ...
  dispatched, \* updated_at of the row
  index,      \* the work of the recovery index
  exec,       \* the execution: "running", "over", "missing"
  started,    \* when it was last started or redriven
  version,    \* record_version of the job
  cancelled,  \* cancellation_requested_at is set
  now,
  sweepPc,    \* where a sweep stands
  page,       \* the candidates it has left, the one in hand first
  seen,       \* the job it last read: its version, and whether it is being cancelled
  tries,      \* loops of _settle
  crossed,    \* history: work redriven while a sweep had its execution for over
  redrives, sweepFaults

workVars == <<row, dispatched, exec, started>>
sweptJobVars == <<version, cancelled>>
sweepVars == <<sweepPc, page, seen, tries>>
executionVars == <<workVars, index, sweptJobVars, now, sweepVars, crossed, redrives, sweepFaults>>

Unread == [version |-> 0, cancelled |-> FALSE]

SweepInit ==
  /\ row = [w \in Works |-> "absent"] /\ dispatched = [w \in Works |-> 0] /\ index = {}
  /\ exec = [w \in Works |-> "running"] /\ started = [w \in Works |-> 0]
  /\ version = [w \in Works |-> 1] /\ cancelled = [w \in Works |-> FALSE]
  /\ now = 0
  /\ sweepPc = [s \in Sweeps |-> "idle"] /\ page = [s \in Sweeps |-> <<>>]
  /\ seen = [s \in Sweeps |-> Unread] /\ tries = [s \in Sweeps |-> 0]
  /\ crossed = {} /\ redrives = 0 /\ sweepFaults = 0

-----------------------------------------------------------------------------
(* The workers, the seller and Step Functions.                             *)

NoSweep == UNCHANGED <<sweepVars, crossed, redrives, sweepFaults>>

\* The dispatcher has confirmed the start of the execution.
MarkDispatched(w) ==
  /\ row[w] = "absent" /\ now + StaleAfter < LastTick
  /\ row' = [row EXCEPT ![w] = "dispatched"]
  /\ dispatched' = [dispatched EXCEPT ![w] = now]
  /\ started' = [started EXCEPT ![w] = now]
  /\ UNCHANGED <<exec, index, sweptJobVars, now>> /\ NoSweep

\* A worker, or the machine's own settlement, ends the work: perhaps one that Step Functions
\* has given up.
Complete(w) ==
  /\ row[w] = "dispatched" /\ exec[w] # "missing"
  /\ row' = [row EXCEPT ![w] = "completed"]
  /\ version' = [version EXCEPT ![w] = @ + 1]
  /\ UNCHANGED <<dispatched, exec, started, index, cancelled, now>> /\ NoSweep

\* A cancellation while the work is open, or any other command of the seller.
SellerCommand(w) ==
  /\ row[w] = "dispatched" /\ version[w] <= MaxCommands
  /\ version' = [version EXCEPT ![w] = @ + 1]
  /\ cancelled' = [cancelled EXCEPT ![w] = TRUE] \/ UNCHANGED cancelled
  /\ UNCHANGED <<workVars, index, now>> /\ NoSweep

\* It ends with or without having settled its work, its timeout at the latest.  A missing
\* execution is one that Step Functions no longer keeps.
EndExecution(w) ==
  /\ row[w] # "absent" /\ exec[w] = "running"
  /\ exec' = [exec EXCEPT ![w] = "over"]
  /\ UNCHANGED <<row, dispatched, started, index, sweptJobVars, now>> /\ NoSweep

ForgetExecution(w) ==
  /\ exec[w] = "over"
  /\ exec' = [exec EXCEPT ![w] = "missing"]
  /\ UNCHANGED <<row, dispatched, started, index, sweptJobVars, now>> /\ NoSweep

Settling(s, w) == sweepPc[s] \in {"reread", "settle"} /\ Head(page[s]) = w

\* An operator redrives it: it is running past the bound of its work.
RedriveExecution(w) ==
  /\ row[w] = "dispatched" /\ exec[w] = "over" /\ redrives < MaxRedrives
  /\ exec' = [exec EXCEPT ![w] = "running"] /\ started' = [started EXCEPT ![w] = now]
  /\ crossed' = IF \E s \in Sweeps : Settling(s, w) THEN crossed \cup {w} ELSE crossed
  /\ redrives' = redrives + 1
  /\ UNCHANGED <<row, dispatched, index, sweptJobVars, now, sweepVars, sweepFaults>>

\* DynamoDB derives the index from the attributes a DISPATCHED row is written with.
Indexed(w) == row[w] = "dispatched"

IndexCatchesUp(w) ==
  /\ (w \in index) # Indexed(w)
  /\ index' = IF Indexed(w) THEN index \cup {w} ELSE index \ {w}
  /\ UNCHANGED <<workVars, sweptJobVars, now>> /\ NoSweep

\* No execution outlives its timeout.
ExecutionTick ==
  /\ now < LastTick
  /\ \A w \in Works : row[w] # "absent" /\ exec[w] = "running" => now < started[w] + Timeout
  /\ now' = now + 1
  /\ UNCHANGED <<workVars, index, sweptJobVars>> /\ NoSweep

-----------------------------------------------------------------------------
(* One sweep.                                                              *)

Others == UNCHANGED <<index, now, crossed, redrives>>
World == UNCHANGED <<workVars, sweptJobVars, sweepFaults>> /\ Others

Older(v, w) == dispatched[v] < dispatched[w] \/ (dispatched[v] = dispatched[w] /\ v < w)

\* The rows at or before the cutoff.
Stale == {w \in index : dispatched[w] + StaleAfter <= now}

\* list_stranded_execution_candidates: the first page of the index, and no other; _list_candidates
\* sorts it again, by identity.
FirstPage(q) ==
  /\ \A i, j \in DOMAIN q : i < j => q[i] < q[j]
  /\ Len(q) = BatchLimit \/ Range(q) = Stale
  /\ \A v \in Range(q), w \in Stale \ Range(q) : Older(v, w)

List(s) ==
  /\ sweepPc[s] = "idle"
  /\ \E n \in 1..BatchLimit : \E q \in [1..n -> Stale] :
       FirstPage(q) /\ page' = [page EXCEPT ![s] = q]
  /\ sweepPc' = [sweepPc EXCEPT ![s] = "read"]
  /\ UNCHANGED <<seen, tries>> /\ World

\* The disposition of the candidate in hand is known.
Disposed(s) ==
  /\ page' = [page EXCEPT ![s] = Tail(@)]
  /\ sweepPc' = [sweepPc EXCEPT ![s] = IF Len(page[s]) = 1 THEN "idle" ELSE "read"]
  /\ seen' = [seen EXCEPT ![s] = Unread] /\ tries' = [tries EXCEPT ![s] = 0]

Goto(s, label) == sweepPc' = [sweepPc EXCEPT ![s] = label] /\ UNCHANGED <<page, tries>>

\* The paired rows, strongly read: ALREADY_SETTLED, or on to the execution.  A row of the index
\* is DISPATCHED or later, and nothing writes its updated_at while it is.
ReadAuthority(s) ==
  LET w == Head(page[s]) IN
  /\ sweepPc[s] = "read" /\ World
  /\ \/ row[w] # "dispatched" /\ Disposed(s)
     \/ row[w] = "dispatched" /\ Goto(s, "describe") /\ UNCHANGED seen

\* Mutant of Describe: an execution that cannot be found raises.
DescribeFound(s) ==
  LET w == Head(page[s]) IN
  /\ sweepPc[s] = "describe" /\ World
  /\ \/ exec[w] # "over" /\ Disposed(s)
     \/ exec[w] = "over" /\ Goto(s, "reread") /\ UNCHANGED seen

\* RUNNING_PAST_BOUND leaves the row where it is; over or missing, the work is settled.
Describe(s) ==
  LET w == Head(page[s]) IN
  /\ sweepPc[s] = "describe" /\ World
  /\ \/ exec[w] = "running" /\ Disposed(s)
     \/ exec[w] # "running" /\ Goto(s, "reread") /\ UNCHANGED seen

\* The head of _settle's loop: settled meanwhile, or the same work under this version of the job.
Reread(s) ==
  LET w == Head(page[s]) IN
  /\ sweepPc[s] = "reread" /\ World
  /\ \/ row[w] # "dispatched" /\ Disposed(s)
     \/ /\ row[w] = "dispatched" /\ Goto(s, "settle")
        /\ seen' = [seen EXCEPT ![s] = [version |-> version[w], cancelled |-> cancelled[w]]]

\* Mutant of Current: the command is bound to the work only.
CurrentWork(s, w) == row[w] = "dispatched"

\* The command expects the version of the job that was read, and the work still active.
Current(s, w) == row[w] = "dispatched" /\ seen[s].version = version[w]

\* _settle_from_authority: a job being cancelled is cancelled; any other gets its work's failure.
Settle(s) ==
  LET w == Head(page[s]) IN
  /\ sweepPc[s] = "settle" /\ Current(s, w)
  /\ row' = [row EXCEPT ![w] = IF seen[s].cancelled THEN "cancelled" ELSE "failed"]
  /\ version' = [version EXCEPT ![w] = @ + 1]
  /\ Disposed(s)
  /\ UNCHANGED <<dispatched, exec, started, cancelled, sweepFaults>> /\ Others

\* A concurrent modification: read again, until SETTLEMENT_EXHAUSTED.
SettleConflict(s) ==
  LET w == Head(page[s]) IN
  /\ sweepPc[s] = "settle" /\ ~Current(s, w) /\ World
  /\ \/ /\ tries[s] < MaxRechecks
        /\ sweepPc' = [sweepPc EXCEPT ![s] = "reread"] /\ tries' = [tries EXCEPT ![s] = @ + 1]
        /\ seen' = [seen EXCEPT ![s] = Unread] /\ UNCHANGED page
     \/ tries[s] >= MaxRechecks /\ Disposed(s)

\* DEPENDENCY_UNAVAILABLE skips the candidate; a crash loses the page.
Unavailable(s) ==
  /\ sweepPc[s] # "idle" /\ sweepFaults < MaxSweepFaults /\ sweepFaults' = sweepFaults + 1
  /\ \/ Disposed(s)
     \/ /\ sweepPc' = [sweepPc EXCEPT ![s] = "idle"] /\ page' = [page EXCEPT ![s] = <<>>]
        /\ seen' = [seen EXCEPT ![s] = Unread] /\ tries' = [tries EXCEPT ![s] = 0]
  /\ UNCHANGED <<workVars, sweptJobVars>> /\ Others

SweepStep(s) ==
  ReadAuthority(s) \/ Describe(s) \/ Reread(s) \/ Settle(s) \/ SettleConflict(s)

SweepNext ==
  \/ \E w \in Works :
       \/ MarkDispatched(w) \/ Complete(w) \/ SellerCommand(w) \/ EndExecution(w)
       \/ ForgetExecution(w) \/ RedriveExecution(w) \/ IndexCatchesUp(w)
  \/ ExecutionTick
  \/ \E s \in Sweeps : List(s) \/ SweepStep(s) \/ Unavailable(s)

SweepSpec == SweepInit /\ [][SweepNext]_executionVars

\* The rule invokes the sweep for ever, an invocation goes on, the index catches up, and time
\* ends executions.  Workers and sellers owe nothing.
SweepFairness ==
  /\ WF_executionVars(ExecutionTick) /\ WF_executionVars(\E w \in Works : IndexCatchesUp(w))
  /\ WF_executionVars(\E w \in Works : EndExecution(w))
  /\ \A s \in Sweeps : WF_executionVars(List(s) \/ SweepStep(s))

-----------------------------------------------------------------------------
(* Properties.                                                             *)

\* The variables stay in their types; a sweep in flight has a candidate in hand, and no more of
\* them than its page; what it read of the job is no later than the job.  (_recover_one)
SweepTypeOK ==
  /\ row \in [Works -> {"absent", "dispatched", "completed", "failed", "cancelled"}]
  /\ index \subseteq Works /\ crossed \subseteq Works
  /\ exec \in [Works -> {"running", "over", "missing"}]
  /\ now \in 0..LastTick
  /\ sweepPc \in [Sweeps -> {"idle", "read", "describe", "reread", "settle"}]
  /\ \A s \in Sweeps :
       /\ (sweepPc[s] = "idle") = (page[s] = <<>>)
       /\ Len(page[s]) <= BatchLimit /\ tries[s] <= MaxRechecks
       /\ sweepPc[s] = "settle" => seen[s].version <= version[Head(page[s])]

\* Recovery ends no work under a running execution, unless the operator redrove it after the
\* sweep had seen it over.  (_recover_one's look at the execution before _settle)
EndsOnlyTheDead ==
  \A w \in Works :
    row[w] \in {"failed", "cancelled"} /\ exec[w] = "running" => w \in crossed

\* A job whose cancellation was asked for in time is cancelled by recovery, never given a failure
\* the seller could retry, although the sweep may have read it before.  (_settle_from_authority)
CancellationKept == \A w \in Works : row[w] = "failed" => ~cancelled[w]

\* What a worker or another sweep has settled, a slow sweep does not settle again.  (_settle)
SettledStays == [][\A w \in Works : row[w] \notin {"absent", "dispatched"} => row'[w] = row[w]]_row

\* Recovery ends only what is dead, and as the seller wanted it ended.
RecoverySound == SweepTypeOK /\ EndsOnlyTheDead /\ CancellationKept

\* Every dispatched work is at last settled, and once, whoever dies, in a page that redriven
\* executions may fill: what a sweep may not end leaves the head of the index in time.  (sweep)
StrandedSettled ==
  /\ SettledStays
  /\ SweepFairness =>
       \A w \in Works : row[w] = "dispatched" ~> row[w] \in {"completed", "failed", "cancelled"}
=============================================================================
