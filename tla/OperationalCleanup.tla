------------------------- MODULE OperationalCleanup -------------------------
(***************************************************************************)
(* The daily sweep that gives the operational rows of old terminal jobs    *)
(* their DynamoDB expiry (production/operational_cleanup.py), beside the   *)
(* life of the jobs and DynamoDB removing expired rows in its own time.    *)
(*                                                                         *)
(* The sweep runs with a reserved concurrency of one.  It scans for        *)
(* control jobs, and pages through the partition of an eligible job and    *)
(* then through its owner's partition for the receipts of that job.  What  *)
(* it has done is in a checkpoint that outlives it; it may die at any      *)
(* step.  Scan pages without a control job only move the cursor between    *)
(* two jobs and are left out, and so are the bounds on a whole cycle.      *)
(***************************************************************************)
EXTENDS Integers, Sequences, SequencesExt, FiniteSets

CONSTANTS JobOrder,       \* the jobs of one owner, in the order of a table scan
          JobRows,        \* kinds of rows of a job's partition, in key order
          OwnerRows,      \* kinds of a job's receipts in its owner's partition
          Retention,      \* terminal_retention
          Skew,           \* how far the sweep's clock may run ahead
          ScanPageSize,   \* assignment_page_size
          RunSearches,    \* max_scan_pages_per_run
          RunAssignments, \* max_assignment_pages_per_run
          LastEnd,        \* bound: jobs are created and end up to this time
          LastClock,      \* bound: time at which the clock stops
          MaxRaises       \* bound: runs that fail although they could go on

ASSUME ExpiryAssumption ==
  /\ JobOrder \in Seq(ToSet(JobOrder)) /\ JobRows \in Seq(ToSet(JobRows))
  /\ OwnerRows \in Seq(ToSet(OwnerRows))
  /\ IsInjective(JobOrder)
  /\ IsInjective(JobRows)
  /\ "meta" \in ToSet(JobRows)
  /\ IsInjective(OwnerRows)
  /\ ToSet(OwnerRows) \subseteq {"command", "upload"}
  /\ {Retention, ScanPageSize, RunSearches, RunAssignments} \subseteq Nat \ {0}
  /\ {Skew, LastEnd} \subseteq Nat
  /\ {LastClock, MaxRaises} \subseteq Nat

VARIABLES expiryClock, \* the time, in units of the retention
          jobRow,      \* job -> its state and the time of its last update
          expires,     \* row -> its expires_at, NoExpiry, or Absent
          checkpoint,  \* the persisted OperationalCleanupCheckpoint
          run,         \* the running invocation
          raised       \* runs that failed so far although they could go on

expiryVars == <<expiryClock, jobRow, expires, checkpoint, run, raised>>

-----------------------------------------------------------------------------
Jobs == ToSet(JobOrder)
JobStates == {"ABSENT", "ACTIVE", "APPROVED", "CANCELLED", "FAILED_TERMINAL"}
Eligible == {"CANCELLED", "FAILED_TERMINAL"}

Absent == -2
NoExpiry == -1

Rows == Jobs \X (ToSet(JobRows) \cup ToSet(OwnerRows))
Present(r) == expires[r] # Absent

\* The two partitions an assignment pages through.
JobPartition(j) == [i \in DOMAIN JobRows |-> <<j, JobRows[i]>>]
OwnerPartition ==
  LET k == Len(OwnerRows) IN
  [i \in 1..(Len(JobOrder) * k) |->
     <<JobOrder[((i - 1) \div k) + 1], OwnerRows[((i - 1) % k) + 1]>>]
Partition(phase, j) == IF phase = "job" THEN JobPartition(j) ELSE OwnerPartition

NoJobYet == "none"
\* scan: how far the scan has come; resume: where it goes on after the
\* active job, 0 when the table ends there; after: the assignment cursor.
EmptyCheckpoint ==
  [scan |-> 0, active |-> NoJobYet, resume |-> 0, phase |-> "job", after |-> 0]

IdleRun == [pc |-> "idle", now |-> 0, searches |-> 0, pages |-> 0,
         found |-> 0, resume |-> 0, eligible |-> FALSE, page |-> {}, last |-> 0]

ExpiryInit ==
  /\ expiryClock = 0
  /\ jobRow = [j \in Jobs |-> [state |-> "ABSENT", at |-> 0]]
  /\ expires = [r \in Rows |-> Absent]
  /\ checkpoint = EmptyCheckpoint
  /\ run = IdleRun
  /\ raised = 0

-----------------------------------------------------------------------------
(* The jobs and the table. *)

\* Completing the upload writes the job's rows and the upload's receipt,
\* which alone is written with an expiry of its own.
CreateJob(j) ==
  /\ jobRow[j].state = "ABSENT"
  /\ expiryClock <= LastEnd
  /\ jobRow' = [jobRow EXCEPT ![j] = [state |-> "ACTIVE", at |-> expiryClock]]
  /\ expires' = [r \in Rows |->
                  IF r[1] # j \/ r[2] = "command" THEN expires[r]
                  ELSE IF r[2] = "upload" THEN expiryClock + Retention ELSE NoExpiry]
  /\ UNCHANGED <<expiryClock, checkpoint, run, raised>>

\* The seller's command or a worker ends the job; a command leaves its
\* receipt.  No handler changes a job after that.
End(j, s) ==
  /\ jobRow[j].state = "ACTIVE"
  /\ expiryClock <= LastEnd
  /\ jobRow' = [jobRow EXCEPT ![j] = [state |-> s, at |-> expiryClock]]
  /\ expires' = [r \in Rows |->
                  IF r = <<j, "command">> /\ s # "FAILED_TERMINAL"
                  THEN NoExpiry ELSE expires[r]]
  /\ UNCHANGED <<expiryClock, checkpoint, run, raised>>

\* DynamoDB deletes a row some time after its expiry, in no order.
ExpireRow(r) ==
  /\ expires[r] \in 0..expiryClock
  /\ expires' = [expires EXCEPT ![r] = Absent]
  /\ UNCHANGED <<expiryClock, jobRow, checkpoint, run, raised>>

ExpiryTick ==
  /\ expiryClock < LastClock
  /\ expiryClock' = expiryClock + 1
  /\ UNCHANGED <<jobRow, expires, checkpoint, run, raised>>

-----------------------------------------------------------------------------
(* The scan. *)

\* sweep(): reads the clock, which may be fast, and loads the checkpoint.
Start ==
  /\ run.pc = "idle"
  /\ \E ahead \in 0..Skew :
        run' = [IdleRun EXCEPT !.pc = "choose", !.now = expiryClock + ahead]
  /\ UNCHANGED <<expiryClock, jobRow, expires, checkpoint, raised>>

\* On to the next page of the run.
Continue == [IdleRun EXCEPT !.pc = "choose", !.now = run.now,
                         !.searches = run.searches, !.pages = run.pages]
Within == (run.searches < RunSearches) /\ (run.pages < RunAssignments)

EndSweep ==
  /\ run.pc = "choose"
  /\ ~Within
  /\ run' = IdleRun
  /\ UNCHANGED <<expiryClock, jobRow, expires, checkpoint, raised>>

\* The jobs whose row the scan has yet to pass.
Unscanned(from) ==
  {i \in DOMAIN JobOrder : (i > from) /\ Present(<<JobOrder[i], "meta">>)}
IsFirst(i, S) == (i \in S) /\ (\A k \in S : i <= k)

\* Mutant: trusts the clock of the function.
OldTerminalOwnClock(j) ==
  /\ jobRow[j].state \in Eligible
  /\ run.now - jobRow[j].at >= Retention

\* _classify: the lower of the two times decides whether the job is old.
OldTerminal(j) ==
  /\ jobRow[j].state \in Eligible
  /\ LET now == IF run.now < expiryClock THEN run.now ELSE expiryClock
     IN  now - jobRow[j].at >= Retention

\* search_next_job: the first job of a page.  The cursor ends the scan only
\* when no row follows, which rows of other kinds may do.
Search ==
  /\ run.pc = "choose"
  /\ Within
  /\ checkpoint.active = NoJobYet
  /\ LET left == Unscanned(checkpoint.scan) IN
       IF left = {}
       THEN run' = [run EXCEPT !.pc = "searched", !.searches = @ + 1,
                                   !.found = 0, !.resume = 0, !.eligible = FALSE]
       ELSE \E i \in left, end \in BOOLEAN :
              /\ IsFirst(i, left)
              /\ end => left = {i}
              /\ run' = [run EXCEPT !.pc = "searched", !.searches = @ + 1,
                             !.found = i, !.resume = IF end THEN 0 ELSE i,
                             !.eligible = OldTerminal(JobOrder[i])]
  /\ UNCHANGED <<expiryClock, jobRow, expires, checkpoint, raised>>

\* _advance_scan: the end of the table resets the checkpoint and the run.
AdvanceScan ==
  /\ run.pc = "searched"
  /\ ~run.eligible
  /\ checkpoint' = [EmptyCheckpoint EXCEPT !.scan = run.resume]
  /\ run' = IF run.resume = 0 THEN IdleRun ELSE Continue
  /\ UNCHANGED <<expiryClock, jobRow, expires, raised>>

\* Mutant: moves the scan past the job and forgets to make it the active one.
StartAssignmentLost ==
  /\ run.pc = "searched"
  /\ run.eligible
  /\ checkpoint' = [EmptyCheckpoint EXCEPT !.scan = run.resume]
  /\ run' = Continue
  /\ UNCHANGED <<expiryClock, jobRow, expires, raised>>

\* _start_assignment
StartAssignment ==
  /\ run.pc = "searched"
  /\ run.eligible
  /\ checkpoint' = [EmptyCheckpoint EXCEPT
                      !.scan = run.resume, !.resume = run.resume,
                      !.active = JobOrder[run.found]]
  /\ run' = Continue
  /\ UNCHANGED <<expiryClock, jobRow, expires, raised>>

-----------------------------------------------------------------------------
(* The assignment of one job. *)

\* One query: the next rows of the partition, and the key of the last when
\* the page is full.
NextRows ==
  LET rows == Partition(checkpoint.phase, checkpoint.active)
      left == {i \in DOMAIN rows : (i > checkpoint.after) /\ Present(rows[i])}
  IN  {i \in left : Cardinality({k \in left : k < i}) < ScanPageSize}
LastKey(page) ==
  IF Cardinality(page) < ScanPageSize THEN 0
  ELSE CHOOSE i \in page : \A k \in page : k <= i

\* The expiry is that of the authority that was stored with the job.
Expiry == jobRow[checkpoint.active].at + Retention
Mine(i) == Partition(checkpoint.phase, checkpoint.active)[i][1] = checkpoint.active

\* _select_expiry_rows refuses a row of the job with another expiry.
Conflict(i) ==
  /\ Mine(i)
  /\ expires[Partition(checkpoint.phase, checkpoint.active)[i]]
       \notin {NoExpiry, Expiry}

Query ==
  /\ run.pc = "choose"
  /\ Within
  /\ checkpoint.active # NoJobYet
  /\ ~\E i \in NextRows : Conflict(i)
  /\ ~(checkpoint.phase = "job" /\ NextRows = {})
  /\ run' = [run EXCEPT !.pc = "queried", !.page = {i \in NextRows : Mine(i)},
                            !.last = LastKey(NextRows)]
  /\ UNCHANGED <<expiryClock, jobRow, expires, checkpoint, raised>>

\* _finish_active: on to the next job, or the end of the table.
Finished == [EmptyCheckpoint EXCEPT !.scan = checkpoint.resume]
AfterFinish == IF checkpoint.resume = 0 THEN IdleRun ELSE Continue

\* An empty page of the job's partition counts as a changed authority.
AbandonEmpty ==
  /\ run.pc = "choose"
  /\ Within
  /\ checkpoint.active # NoJobYet
  /\ checkpoint.phase = "job"
  /\ NextRows = {}
  /\ checkpoint' = Finished
  /\ run' = AfterFinish
  /\ UNCHANGED <<expiryClock, jobRow, expires, raised>>

PageRows ==
  {Partition(checkpoint.phase, checkpoint.active)[i] : i \in run.page}
AuthorityHolds ==
  /\ Present(<<checkpoint.active, "meta">>)
  /\ jobRow[checkpoint.active].state \in Eligible
Writable == \A r \in PageRows : expires[r] \in {NoExpiry, Expiry}

\* The transaction over the rows of the page and the job's row.
Assign ==
  /\ run.pc = "queried"
  /\ run.page # {} => (AuthorityHolds /\ Writable)
  /\ expires' = [r \in Rows |-> IF r \in PageRows THEN Expiry ELSE expires[r]]
  /\ run' = [run EXCEPT !.pc = "assigned", !.pages = @ + 1, !.page = {}]
  /\ UNCHANGED <<expiryClock, jobRow, checkpoint, raised>>

\* A cancelled transaction re-reads the job's row.
AbandonCancelled ==
  /\ run.pc = "queried"
  /\ run.page # {}
  /\ ~AuthorityHolds
  /\ checkpoint' = Finished
  /\ run' = AfterFinish
  /\ UNCHANGED <<expiryClock, jobRow, expires, raised>>

\* _advance_assignment
AdvanceAssignment ==
  /\ run.pc = "assigned"
  /\ IF run.last = 0 /\ checkpoint.phase = "owner"
     THEN checkpoint' = Finished /\ run' = AfterFinish
     ELSE /\ checkpoint' =
               IF run.last = 0
               THEN [checkpoint EXCEPT !.phase = "owner", !.after = 0]
               ELSE [checkpoint EXCEPT !.after = run.last]
          /\ run' = Continue
  /\ UNCHANGED <<expiryClock, jobRow, expires, raised>>

\* A conflicting row makes its run fail, whatever made it conflict.
Stuck ==
  \/ run.pc = "choose" /\ checkpoint.active # NoJobYet /\ \E i \in NextRows : Conflict(i)
  \/ run.pc = "queried" /\ run.page # {} /\ AuthorityHolds /\ ~Writable

\* Any other step may fail too, and the function may die; the next run starts
\* from the checkpoint.
RaiseInRun ==
  /\ run.pc # "idle"
  /\ \/ Stuck /\ UNCHANGED raised
     \/ ~Stuck /\ raised < MaxRaises /\ raised' = raised + 1
  /\ run' = IdleRun
  /\ UNCHANGED <<expiryClock, jobRow, expires, checkpoint>>

-----------------------------------------------------------------------------
Step ==
  \/ Start \/ EndSweep
  \/ Search \/ AdvanceScan \/ StartAssignment
  \/ Query \/ AbandonEmpty \/ Assign \/ AbandonCancelled \/ AdvanceAssignment

ExpiryNext ==
  \/ \E j \in Jobs : CreateJob(j)
  \/ \E j \in Jobs, s \in {"APPROVED", "CANCELLED", "FAILED_TERMINAL"} : End(j, s)
  \/ \E r \in Rows : ExpireRow(r)
  \/ ExpiryTick
  \/ Step
  \/ RaiseInRun

ExpirySpec == ExpiryInit /\ [][ExpiryNext]_expiryVars

\* The schedule starts runs for ever, a run goes on or fails, and DynamoDB does
\* delete expired rows.
ExpiryFairness ==
  /\ WF_expiryVars(ExpiryTick)
  /\ WF_expiryVars(\E r \in Rows : ExpireRow(r))
  /\ WF_expiryVars(Step \/ RaiseInRun)

-----------------------------------------------------------------------------
(* Properties. *)

\* The values of the variables; an active job is one the sweep may expire,
\* and its cursor lies inside the partition it pages through.
ExpiryTypeOK ==
  /\ expiryClock \in 0..LastClock
  /\ jobRow \in [Jobs -> [state : JobStates, at : 0..LastClock]]
  /\ expires \in [Rows -> {Absent, NoExpiry} \cup 0..(LastClock + Retention)]
  /\ checkpoint.scan \in 0..Len(JobOrder)
  /\ checkpoint.resume \in 0..Len(JobOrder)
  /\ checkpoint.active \in Jobs \cup {NoJobYet}
  /\ checkpoint.active # NoJobYet =>
        /\ jobRow[checkpoint.active].state \in Eligible
        /\ checkpoint.scan = checkpoint.resume
        /\ checkpoint.after \in 0..Len(Partition(checkpoint.phase, checkpoint.active))
  /\ run.searches \in 0..RunSearches
  /\ run.pages \in 0..RunAssignments
  /\ raised \in 0..MaxRaises

\* Rows the sweep has given an expiry belong to a job that has been terminal,
\* and not approved, for the whole retention by the true clock: an approved
\* job is Phase 7's authority, and a fast clock does not shorten the wait.
OnlyOldTerminalExpires ==
  \A r \in Rows : (expires[r] >= 0 /\ r[2] # "upload") =>
     /\ jobRow[r[1]].state \in Eligible
     /\ expiryClock - jobRow[r[1]].at >= Retention
     /\ expires[r] = jobRow[r[1]].at + Retention

\* A row DynamoDB has deleted stays deleted: the assignment of a page read
\* earlier does not bring rows back as fragments that hold only an expiry.
RemovedStaysRemoved ==
  [][\A r \in Rows : (~Present(r) /\ Present(r)') =>
        jobRow'[r[1]] # jobRow[r[1]]]_expiryVars

\* The sweep expires what is old enough, from a checkpoint that makes sense.
ExpirySound == ExpiryTypeOK /\ OnlyOldTerminalExpires

\* The row of every job that stays cancelled or failed for the retention
\* disappears in the end and for good, whatever receipts other jobs left
\* behind and wherever runs fail.
TerminalJobsDisappear ==
  /\ RemovedStaysRemoved
  /\ ExpiryFairness =>
       \A j \in Jobs : (jobRow[j].state \in Eligible /\ Present(<<j, "meta">>))
                          ~> ~Present(<<j, "meta">>)

\* Documented (docs/phase6-acceptance-hardening.md): the cleanup assigns the
\* TTL to the job's partition "and matching owner receipts".  No receipt is
\* left without expiry once the job's row is gone.
NoReceiptStranded ==
  \A j \in Jobs :
     (jobRow[j].state \in Eligible /\ ~Present(<<j, "meta">>))
        => expires[<<j, "command">>] # NoExpiry

\* Documented (OperationalCleanupAuthorityChangedError): an assignment is
\* abandoned when "the exact terminal job authority changed".
AbandonedOnlyOnChange ==
  [][(checkpoint.active # NoJobYet /\ checkpoint'.active = NoJobYet
        /\ checkpoint.phase = "job") => ~AuthorityHolds]_expiryVars
=============================================================================
