---------------------------- MODULE JudgeCleanup ----------------------------
(***************************************************************************)
(* The cleanup of judge_cleanup/service.py: a scheduled worker discovers   *)
(* the judge's published jobs page by page, registers each with its        *)
(* evidence, and, half an hour after the publication was verified, deletes *)
(* the product under a lease, and proves it absent.  Runs overlap, die and *)
(* time out, commits lose their answers, deletions take effect late, and   *)
(* the shop's owner changes or removes products.                           *)
(*                                                                         *)
(* Times are countdowns: next_attempt_at, which of a lease is its end, is  *)
(* how long a record still waits.  A run that is not in dry mode is meant. *)
(***************************************************************************)
EXTENDS Naturals, FiniteSets, Sequences, FiniteSetsExt

CONSTANTS
  JudgeJobs,     \* the judge's jobs
  Early,         \* those requested before the campaign
  Poisoned,      \* those whose source rows cannot be loaded
  Runs,          \* sweep invocations alive at once (1 reserved in the infrastructure)
  JudgePageSize, \* jobs of a discovery page
  MaxAttempts,   \* attempts of a record (8)
  Dwell,         \* the viewing window (1800 s)
  Lease,         \* of a claim (90 s)
  Life,          \* of an invocation (60 s)
  Margin,        \* time a deletion must have left (25 s)
  Backoff,       \* of a retry
  MaxFaults,     \* bound: crashes, unavailable dependencies, lost answers
  MaxSlow,       \* bound: ticks that pass while a run is alive
  MaxChanges,    \* bound: changes by the shop's owner and of source rows
  None

ASSUME CleanupAssumption ==
  /\ IsFiniteSet(JudgeJobs) /\ None \notin JudgeJobs
  /\ Early \subseteq JudgeJobs /\ Poisoned \subseteq JudgeJobs
  /\ JudgePageSize \in Nat \ {0} /\ MaxAttempts \in Nat \ {0} /\ Dwell \in Nat
  /\ Lease \in Nat /\ Margin \in Nat /\ Life \in Nat /\ Backoff \in Nat
  /\ Margin < Lease /\ Life < Lease
  /\ MaxSlow \in Nat /\ MaxFaults \in Nat /\ MaxChanges \in Nat

VARIABLES
  rank,           \* place in the owner's index: its newest update has the highest
  shown,          \* the job is published
  source,         \* its source rows are as they were when it was published
  window,         \* what is left of its viewing window
  product,        \* at Printify: "none", "live", "changed", "gone"
  removing,       \* jobs whose DELETE was taken and has not yet had its effect
  record,         \* the cleanup record of each job
  discoverCursor, \* the rank discovery has reached; 0 at its start
  runPc,          \* where a run stands
  life,           \* what is left of it
  inHand,         \* the job it processes
  held,           \* version of its record as it was read or claimed
  jobPage,        \* jobs it has left to look at in its discovery page
  turn,           \* the cursor it read, and the one it will write
  sent,           \* DELETEs sent for each job
  faults, slow, changes

worldVars == <<rank, shown, source, window, product, removing>>
runVars == <<runPc, life, inHand, held, jobPage, turn>>
countVars == <<sent, faults, slow, changes>>
cleanupVars == <<worldVars, record, discoverCursor, runVars, countVars>>

NoRecord == [status |-> "none", version |-> 0, attempts |-> 0, wait |-> 0]
Ended == {"deleted", "absent", "blocked", "exhausted"}
NoTurn == [from |-> 0, to |-> 0]

CleanupInit ==
  /\ rank \in {f \in [JudgeJobs -> 1..Cardinality(JudgeJobs)] :
                \A i, j \in JudgeJobs : f[i] = f[j] => i = j}
  /\ shown = [j \in JudgeJobs |-> FALSE] /\ source = [j \in JudgeJobs |-> TRUE]
  /\ window = [j \in JudgeJobs |-> Dwell] /\ product = [j \in JudgeJobs |-> "none"] /\ removing = {}
  /\ record = [j \in JudgeJobs |-> NoRecord] /\ discoverCursor = 0
  /\ runPc = [r \in Runs |-> "idle"] /\ life = [r \in Runs |-> 0] /\ inHand = [r \in Runs |-> None]
  /\ held = [r \in Runs |-> 0] /\ jobPage = [r \in Runs |-> <<>>] /\ turn = [r \in Runs |-> NoTurn]
  /\ sent = [j \in JudgeJobs |-> 0] /\ faults = 0 /\ slow = 0 /\ changes = 0

-----------------------------------------------------------------------------
(* The judge, the shop, the provider and the clock.                        *)

NoRun == UNCHANGED <<record, discoverCursor, runVars>>
Top == Max({rank[j] : j \in JudgeJobs})

\* The judge's job is published: its row is the newest of the owner's index.
Publish(j) ==
  /\ ~shown[j]
  /\ rank' = [rank EXCEPT ![j] = Top + 1]
  /\ shown' = [shown EXCEPT ![j] = TRUE] /\ product' = [product EXCEPT ![j] = "live"]
  /\ UNCHANGED <<source, window, removing, countVars>> /\ NoRun

Change == changes < MaxChanges /\ changes' = changes + 1 /\ UNCHANGED <<sent, faults, slow>>

\* In Printify, or in the table the evidence was read from.
ShopChanges(j) ==
  /\ product[j] = "live" /\ Change
  /\ \E p \in {"changed", "gone"} : product' = [product EXCEPT ![j] = p]
  /\ UNCHANGED <<rank, shown, source, window, removing>> /\ NoRun

SourceChanges(j) ==
  /\ record[j].status # "none" /\ source[j] /\ Change
  /\ source' = [source EXCEPT ![j] = FALSE]
  /\ UNCHANGED <<rank, shown, window, product, removing>> /\ NoRun

ProviderRemoves(j) ==
  /\ j \in removing /\ removing' = removing \ {j}
  /\ product' = [product EXCEPT ![j] = "gone"]
  /\ UNCHANGED <<rank, shown, source, window, countVars>> /\ NoRun

Less(n) == IF n = 0 THEN 0 ELSE n - 1

\* Time passes while no run has used up its life.
JudgeTick ==
  /\ \A r \in Runs : runPc[r] # "idle" => life[r] > 0
  /\ slow' = slow + (IF \E r \in Runs : runPc[r] # "idle" THEN 1 ELSE 0) /\ slow' <= MaxSlow
  /\ window' = [j \in JudgeJobs |-> IF shown[j] THEN Less(window[j]) ELSE window[j]]
  /\ record' = [j \in JudgeJobs |-> [record[j] EXCEPT !.wait = Less(@)]]
  /\ life' = [r \in Runs |-> Less(life[r])]
  /\ UNCHANGED <<rank, shown, source, product, removing, discoverCursor, runPc, inHand, held,
                 jobPage, turn, sent, faults, changes>>

-----------------------------------------------------------------------------
(* A sweep: due records first, then one page of discovery.                 *)

World == UNCHANGED <<worldVars, slow, changes>>
Quiet == UNCHANGED <<sent, faults>>
NoRecordWritten == UNCHANGED <<record, discoverCursor>>

Goto(r, label) == runPc' = [runPc EXCEPT ![r] = label]

\* The run is over.
Stop(r) ==
  /\ Goto(r, "idle") /\ life' = [life EXCEPT ![r] = 0] /\ inHand' = [inHand EXCEPT ![r] = None]
  /\ held' = [held EXCEPT ![r] = 0] /\ jobPage' = [jobPage EXCEPT ![r] = <<>>]
  /\ turn' = [turn EXCEPT ![r] = NoTurn]

\* Processing is over, of this record or of none; discovery has its own margin.
Processed(r) ==
  /\ Goto(r, "discover") /\ inHand' = [inHand EXCEPT ![r] = None] /\ held' = [held EXCEPT ![r] = 0]
  /\ UNCHANGED <<life, jobPage, turn>>

Due(j) == record[j].status \in {"pending", "leased", "retry"} /\ record[j].wait = 0

\* due: max_jobs_per_run is 1; the record is read again behind the index.
\* (Runs overlap while time may still pass in one.)
BeginRun(r) ==
  /\ runPc[r] = "idle" /\ NoRecordWritten /\ World /\ Quiet
  /\ slow < MaxSlow \/ \A s \in Runs : runPc[s] = "idle"
  /\ life' = [life EXCEPT ![r] = Life]
  /\ \/ \E j \in JudgeJobs :
          /\ Due(j) /\ Goto(r, "claim")
          /\ inHand' = [inHand EXCEPT ![r] = j] /\ held' = [held EXCEPT ![r] = record[j].version]
     \/ (\A j \in JudgeJobs : ~Due(j)) /\ Goto(r, "discover") /\ UNCHANGED <<inHand, held>>
  /\ UNCHANGED <<jobPage, turn>>

\* Mutant of Same: the transaction puts the record whatever is there.
SameBlind(r) == TRUE

\* The condition of every commit: the payload that was read.
Same(r) == record[inHand[r]].version = held[r]

Write(r, status, attempts, wait) ==
  record' = [record EXCEPT ![inHand[r]] = [status |-> status, version |-> @.version + 1,
                                        attempts |-> attempts, wait |-> wait]]

\* The lease is an attempt; a record without attempts left is exhausted.
Claim(r) ==
  LET j == inHand[r] IN
  /\ runPc[r] = "claim" /\ World /\ UNCHANGED discoverCursor /\ Quiet
  /\ \/ ~Same(r) /\ Processed(r) /\ UNCHANGED record
     \/ /\ Same(r) /\ record[j].attempts = MaxAttempts
        /\ Write(r, "exhausted", MaxAttempts, 0) /\ Processed(r)
     \/ /\ Same(r) /\ record[j].attempts < MaxAttempts
        /\ Write(r, "leased", record[j].attempts + 1, Lease)
        /\ held' = [held EXCEPT ![r] = record[j].version + 1]
        /\ Goto(r, "look") /\ UNCHANGED <<life, inHand, jobPage, turn>>

\* Where the outcome of an attempt waits to be written.
Outcomes == [deleted |-> "endDeleted", absent |-> "endAbsent",
             blocked |-> "endBlocked", retry |-> "endRetry"]

Ends(r, status) == Goto(r, Outcomes[status])

LeftAlone(r) == NoRecordWritten /\ World /\ Quiet /\ UNCHANGED <<life, inHand, held, jobPage, turn>>

\* The source is read again, then the product.
Look(r) ==
  LET j == inHand[r] IN
  /\ runPc[r] = "look" /\ LeftAlone(r)
  /\ \/ ~source[j] /\ Ends(r, "blocked")
     \/ source[j] /\ product[j] = "gone" /\ Ends(r, "absent")
     \/ source[j] /\ product[j] = "changed" /\ Ends(r, "blocked")
     \/ source[j] /\ product[j] = "live" /\ Goto(r, "recheck")

\* Time enough under a lease that is still this run's.
LeaseGood(r) == record[inHand[r]].wait > Margin /\ life[r] >= Margin /\ Same(r)

RecheckLease(r) ==
  /\ runPc[r] = "recheck" /\ LeftAlone(r)
  /\ \/ ~source[inHand[r]] /\ Ends(r, "blocked")
     \/ source[inHand[r]] /\ ~LeaseGood(r) /\ Ends(r, "retry")
     \/ source[inHand[r]] /\ LeaseGood(r) /\ Goto(r, "delete")

\* 200, 204 and 404 go on to the readback; the deletion may take effect later.  Anything else is
\* a retry, whatever the provider did.
Delete(r) ==
  LET j == inHand[r] IN
  /\ runPc[r] = "delete" /\ sent' = [sent EXCEPT ![j] = @ + 1]
  /\ removing' = removing \cup {j} \/ UNCHANGED removing
  /\ \/ (j \in removing' \/ product[j] = "gone") /\ Goto(r, "readback")
     \/ Ends(r, "retry")
  /\ UNCHANGED <<rank, shown, source, window, product, changes, faults, slow, life, inHand,
                 held, jobPage, turn>>
  /\ NoRecordWritten

Readback(r) ==
  LET j == inHand[r] IN
  /\ runPc[r] = "readback" /\ LeftAlone(r)
  /\ \/ product[j] = "gone" /\ Ends(r, "deleted")
     \/ product[j] = "live" /\ Ends(r, "retry")
     \/ product[j] = "changed" /\ Ends(r, "blocked")

Ending(r) == \E s \in DOMAIN Outcomes : runPc[r] = Outcomes[s]
Outcome(r) == CHOOSE s \in DOMAIN Outcomes : runPc[r] = Outcomes[s]

\* The last attempt that may be retried exhausts the record; a lost lease raises.
Finish(r) ==
  LET attempts == record[inHand[r]].attempts
      status == IF Outcome(r) = "retry" /\ attempts = MaxAttempts THEN "exhausted" ELSE Outcome(r)
  IN
  /\ Ending(r) /\ World /\ UNCHANGED discoverCursor /\ Quiet
  /\ \/ Same(r) /\ Write(r, status, attempts, Backoff) /\ Processed(r)
     \/ ~Same(r) /\ Stop(r) /\ UNCHANGED record

\* The next page after the cursor, newest first; a page that is not full starts over.
After(c) == {j \in JudgeJobs : c = 0 \/ rank[j] < c}
Newer(i, j) == rank[i] > rank[j]
PageAfter(c) ==
  {j \in After(c) : Cardinality({i \in After(c) : Newer(i, j)}) < JudgePageSize}

Discover(r) ==
  LET p == PageAfter(discoverCursor)
      published == {j \in p : shown[j]} IN
  /\ runPc[r] = "discover" /\ life[r] > 0 /\ NoRecordWritten /\ World /\ Quiet
  /\ \E q \in [1..Cardinality(published) -> published] :
       /\ \A i, k \in DOMAIN q : i < k => Newer(q[i], q[k])
       /\ jobPage' = [jobPage EXCEPT ![r] = q]
  /\ turn' = [turn EXCEPT ![r] =
                [from |-> discoverCursor,
                 to |-> IF Cardinality(p) < JudgePageSize THEN 0 ELSE Min({rank[j] : j \in p})]]
  /\ Goto(r, "page") /\ UNCHANGED <<life, inHand, held>>

\* Registered before, not to be loaded, or of another campaign: recorded if need be, and passed.
OfCampaign(j) == record[j].status = "none" /\ j \notin Poisoned \cup Early

\* Mutant of RegisterNext: a job that cannot be loaded ends the run.
RegisterNextOrRaise(r) ==
  /\ runPc[r] = "page" /\ jobPage[r] # <<>> /\ life[r] > 0
  /\ UNCHANGED discoverCursor /\ World /\ Quiet
  /\ LET j == Head(jobPage[r]) IN
       IF j \in Poisoned THEN Stop(r) /\ UNCHANGED record
       ELSE /\ record' = IF OfCampaign(j)
                         THEN [record EXCEPT ![j] = [status |-> "pending", version |-> 1,
                                                     attempts |-> 0, wait |-> window[j]]]
                         ELSE record
            /\ jobPage' = [jobPage EXCEPT ![r] = Tail(@)]
            /\ UNCHANGED <<runPc, life, inHand, held, turn>>

\* One job of the page: put if absent, with the evidence of this moment.
RegisterNext(r) ==
  /\ runPc[r] = "page" /\ jobPage[r] # <<>> /\ life[r] > 0
  /\ UNCHANGED discoverCursor /\ World /\ Quiet
  /\ LET j == Head(jobPage[r]) IN
       record' = IF OfCampaign(j)
                 THEN [record EXCEPT ![j] = [status |-> "pending", version |-> 1,
                                             attempts |-> 0, wait |-> window[j]]]
                 ELSE record
  /\ jobPage' = [jobPage EXCEPT ![r] = Tail(@)]
  /\ UNCHANGED <<runPc, life, inHand, held, turn>>

\* The whole page was looked at: the cursor moves, unless another run has moved it.
Advance(r) ==
  /\ runPc[r] = "page" /\ jobPage[r] = <<>>
  /\ discoverCursor' = IF discoverCursor = turn[r].from THEN turn[r].to ELSE discoverCursor
  /\ Stop(r) /\ UNCHANGED record /\ World /\ Quiet

\* Too little time for discovery, or for the rest of its page.
OutOfTime(r) ==
  /\ runPc[r] # "idle" /\ life[r] = 0
  /\ Stop(r) /\ NoRecordWritten /\ World /\ Quiet

Fault == faults < MaxFaults /\ faults' = faults + 1 /\ UNCHANGED sent

\* A dependency fails in an attempt: the attempt is retried.
Unavailable(r) ==
  /\ runPc[r] \in {"look", "recheck", "delete", "readback"} /\ Fault
  /\ Ends(r, "retry")
  /\ NoRecordWritten /\ World /\ UNCHANGED <<life, inHand, held, jobPage, turn>>

\* A run dies where it stands; a commit that has lost its answer raises.
Dies(r) == runPc[r] # "idle" /\ Fault /\ Stop(r) /\ NoRecordWritten /\ World

AnswerLost(r) ==
  /\ Fault /\ World /\ Same(r) /\ Stop(r) /\ UNCHANGED discoverCursor
  /\ \/ /\ runPc[r] = "claim" /\ record[inHand[r]].attempts < MaxAttempts
        /\ Write(r, "leased", record[inHand[r]].attempts + 1, Lease)
     \/ /\ Ending(r) /\ Outcome(r) # "retry"
        /\ Write(r, Outcome(r), record[inHand[r]].attempts, Backoff)

RunStep(r) ==
  \/ Claim(r) \/ Look(r) \/ RecheckLease(r) \/ Delete(r) \/ Readback(r) \/ Finish(r)
  \/ Discover(r) \/ RegisterNext(r) \/ Advance(r) \/ OutOfTime(r)

CleanupNext ==
  \/ \E j \in JudgeJobs : Publish(j) \/ ShopChanges(j) \/ SourceChanges(j) \/ ProviderRemoves(j)
  \/ JudgeTick
  \/ \E r \in Runs :
       \/ BeginRun(r) \/ RunStep(r) \/ Unavailable(r) \/ Dies(r)
       \/ (inHand[r] # None /\ AnswerLost(r))

CleanupSpec == CleanupInit /\ [][CleanupNext]_cleanupVars

\* The schedule invokes for ever, an invocation goes on, the provider deletes what it has
\* accepted, and time passes between invocations however short each is; slow runs and faults
\* are bounded.
CleanupFairness ==
  /\ SF_cleanupVars(JudgeTick) /\ WF_cleanupVars(\E j \in JudgeJobs : ProviderRemoves(j))
  /\ \A r \in Runs : WF_cleanupVars(BeginRun(r) \/ RunStep(r))

-----------------------------------------------------------------------------
(* Properties.                                                             *)

\* The variables stay in their types; what a run has read of its record is no later than the
\* record, and a leased record has an attempt behind it.  (CleanupRecord.fixed_authority)
JudgeCleanupTypeOK ==
  /\ product \in [JudgeJobs -> {"none", "live", "changed", "gone"}] /\ removing \subseteq JudgeJobs
  /\ \A j \in JudgeJobs :
       /\ record[j].status \in {"none", "pending", "leased", "retry"} \cup Ended
       /\ record[j].attempts \in 0..MaxAttempts
       /\ record[j].status \in {"leased", "retry"} \cup Ended => record[j].attempts > 0
  /\ runPc \in [Runs -> {"idle", "claim", "look", "recheck", "delete", "readback",
                     "discover", "page"}
                     \cup {Outcomes[o] : o \in DOMAIN Outcomes}]
  /\ \A r \in Runs :
       life[r] \in 0..Life /\ (inHand[r] # None => held[r] <= record[inHand[r]].version)

\* Overlapping runs never delete the same product: when a lease is taken over, the run that had
\* it is past its deletion or kept from it.  (process, the check before provider.delete)
OneDeleter ==
  \A r, s \in Runs : r # s /\ runPc[r] = "delete" /\ runPc[s] = "delete" => inHand[r] # inHand[s]

\* However runs die, a product gets no more DELETEs than its record may have attempts.  (process)
AttemptsBounded == \A j \in JudgeJobs : sent[j] <= MaxAttempts

\* No product of another campaign is deleted, and none before its viewing window is over,
\* whenever it is discovered.  (sweep, CleanupRecord.deadline)
WindowKept == \A j \in JudgeJobs : sent[j] > 0 => window[j] = 0 /\ j \notin Early

\* A record closed as deleted or absent has no product left at the provider.  (present)
ClosedMeansGone ==
  \A j \in JudgeJobs : record[j].status \in {"deleted", "absent"} => product[j] = "gone"

\* What is deleted is deleted by one run at a time, rarely enough, late enough, and for good.
DeletionSound ==
  /\ JudgeCleanupTypeOK /\ OneDeleter /\ AttemptsBounded
  /\ WindowKept /\ ClosedMeansGone

\* Every published job of the campaign that can be loaded is at last discovered and its record
\* closed, past poisoned neighbours, new publications and dying runs.  (sweep)
EveryProductClosed ==
  CleanupFairness =>
    \A j \in JudgeJobs \ (Early \cup Poisoned) : shown[j] ~> record[j].status \in Ended
=============================================================================
