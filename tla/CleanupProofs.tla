--------------------------- MODULE CleanupProofs ----------------------------
(***************************************************************************)
(* Proofs about what is removed: JudgeCleanup, OperationalCleanup and, with *)
(* UploadIntake, SourceRetention, for every number of sessions, jobs, rows, *)
(* requests, versions and pages.                                           *)
(*                                                                         *)
(* In each a scan reads what is old enough to be removed and removes it    *)
(* later.  JudgeInv, ExpiryInv and SourceInv say why that is still right   *)
(* then: a lease outlives the one who holds it, what was old stays old and *)
(* terminal, and a request ends before a version it may refer to is old    *)
(* enough to be released.                                                  *)
(***************************************************************************)
EXTENDS JudgeCleanup, OperationalCleanup, SourceRetention, FiniteSetTheorems,
  WellFoundedInduction, SequenceTheorems, TLAPS

-----------------------------------------------------------------------------
(* The judge's products.                                                   *)

RecordStates == {"none", "pending", "leased", "retry", "deleted", "absent", "blocked", "exhausted"}
Attempt == {"look", "recheck", "delete", "readback",
            "endDeleted", "endAbsent", "endBlocked", "endRetry"}
RunStates == {"idle", "claim", "discover", "page"} \cup Attempt

\* The types of the variables; times are countdowns, and rank and turn have none to keep.
CleanupTyped ==
  /\ shown \in [JudgeJobs -> BOOLEAN] /\ window \in [JudgeJobs -> Nat]
  /\ product \in [JudgeJobs -> {"none", "live", "changed", "gone"}] /\ removing \subseteq JudgeJobs
  /\ record \in [JudgeJobs -> [status : RecordStates, version : Nat,
                               attempts : 0..MaxAttempts, wait : Nat]]
  /\ runPc \in [Runs -> RunStates] /\ life \in [Runs -> 0..Life]
  /\ inHand \in [Runs -> JudgeJobs \cup {None}] /\ held \in [Runs -> Nat]
  /\ jobPage \in [Runs -> Seq({j \in JudgeJobs : shown[j]})] /\ sent \in [JudgeJobs -> Nat]

\* A run at a record has it in hand, as it is or as it was.
RecordInHand ==
  \A r \in Runs :
    /\ (runPc[r] \in {"idle", "discover", "page"}) = (inHand[r] = None)
    /\ inHand[r] # None => /\ held[r] <= record[inHand[r]].version
                           /\ record[inHand[r]].status # "none"

\* What a record says of its product and its attempts.
RecordTrue ==
  \A j \in JudgeJobs :
    /\ record[j].status = "none" => record[j] = NoRecord
    /\ record[j].status # "none" => shown[j] /\ j \notin Early
    /\ record[j].status = "pending" => record[j].attempts = 0 /\ window[j] <= record[j].wait
    /\ record[j].status \notin {"none", "pending"} => record[j].attempts > 0 /\ window[j] = 0
    /\ record[j].status \in {"deleted", "absent"} => product[j] = "gone"
    /\ sent[j] <= record[j].attempts

\* The run whose lease a record carries: it outlives no lease, holds it alone, and has a DELETE
\* left until it has sent it.
LeaseHeld ==
  \A r \in Runs :
    /\ runPc[r] = "claim" /\ Same(r) => Due(inHand[r])
    /\ runPc[r] \in Attempt /\ Same(r) =>
         /\ record[inHand[r]].status = "leased" /\ record[inHand[r]].wait > life[r]
         /\ \A s \in Runs \ {r} : runPc[s] \in Attempt /\ inHand[s] = inHand[r] => ~Same(s)
    /\ runPc[r] = "delete" => Same(r)
    /\ runPc[r] \in {"look", "recheck", "delete"} /\ Same(r) =>
         sent[inHand[r]] < record[inHand[r]].attempts

\* What is to be recorded as gone is gone.
GoneSeen == \A r \in Runs : runPc[r] \in {"endDeleted", "endAbsent"} => product[inHand[r]] = "gone"

JudgeInv == CleanupTyped /\ RecordInHand /\ RecordTrue /\ LeaseHeld /\ GoneSeen

-----------------------------------------------------------------------------
(* The rows of ended jobs.                                                 *)

\* The job has been terminal, and not approved, for the whole retention by the true clock.
Old(j) == jobRow[j].state \in Eligible /\ expiryClock - jobRow[j].at >= Retention

PartitionLen(phase) == IF phase = "job" THEN Len(JobRows) ELSE Len(JobOrder) * Len(OwnerRows)

ExpiryTyped ==
  /\ expiryClock \in 0..LastClock
  /\ jobRow \in [Jobs -> [state : JobStates, at : 0..LastClock]]
  /\ \A j \in Jobs : jobRow[j].at <= expiryClock
  /\ expires \in [Rows -> {Absent, NoExpiry} \cup 0..(LastClock + Retention)]
  /\ checkpoint \in [scan : 0..Len(JobOrder), active : Jobs \cup {NoJobYet},
                     resume : 0..Len(JobOrder), phase : {"job", "owner"}, after : Nat]
  /\ run \in [pc : {"idle", "choose", "searched", "queried", "assigned"}, now : Nat,
              searches : 0..RunSearches, pages : 0..RunAssignments, found : 0..Len(JobOrder),
              resume : 0..Len(JobOrder), eligible : BOOLEAN, page : SUBSET Nat, last : Nat]
  /\ raised \in 0..MaxRaises

\* What the checkpoint and the run have chosen was old enough when it was chosen, and is.
ChosenOld ==
  /\ run.pc = "searched" /\ run.eligible => run.found # 0 /\ Old(JobOrder[run.found])
  /\ run.pc \in {"queried", "assigned"} => /\ checkpoint.active # NoJobYet
                                           /\ run.last <= PartitionLen(checkpoint.phase)
                                           /\ run.pages < RunAssignments \/ run.pc = "assigned"
  /\ run.pc = "queried" => \A i \in run.page : Mine(i)
  /\ checkpoint.active # NoJobYet => /\ checkpoint.active \in Jobs /\ Old(checkpoint.active)
                                     /\ checkpoint.scan = checkpoint.resume
                                     /\ checkpoint.after <= PartitionLen(checkpoint.phase)

ExpiryInv == ExpiryTyped /\ ChosenOld /\ OnlyOldTerminalExpires

-----------------------------------------------------------------------------
(* The artwork of jobs.                                                    *)

Requested == {"authorize", "cancel", "observe", "pin", "recheck", "commit", "release", "stage",
              "confirm", "reassert"}
Intents == [status : Statuses, version : Nat, authUntil : Nat, expires : Nat,
            completed : Versions \union {0}]
SweepStates == {"idle", "list", "reconcile", "confirm", "release", "verify", "pin", "repair"}

SourceTyped ==
  /\ clock \in 0..MaxClock /\ intent \in Intents
  /\ receipts \subseteq
       [command : {"create", "authorize", "complete", "cancel"}, key : Keys \union {0}]
  /\ job \in [state : {"absent", "active", "terminal", "approved", "published"},
              version : Versions \union {0}, updated : 0..clock]
  /\ job.state = "absent" => job = NoJob
  /\ object \in [Versions -> [tag : Tags, created : 0..clock,
                 by : {"nobody", "form", "completion", "compensation", "sweep"}]]
  /\ \A v \in Versions : object[v].tag = "none" => object[v] = Unposted
  /\ request \in [Requests -> [pc : {"idle"} \cup Requested, key : Keys \union {0}, read : Intents,
                               observed : Versions \union {0}, began : 0..clock]]
  /\ cursor \in Versions \union {NoCursor}
  /\ sweep \in [pc : SweepStates, page : SUBSET Versions, tags : [Versions -> Tags],
                next : Versions \union {NoCursor}, pages : Nat, began : Nat]
  /\ sweep.page \subseteq {v \in Posted : v < cursor}
  /\ sweep.pc \in {"confirm", "release", "verify", "pin", "repair"} => sweep.page # {}

\* Only an open intent can be ended, and what ended it is on record.
IntentTrue ==
  /\ OneOutcome
  /\ intent.status = "open" =>
       job = NoJob /\ \A c \in receipts : c.command \notin {"complete", "cancel"}
  /\ receipts = {} => intent.status = "absent" /\ Posted = {} /\ \A p \in Requests : At(p, "idle")
  /\ intent.status # "absent" =>
         /\ intent.expires <= clock + IntentTTL
         /\ \A v \in Posted : intent.expires <= object[v].created + IntentTTL

\* A request is over before the versions it may refer to are old enough for the sweep.
RequestsTimely ==
  \A p \in Requests : ~At(p, "idle") =>
    /\ request[p].read.status = "open" /\ request[p].began < request[p].read.expires
    /\ clock <= request[p].began + InvocationLimit
    /\ request[p].read.expires <= clock + IntentTTL
    /\ \A v \in Posted : request[p].read.expires <= object[v].created + IntentTTL
    /\ request[p].pc \in {"pin", "recheck", "commit", "release", "stage", "confirm", "reassert"} =>
         request[p].observed \in Posted

\* What a completion is about to commit is pinned, or taken back by another's compensation.
PinnedForCommit ==
  \A p \in Requests : request[p].pc \in {"recheck", "commit"} =>
    LET o == object[request[p].observed] IN o.tag = "pinned" \/ o.by = "compensation"

\* The sweep releases only what is old and what no job needs.
ReleasedUnneeded ==
  sweep.pc \in {"confirm", "release", "verify"} =>
    /\ object[Current].created + ReleaseAge <= clock
    /\ sweep.pc = "release" => ~Retained(Current)

SourceInv ==
  SourceTyped /\ IntentTrue /\ RequestsTimely /\ PinnedForCommit /\ ReleasedUnneeded /\ NeededPinned

\* What is used of sequences.
LEMMA SeqParts ==
  ASSUME NEW S, NEW q \in Seq(S), q # <<>>
  PROVE  Head(q) \in S /\ Tail(q) \in Seq(S)
OBVIOUS

LEMMA SeqMonotone ==
  ASSUME NEW S, NEW T, S \subseteq T, NEW q \in Seq(S) PROVE q \in Seq(T)
<1>1. /\ Len(q) \in Nat /\ DOMAIN q = 1..Len(q) /\ \A i \in 1..Len(q) : q[i] \in T
  OBVIOUS
<1>2. q \in [1..Len(q) -> T]
  BY <1>1
<1> QED
  BY <1>1, <1>2

LEMMA SeqOfFunction == ASSUME NEW S, NEW n \in Nat, NEW q \in [1..n -> S] PROVE q \in Seq(S)
OBVIOUS

LEMMA OutcomesKnown ==
  /\ DOMAIN Outcomes = {"deleted", "absent", "blocked", "retry"}
  /\ Outcomes["deleted"] = "endDeleted" /\ Outcomes["absent"] = "endAbsent"
  /\ Outcomes["blocked"] = "endBlocked" /\ Outcomes["retry"] = "endRetry"
BY DEF Outcomes

LEMMA EndingKnown ==
  ASSUME NEW r \in Runs, Ending(r)
  PROVE  /\ runPc[r] \in Attempt /\ runPc[r] \notin {"look", "recheck", "delete", "readback"}
         /\ Outcome(r) \in {"deleted", "absent", "blocked", "retry"}
         /\ Outcome(r) = "deleted" => runPc[r] = "endDeleted"
         /\ Outcome(r) = "absent" => runPc[r] = "endAbsent"
<1>1. PICK s \in DOMAIN Outcomes : runPc[r] = Outcomes[s]
  BY DEF Ending
<1>2. Outcome(r) \in DOMAIN Outcomes /\ runPc[r] = Outcomes[Outcome(r)]
  BY <1>1 DEF Outcome
<1> QED
  BY <1>1, <1>2, OutcomesKnown DEF Attempt

LEMMA JudgeInvInit == CleanupInit => JudgeInv
<1> SUFFICES ASSUME CleanupInit PROVE JudgeInv
  OBVIOUS
<1> USE CleanupAssumption DEF CleanupInit
<1>1. CleanupTyped
  <2>1. \A r \in Runs : jobPage[r] \in Seq({j \in JudgeJobs : shown[j]})
    OBVIOUS
  <2>2. jobPage \in [Runs -> Seq({j \in JudgeJobs : shown[j]})]
    BY <2>1
  <2> QED
    BY <2>2 DEF CleanupTyped, NoRecord, RecordStates, RunStates
<1>2. RecordInHand
  BY DEF RecordInHand
<1>3. RecordTrue
  BY DEF RecordTrue, NoRecord
<1>4. LeaseHeld
  BY DEF LeaseHeld, Attempt
<1>5. GoneSeen
  BY DEF GoneSeen
<1> QED
  BY <1>1, <1>2, <1>3, <1>4, <1>5 DEF JudgeInv

-----------------------------------------------------------------------------
(* The judge, the shop, the provider and the clock.                        *)

LEMMA LessKnown ==
  \A m, n \in Nat : /\ Less(n) \in Nat /\ Less(n) <= n /\ (n > 0 => Less(n) = n - 1)
                    /\ (n = 0 => Less(n) = 0) /\ (m <= n => Less(m) <= Less(n))
BY DEF Less

WorldStep ==
  \E j \in JudgeJobs : Publish(j) \/ ShopChanges(j) \/ SourceChanges(j) \/ ProviderRemoves(j)

LEMMA WorldKeeps == ASSUME JudgeInv, WorldStep PROVE JudgeInv'
<1> CleanupTyped /\ RecordInHand /\ RecordTrue /\ LeaseHeld /\ GoneSeen
  BY DEF JudgeInv
<1>1. UNCHANGED <<window, record, runPc, life, inHand, held, jobPage, sent>>
  BY DEF WorldStep, Publish, ShopChanges, SourceChanges, ProviderRemoves, NoRun, Change, countVars,
     runVars
<1>2. /\ shown' \in [JudgeJobs -> BOOLEAN] /\ \A j \in JudgeJobs : shown[j] => shown'[j]
      /\ product' \in [JudgeJobs -> {"none", "live", "changed", "gone"}]
      /\ removing' \subseteq JudgeJobs
  BY DEF WorldStep, Publish, ShopChanges, SourceChanges, ProviderRemoves, CleanupTyped
<1>3. \A j \in JudgeJobs : shown[j] /\ product[j] = "gone" => product'[j] = "gone"
  BY DEF WorldStep, Publish, ShopChanges, SourceChanges, ProviderRemoves, CleanupTyped
<1>4. CleanupTyped'
  <2>1. {j \in JudgeJobs : shown[j]} \subseteq {j \in JudgeJobs : shown'[j]}
    BY <1>2
  <2>2. \A r \in Runs : jobPage'[r] \in Seq({j \in JudgeJobs : shown'[j]})
    BY <1>1, <2>1, SeqMonotone DEF CleanupTyped
  <2>3. jobPage' \in [Runs -> Seq({j \in JudgeJobs : shown'[j]})]
    BY <1>1, <2>2 DEF CleanupTyped
  <2> QED
    BY <1>1, <1>2, <2>3 DEF CleanupTyped
<1>5. RecordInHand'
  BY <1>1 DEF RecordInHand
<1>6. RecordTrue'
  BY <1>1, <1>2, <1>3 DEF RecordTrue
<1>7. LeaseHeld'
  BY <1>1 DEF LeaseHeld, Same, Due
<1>8. GoneSeen'
  <2>1. \A r \in Runs : runPc[r] \in {"endDeleted", "endAbsent"} =>
          inHand[r] \in JudgeJobs /\ shown[inHand[r]]
    BY DEF RecordInHand, RecordTrue, CleanupTyped
  <2> QED
    BY <1>1, <1>3, <2>1 DEF GoneSeen
<1> QED
  BY <1>4, <1>5, <1>6, <1>7, <1>8 DEF JudgeInv

\* Time takes from a lease no more than from the run that holds it.
LEMMA TickKeeps == ASSUME JudgeInv, JudgeTick PROVE JudgeInv'
<1> CleanupTyped /\ RecordInHand /\ RecordTrue /\ LeaseHeld /\ GoneSeen
  BY DEF JudgeInv
<1> USE CleanupAssumption
<1>1. /\ UNCHANGED <<shown, product, removing, runPc, inHand, held, jobPage, sent>>
      /\ \A r \in Runs : runPc[r] # "idle" => life[r] > 0
  BY DEF JudgeTick
<1>2. window' \in [JudgeJobs -> Nat]
      /\ \A j \in JudgeJobs : window'[j] = IF shown[j] THEN Less(window[j]) ELSE window[j]
  BY LessKnown DEF JudgeTick, CleanupTyped
<1>3. life' \in [Runs -> 0..Life] /\ \A r \in Runs : life'[r] = Less(life[r])
  <2>1. \A n \in 0..Life : Less(n) \in 0..Life
    BY LessKnown
  <2> QED
    BY <2>1 DEF JudgeTick, CleanupTyped
<1>4. \A j \in JudgeJobs : /\ record'[j].status = record[j].status
                           /\ record'[j].version = record[j].version
                           /\ record'[j].attempts = record[j].attempts
                           /\ record'[j].wait = Less(record[j].wait)
                           /\ record'[j] = [record[j] EXCEPT !.wait = Less(record[j].wait)]
  <2>1. ASSUME NEW j \in JudgeJobs
        PROVE  record'[j] = [record[j] EXCEPT !.wait = Less(record[j].wait)]
    BY DEF JudgeTick
  <2>2. ASSUME NEW j \in JudgeJobs
        PROVE  /\ record'[j].status = record[j].status /\ record'[j].version = record[j].version
               /\ record'[j].attempts = record[j].attempts
               /\ record'[j].wait = Less(record[j].wait)
    <3>1. record[j] \in [status : RecordStates, version : Nat, attempts : 0..MaxAttempts,
                     wait : Nat]
      BY DEF CleanupTyped
    <3> QED
      BY <2>1, <3>1
  <2> QED
    BY <2>1, <2>2
<1>5. record' \in [JudgeJobs -> [status : RecordStates, version : Nat,
                                 attempts : 0..MaxAttempts, wait : Nat]]
  <2>1. \A j \in JudgeJobs : Less(record[j].wait) \in Nat
    BY DEF Less, CleanupTyped
  <2> QED
    BY <2>1 DEF JudgeTick, CleanupTyped
<1>6. CleanupTyped'
  BY <1>1, <1>2, <1>3, <1>5 DEF CleanupTyped
<1>7. RecordInHand'
  <2>1. \A r \in Runs : inHand[r] # None => inHand[r] \in JudgeJobs
    BY DEF CleanupTyped
  <2> QED
    BY <1>1, <1>4, <2>1 DEF RecordInHand
<1>8. RecordTrue'
  <2>1. ASSUME NEW j \in JudgeJobs, record[j].status = "none" PROVE record'[j] = NoRecord
    <3>1. record[j] = NoRecord
      BY <2>1 DEF RecordTrue
    <3> QED
      BY <1>4, <3>1 DEF NoRecord, Less
  <2>2. \A j \in JudgeJobs : window[j] \in Nat /\ record[j].wait \in Nat
    BY DEF CleanupTyped
  <2> QED
    <3>1. ASSUME NEW j \in JudgeJobs, record[j].status = "pending"
          PROVE  window'[j] <= record'[j].wait
      <4>1. window[j] <= record[j].wait /\ shown[j]
        BY <3>1 DEF RecordTrue
      <4>2. window'[j] = Less(window[j]) /\ record'[j].wait = Less(record[j].wait)
        BY <1>2, <1>4, <4>1
      <4> QED
        BY <2>2, <4>1, <4>2, LessKnown
    <3>2. ASSUME NEW j \in JudgeJobs, window[j] = 0 PROVE window'[j] = 0
      BY <1>2, <3>2 DEF Less
    <3>3. ASSUME NEW j \in JudgeJobs
          PROVE  /\ record'[j].status = record[j].status
                 /\ record'[j].attempts = record[j].attempts
      BY <1>4
    <3> QED
      BY <1>1, <2>1, <3>1, <3>2, <3>3 DEF RecordTrue
<1>9. LeaseHeld'
  <2>1. \A r \in Runs : runPc[r] # "idle" /\ inHand[r] # None =>
          inHand[r] \in JudgeJobs /\ life[r] \in Nat /\ life[r] > 0
            /\ record[inHand[r]].wait \in Nat
    BY <1>1 DEF CleanupTyped
  <2>2. \A r \in Runs : runPc[r] \in Attempt \cup {"claim"} => runPc[r] # "idle" /\ inHand[r] # None
    BY DEF RecordInHand, Attempt
  <2>3. \A r \in Runs : inHand[r] # None => Same(r)' = Same(r)
    BY <1>1, <1>4 DEF Same, CleanupTyped
  <2>4. ASSUME NEW r \in Runs, runPc[r] \in Attempt, Same(r)
        PROVE  record'[inHand[r]].status = "leased" /\ record'[inHand[r]].wait > life'[r]
    <3>1. /\ inHand[r] \in JudgeJobs /\ life[r] \in Nat /\ life[r] > 0
          /\ record[inHand[r]].wait \in Nat /\ life'[r] = Less(life[r])
      BY <1>3, <2>1, <2>2, <2>4
    <3>2. record[inHand[r]].status = "leased" /\ record[inHand[r]].wait > life[r]
      BY <2>4 DEF LeaseHeld
    <3>3. /\ record'[inHand[r]].status = record[inHand[r]].status
          /\ record'[inHand[r]].wait = Less(record[inHand[r]].wait)
      BY <1>4, <3>1
    <3> QED
      BY <3>1, <3>2, <3>3 DEF Less
  <2>5. ASSUME NEW r \in Runs, runPc[r] = "claim", Same(r) PROVE Due(inHand[r])'
    <3>1. inHand[r] \in JudgeJobs
      BY <2>1, <2>2, <2>5
    <3>2. Due(inHand[r])
      BY <2>5 DEF LeaseHeld
    <3>3. /\ record'[inHand[r]].status = record[inHand[r]].status
          /\ record'[inHand[r]].wait = Less(record[inHand[r]].wait)
      BY <1>4, <3>1
    <3> QED
      BY <1>1, <3>2, <3>3 DEF Due, Less
  <2>6. \A r \in Runs : runPc[r] \in {"look", "recheck", "delete"} /\ Same(r) =>
          sent[inHand[r]] < record'[inHand[r]].attempts
    BY <1>4, <2>1, <2>2 DEF LeaseHeld, Attempt
  <2>7. "delete" \in Attempt /\ \A r \in Runs : runPc[r] \in {"look", "recheck", "delete"} =>
          runPc[r] \in Attempt
    BY DEF Attempt
  <2> QED
    BY <1>1, <2>2, <2>3, <2>4, <2>5, <2>6, <2>7 DEF LeaseHeld
<1>10. GoneSeen'
  BY <1>1 DEF GoneSeen
<1> QED
  BY <1>6, <1>7, <1>8, <1>9, <1>10 DEF JudgeInv

-----------------------------------------------------------------------------
(* A run of the cleanup.                                                   *)

RunAct(r) ==
  \/ BeginRun(r) \/ RunStep(r) \/ Unavailable(r) \/ Dies(r)
  \/ (inHand[r] # None /\ AnswerLost(r))

InHandIsJob(r) == inHand[r] \in JudgeJobs /\ inHand[r] # None

LEMMA InHandKnown ==
  ASSUME JudgeInv, NEW r \in Runs
  PROVE  /\ runPc[r] \in Attempt \cup {"claim"} => InHandIsJob(r)
         /\ inHand[r] # None => runPc[r] \in Attempt \cup {"claim"} /\ InHandIsJob(r)
BY DEF JudgeInv, CleanupTyped, RecordInHand, InHandIsJob, Attempt, RunStates

LEMMA RunLocal ==
  ASSUME JudgeInv, NEW r \in Runs, RunAct(r)
  PROVE  /\ UNCHANGED <<shown, window, product>>
         /\ \A s \in Runs \ {r} : /\ runPc'[s] = runPc[s] /\ life'[s] = life[s]
                                  /\ inHand'[s] = inHand[s] /\ held'[s] = held[s]
                                  /\ jobPage'[s] = jobPage[s]
<1> CleanupTyped
  BY DEF JudgeInv
<1> DEFINE Local == \A s \in Runs \ {r} : /\ runPc'[s] = runPc[s] /\ life'[s] = life[s]
                                          /\ inHand'[s] = inHand[s] /\ held'[s] = held[s]
                                          /\ jobPage'[s] = jobPage[s]
<1>1. UNCHANGED <<shown, window, product>>
  BY DEF RunAct, BeginRun, RunStep, Claim, Look, RecheckLease, LeftAlone, Delete, Readback, Finish,
     Discover, RegisterNext, Advance, OutOfTime, Unavailable, Dies, AnswerLost, World, worldVars
<1>2. ASSUME Stop(r) PROVE Local
  BY <1>2 DEF Stop, Goto, CleanupTyped
<1>3. ASSUME Processed(r) PROVE Local
  BY <1>3 DEF Processed, Goto, CleanupTyped
<1>4. ASSUME NEW label, Goto(r, label), UNCHANGED <<life, inHand, held, jobPage>> PROVE Local
  BY <1>4 DEF Goto, CleanupTyped
<1>5. ASSUME BeginRun(r) PROVE Local
  BY <1>5 DEF BeginRun, Goto, CleanupTyped
<1>6. ASSUME Claim(r) PROVE Local
  <2>1. CASE Goto(r, "look")
    BY <1>6, <2>1 DEF Claim, Goto, Processed, CleanupTyped
  <2> QED
    BY <1>3, <1>6, <2>1 DEF Claim
<1>7. ASSUME Look(r) \/ RecheckLease(r) \/ Readback(r) \/ Unavailable(r) \/ Delete(r) PROVE Local
  BY <1>4, <1>7 DEF Look, RecheckLease, Readback, Unavailable, Delete, LeftAlone, Ends
<1>8. ASSUME Discover(r) PROVE Local
  BY <1>8 DEF Discover, Goto, CleanupTyped
<1>9. ASSUME RegisterNext(r) PROVE Local
  BY <1>9 DEF RegisterNext, CleanupTyped
<1> HIDE DEF Local
<1>10. Local
  BY <1>2, <1>3, <1>5, <1>6, <1>7, <1>8, <1>9 DEF RunAct, RunStep, Finish, Advance, OutOfTime, Dies,
     AnswerLost
<1> QED
  BY <1>1, <1>10 DEF Local

\* What a step of a run does to the record and to the run: it lets go of what it had in hand,
Released(r) ==
  /\ UNCHANGED <<record, sent>>
  /\ runPc'[r] \in {"idle", "discover", "page"} /\ inHand'[r] = None

\* or gets on with its attempt,
Moved(r) ==
  /\ UNCHANGED <<record, sent, inHand, held, life>>
  /\ runPc[r] \in Attempt /\ runPc'[r] \in Attempt \ {"look"}
  /\ runPc'[r] = "recheck" => runPc[r] = "look"
  /\ runPc'[r] = "delete" => runPc[r] = "recheck" /\ Same(r)
  /\ runPc'[r] \in {"endDeleted", "endAbsent"} => product[inHand[r]] = "gone"

\* or sends the DELETE,
SentOne(r) ==
  /\ UNCHANGED <<record, inHand, held, life>> /\ runPc[r] = "delete"
  /\ sent' = [sent EXCEPT ![inHand[r]] = @ + 1] /\ runPc'[r] \in {"readback", "endRetry"}

\* or takes up a record that is due,
TookUp(r) ==
  /\ UNCHANGED <<record, sent>> /\ runPc'[r] = "claim"
  /\ \E j \in JudgeJobs : Due(j) /\ inHand'[r] = j /\ held'[r] = record[j].version

\* or claims it,
Leased(r) ==
  /\ runPc[r] = "claim" /\ Same(r) /\ record[inHand[r]].attempts < MaxAttempts
  /\ Write(r, "leased", record[inHand[r]].attempts + 1, Lease) /\ UNCHANGED sent
  /\ \/ runPc'[r] = "look" /\ UNCHANGED <<inHand, life>> /\ held'[r] = record[inHand[r]].version + 1
     \/ runPc'[r] = "idle" /\ inHand'[r] = None

\* or writes how the attempt ended,
Recorded(r) ==
  /\ runPc[r] \in Attempt \cup {"claim"} /\ Same(r) /\ UNCHANGED sent
  /\ runPc'[r] \in {"idle", "discover"} /\ inHand'[r] = None
  /\ \E status \in {"retry", "deleted", "absent", "blocked", "exhausted"}, wait \in Nat :
       /\ Write(r, status, record[inHand[r]].attempts, wait)
       /\ record[inHand[r]].attempts > 0
       /\ status \in {"deleted", "absent"} => product[inHand[r]] = "gone"

\* or registers a job.
Registered(r) ==
  /\ UNCHANGED <<sent, runPc, inHand, held, life>> /\ runPc[r] = "page"
  /\ \/ UNCHANGED record
     \/ \E j \in JudgeJobs :
           /\ record[j].status = "none" /\ shown[j] /\ j \notin Early
           /\ record' = [record EXCEPT ![j] = [status |-> "pending", version |-> 1,
                                               attempts |-> 0, wait |-> window[j]]]

LEMMA RunShape ==
  ASSUME JudgeInv, NEW r \in Runs, RunAct(r)
  PROVE  \/ Released(r) \/ Moved(r) \/ SentOne(r) \/ TookUp(r) \/ Leased(r) \/ Recorded(r)
         \/ Registered(r)
<1> CleanupTyped /\ RecordInHand /\ RecordTrue /\ LeaseHeld /\ GoneSeen
  BY DEF JudgeInv
<1> USE CleanupAssumption
<1> DEFINE Goal == \/ Released(r) \/ Moved(r) \/ SentOne(r) \/ TookUp(r) \/ Leased(r) \/ Recorded(r)
                   \/ Registered(r)
<1> SUFFICES Goal
  OBVIOUS
<1>1. ASSUME Stop(r), UNCHANGED record, UNCHANGED sent PROVE Released(r)
  BY <1>1 DEF Stop, Goto, Released, CleanupTyped
<1>2. ASSUME Processed(r), UNCHANGED record, UNCHANGED sent PROVE Released(r)
  BY <1>2 DEF Processed, Goto, Released, CleanupTyped
<1>3. ASSUME NEW label, Goto(r, label) PROVE runPc'[r] = label
  BY <1>3 DEF Goto, CleanupTyped
<1>4. CASE BeginRun(r)
  <2>1. CASE \E j \in JudgeJobs : /\ Due(j) /\ Goto(r, "claim")
          /\ inHand' = [inHand EXCEPT ![r] = j]
                                  /\ held' = [held EXCEPT ![r] = record[j].version]
    BY <1>3, <1>4, <2>1 DEF BeginRun, NoRecordWritten, Quiet, TookUp, CleanupTyped
  <2>2. CASE Goto(r, "discover") /\ UNCHANGED <<inHand, held>>
    BY <1>3, <1>4, <2>2 DEF BeginRun, NoRecordWritten, Quiet, Released, RecordInHand
  <2> QED
    BY <1>4, <2>1, <2>2 DEF BeginRun
<1>5. CASE Claim(r)
  <2>1. CASE ~Same(r)
    BY <1>2, <1>5, <2>1 DEF Claim, Quiet
  <2>2. CASE Same(r) /\ record[inHand[r]].attempts = MaxAttempts
    <3>1. /\ Write(r, "exhausted", record[inHand[r]].attempts, 0) /\ Processed(r) /\ UNCHANGED sent
          /\ runPc[r] = "claim" /\ record[inHand[r]].attempts > 0
      BY <1>5, <2>2 DEF Claim, Quiet
    <3>2. runPc'[r] = "discover" /\ inHand'[r] = None
      BY <3>1 DEF Processed, Goto, CleanupTyped
    <3> QED
      BY <2>2, <3>1, <3>2 DEF Recorded
  <2>3. CASE Same(r) /\ record[inHand[r]].attempts < MaxAttempts
    <3>1. /\ Write(r, "leased", record[inHand[r]].attempts + 1, Lease) /\ UNCHANGED sent
          /\ held' = [held EXCEPT ![r] = record[inHand[r]].version + 1] /\ runPc[r] = "claim"
          /\ Goto(r, "look") /\ UNCHANGED <<life, inHand>>
      BY <1>5, <2>3 DEF Claim, Quiet, CleanupTyped
    <3> QED
      BY <1>3, <2>3, <3>1 DEF Leased, CleanupTyped
  <2> QED
    BY <1>5, <2>1, <2>2, <2>3 DEF Claim
<1>6. ASSUME LeftAlone(r) PROVE UNCHANGED <<record, sent, inHand, held, life>>
  BY <1>6 DEF LeftAlone, NoRecordWritten, Quiet
<1>7. CASE Look(r)
  <2>1. \/ ~source[inHand[r]] /\ runPc'[r] = "endBlocked"
        \/ product[inHand[r]] = "gone" /\ runPc'[r] = "endAbsent"
        \/ product[inHand[r]] = "changed" /\ runPc'[r] = "endBlocked"
        \/ runPc'[r] = "recheck"
    BY <1>3, <1>7, OutcomesKnown DEF Look, Ends
  <2> QED
    BY <1>6, <1>7, <2>1 DEF Look, Moved, Attempt
<1>8. CASE RecheckLease(r)
  <2>1. \/ runPc'[r] = "endBlocked" \/ runPc'[r] = "endRetry"
        \/ LeaseGood(r) /\ runPc'[r] = "delete"
    BY <1>3, <1>8, OutcomesKnown DEF RecheckLease, Ends
  <2> QED
    BY <1>6, <1>8, <2>1 DEF RecheckLease, Moved, Attempt, LeaseGood
<1>9. CASE Delete(r)
  <2>1. runPc'[r] \in {"readback", "endRetry"}
    BY <1>3, <1>9, OutcomesKnown DEF Delete, Ends
  <2> QED
    BY <1>9, <2>1 DEF Delete, SentOne, NoRecordWritten
<1>10. CASE Readback(r)
  <2>1. \/ product[inHand[r]] = "gone" /\ runPc'[r] = "endDeleted"
        \/ runPc'[r] = "endRetry" \/ runPc'[r] = "endBlocked"
    BY <1>3, <1>10, OutcomesKnown DEF Readback, Ends
  <2> QED
    BY <1>6, <1>10, <2>1 DEF Readback, Moved, Attempt
<1>11. CASE Unavailable(r)
  <2>1. runPc'[r] = "endRetry" /\ UNCHANGED <<record, sent, inHand, held, life>>
    BY <1>3, <1>11, OutcomesKnown DEF Unavailable, Ends, NoRecordWritten, Fault
  <2> QED
    BY <1>11, <2>1 DEF Unavailable, Moved, Attempt
<1>12. ASSUME Ending(r), Same(r)
       PROVE  /\ runPc[r] \in Attempt /\ record[inHand[r]].attempts > 0
              /\ Outcome(r) \in {"deleted", "absent", "blocked", "retry"}
              /\ Outcome(r) \in {"deleted", "absent"} => product[inHand[r]] = "gone"
  <2>1. InHandIsJob(r) /\ runPc[r] \in Attempt
    BY <1>12, EndingKnown, InHandKnown
  <2>2. record[inHand[r]].status = "leased"
    BY <1>12, <2>1 DEF LeaseHeld
  <2> QED
    BY <1>12, <2>1, <2>2, EndingKnown DEF RecordTrue, InHandIsJob, GoneSeen
<1>13. CASE Finish(r)
  <2>1. CASE ~Same(r)
    BY <1>1, <1>13, <2>1 DEF Finish, Quiet
  <2>2. CASE Same(r)
    <3> DEFINE status == IF Outcome(r) = "retry" /\ record[inHand[r]].attempts = MaxAttempts
                         THEN "exhausted" ELSE Outcome(r)
    <3>1. Ending(r) /\ Write(r, status, record[inHand[r]].attempts, Backoff) /\ Processed(r)
          /\ UNCHANGED sent
      BY <1>13, <2>2 DEF Finish, Quiet
    <3>2. runPc'[r] = "discover" /\ inHand'[r] = None
      BY <3>1 DEF Processed, Goto, CleanupTyped
    <3>3. /\ status \in {"retry", "deleted", "absent", "blocked", "exhausted"}
          /\ status \in {"deleted", "absent"} => product[inHand[r]] = "gone"
          /\ runPc[r] \in Attempt /\ record[inHand[r]].attempts > 0
      BY <1>12, <2>2, <3>1
    <3> HIDE DEF status
    <3> QED
      BY <2>2, <3>1, <3>2, <3>3 DEF Recorded
  <2> QED
    BY <2>1, <2>2
<1>14. CASE inHand[r] # None /\ AnswerLost(r)
  <2>1. Same(r) /\ Stop(r) /\ UNCHANGED sent
    BY <1>14 DEF AnswerLost, Fault
  <2>2. runPc'[r] = "idle" /\ inHand'[r] = None
    BY <2>1 DEF Stop, Goto, CleanupTyped
  <2>3. CASE /\ runPc[r] = "claim" /\ record[inHand[r]].attempts < MaxAttempts
             /\ Write(r, "leased", record[inHand[r]].attempts + 1, Lease)
    BY <2>1, <2>2, <2>3 DEF Leased
  <2>4. CASE /\ Ending(r) /\ Outcome(r) # "retry"
             /\ Write(r, Outcome(r), record[inHand[r]].attempts, Backoff)
    BY <1>12, <2>1, <2>2, <2>4 DEF Recorded
  <2> QED
    BY <1>14, <2>3, <2>4 DEF AnswerLost
<1>15. CASE Discover(r)
  <2>1. runPc[r] = "discover" /\ UNCHANGED inHand
    BY <1>15 DEF Discover
  <2>2. inHand[r] = None
    BY <2>1 DEF RecordInHand
  <2> QED
    BY <1>3, <1>15, <2>1, <2>2 DEF Discover, NoRecordWritten, Quiet, Released
<1>16. CASE RegisterNext(r)
  <2>1. /\ jobPage[r] # <<>> /\ runPc[r] = "page" /\ UNCHANGED <<sent, runPc, inHand, held, life>>
    BY <1>16 DEF RegisterNext, Quiet
  <2>2. jobPage[r] \in Seq({j \in JudgeJobs : shown[j]})
    BY DEF CleanupTyped
  <2>3. Head(jobPage[r]) \in JudgeJobs /\ shown[Head(jobPage[r])]
    BY <2>1, <2>2, SeqParts
  <2>4. \/ UNCHANGED record
        \/ /\ OfCampaign(Head(jobPage[r]))
           /\ record' = [record EXCEPT ![Head(jobPage[r])] =
                           [status |-> "pending", version |-> 1, attempts |-> 0,
                            wait |-> window[Head(jobPage[r])]]]
    BY <1>16 DEF RegisterNext
  <2> QED
    BY <2>1, <2>3, <2>4 DEF Registered, OfCampaign
<1>17. CASE Advance(r) \/ OutOfTime(r) \/ Dies(r)
  BY <1>1, <1>17 DEF Advance, OutOfTime, Dies, NoRecordWritten, Quiet, Fault
<1> HIDE DEF Goal
<1>18. Goal
  <2>1. Released(r) \/ Moved(r) \/ SentOne(r) \/ TookUp(r) \/ Leased(r) \/ Recorded(r)
          \/ Registered(r) => Goal
    BY DEF Goal
  <2> QED
    BY <1>4, <1>5, <1>7, <1>8, <1>9, <1>10, <1>11, <1>13, <1>14, <1>15, <1>16, <1>17, <2>1
       DEF RunAct, RunStep
<1> QED
  BY <1>18

LEMMA WriteKnown ==
  ASSUME CleanupTyped, NEW r \in Runs, inHand[r] \in JudgeJobs, NEW status \in RecordStates,
         NEW attempts \in 0..MaxAttempts, NEW wait \in Nat, Write(r, status, attempts, wait)
  PROVE  /\ record' \in [JudgeJobs -> [status : RecordStates, version : Nat,
                                       attempts : 0..MaxAttempts, wait : Nat]]
         /\ record'[inHand[r]] = [status |-> status, version |-> record[inHand[r]].version + 1,
                                  attempts |-> attempts, wait |-> wait]
         /\ \A j \in JudgeJobs : j # inHand[r] => record'[j] = record[j]
<1>1. PICK x \in [status : RecordStates, version : Nat, attempts : 0..MaxAttempts, wait : Nat] :
        x = [status |-> status, version |-> record[inHand[r]].version + 1,
             attempts |-> attempts, wait |-> wait]
  <2>1. record[inHand[r]].version \in Nat
    BY DEF CleanupTyped
  <2>2. record[inHand[r]].version + 1 \in Nat
    BY <2>1
  <2> QED
    BY <2>2
<1>2. record' = [record EXCEPT ![inHand[r]] = x]
  BY <1>1 DEF Write
<1> QED
  BY <1>1, <1>2 DEF CleanupTyped

\* How a step of a run changes a record: not at all, under a new version, or by registering it.
LEMMA RecordMoves ==
  ASSUME JudgeInv, NEW r \in Runs, RunAct(r)
  PROVE  /\ record' \in [JudgeJobs -> [status : RecordStates, version : Nat,
                                       attempts : 0..MaxAttempts, wait : Nat]]
         /\ \A j \in JudgeJobs : \/ record'[j] = record[j]
                                 \/ /\ record'[j].version = record[j].version + 1
                                    /\ record'[j].status \notin {"none", "pending"}
                                    /\ inHand[r] = j /\ Same(r)
                                         /\ runPc[r] \in Attempt \cup {"claim"}
                                    /\ Leased(r) \/ Recorded(r)
                                 \/ /\ record[j].status = "none" /\ shown[j] /\ j \notin Early
                                    /\ record'[j] = [status |-> "pending", version |-> 1,
                                                     attempts |-> 0, wait |-> window[j]]
<1> CleanupTyped /\ RecordInHand
  BY DEF JudgeInv
<1> USE CleanupAssumption
<1> DEFINE Recs == [status : RecordStates, version : Nat, attempts : 0..MaxAttempts, wait : Nat]
           Moves(j) == \/ record'[j] = record[j]
                       \/ /\ record'[j].version = record[j].version + 1
                          /\ record'[j].status \notin {"none", "pending"}
                          /\ inHand[r] = j /\ Same(r) /\ runPc[r] \in Attempt \cup {"claim"}
                          /\ Leased(r) \/ Recorded(r)
                       \/ /\ record[j].status = "none" /\ shown[j] /\ j \notin Early
                          /\ record'[j] = [status |-> "pending", version |-> 1,
                                           attempts |-> 0, wait |-> window[j]]
<1> SUFFICES record' \in [JudgeJobs -> Recs] /\ \A j \in JudgeJobs : Moves(j)
  OBVIOUS
<1>1. CASE UNCHANGED record
  BY <1>1 DEF CleanupTyped
<1>2. CASE Leased(r)
  <2>1. inHand[r] \in JudgeJobs
    BY <1>2, InHandKnown DEF Leased, InHandIsJob
  <2>2. "leased" \in RecordStates /\ record[inHand[r]].attempts + 1 \in 0..MaxAttempts
    BY <1>2, <2>1 DEF Leased, RecordStates, CleanupTyped
  <2>3. Write(r, "leased", record[inHand[r]].attempts + 1, Lease) /\ Same(r) /\ runPc[r] = "claim"
    BY <1>2 DEF Leased
  <2>4. "leased" \notin {"none", "pending"} /\ Lease \in Nat
    OBVIOUS
  <2>5. /\ record' \in [JudgeJobs -> Recs]
        /\ record'[inHand[r]].version = record[inHand[r]].version + 1
        /\ record'[inHand[r]].status = "leased"
        /\ \A j \in JudgeJobs : j # inHand[r] => record'[j] = record[j]
    <3>1. /\ record' \in [JudgeJobs -> Recs]
          /\ record'[inHand[r]] = [status |-> "leased", version |-> record[inHand[r]].version + 1,
                                   attempts |-> record[inHand[r]].attempts + 1, wait |-> Lease]
          /\ \A j \in JudgeJobs : j # inHand[r] => record'[j] = record[j]
      BY <2>1, <2>2, <2>3, <2>4, WriteKnown
    <3> QED
      BY <3>1
  <2>6. \A j \in JudgeJobs : Moves(j)
    BY <1>2, <2>3, <2>4, <2>5
  <2> QED
    BY <2>5, <2>6
<1>3. CASE Recorded(r)
  <2>1. runPc[r] \in Attempt \cup {"claim"} /\ Same(r)
    BY <1>3 DEF Recorded
  <2>2. inHand[r] \in JudgeJobs
    BY <2>1, InHandKnown DEF InHandIsJob
  <2>3. PICK status \in {"retry", "deleted", "absent", "blocked", "exhausted"}, wait \in Nat :
          Write(r, status, record[inHand[r]].attempts, wait)
    BY <1>3 DEF Recorded
  <2>4. status \in RecordStates /\ record[inHand[r]].attempts \in 0..MaxAttempts
    BY <2>2 DEF RecordStates, CleanupTyped
  <2>5. /\ record' \in [JudgeJobs -> Recs]
        /\ record'[inHand[r]].version = record[inHand[r]].version + 1
        /\ record'[inHand[r]].status = status
        /\ \A j \in JudgeJobs : j # inHand[r] => record'[j] = record[j]
    <3>1. /\ record' \in [JudgeJobs -> Recs]
          /\ record'[inHand[r]] = [status |-> status, version |-> record[inHand[r]].version + 1,
                                   attempts |-> record[inHand[r]].attempts, wait |-> wait]
          /\ \A j \in JudgeJobs : j # inHand[r] => record'[j] = record[j]
      BY <2>2, <2>3, <2>4, WriteKnown
    <3> QED
      BY <3>1
  <2>6. \A j \in JudgeJobs : Moves(j)
    BY <1>3, <2>1, <2>5
  <2> QED
    BY <2>5, <2>6
<1>4. CASE Registered(r) /\ ~UNCHANGED record
  <2>1. PICK j \in JudgeJobs :
           /\ record[j].status = "none" /\ shown[j] /\ j \notin Early
           /\ record' = [record EXCEPT ![j] = [status |-> "pending", version |-> 1,
                                               attempts |-> 0, wait |-> window[j]]]
    BY <1>4 DEF Registered
  <2>2. PICK x \in Recs :
          x = [status |-> "pending", version |-> 1, attempts |-> 0, wait |-> window[j]]
    <3>1. window[j] \in Nat
      BY DEF CleanupTyped
    <3>2. "pending" \in RecordStates /\ 1 \in Nat /\ 0 \in 0..MaxAttempts
      BY DEF RecordStates
    <3> QED
      BY <3>1, <3>2
  <2>3. record' = [record EXCEPT ![j] = x]
    BY <2>1, <2>2
  <2> QED
    BY <2>1, <2>2, <2>3 DEF CleanupTyped
<1> HIDE DEF Moves, Recs
<1> QED
  BY <1>1, <1>2, <1>3, <1>4, RunShape DEF Released, Moved, SentOne, TookUp

HandsTyped == /\ runPc \in [Runs -> RunStates] /\ life \in [Runs -> 0..Life]
              /\ inHand \in [Runs -> JudgeJobs \cup {None}] /\ held \in [Runs -> Nat]
PagesTyped == jobPage \in [Runs -> Seq({j \in JudgeJobs : shown[j]})]

LEMMA RunHandsTyped == ASSUME JudgeInv, NEW r \in Runs, RunAct(r) PROVE HandsTyped'
<1> CleanupTyped
  BY DEF JudgeInv
<1> USE CleanupAssumption
<1>0. {"idle", "claim", "discover", "page", "look", "recheck", "delete",
        "readback"} \subseteq RunStates
      /\ {"endDeleted", "endAbsent", "endBlocked", "endRetry"} \subseteq RunStates
  BY DEF RunStates, Attempt
<1>1. HandsTyped /\ 0 \in 0..Life /\ Life \in 0..Life
  BY DEF HandsTyped, CleanupTyped
<1>2. ASSUME NEW label \in RunStates, Goto(r, label) PROVE runPc' \in [Runs -> RunStates]
  BY <1>1, <1>2 DEF Goto, HandsTyped
<1>3. ASSUME Stop(r) PROVE HandsTyped'
  BY <1>0, <1>1, <1>2, <1>3 DEF Stop, HandsTyped
<1>4. ASSUME Processed(r) PROVE HandsTyped'
  BY <1>0, <1>1, <1>2, <1>4 DEF Processed, HandsTyped
<1>5. ASSUME NEW label \in RunStates, Goto(r, label), UNCHANGED <<life, inHand, held>>
      PROVE  HandsTyped'
  BY <1>1, <1>2, <1>5 DEF HandsTyped
<1>6. CASE BeginRun(r)
  <2>1. \A j \in JudgeJobs : record[j].version \in Nat
    BY DEF CleanupTyped
  <2>2. inHand' \in [Runs -> JudgeJobs \cup {None}] /\ held' \in [Runs -> Nat]
    BY <1>1, <1>6, <2>1 DEF BeginRun, HandsTyped
  <2>3. runPc' \in [Runs -> RunStates]
    BY <1>0, <1>2, <1>6 DEF BeginRun
  <2>4. life' \in [Runs -> 0..Life]
    BY <1>1, <1>6 DEF BeginRun, HandsTyped
  <2> QED
    BY <2>2, <2>3, <2>4 DEF HandsTyped
<1>7. CASE Claim(r)
  <2>1. CASE Goto(r, "look") /\ held' = [held EXCEPT ![r] = record[inHand[r]].version + 1]
             /\ runPc[r] = "claim" /\ UNCHANGED <<life, inHand>>
    <3>1. inHand[r] \in JudgeJobs
      BY <2>1, InHandKnown DEF InHandIsJob
    <3>2. record[inHand[r]].version \in Nat
      BY <3>1 DEF CleanupTyped
    <3>3. record[inHand[r]].version + 1 \in Nat
      BY <3>2
    <3>4. held' \in [Runs -> Nat]
      BY <1>1, <2>1, <3>3 DEF HandsTyped
    <3> QED
      BY <1>0, <1>1, <1>2, <2>1, <3>4 DEF HandsTyped
  <2> QED
    BY <1>4, <1>7, <2>1 DEF Claim
<1>8. ASSUME NEW status \in {"deleted", "absent", "blocked", "retry"}, Ends(r, status),
             UNCHANGED <<life, inHand, held>>
      PROVE  HandsTyped'
  BY <1>0, <1>5, <1>8, OutcomesKnown DEF Ends
<1>9. CASE Look(r) \/ RecheckLease(r) \/ Readback(r) \/ Unavailable(r) \/ Delete(r)
  BY <1>0, <1>5, <1>8, <1>9 DEF Look, RecheckLease, Readback, Unavailable, Delete, LeftAlone
<1>10. CASE Discover(r)
  BY <1>0, <1>5, <1>10 DEF Discover
<1>11. CASE RegisterNext(r)
  BY <1>1, <1>11 DEF RegisterNext, HandsTyped
<1> QED
  BY <1>3, <1>4, <1>6, <1>7, <1>9, <1>10, <1>11 DEF RunAct, RunStep, Finish, Advance, OutOfTime,
     Dies,
     AnswerLost

LEMMA RunPagesTyped == ASSUME JudgeInv, NEW r \in Runs, RunAct(r) PROVE PagesTyped'
<1> PagesTyped
  BY DEF JudgeInv, CleanupTyped, PagesTyped
<1> USE CleanupAssumption
<1> DEFINE Published == {j \in JudgeJobs : shown[j]}
<1>0. IsFiniteSet(Published) /\ Published \subseteq JudgeJobs
  BY FS_Subset
<1>1. jobPage \in [Runs -> Seq(Published)]
  BY DEF PagesTyped
<1>2. Published' = Published
  BY RunLocal
<1> SUFFICES jobPage' \in [Runs -> Seq(Published)]
  BY <1>2 DEF PagesTyped
<1>3. CASE Discover(r)
  <2> DEFINE seen == {j \in PageAfter(discoverCursor) : shown[j]}
  <2>1. PICK q \in [1..Cardinality(seen) -> seen] : jobPage' = [jobPage EXCEPT ![r] = q]
    BY <1>3 DEF Discover
  <2>2. seen \subseteq Published
    BY DEF PageAfter, After
  <2>3. Cardinality(seen) \in Nat
    BY <1>0, <2>2, FS_Subset, FS_CardinalityType
  <2> HIDE DEF seen, Published
  <2>4. q \in Seq(Published)
    BY <2>2, <2>3, SeqOfFunction, SeqMonotone
  <2> QED
    BY <1>1, <2>1, <2>4
<1> HIDE DEF Published
<1>4. CASE RegisterNext(r)
  <2>1. jobPage[r] \in Seq(Published) /\ jobPage[r] # <<>>
    BY <1>1, <1>4 DEF RegisterNext
  <2>2. Tail(jobPage[r]) \in Seq(Published)
    BY <2>1, SeqParts
  <2>3. jobPage' = [jobPage EXCEPT ![r] = Tail(jobPage[r])]
    BY <1>4 DEF RegisterNext
  <2> QED
    BY <1>1, <2>2, <2>3
<1>5. CASE Stop(r)
  <2>1. <<>> \in Seq(Published)
    OBVIOUS
  <2> QED
    BY <1>1, <1>5, <2>1 DEF Stop
<1>6. CASE UNCHANGED jobPage
  BY <1>1, <1>6
<1> QED
  BY <1>3, <1>4, <1>5, <1>6 DEF RunAct, RunStep, BeginRun, Claim, Processed, Look, RecheckLease,
     LeftAlone,
     Delete, Readback, Finish, Advance, OutOfTime, Unavailable, Dies, AnswerLost

LEMMA RunTyped == ASSUME JudgeInv, NEW r \in Runs, RunAct(r) PROVE CleanupTyped'
<1> CleanupTyped
  BY DEF JudgeInv
<1>1. removing' \subseteq JudgeJobs
  <2>1. CASE Delete(r)
    <3>1. inHand[r] \in JudgeJobs
      BY <2>1, InHandKnown DEF Delete, InHandIsJob, Attempt
    <3> QED
      BY <2>1, <3>1 DEF Delete, CleanupTyped
  <2> QED
    BY <2>1 DEF RunAct, BeginRun, RunStep, Claim, Look, RecheckLease, LeftAlone, Readback, Finish,
       Discover, RegisterNext, Advance, OutOfTime, Unavailable, Dies, AnswerLost, World, worldVars,
       CleanupTyped
<1>2. sent' \in [JudgeJobs -> Nat]
  <2>1. CASE SentOne(r)
    <3>1. inHand[r] \in JudgeJobs
      BY <2>1, InHandKnown DEF SentOne, InHandIsJob, Attempt
    <3>2. sent[inHand[r]] + 1 \in Nat
      BY <3>1 DEF CleanupTyped
    <3> QED
      BY <2>1, <3>2 DEF SentOne, CleanupTyped
  <2> QED
    BY <2>1, RunShape DEF Released, Moved, TookUp, Leased, Recorded, Registered, CleanupTyped
<1>3. shown' \in [JudgeJobs -> BOOLEAN] /\ window' \in [JudgeJobs -> Nat]
      /\ product' \in [JudgeJobs -> {"none", "live", "changed", "gone"}]
  BY RunLocal DEF CleanupTyped
<1>4. HandsTyped' /\ PagesTyped'
  BY RunHandsTyped, RunPagesTyped
<1>5. record' \in [JudgeJobs -> [status : RecordStates, version : Nat,
                                 attempts : 0..MaxAttempts, wait : Nat]]
  BY RecordMoves
<1> QED
  BY <1>1, <1>2, <1>3, <1>4, <1>5 DEF CleanupTyped, HandsTyped, PagesTyped

\* What a run holds is as it was, or it no longer holds it.
LEMMA OthersKept ==
  ASSUME JudgeInv, NEW r \in Runs, RunAct(r), NEW s \in Runs \ {r}, inHand[s] # None
  PROVE  /\ inHand[s] \in JudgeJobs /\ inHand'[s] = inHand[s] /\ held'[s] = held[s]
         /\ held'[s] <= record'[inHand[s]].version /\ record'[inHand[s]].status # "none"
         /\ Same(s)' => record'[inHand[s]] = record[inHand[s]] /\ Same(s)
         /\ runPc[s] \in Attempt /\ Same(s) => record'[inHand[s]] = record[inHand[s]]
<1> CleanupTyped /\ RecordInHand /\ LeaseHeld
  BY DEF JudgeInv
<1> DEFINE j == inHand[s]
<1>1. j \in JudgeJobs /\ inHand'[s] = j /\ held'[s] = held[s]
  BY InHandKnown, RunLocal DEF InHandIsJob
<1>2. /\ held[s] \in Nat /\ record[j].version \in Nat /\ held[s] <= record[j].version
      /\ record[j].status # "none" /\ record[j].wait \in Nat /\ life[s] \in 0..Life
  BY <1>1 DEF CleanupTyped, RecordInHand
<1>3. \/ record'[j] = record[j]
      \/ /\ record'[j].version = record[j].version + 1 /\ record'[j].status # "none"
         /\ inHand[r] = j /\ Same(r) /\ runPc[r] \in Attempt \cup {"claim"}
  BY <1>1, <1>2, RecordMoves
<1>4. /\ Same(s)' => record'[j].version = held[s]
      /\ record[j].version = held[s] => Same(s)
  BY <1>1 DEF Same
<1>5. ASSUME runPc[s] \in Attempt, Same(s) PROVE record'[j] = record[j]
  <2> SUFFICES ASSUME inHand[r] = j, Same(r), runPc[r] \in Attempt \cup {"claim"} PROVE FALSE
    BY <1>3
  <2>1. record[j].wait > life[s] /\ (runPc[r] \in Attempt => ~Same(r))
    BY <1>5 DEF LeaseHeld
  <2>2. runPc[r] = "claim" /\ Due(j)
    BY <2>1 DEF LeaseHeld
  <2>3. record[j].wait = 0
    BY <2>2 DEF Due
  <2> QED
    BY <1>2, <2>1, <2>3, CleanupAssumption
<1>6. held[s] <= record'[j].version /\ record'[j].status # "none"
  BY <1>2, <1>3
<1>7. ASSUME Same(s)' PROVE record'[j] = record[j] /\ Same(s)
  <2>1. record'[j].version = held[s]
    BY <1>4, <1>7
  <2>2. record'[j].version # record[j].version + 1
    BY <1>2, <2>1
  <2>3. record'[j] = record[j]
    BY <1>3, <2>2
  <2> QED
    BY <1>4, <2>1, <2>3
<1> QED
  BY <1>1, <1>5, <1>6, <1>7

LEMMA LeasedKnown ==
  ASSUME JudgeInv, NEW r \in Runs, Leased(r)
  PROVE  /\ inHand[r] \in JudgeJobs /\ Due(inHand[r])
         /\ record'[inHand[r]] = [status |-> "leased", version |-> record[inHand[r]].version + 1,
                                  attempts |-> record[inHand[r]].attempts + 1, wait |-> Lease]
<1> CleanupTyped /\ LeaseHeld
  BY DEF JudgeInv
<1>1. inHand[r] \in JudgeJobs /\ Due(inHand[r])
  BY InHandKnown DEF Leased, InHandIsJob, LeaseHeld
<1>2. "leased" \in RecordStates /\ Lease \in Nat /\ record[inHand[r]].attempts \in 0..MaxAttempts
      /\ MaxAttempts \in Nat
  BY <1>1, CleanupAssumption DEF RecordStates, CleanupTyped
<1>3. record[inHand[r]].attempts + 1 \in 0..MaxAttempts
  BY <1>2 DEF Leased
<1>4. Write(r, "leased", record[inHand[r]].attempts + 1, Lease)
  BY DEF Leased
<1> QED
  BY <1>1, <1>2, <1>3, <1>4, WriteKnown

LEMMA RecordedKnown ==
  ASSUME JudgeInv, NEW r \in Runs, Recorded(r)
  PROVE  /\ inHand[r] \in JudgeJobs
         /\ record'[inHand[r]].status \in {"retry", "deleted", "absent", "blocked", "exhausted"}
         /\ record'[inHand[r]].attempts = record[inHand[r]].attempts
         /\ record[inHand[r]].attempts > 0
         /\ record'[inHand[r]].status \in {"deleted", "absent"} => product[inHand[r]] = "gone"
<1> CleanupTyped
  BY DEF JudgeInv
<1>1. inHand[r] \in JudgeJobs
  BY InHandKnown DEF Recorded, InHandIsJob
<1>2. PICK status \in {"retry", "deleted", "absent", "blocked", "exhausted"}, wait \in Nat :
        /\ Write(r, status, record[inHand[r]].attempts, wait)
        /\ record[inHand[r]].attempts > 0
        /\ status \in {"deleted", "absent"} => product[inHand[r]] = "gone"
  BY DEF Recorded
<1>3. status \in RecordStates /\ record[inHand[r]].attempts \in 0..MaxAttempts
  BY <1>1 DEF RecordStates, CleanupTyped
<1>4. record'[inHand[r]] = [status |-> status, version |-> record[inHand[r]].version + 1,
                            attempts |-> record[inHand[r]].attempts, wait |-> wait]
  BY <1>1, <1>2, <1>3, WriteKnown
<1> QED
  BY <1>1, <1>2, <1>4

LEMMA RunInHand == ASSUME JudgeInv, NEW r \in Runs, RunAct(r) PROVE RecordInHand'
<1> CleanupTyped /\ RecordInHand /\ LeaseHeld
  BY DEF JudgeInv
<1> USE CleanupAssumption
<1> DEFINE Empty(s) == runPc'[s] \in {"idle", "discover", "page"}
<1> DEFINE Good(s) == /\ Empty(s) => inHand'[s] = None
                      /\ inHand'[s] = None => Empty(s)
                      /\ inHand'[s] # None => /\ held'[s] <= record'[inHand'[s]].version
                                              /\ record'[inHand'[s]].status # "none"
<1>1. ASSUME NEW s \in Runs \ {r} PROVE Good(s)
  <2>1. runPc'[s] = runPc[s] /\ inHand'[s] = inHand[s]
    BY RunLocal
  <2>2. runPc[s] \in {"idle", "discover", "page"} <=> inHand[s] = None
    BY DEF RecordInHand
  <2>3. inHand[s] # None => held'[s] <= record'[inHand[s]].version
          /\ record'[inHand[s]].status # "none"
    BY OthersKept
  <2> QED
    BY <2>1, <2>2, <2>3
<1>2. ASSUME Released(r) PROVE Good(r)
  BY <1>2 DEF Released
<1>3. ASSUME Moved(r) \/ SentOne(r) PROVE Good(r)
  <2>1. /\ UNCHANGED <<record, inHand, held>> /\ runPc[r] \in Attempt
        /\ runPc'[r] \notin {"idle", "discover", "page"}
    BY <1>3 DEF Moved, SentOne, Attempt
  <2>2. inHand[r] # None
    BY <2>1, InHandKnown DEF InHandIsJob
  <2> QED
    BY <2>1, <2>2 DEF RecordInHand
<1>4. ASSUME TookUp(r) PROVE Good(r)
  <2>1. PICK j \in JudgeJobs : Due(j) /\ inHand'[r] = j /\ held'[r] = record[j].version
    BY <1>4 DEF TookUp
  <2>2. record[j].version \in Nat /\ record[j].status # "none" /\ j # None
    BY <2>1 DEF CleanupTyped, Due
  <2> QED
    BY <1>4, <2>1, <2>2 DEF TookUp
<1>5. ASSUME Leased(r) PROVE Good(r)
  <2>0. /\ inHand[r] \in JudgeJobs
        /\ record'[inHand[r]] = [status |-> "leased", version |-> record[inHand[r]].version + 1,
                                 attempts |-> record[inHand[r]].attempts + 1, wait |-> Lease]
    BY <1>5, LeasedKnown
  <2>1. /\ inHand[r] \in JudgeJobs /\ record'[inHand[r]].status = "leased"
        /\ record'[inHand[r]].version = record[inHand[r]].version + 1
    BY <2>0
  <2>2. record[inHand[r]].version \in Nat /\ inHand[r] # None
    BY <2>1 DEF CleanupTyped
  <2>3. CASE runPc'[r] = "idle" /\ inHand'[r] = None
    BY <2>3
  <2>4. CASE runPc'[r] = "look" /\ inHand'[r] = inHand[r]
          /\ held'[r] = record[inHand[r]].version + 1
    BY <2>1, <2>2, <2>4
  <2> QED
    BY <1>5, <2>3, <2>4 DEF Leased
<1>6. ASSUME Recorded(r) PROVE Good(r)
  BY <1>6 DEF Recorded
<1>7. ASSUME Registered(r) PROVE Good(r)
  <2>1. UNCHANGED <<runPc, inHand, held>> /\ runPc[r] = "page"
    BY <1>7 DEF Registered
  <2> QED
    BY <2>1 DEF RecordInHand
<1> HIDE DEF Good
<1>8. Good(r)
  BY <1>2, <1>3, <1>4, <1>5, <1>6, <1>7, RunShape
<1>9. \A s \in Runs : Good(s)
  BY <1>1, <1>8
<1>10. \A s \in Runs : Empty(s) <=> inHand'[s] = None
  BY <1>9 DEF Good
<1>11. \A s \in Runs : inHand'[s] # None => /\ held'[s] <= record'[inHand'[s]].version
                                              /\ record'[inHand'[s]].status # "none"
  BY <1>9 DEF Good
<1> QED
  BY <1>10, <1>11 DEF RecordInHand

LEMMA RunTrue == ASSUME JudgeInv, NEW r \in Runs, RunAct(r) PROVE RecordTrue'
<1> CleanupTyped /\ RecordInHand /\ RecordTrue /\ LeaseHeld
  BY DEF JudgeInv
<1> USE CleanupAssumption
<1> SUFFICES ASSUME NEW j \in JudgeJobs
             PROVE  /\ record'[j].status = "none" => record'[j] = NoRecord
                    /\ record'[j].status # "none" => shown[j] /\ j \notin Early
                    /\ record'[j].status = "pending" =>
                         record'[j].attempts = 0 /\ window[j] <= record'[j].wait
                    /\ record'[j].status \notin {"none", "pending"} =>
                         record'[j].attempts > 0 /\ window[j] = 0
                    /\ record'[j].status \in {"deleted", "absent"} => product[j] = "gone"
                    /\ sent'[j] <= record'[j].attempts
  BY RunLocal DEF RecordTrue
<1>1. /\ window[j] \in Nat /\ record[j].attempts \in 0..MaxAttempts /\ record[j].wait \in Nat
      /\ sent[j] \in Nat /\ sent[j] <= record[j].attempts
  BY DEF CleanupTyped, RecordTrue
<1>2. CASE record'[j] = record[j] /\ sent'[j] = sent[j]
  BY <1>2 DEF RecordTrue
<1>3. CASE sent'[j] # sent[j]
  <2>1. SentOne(r)
    BY <1>3, RunShape DEF Released, Moved, TookUp, Leased, Recorded, Registered
  <2>2. inHand[r] \in JudgeJobs /\ record' = record
    BY <2>1, InHandKnown DEF SentOne, InHandIsJob, Attempt
  <2>3. inHand[r] = j /\ sent'[j] = sent[j] + 1
    BY <1>3, <2>1, <2>2 DEF SentOne, CleanupTyped
  <2>4. sent[j] < record[j].attempts
    BY <2>1, <2>3 DEF SentOne, LeaseHeld
  <2> QED
    BY <1>1, <2>2, <2>3, <2>4 DEF RecordTrue
<1>4. ASSUME inHand[r] = j, Same(r), runPc[r] \in Attempt \cup {"claim"}
      PROVE  window[j] = 0 /\ shown[j] /\ j \notin Early
  <2>1. record[j].status = "leased" \/ Due(j)
    BY <1>4 DEF LeaseHeld
  <2> QED
    BY <1>1, <2>1 DEF RecordTrue, Due
<1>5. CASE inHand[r] = j /\ Leased(r)
  <2>0. record'[j] = [status |-> "leased", version |-> record[j].version + 1,
                      attempts |-> record[j].attempts + 1, wait |-> Lease]
    BY <1>5, LeasedKnown
  <2>1. /\ record'[j].status = "leased" /\ record'[j].attempts = record[j].attempts + 1
        /\ sent'[j] = sent[j] /\ Same(r) /\ runPc[r] = "claim"
    BY <1>5, <2>0 DEF Leased
  <2> QED
    BY <1>1, <1>4, <1>5, <2>1
<1>6. CASE inHand[r] = j /\ Recorded(r)
  <2>1. /\ record'[j].status \in {"retry", "deleted", "absent", "blocked", "exhausted"}
        /\ record'[j].attempts = record[j].attempts /\ record[j].attempts > 0
        /\ record'[j].status \in {"deleted", "absent"} => product[j] = "gone"
        /\ sent'[j] = sent[j] /\ Same(r) /\ runPc[r] \in Attempt \cup {"claim"}
    BY <1>6, RecordedKnown DEF Recorded
  <2> QED
    BY <1>1, <1>4, <1>6, <2>1
<1>7. CASE /\ record[j].status = "none" /\ shown[j] /\ j \notin Early /\ sent'[j] = sent[j]
           /\ record'[j] = [status |-> "pending", version |-> 1, attempts |-> 0, wait |-> window[j]]
  <2>1. record[j].attempts = 0
    BY <1>7 DEF RecordTrue, NoRecord
  <2> QED
    BY <1>1, <1>7, <2>1
<1> QED
  BY <1>2, <1>3, <1>5, <1>6, <1>7, RecordMoves

\* What LeaseHeld says of one run, after a step.
HeldBy(s) ==
  /\ runPc[s] = "claim" /\ Same(s) => Due(inHand[s])
  /\ runPc[s] \in Attempt /\ Same(s) =>
       record[inHand[s]].status = "leased" /\ record[inHand[s]].wait > life[s]
  /\ runPc[s] = "delete" => Same(s)
  /\ runPc[s] \in {"look", "recheck", "delete"} /\ Same(s) =>
       sent[inHand[s]] < record[inHand[s]].attempts

Alone(s, t) ==
  ~(/\ runPc[s] \in Attempt /\ Same(s)
    /\ runPc[t] \in Attempt /\ Same(t) /\ inHand[t] = inHand[s])

LEMMA LeaseHeldParts ==
  LeaseHeld <=> (\A s \in Runs : HeldBy(s)) /\ (\A s, t \in Runs : s # t => Alone(s, t))
BY DEF LeaseHeld, HeldBy, Alone

LEMMA OtherRunHolds ==
  ASSUME JudgeInv, NEW r \in Runs, RunAct(r), NEW s \in Runs \ {r} PROVE HeldBy(s)'
<1> CleanupTyped /\ RecordInHand /\ RecordTrue /\ LeaseHeld
  BY DEF JudgeInv
<1> DEFINE j == inHand[s]
<1>1. /\ runPc'[s] = runPc[s] /\ life'[s] = life[s] /\ inHand'[s] = inHand[s]
      /\ inHand[s] = None => runPc[s] \notin Attempt \cup {"claim"}
  BY RunLocal, InHandKnown DEF InHandIsJob
<1>2. CASE inHand[s] = None
  BY <1>1, <1>2 DEF HeldBy, Attempt
<1>3. CASE inHand[s] # None
  <2>1. /\ j \in JudgeJobs /\ held'[s] = held[s]
        /\ Same(s)' => record'[j] = record[j] /\ Same(s)
        /\ runPc[s] \in Attempt /\ Same(s) => record'[j] = record[j]
    BY <1>3, OthersKept
  <2>2. HeldBy(s)
    BY LeaseHeldParts
  <2>3. (runPc[s] = "claim" /\ Same(s) => Due(inHand[s]))'
    BY <1>1, <2>1, <2>2 DEF HeldBy, Due
  <2>4. (runPc[s] \in Attempt /\ Same(s) =>
           record[inHand[s]].status = "leased" /\ record[inHand[s]].wait > life[s])'
    BY <1>1, <2>1, <2>2 DEF HeldBy
  <2>5. (runPc[s] = "delete" => Same(s))'
    <3> SUFFICES ASSUME runPc[s] = "delete" PROVE Same(s)'
      BY <1>1
    <3>1. runPc[s] \in Attempt /\ Same(s) /\ record[j].version = held[s]
      BY <2>2 DEF HeldBy, Attempt, Same
    <3> QED
      BY <1>1, <2>1, <3>1 DEF Same
  <2>6. (runPc[s] \in {"look", "recheck", "delete"} /\ Same(s) =>
           sent[inHand[s]] < record[inHand[s]].attempts)'
    <3> SUFFICES ASSUME runPc[s] \in {"look", "recheck", "delete"}, Same(s)'
                 PROVE  sent'[j] < record'[j].attempts
      BY <1>1
    <3>1. Same(s) /\ record'[j] = record[j] /\ runPc[s] \in Attempt
      BY <2>1 DEF Attempt
    <3>2. sent[j] < record[j].attempts
      BY <2>2, <3>1 DEF HeldBy
    <3>3. sent'[j] = sent[j]
      <4>1. CASE SentOne(r)
        <5>1. runPc[r] = "delete" /\ runPc[r] \in Attempt
          BY <4>1 DEF SentOne, Attempt
        <5>2. Same(r) /\ Alone(s, r)
          BY <5>1, LeaseHeldParts DEF HeldBy
        <5>3. inHand[r] # j
          BY <3>1, <5>1, <5>2 DEF Alone
        <5> QED
          BY <2>1, <4>1, <5>3 DEF SentOne, CleanupTyped
      <4>2. CASE UNCHANGED sent
        BY <4>2
      <4> QED
        BY <4>1, <4>2, RunShape DEF Released, Moved, TookUp, Leased, Recorded, Registered
    <3> QED
      BY <3>1, <3>2, <3>3
  <2> QED
    BY <2>3, <2>4, <2>5, <2>6 DEF HeldBy
<1> QED
  BY <1>2, <1>3

LEMMA ThisRunHolds == ASSUME JudgeInv, NEW r \in Runs, RunAct(r) PROVE HeldBy(r)'
<1> CleanupTyped /\ RecordInHand /\ RecordTrue /\ LeaseHeld
  BY DEF JudgeInv
<1> USE CleanupAssumption
<1> HeldBy(r)
  BY LeaseHeldParts
<1>1. ASSUME runPc'[r] \in {"idle", "discover", "page"} PROVE HeldBy(r)'
  BY <1>1 DEF HeldBy, Attempt
<1>2. ASSUME Moved(r) PROVE HeldBy(r)'
  <2>1. Same(r)' <=> Same(r)
    BY <1>2 DEF Moved, Same
  <2>2. /\ UNCHANGED <<record, sent, inHand, held, life>> /\ runPc'[r] \in Attempt
             /\ runPc[r] \in Attempt
        /\ runPc'[r] \notin {"claim", "look"}
        /\ runPc'[r] = "recheck" => runPc[r] = "look"
        /\ runPc'[r] = "delete" => runPc[r] = "recheck" /\ Same(r)
    BY <1>2 DEF Moved, Attempt
  <2> QED
    BY <2>1, <2>2 DEF HeldBy
<1>3. ASSUME SentOne(r) PROVE HeldBy(r)'
  <2>1. Same(r)' <=> Same(r)
    BY <1>3 DEF SentOne, Same
  <2>2. /\ UNCHANGED <<record, inHand, held, life>> /\ runPc[r] \in Attempt
        /\ runPc'[r] \notin {"claim", "look", "recheck", "delete"}
    BY <1>3 DEF SentOne, Attempt
  <2> QED
    BY <2>1, <2>2 DEF HeldBy
<1>4. ASSUME TookUp(r) PROVE HeldBy(r)'
  BY <1>4 DEF TookUp, HeldBy, Due, Attempt
<1>5. ASSUME Leased(r), runPc'[r] = "look", UNCHANGED <<inHand, life>> PROVE HeldBy(r)'
  <2> DEFINE j == inHand[r]
  <2>1. /\ j \in JudgeJobs
        /\ record'[j] = [status |-> "leased", version |-> record[j].version + 1,
                         attempts |-> record[j].attempts + 1, wait |-> Lease]
    BY <1>5, LeasedKnown
  <2>2. /\ record'[j].status = "leased" /\ record'[j].wait = Lease
        /\ record'[j].attempts = record[j].attempts + 1 /\ sent'[j] = sent[j]
    BY <1>5, <2>1 DEF Leased
  <2>3. /\ life[r] \in 0..Life /\ sent[j] \in Nat /\ sent[j] <= record[j].attempts
        /\ record[j].attempts \in 0..MaxAttempts
    BY <2>1 DEF CleanupTyped, RecordTrue
  <2>4. sent'[j] < record'[j].attempts /\ record'[j].wait > life'[r]
    BY <1>5, <2>2, <2>3
  <2> QED
    BY <1>5, <2>2, <2>4 DEF HeldBy
<1>6. ASSUME Leased(r) PROVE HeldBy(r)'
  BY <1>1, <1>5, <1>6 DEF Leased
<1>7. ASSUME Released(r) \/ Recorded(r) \/ Registered(r) PROVE HeldBy(r)'
  <2>1. runPc'[r] \in {"idle", "discover", "page"}
    BY <1>7 DEF Released, Recorded, Registered
  <2> QED
    BY <1>1, <2>1
<1> QED
  BY <1>2, <1>3, <1>4, <1>6, <1>7, RunShape

\* What r holds after its step nobody else does.
LEMMA ThisRunAlone ==
  ASSUME JudgeInv, NEW r \in Runs, RunAct(r), NEW s \in Runs \ {r},
         runPc'[r] \in Attempt, Same(r)', runPc'[s] \in Attempt, Same(s)', inHand'[s] = inHand'[r]
  PROVE  FALSE
<1> CleanupTyped /\ LeaseHeld
  BY DEF JudgeInv
<1>1. /\ runPc'[s] = runPc[s] /\ inHand'[s] = inHand[s] /\ inHand[s] # None
  BY RunLocal, InHandKnown DEF InHandIsJob
<1>2. inHand[s] \in JudgeJobs /\ record'[inHand[s]] = record[inHand[s]] /\ Same(s)
  BY <1>1, OthersKept
<1>3. ~(runPc[r] \in Attempt /\ Same(r) /\ inHand[s] = inHand[r])
  BY <1>1, <1>2, LeaseHeldParts DEF Alone
<1>4. CASE Moved(r) \/ SentOne(r)
  <2>1. UNCHANGED <<record, inHand, held>> /\ runPc[r] \in Attempt
    BY <1>4 DEF Moved, SentOne, Attempt
  <2>2. Same(r) /\ inHand[s] = inHand[r]
    BY <2>1 DEF Same
  <2> QED
    BY <1>3, <2>1, <2>2
<1>5. CASE Leased(r)
  <2>1. inHand'[r] = inHand[r]
    BY <1>5 DEF Leased, Attempt
  <2>2. /\ inHand[r] \in JudgeJobs
        /\ record'[inHand[r]] = [status |-> "leased", version |-> record[inHand[r]].version + 1,
                                 attempts |-> record[inHand[r]].attempts + 1, wait |-> Lease]
    BY <1>5, LeasedKnown
  <2>3. record'[inHand[r]].version = record[inHand[r]].version + 1
          /\ record[inHand[r]].version \in Nat
    BY <2>2 DEF CleanupTyped
  <2>4. inHand[s] = inHand[r]
    BY <1>1, <2>1
  <2> QED
    BY <1>2, <2>3, <2>4
<1>6. CASE Released(r) \/ TookUp(r) \/ Recorded(r) \/ Registered(r)
  BY <1>6 DEF Released, TookUp, Recorded, Registered, Attempt
<1> QED
  BY <1>4, <1>5, <1>6, RunShape

LEMMA RunLease == ASSUME JudgeInv, NEW r \in Runs, RunAct(r) PROVE LeaseHeld'
<1> LeaseHeld
  BY DEF JudgeInv
<1>1. \A s \in Runs : HeldBy(s)'
  BY OtherRunHolds, ThisRunHolds
<1>2. ASSUME NEW s \in Runs, NEW t \in Runs, s # t PROVE Alone(s, t)'
  <2> SUFFICES ASSUME runPc'[s] \in Attempt, Same(s)', runPc'[t] \in Attempt, Same(t)',
                      inHand'[t] = inHand'[s]
               PROVE  FALSE
    BY DEF Alone
  <2>1. CASE s = r \/ t = r
    BY <1>2, <2>1, ThisRunAlone
  <2>2. CASE s # r /\ t # r
    <3>1. /\ runPc'[s] = runPc[s] /\ inHand'[s] = inHand[s] /\ inHand[s] # None
          /\ runPc'[t] = runPc[t] /\ inHand'[t] = inHand[t] /\ inHand[t] # None
      BY <2>2, RunLocal, InHandKnown DEF InHandIsJob
    <3>2. Same(s) /\ Same(t)
      BY <2>2, <3>1, OthersKept
    <3> QED
      BY <1>2, <3>1, <3>2, LeaseHeldParts DEF Alone
  <2> QED
    BY <2>1, <2>2
<1>3. (LeaseHeld <=> (\A s \in Runs : HeldBy(s)) /\ (\A s, t \in Runs : s # t => Alone(s, t)))'
  BY LeaseHeldParts, PTL
<1> QED
  BY <1>1, <1>2, <1>3

LEMMA RunGone == ASSUME JudgeInv, NEW r \in Runs, RunAct(r) PROVE GoneSeen'
<1> GoneSeen
  BY DEF JudgeInv
<1> SUFFICES ASSUME NEW s \in Runs, runPc'[s] \in {"endDeleted", "endAbsent"}
             PROVE  product[inHand'[s]] = "gone"
  BY RunLocal DEF GoneSeen
<1>1. CASE s # r
  BY <1>1, RunLocal DEF GoneSeen
<1>2. CASE s = r
  BY <1>2, RunShape DEF Released, Moved, SentOne, TookUp, Leased, Recorded, Registered
<1> QED
  BY <1>1, <1>2

LEMMA CleanupStuttering == ASSUME JudgeInv, UNCHANGED cleanupVars PROVE JudgeInv'
BY DEF cleanupVars, worldVars, runVars, countVars, JudgeInv, CleanupTyped, RecordInHand, RecordTrue,
   LeaseHeld, GoneSeen, Same, Due

LEMMA JudgeInvStep == JudgeInv /\ [CleanupNext]_cleanupVars => JudgeInv'
<1> SUFFICES ASSUME JudgeInv, CleanupNext PROVE JudgeInv'
  BY CleanupStuttering
<1>1. CASE \E r \in Runs : RunAct(r)
  BY <1>1, RunTyped, RunInHand, RunTrue, RunLease, RunGone DEF JudgeInv
<1> QED
  BY <1>1, WorldKeeps, TickKeeps DEF CleanupNext, WorldStep, RunAct

LEMMA JudgeInvImplies == JudgeInv => DeletionSound
<1> SUFFICES ASSUME JudgeInv PROVE DeletionSound
  OBVIOUS
<1> CleanupTyped /\ RecordInHand /\ RecordTrue /\ LeaseHeld
  BY DEF JudgeInv
<1> USE CleanupAssumption
<1>1. JudgeCleanupTypeOK
  <2>1. ASSUME NEW j \in JudgeJobs
        PROVE  /\ record[j].status \in {"none", "pending", "leased", "retry"} \cup Ended
               /\ record[j].attempts \in 0..MaxAttempts
               /\ record[j].status \in {"leased", "retry"} \cup Ended => record[j].attempts > 0
    <3>1. record[j].status \in RecordStates /\ record[j].attempts \in 0..MaxAttempts
      BY DEF CleanupTyped
    <3> QED
      BY <3>1 DEF RecordStates, Ended, RecordTrue
  <2>2. runPc \in [Runs -> {"idle", "claim", "look", "recheck", "delete", "readback", "discover",
                    "page"}
                     \cup {Outcomes[o] : o \in DOMAIN Outcomes}]
    <3>1. RunStates \subseteq {"idle", "claim", "look", "recheck", "delete", "readback", "discover",
                    "page"} \cup {Outcomes[o] : o \in DOMAIN Outcomes}
      BY OutcomesKnown DEF RunStates, Attempt
    <3> QED
      BY <3>1 DEF CleanupTyped
  <2>3. \A r \in Runs :
          life[r] \in 0..Life /\ (inHand[r] # None => held[r] <= record[inHand[r]].version)
    BY DEF CleanupTyped, RecordInHand
  <2> QED
    BY <2>1, <2>2, <2>3 DEF JudgeCleanupTypeOK, CleanupTyped
<1>2. OneDeleter
  BY DEF LeaseHeld, OneDeleter, Attempt
<1>3. AttemptsBounded
  BY DEF AttemptsBounded, RecordTrue, CleanupTyped
<1>4. WindowKept
  <2> SUFFICES ASSUME NEW j \in JudgeJobs, sent[j] > 0 PROVE window[j] = 0 /\ j \notin Early
    BY DEF WindowKept
  <2>1. sent[j] \in Nat /\ sent[j] <= record[j].attempts /\ record[j].attempts \in 0..MaxAttempts
    BY DEF CleanupTyped, RecordTrue
  <2>2. record[j].attempts > 0
    BY <2>1
  <2>3. record[j].status \notin {"none", "pending"}
    BY <2>2 DEF RecordTrue, NoRecord
  <2> QED
    BY <2>3 DEF RecordTrue
<1>5. ClosedMeansGone
  BY DEF ClosedMeansGone, RecordTrue
<1> QED
  BY <1>1, <1>2, <1>3, <1>4, <1>5 DEF DeletionSound

\* Whatever the sizes of the campaign, of a page and of the bounds on faults: a judge's product is
\* deleted by one run at a time, at most as often as its record may have attempts, only of this
\* campaign and after its viewing window, and a record says deleted or absent only when the
\* product is gone.  (judge_cleanup/service.py, sweep and process)
THEOREM DeletionAlwaysSound == CleanupSpec => []DeletionSound
<1>1. CleanupInit => JudgeInv
  BY JudgeInvInit
<1>2. JudgeInv /\ [CleanupNext]_cleanupVars => JudgeInv'
  BY JudgeInvStep
<1>3. JudgeInv => DeletionSound
  BY JudgeInvImplies
<1> QED
  BY <1>1, <1>2, <1>3, PTL DEF CleanupSpec

-----------------------------------------------------------------------------
(* Sequences and greatest elements.                                        *)

LEMMA LenOfFunction == ASSUME NEW S, NEW n \in Nat, NEW q \in [1..n -> S] PROVE Len(q) = n
<1>1. q \in Seq(S) /\ DOMAIN q = 1..n
  BY SeqOfFunction
<1>2. DOMAIN q = 1..Len(q) /\ Len(q) \in Nat
  BY <1>1
<1> QED
  BY <1>1, <1>2

LEMMA SeqDomain == ASSUME NEW s, s \in Seq(ToSet(s))
                         PROVE  Len(s) \in Nat /\ DOMAIN s = 1..Len(s)
                                /\ \A i \in 1..Len(s) : s[i] \in ToSet(s)
BY DEF ToSet

LEMMA LeastExists == ASSUME NEW D \in SUBSET Nat, D # {} PROVE \E d \in D : \A e \in D : d <= e
<1> DEFINE R == OpToRel(<, Nat)
<1>1. IsWellFoundedOn(R, Nat)
  BY NatLessThanWellFounded
<1>2. \A x, y \in Nat : y < x => <<y, x>> \in R
  BY DEF OpToRel
<1> HIDE DEF R
<1>3. PICK d \in D : \A e \in D : <<e, d>> \notin R
  BY <1>1, WFMin
<1>4. ASSUME NEW e \in D PROVE d <= e
  <2>1. d \in Nat /\ e \in Nat
    OBVIOUS
  <2>2. ~(e < d)
    BY <1>2, <1>3, <2>1
  <2> QED
    BY <2>1, <2>2
<1> QED
  BY <1>4

LEMMA GreatestExists ==
  ASSUME NEW n \in Nat, NEW S \in SUBSET (0..n), S # {}
  PROVE  \E i \in S : \A k \in S : k <= i
<1> DEFINE D == {n - i : i \in S}
<1>1. PICK i \in S : TRUE
  OBVIOUS
<1>2. \A j \in S : j \in 0..n /\ n - j \in Nat
  OBVIOUS
<1>3. D \subseteq Nat /\ n - i \in D
  BY <1>1, <1>2
<1>4. PICK d \in D : \A e \in D : d <= e
  <2> HIDE DEF D
  <2> QED
    BY <1>3, LeastExists
<1>5. PICK m \in S : d = n - m
  BY <1>4
<1>6. ASSUME NEW k \in S PROVE k <= m
  <2>1. n - k \in D /\ n - m <= n - k
    BY <1>4, <1>5
  <2> QED
    BY <1>2, <2>1
<1> QED
  BY <1>6

-----------------------------------------------------------------------------
(* The sweep over the rows of ended jobs.                                  *)

LEMMA ExpiryNumbers ==
  /\ Retention \in Nat /\ Retention > 0 /\ ScanPageSize \in Nat /\ ScanPageSize > 0
  /\ RunSearches \in Nat /\ RunAssignments \in Nat /\ RunAssignments > 0
  /\ LastClock \in Nat /\ MaxRaises \in Nat /\ Skew \in Nat
  /\ Len(JobOrder) \in Nat
<1>1. /\ {Retention, ScanPageSize, RunSearches, RunAssignments} \subseteq Nat \ {0}
      /\ {Skew, LastEnd} \subseteq Nat /\ {LastClock, MaxRaises} \subseteq Nat
      /\ JobOrder \in Seq(ToSet(JobOrder))
  BY ExpiryAssumption
<1> QED
  BY <1>1, SeqDomain

LEMMA PartitionKnown ==
  ASSUME NEW phase \in {"job", "owner"}, NEW j \in Jobs
  PROVE  /\ PartitionLen(phase) \in Nat /\ DOMAIN Partition(phase, j) = 1..PartitionLen(phase)
         /\ Len(Partition(phase, j)) = PartitionLen(phase)
<1>1. Len(JobRows) \in Nat /\ Len(JobOrder) \in Nat /\ Len(OwnerRows) \in Nat
      /\ DOMAIN JobRows = 1..Len(JobRows)
  BY ExpiryAssumption, SeqDomain
<1>2. Len(JobOrder) * Len(OwnerRows) \in Nat
  BY <1>1
<1>3. PartitionLen(phase) \in Nat /\ DOMAIN Partition(phase, j) = 1..PartitionLen(phase)
  BY <1>1, <1>2 DEF PartitionLen, Partition, JobPartition, OwnerPartition
<1>4. PICK f : f = Partition(phase, j)
  OBVIOUS
<1>5. f = [i \in 1..PartitionLen(phase) |-> f[i]]
  <2>1. CASE phase = "job"
    BY <1>1, <1>4, <2>1 DEF PartitionLen, Partition, JobPartition
  <2>2. CASE phase = "owner"
    BY <1>1, <1>4, <2>2 DEF PartitionLen, Partition, OwnerPartition
  <2> QED
    BY <2>1, <2>2
<1> DEFINE S == {f[i] : i \in 1..PartitionLen(phase)}
<1>6. f \in [1..PartitionLen(phase) -> S]
  BY <1>5
<1>7. Len(f) = PartitionLen(phase)
  BY <1>3, <1>6, LenOfFunction
<1> QED
  BY <1>3, <1>4, <1>7

LEMMA ExpiryInvInit == ExpiryInit => ExpiryInv
<1> SUFFICES ASSUME ExpiryInit PROVE ExpiryInv
  OBVIOUS
<1>1. Len(JobOrder) \in Nat /\ 0 \in 0..Len(JobOrder)
  BY ExpiryNumbers
<1>2. 0 \in 0..LastClock /\ 0 \in 0..RunSearches /\ 0 \in 0..RunAssignments /\ 0 \in 0..MaxRaises
  BY ExpiryNumbers
<1>3. ExpiryTyped
  BY <1>1, <1>2 DEF ExpiryTyped, ExpiryInit, EmptyCheckpoint, IdleRun, JobStates
<1>4. ChosenOld
  BY DEF ChosenOld, ExpiryInit, EmptyCheckpoint, IdleRun
<1>5. OnlyOldTerminalExpires
  BY DEF OnlyOldTerminalExpires, ExpiryInit, Absent
<1> QED
  BY <1>3, <1>4, <1>5 DEF ExpiryInv

\* A terminal job stays as it is, and is as old as before or older.
LEMMA OldStays ==
  ASSUME ExpiryTyped, NEW j \in Jobs, Old(j), jobRow'[j] = jobRow[j], expiryClock' \in Nat,
         expiryClock' >= expiryClock
  PROVE  Old(j)'
<1>1. jobRow[j].at \in Nat /\ expiryClock \in Nat /\ Retention \in Nat
  BY ExpiryNumbers DEF ExpiryTyped
<1> QED
  BY <1>1 DEF Old

\* The steps of the jobs and of the table: what has been chosen stays chosen.
LEMMA TableChosen ==
  ASSUME ExpiryInv, UNCHANGED <<run, checkpoint>>, expiryClock' \in Nat,
    expiryClock' >= expiryClock,
         \A j \in Jobs : jobRow[j].state \in Eligible => jobRow'[j] = jobRow[j]
  PROVE  ChosenOld'
<1> ExpiryTyped /\ ChosenOld
  BY DEF ExpiryInv
<1>1. ASSUME NEW j \in Jobs, Old(j) PROVE Old(j)'
  BY <1>1, OldStays DEF Old
<1>2. run.found # 0 => JobOrder[run.found] \in Jobs
  <2>1. run.found \in 0..Len(JobOrder)
    BY DEF ExpiryTyped
  <2> QED
    BY <2>1, ExpiryAssumption, SeqDomain DEF Jobs
<1>3. (\A i \in run.page : Mine(i)) => (\A i \in run.page : Mine(i))'
  BY DEF Mine, Partition
<1> QED
  BY <1>1, <1>2, <1>3 DEF ChosenOld, PartitionLen

LEMMA TableExpiry == ASSUME ExpiryInv,
                            \/ \E j \in Jobs : CreateJob(j)
                            \/ \E j \in Jobs, s \in {"APPROVED", "CANCELLED", "FAILED_TERMINAL"} :
                                 End(j, s)
                            \/ \E r \in Rows : ExpireRow(r)
                            \/ ExpiryTick
                     PROVE  ExpiryInv'
<1> ExpiryTyped /\ ChosenOld /\ OnlyOldTerminalExpires
  BY DEF ExpiryInv
<1>0. /\ Retention \in Nat /\ Retention > 0 /\ LastClock \in Nat
      /\ expiryClock \in 0..LastClock /\ expiryClock \in Nat /\ expiryClock + Retention \in Nat
  BY ExpiryNumbers DEF ExpiryTyped
<1>1. UNCHANGED <<run, checkpoint, raised>> /\ expiryClock' \in 0..LastClock
        /\ expiryClock' >= expiryClock
  BY <1>0 DEF CreateJob, End, ExpireRow, ExpiryTick
<1>2. \A j \in Jobs : jobRow[j].state \in Eligible => jobRow'[j] = jobRow[j]
  BY DEF CreateJob, End, ExpireRow, ExpiryTick, Eligible, ExpiryTyped
<1>3. /\ jobRow' \in [Jobs -> [state : JobStates, at : 0..LastClock]]
      /\ \A j \in Jobs : jobRow'[j].at <= expiryClock'
  <2>1. ASSUME NEW j \in Jobs, NEW s \in JobStates, UNCHANGED expiryClock,
               jobRow' = [jobRow EXCEPT ![j] = [state |-> s, at |-> expiryClock]]
        PROVE  /\ jobRow' \in [Jobs -> [state : JobStates, at : 0..LastClock]]
               /\ \A k \in Jobs : jobRow'[k].at <= expiryClock'
    <3> DEFINE T == 0..LastClock
    <3> DEFINE x == [state |-> s, at |-> expiryClock]
    <3>1. s \in JobStates /\ expiryClock \in T
      BY <1>0, <2>1
    <3> HIDE DEF T
    <3>2. x \in [state : JobStates, at : T] /\ x.at = expiryClock
      BY <3>1
    <3>3. jobRow' = [jobRow EXCEPT ![j] = x]
      BY <2>1
    <3>4. \A k \in Jobs : jobRow[k].at \in Nat /\ jobRow[k].at <= expiryClock
      BY DEF ExpiryTyped
    <3>5. \A k \in Jobs : jobRow'[k] = jobRow[k] \/ jobRow'[k] = x
      BY <3>3 DEF ExpiryTyped
    <3> HIDE DEF x
    <3>6. jobRow' \in [Jobs -> [state : JobStates, at : T]]
      BY <3>2, <3>3 DEF ExpiryTyped, T
    <3> QED
      BY <1>0, <2>1, <3>2, <3>4, <3>5, <3>6 DEF T
  <2>2. {"ACTIVE", "APPROVED", "CANCELLED", "FAILED_TERMINAL"} \subseteq JobStates
    BY DEF JobStates
  <2>3. CASE \E j \in Jobs : CreateJob(j)
    BY <2>1, <2>2, <2>3 DEF CreateJob
  <2>4. CASE \E j \in Jobs, s \in {"APPROVED", "CANCELLED", "FAILED_TERMINAL"} : End(j, s)
    BY <2>1, <2>2, <2>4 DEF End
  <2>5. CASE UNCHANGED jobRow
    <3>1. \A j \in Jobs : jobRow[j].at \in Nat /\ jobRow[j].at <= expiryClock
      BY DEF ExpiryTyped
    <3> QED
      BY <1>0, <1>1, <2>5, <3>1 DEF ExpiryTyped
  <2> QED
    BY <2>3, <2>4, <2>5 DEF ExpireRow, ExpiryTick
<1>4. expires' \in [Rows -> {Absent, NoExpiry} \cup 0..(LastClock + Retention)]
  <2> DEFINE T == {Absent, NoExpiry} \cup 0..(LastClock + Retention)
  <2>1. expires \in [Rows -> T] /\ Absent \in T /\ NoExpiry \in T /\ expiryClock + Retention \in T
    BY <1>0 DEF ExpiryTyped
  <2> HIDE DEF T
  <2>2. expires' \in [Rows -> T]
    BY <2>1 DEF CreateJob, End, ExpireRow, ExpiryTick
  <2> QED
    BY <2>2 DEF T
<1>5. OnlyOldTerminalExpires'
  <2> SUFFICES ASSUME NEW r \in Rows, expires'[r] >= 0, r[2] # "upload"
               PROVE  /\ jobRow'[r[1]].state \in Eligible
                      /\ expiryClock' - jobRow'[r[1]].at >= Retention
                      /\ expires'[r] = jobRow'[r[1]].at + Retention
    BY DEF OnlyOldTerminalExpires
  <2>1. r[1] \in Jobs
    BY DEF Rows
  <2>2. expires'[r] = expires[r]
    <3>1. expires'[r] = expires[r] \/ expires'[r] \in {NoExpiry, Absent}
      BY DEF CreateJob, End, ExpireRow, ExpiryTick, ExpiryTyped
    <3> QED
      BY <3>1 DEF NoExpiry, Absent
  <2>3. /\ jobRow[r[1]].state \in Eligible /\ expiryClock - jobRow[r[1]].at >= Retention
        /\ expires[r] = jobRow[r[1]].at + Retention
    BY <2>2 DEF OnlyOldTerminalExpires
  <2>4. jobRow'[r[1]] = jobRow[r[1]]
    BY <1>2, <2>1, <2>3
  <2>5. jobRow[r[1]].at \in Nat
    <3>1. jobRow[r[1]].at \in 0..LastClock
      BY <2>1 DEF ExpiryTyped
    <3> QED
      BY <3>1
  <2> QED
    BY <1>0, <1>1, <2>2, <2>3, <2>4, <2>5
<1>6. ChosenOld'
  BY <1>0, <1>1, <1>2, TableChosen
<1>7. ExpiryTyped'
  BY <1>1, <1>3, <1>4 DEF ExpiryTyped
<1> QED
  BY <1>5, <1>6, <1>7 DEF ExpiryInv

RunType == [pc : {"idle", "choose", "searched", "queried", "assigned"}, now : Nat,
            searches : 0..RunSearches, pages : 0..RunAssignments, found : 0..Len(JobOrder),
            resume : 0..Len(JobOrder), eligible : BOOLEAN, page : SUBSET Nat, last : Nat]
CheckpointType == [scan : 0..Len(JobOrder), active : Jobs \cup {NoJobYet},
                   resume : 0..Len(JobOrder), phase : {"job", "owner"}, after : Nat]

LEMMA RunStarts ==
  ASSUME ExpiryTyped
  PROVE  /\ run \in RunType /\ IdleRun \in RunType /\ Continue \in RunType
         /\ IdleRun.pc = "idle" /\ Continue.pc = "choose"
         /\ \A now \in Nat : [IdleRun EXCEPT !.pc = "choose", !.now = now] \in RunType
<1>1. 0 \in 0..RunSearches /\ 0 \in 0..RunAssignments /\ 0 \in 0..Len(JobOrder)
  BY ExpiryNumbers
<1>2. run \in RunType
  BY DEF ExpiryTyped, RunType
<1> DEFINE A == 0..RunSearches
<1> DEFINE B == 0..RunAssignments
<1> DEFINE C == 0..Len(JobOrder)
<1>3. 0 \in A /\ 0 \in B /\ 0 \in C
  BY <1>1
<1>4. RunType = [pc : {"idle", "choose", "searched", "queried", "assigned"}, now : Nat,
                 searches : A, pages : B, found : C, resume : C, eligible : BOOLEAN,
                 page : SUBSET Nat, last : Nat]
  BY DEF RunType
<1> HIDE DEF A, B, C
<1>5. IdleRun \in RunType
  BY <1>3, <1>4 DEF IdleRun
<1>6. ASSUME NEW now \in Nat, NEW s \in A, NEW p \in B
      PROVE  [IdleRun EXCEPT !.pc = "choose", !.now = now, !.searches = s, !.pages = p] \in RunType
  BY <1>3, <1>4, <1>6 DEF IdleRun
<1>7. Continue \in RunType
  BY <1>2, <1>4, <1>6 DEF Continue
<1>8. ASSUME NEW now \in Nat PROVE [IdleRun EXCEPT !.pc = "choose", !.now = now] \in RunType
  BY <1>3, <1>4, <1>8 DEF IdleRun
<1> QED
  BY <1>2, <1>5, <1>7, <1>8 DEF IdleRun, Continue

\* What a page of the active job's partition holds.
LEMMA PageKnown ==
  ASSUME ExpiryTyped, checkpoint.active \in Jobs
  PROVE  /\ NextRows \subseteq 1..PartitionLen(checkpoint.phase)
         /\ LastKey(NextRows) \in 0..PartitionLen(checkpoint.phase)
<1> DEFINE n == PartitionLen(checkpoint.phase)
<1>1. checkpoint.phase \in {"job", "owner"}
  BY DEF ExpiryTyped
<1>2. n \in Nat /\ DOMAIN Partition(checkpoint.phase, checkpoint.active) = 1..n
  BY <1>1, PartitionKnown
<1> HIDE DEF n
<1>3. NextRows \subseteq 1..n
  BY <1>2 DEF NextRows
<1>4. IsFiniteSet(NextRows)
  <2>1. n \in Int /\ 1 \in Int
    BY <1>2
  <2>2. IsFiniteSet(1..n)
    BY <2>1, FS_Interval
  <2> QED
    BY <1>3, <2>2, FS_Subset
<1>5. ASSUME Cardinality(NextRows) < ScanPageSize PROVE LastKey(NextRows) \in 0..n
  BY <1>2, <1>5 DEF LastKey
<1>6. ASSUME ~(Cardinality(NextRows) < ScanPageSize) PROVE LastKey(NextRows) \in 0..n
  <2>1. Cardinality(NextRows) # 0
    BY <1>6, ExpiryNumbers
  <2>2. NextRows # {}
    BY <2>1, FS_EmptySet
  <2>3. NextRows \in SUBSET (0..n)
    BY <1>2, <1>3
  <2>4. \E i \in NextRows : \A k \in NextRows : k <= i
    BY <1>2, <2>2, <2>3, GreatestExists
  <2>5. LastKey(NextRows) \in NextRows
    BY <1>6, <2>4 DEF LastKey
  <2> QED
    BY <2>3, <2>5
<1> QED
  BY <1>3, <1>5, <1>6 DEF n

\* The job the scan has found.
LEMMA FoundKnown ==
  ASSUME ExpiryTyped, NEW i \in Unscanned(checkpoint.scan)
  PROVE  /\ i \in 0..Len(JobOrder) /\ i # 0 /\ JobOrder[i] \in Jobs
         /\ OldTerminal(JobOrder[i]) \in BOOLEAN /\ OldTerminal(JobOrder[i]) => Old(JobOrder[i])
<1>1. i \in DOMAIN JobOrder
  BY DEF Unscanned
<1>2. i \in 1..Len(JobOrder) /\ JobOrder[i] \in Jobs /\ Len(JobOrder) \in Nat
  BY <1>1, ExpiryAssumption, SeqDomain DEF Jobs
<1>3. OldTerminal(JobOrder[i]) \in BOOLEAN
  BY Zenon DEF OldTerminal
<1>4. ASSUME OldTerminal(JobOrder[i]) PROVE Old(JobOrder[i])
  <2>1. /\ run.now \in Nat /\ expiryClock \in Nat /\ jobRow[JobOrder[i]].at \in Nat
             /\ Retention \in Nat
    BY <1>2, ExpiryNumbers DEF ExpiryTyped
  <2> QED
    BY <1>4, <2>1 DEF OldTerminal, Old
<1> QED
  BY <1>2, <1>3, <1>4

\* The steps of the sweep, by what they leave behind.
Resets == run' = IdleRun /\ UNCHANGED <<checkpoint, expires>>
Started == \E now \in Nat : /\ run' = [IdleRun EXCEPT !.pc = "choose", !.now = now]
                            /\ UNCHANGED <<checkpoint, expires>>
Searched ==
  /\ UNCHANGED <<checkpoint, expires>> /\ run.searches < RunSearches /\ run.pages < RunAssignments
  /\ \E found, resume \in 0..Len(JobOrder), eligible \in BOOLEAN :
       /\ eligible => found # 0 /\ JobOrder[found] \in Jobs /\ Old(JobOrder[found])
       /\ run' = [run EXCEPT !.pc = "searched", !.searches = @ + 1, !.found = found,
                             !.resume = resume, !.eligible = eligible]
Queried ==
  /\ UNCHANGED <<checkpoint, expires>> /\ checkpoint.active # NoJobYet /\ run.pages < RunAssignments
  /\ run.pc = "choose"
  /\ \E page \in SUBSET Nat, last \in 0..PartitionLen(checkpoint.phase) :
       /\ \A i \in page : Mine(i)
       /\ run' = [run EXCEPT !.pc = "queried", !.page = page, !.last = last]
MovedOn ==
  /\ UNCHANGED expires /\ run' \in {IdleRun, Continue}
  /\ \/ \E scan \in 0..Len(JobOrder) : checkpoint' = [EmptyCheckpoint EXCEPT !.scan = scan]
     \/ \E scan \in 0..Len(JobOrder), j \in Jobs :
          /\ Old(j)
          /\ checkpoint' = [EmptyCheckpoint EXCEPT !.scan = scan, !.resume = scan, !.active = j]
     \/ /\ checkpoint.active # NoJobYet
        /\ \/ checkpoint' = [checkpoint EXCEPT !.phase = "owner", !.after = 0]
           \/ \E last \in 0..PartitionLen(checkpoint.phase) :
                checkpoint' = [checkpoint EXCEPT !.after = last]

LEMMA SweepShape ==
  ASSUME ExpiryInv, Step \/ RaiseInRun
  PROVE  /\ UNCHANGED <<expiryClock, jobRow>>
         /\ raised' \in 0..MaxRaises
         /\ Resets \/ Started \/ Searched \/ Queried \/ MovedOn \/ Assign
<1> ExpiryTyped /\ ChosenOld
  BY DEF ExpiryInv
<1>1. UNCHANGED <<expiryClock, jobRow>>
  BY DEF Step, RaiseInRun, Start, EndSweep, Search, AdvanceScan, StartAssignment, Query,
     AbandonEmpty,
     Assign, AbandonCancelled, AdvanceAssignment
<1>2. raised' \in 0..MaxRaises
  <2>1. raised \in 0..MaxRaises /\ MaxRaises \in Nat
    BY ExpiryNumbers DEF ExpiryTyped
  <2>2. CASE Step
    <3>1. raised' = raised
      BY <2>2 DEF Step, Start, EndSweep, Search, AdvanceScan, StartAssignment, Query, AbandonEmpty,
         Assign, AbandonCancelled, AdvanceAssignment
    <3> QED
      BY <2>1, <3>1
  <2>3. CASE RaiseInRun
    <3>1. raised' = raised \/ (raised < MaxRaises /\ raised' = raised + 1)
      BY <2>3 DEF RaiseInRun
    <3> QED
      BY <2>1, <3>1
  <2> QED
    BY <2>2, <2>3
<1> DEFINE Goal == Resets \/ Started \/ Searched \/ Queried \/ MovedOn \/ Assign
<1>3. ASSUME Start PROVE Goal
  <2>1. PICK ahead \in 0..Skew :
          run' = [IdleRun EXCEPT !.pc = "choose", !.now = expiryClock + ahead]
    BY <1>3 DEF Start
  <2>2. expiryClock + ahead \in Nat
    BY ExpiryNumbers DEF ExpiryTyped
  <2>3. Started
    BY <1>3, <2>1, <2>2 DEF Start, Started
  <2> QED
    BY <2>3
<1>4. ASSUME EndSweep \/ RaiseInRun PROVE Goal
  <2>1. Resets
    BY <1>4 DEF EndSweep, RaiseInRun, Resets
  <2> QED
    BY <2>1
<1>5. ASSUME Search PROVE Goal
  <2>1. UNCHANGED <<checkpoint, expires>> /\ run.searches < RunSearches
          /\ run.pages < RunAssignments
    BY <1>5 DEF Search, Within
  <2>2. CASE run' = [run EXCEPT !.pc = "searched", !.searches = @ + 1,
                                !.found = 0, !.resume = 0, !.eligible = FALSE]
    <3>1. 0 \in 0..Len(JobOrder) /\ FALSE \in BOOLEAN
      BY ExpiryNumbers
    <3>2. Searched
      BY <2>1, <2>2, <3>1 DEF Searched
    <3> QED
      BY <3>2
  <2>3. CASE \E i \in Unscanned(checkpoint.scan), end \in BOOLEAN :
               run' = [run EXCEPT !.pc = "searched", !.searches = @ + 1,
                             !.found = i, !.resume = IF end THEN 0 ELSE i,
                             !.eligible = OldTerminal(JobOrder[i])]
    <3>1. PICK i \in Unscanned(checkpoint.scan), end \in BOOLEAN :
               run' = [run EXCEPT !.pc = "searched", !.searches = @ + 1,
                             !.found = i, !.resume = IF end THEN 0 ELSE i,
                             !.eligible = OldTerminal(JobOrder[i])]
      BY <2>3
    <3>2. PICK resume \in 0..Len(JobOrder) : resume = IF end THEN 0 ELSE i
      BY FoundKnown, ExpiryNumbers
    <3>3. PICK eligible \in BOOLEAN : eligible = OldTerminal(JobOrder[i])
      <4>1. OldTerminal(JobOrder[i]) \in BOOLEAN
        BY Zenon DEF OldTerminal
      <4> QED
        BY <4>1, Zenon
    <3>4. eligible => i # 0 /\ JobOrder[i] \in Jobs /\ Old(JobOrder[i])
      BY <3>3, FoundKnown
    <3>5. run' = [run EXCEPT !.pc = "searched", !.searches = @ + 1, !.found = i,
                             !.resume = resume, !.eligible = eligible]
      BY <3>1, <3>2, <3>3, Zenon
    <3>6. i \in 0..Len(JobOrder)
      BY FoundKnown
    <3>7. Searched
      BY <2>1, <3>4, <3>5, <3>6 DEF Searched
    <3> QED
      BY <3>7
  <2> QED
    BY <1>5, <2>2, <2>3 DEF Search
<1>6. ASSUME AdvanceScan PROVE Goal
  <2>1. run.resume \in 0..Len(JobOrder)
    BY DEF ExpiryTyped
  <2>2. MovedOn
    BY <1>6, <2>1 DEF AdvanceScan, MovedOn
  <2> QED
    BY <2>2
<1>7. ASSUME StartAssignment PROVE Goal
  <2>1. run.resume \in 0..Len(JobOrder) /\ run.found \in 0..Len(JobOrder)
    BY DEF ExpiryTyped
  <2>2. run.found # 0 /\ Old(JobOrder[run.found])
    BY <1>7 DEF StartAssignment, ChosenOld
  <2>3. JobOrder[run.found] \in Jobs
    BY <2>1, <2>2, ExpiryAssumption, SeqDomain DEF Jobs
  <2>4. checkpoint' = [EmptyCheckpoint EXCEPT !.scan = run.resume, !.resume = run.resume,
                                              !.active = JobOrder[run.found]]
        /\ UNCHANGED expires /\ run' = Continue
    BY <1>7 DEF StartAssignment
  <2>5. MovedOn
    BY <2>1, <2>2, <2>3, <2>4 DEF MovedOn
  <2> QED
    BY <2>5
<1>8. ASSUME Query PROVE Goal
  <2>1. /\ UNCHANGED <<checkpoint, expires>> /\ checkpoint.active # NoJobYet
        /\ run.pages < RunAssignments /\ run.pc = "choose"
        /\ run' = [run EXCEPT !.pc = "queried", !.page = {i \in NextRows : Mine(i)},
                              !.last = LastKey(NextRows)]
    BY <1>8 DEF Query, Within
  <2>2. checkpoint.active \in Jobs
    BY <2>1 DEF ExpiryTyped
  <2>3. {i \in NextRows : Mine(i)} \in SUBSET Nat
    BY <2>2, PageKnown
  <2>4. LastKey(NextRows) \in 0..PartitionLen(checkpoint.phase)
    BY <2>2, PageKnown
  <2>5. Queried
    BY <2>1, <2>3, <2>4 DEF Queried
  <2> QED
    BY <2>5
<1>9. ASSUME AbandonEmpty \/ AbandonCancelled PROVE Goal
  <2>1. checkpoint.resume \in 0..Len(JobOrder)
    BY DEF ExpiryTyped
  <2>2. MovedOn
    BY <1>9, <2>1 DEF AbandonEmpty, AbandonCancelled, MovedOn, Finished, AfterFinish
  <2> QED
    BY <2>2
<1>10. ASSUME AdvanceAssignment PROVE Goal
  <2>1. checkpoint.resume \in 0..Len(JobOrder) /\ run.last \in Nat
          /\ PartitionLen(checkpoint.phase) \in Nat
        /\ checkpoint.active # NoJobYet /\ run.last <= PartitionLen(checkpoint.phase)
    <3>1. checkpoint.active # NoJobYet /\ checkpoint.active \in Jobs
            /\ checkpoint.phase \in {"job", "owner"}
      BY <1>10 DEF AdvanceAssignment, ChosenOld, ExpiryTyped
    <3> QED
      BY <1>10, <3>1, PartitionKnown DEF AdvanceAssignment, ChosenOld, ExpiryTyped
  <2>2. run.last \in 0..PartitionLen(checkpoint.phase)
    BY <2>1
  <2>3. MovedOn
    BY <1>10, <2>1, <2>2 DEF AdvanceAssignment, MovedOn, Finished, AfterFinish
  <2> QED
    BY <2>3
<1>11. ASSUME Assign PROVE Goal
  BY <1>11
<1> HIDE DEF Goal
<1>12. Goal
  BY <1>3, <1>4, <1>5, <1>6, <1>7, <1>8, <1>9, <1>10, <1>11 DEF Step
<1> QED
  BY <1>1, <1>2, <1>12 DEF Goal

LEMMA SweepRunTyped == ASSUME ExpiryInv, Step \/ RaiseInRun PROVE run' \in RunType
<1> ExpiryTyped /\ ChosenOld
  BY DEF ExpiryInv
<1>1. CASE Resets \/ Started \/ MovedOn
  BY <1>1, RunStarts DEF Resets, Started, MovedOn
<1>2. run \in RunType /\ RunSearches \in Nat /\ RunAssignments \in Nat
  BY RunStarts, ExpiryNumbers
<1>3. CASE Searched
  <2>1. PICK found \in 0..Len(JobOrder), resume \in 0..Len(JobOrder), eligible \in BOOLEAN :
          run' = [run EXCEPT !.pc = "searched", !.searches = @ + 1, !.found = found,
                             !.resume = resume, !.eligible = eligible]
    BY <1>3 DEF Searched
  <2>2. run.searches + 1 \in 0..RunSearches
    BY <1>2, <1>3 DEF Searched, RunType
  <2>3. PICK n \in 0..RunSearches :
          run' = [run EXCEPT !.pc = "searched", !.searches = n, !.found = found,
                             !.resume = resume, !.eligible = eligible]
    BY <2>1, <2>2
  <2> QED
    BY <1>2, <2>3 DEF RunType
<1>4. CASE Queried
  <2>0. 0..PartitionLen(checkpoint.phase) \subseteq Nat
    OBVIOUS
  <2>1. PICK page \in SUBSET Nat, last \in 0..PartitionLen(checkpoint.phase) :
          run' = [run EXCEPT !.pc = "queried", !.page = page, !.last = last]
    BY <1>4 DEF Queried
  <2>2. page \in SUBSET Nat /\ last \in Nat
    BY <2>0, <2>1
  <2> QED
    BY <1>2, <2>1, <2>2 DEF RunType
<1>5. CASE Assign
  <2>1. run' = [run EXCEPT !.pc = "assigned", !.pages = @ + 1, !.page = {}]
        /\ run.pages < RunAssignments
    BY <1>5 DEF Assign, ChosenOld
  <2>2. run.pages + 1 \in 0..RunAssignments
    BY <1>2, <2>1 DEF RunType
  <2>3. PICK n \in 0..RunAssignments :
          run' = [run EXCEPT !.pc = "assigned", !.pages = n, !.page = {}]
    BY <2>1, <2>2
  <2> QED
    BY <1>2, <2>3 DEF RunType
<1> QED
  BY <1>1, <1>3, <1>4, <1>5, SweepShape

LEMMA SweepCheckpointTyped == ASSUME ExpiryInv, Step \/ RaiseInRun
  PROVE  checkpoint' \in CheckpointType
<1> ExpiryTyped
  BY DEF ExpiryInv
<1>1. checkpoint \in CheckpointType
  BY DEF ExpiryTyped, CheckpointType
<1>2. CASE UNCHANGED checkpoint
  BY <1>1, <1>2
<1>3. CASE MovedOn
  <2>0. Len(JobOrder) \in Nat /\ 0 \in 0..Len(JobOrder)
    BY ExpiryNumbers
  <2>1. ASSUME NEW scan \in 0..Len(JobOrder), NEW resume \in 0..Len(JobOrder),
               NEW active \in Jobs \cup {NoJobYet}
        PROVE  [EmptyCheckpoint EXCEPT !.scan = scan, !.resume = resume, !.active = active]
                 \in CheckpointType
    BY <2>1 DEF EmptyCheckpoint, CheckpointType
  <2>2. ASSUME NEW scan \in 0..Len(JobOrder)
        PROVE  [EmptyCheckpoint EXCEPT !.scan = scan] \in CheckpointType
    BY <2>0, <2>2 DEF EmptyCheckpoint, CheckpointType
  <2>3. CASE \E scan \in 0..Len(JobOrder) : checkpoint' = [EmptyCheckpoint EXCEPT !.scan = scan]
    BY <2>2, <2>3
  <2>4. CASE \E scan \in 0..Len(JobOrder), j \in Jobs :
               checkpoint' = [EmptyCheckpoint EXCEPT !.scan = scan, !.resume = scan, !.active = j]
    BY <2>1, <2>4
  <2>5. CASE checkpoint' = [checkpoint EXCEPT !.phase = "owner", !.after = 0]
    BY <1>1, <2>5 DEF CheckpointType
  <2>6. CASE \E last \in 0..PartitionLen(checkpoint.phase) :
          checkpoint' = [checkpoint EXCEPT !.after = last]
    <3>1. PICK last \in Nat : checkpoint' = [checkpoint EXCEPT !.after = last]
      BY <2>6
    <3> QED
      BY <1>1, <3>1 DEF CheckpointType
  <2> QED
    BY <1>3, <2>3, <2>4, <2>5, <2>6 DEF MovedOn
<1> QED
  BY <1>2, <1>3, SweepShape DEF Resets, Started, Searched, Queried, Assign

\* The rows an assignment writes are those of a job that is old enough.
LEMMA AssignKnown ==
  ASSUME ExpiryInv, Assign
  PROVE  /\ checkpoint.active \in Jobs /\ Old(checkpoint.active) /\ Expiry \in Nat
         /\ Expiry \in 0..(LastClock + Retention)
         /\ \A r \in PageRows : r[1] = checkpoint.active /\ expires[r] \in {NoExpiry, Expiry}
<1> ExpiryTyped /\ ChosenOld
  BY DEF ExpiryInv
<1>1. run.pc = "queried" /\ checkpoint.active \in Jobs /\ Old(checkpoint.active)
  BY DEF Assign, ChosenOld
<1>2. /\ jobRow[checkpoint.active].at \in 0..LastClock /\ LastClock \in Nat /\ Retention \in Nat
  BY <1>1, ExpiryNumbers DEF ExpiryTyped
<1>3. Expiry \in Nat /\ Expiry \in 0..(LastClock + Retention)
  BY <1>2 DEF Expiry
<1>4. ASSUME NEW r \in PageRows PROVE r[1] = checkpoint.active /\ expires[r] \in {NoExpiry, Expiry}
  <2>1. PICK i \in run.page : r = Partition(checkpoint.phase, checkpoint.active)[i]
    BY DEF PageRows
  <2>2. Mine(i) /\ run.page # {}
    BY <1>1 DEF ChosenOld
  <2>3. expires[r] \in {NoExpiry, Expiry}
    BY <2>2 DEF Assign, Writable
  <2> QED
    BY <2>1, <2>2, <2>3 DEF Mine
<1> QED
  BY <1>1, <1>3, <1>4

LEMMA SweepRows ==
  ASSUME ExpiryInv, Step \/ RaiseInRun
  PROVE  /\ expires' \in [Rows -> {Absent, NoExpiry} \cup 0..(LastClock + Retention)]
         /\ OnlyOldTerminalExpires'
<1> ExpiryTyped /\ OnlyOldTerminalExpires
  BY DEF ExpiryInv
<1>1. UNCHANGED <<expiryClock, jobRow>>
  BY SweepShape
<1>2. CASE UNCHANGED expires
  BY <1>1, <1>2 DEF ExpiryTyped, OnlyOldTerminalExpires
<1>3. CASE Assign
  <2> DEFINE T == {Absent, NoExpiry} \cup 0..(LastClock + Retention)
  <2>1. Expiry \in T /\ expires \in [Rows -> T]
    BY <1>3, AssignKnown DEF ExpiryTyped
  <2> HIDE DEF T
  <2>2. expires' \in [Rows -> T]
    BY <1>3, <2>1 DEF Assign
  <2>3. ASSUME NEW r \in Rows, expires'[r] >= 0, r[2] # "upload"
        PROVE  /\ jobRow'[r[1]].state \in Eligible
               /\ expiryClock' - jobRow'[r[1]].at >= Retention
               /\ expires'[r] = jobRow'[r[1]].at + Retention
    <3>1. CASE r \in PageRows
      <4>1. expires'[r] = Expiry /\ r[1] = checkpoint.active /\ Old(checkpoint.active)
        BY <1>3, <3>1, AssignKnown DEF Assign
      <4> QED
        BY <1>1, <4>1 DEF Old, Expiry
    <3>2. CASE r \notin PageRows
      <4>1. expires'[r] = expires[r]
        BY <1>3, <3>2 DEF Assign
      <4> QED
        BY <1>1, <2>3, <4>1 DEF OnlyOldTerminalExpires
    <3> QED
      BY <3>1, <3>2
  <2>4. OnlyOldTerminalExpires'
    BY <2>3 DEF OnlyOldTerminalExpires
  <2> QED
    BY <2>2, <2>4 DEF T
<1> QED
  BY <1>2, <1>3, SweepShape DEF Resets, Started, Searched, Queried, MovedOn

LEMMA SweepChosen == ASSUME ExpiryInv, Step \/ RaiseInRun PROVE ChosenOld'
<1> ExpiryTyped /\ ChosenOld
  BY DEF ExpiryInv
<1>1. UNCHANGED <<expiryClock, jobRow>>
  BY SweepShape
<1>2. (\A j : Old(j) => Old(j)') /\ (\A phase : PartitionLen(phase)' = PartitionLen(phase))
  BY <1>1 DEF Old, PartitionLen
<1> DEFINE ActiveOld == checkpoint.active # NoJobYet =>
              /\ checkpoint.active \in Jobs
              /\ Old(checkpoint.active)
              /\ checkpoint.scan = checkpoint.resume
              /\ checkpoint.after <= PartitionLen(checkpoint.phase)
<1>3. CASE Resets \/ Started
  <2>1. run'.pc \in {"idle", "choose"} /\ UNCHANGED checkpoint
    BY <1>3, RunStarts DEF Resets, Started, IdleRun
  <2> QED
    BY <1>2, <2>1 DEF ChosenOld
<1>4. CASE Searched
  <2>1. PICK found \in 0..Len(JobOrder), resume \in 0..Len(JobOrder), eligible \in BOOLEAN :
          /\ eligible => found # 0 /\ JobOrder[found] \in Jobs /\ Old(JobOrder[found])
          /\ run' = [run EXCEPT !.pc = "searched", !.searches = @ + 1, !.found = found,
                                !.resume = resume, !.eligible = eligible]
    BY <1>4 DEF Searched
  <2>2. run \in RunType /\ UNCHANGED checkpoint
    BY <1>4, RunStarts DEF Searched
  <2>3. run'.pc = "searched" /\ run'.found = found /\ run'.eligible = eligible
    BY <2>1, <2>2 DEF RunType
  <2> QED
    BY <1>2, <2>1, <2>2, <2>3 DEF ChosenOld
<1>5. CASE Queried
  <2>1. PICK page \in SUBSET Nat, last \in 0..PartitionLen(checkpoint.phase) :
          /\ \A i \in page : Mine(i)
          /\ run' = [run EXCEPT !.pc = "queried", !.page = page, !.last = last]
    BY <1>5 DEF Queried
  <2>2. run \in RunType /\ UNCHANGED checkpoint /\ checkpoint.active # NoJobYet
        /\ run.pages < RunAssignments
    BY <1>5, RunStarts DEF Queried
  <2>3. run'.pc = "queried" /\ run'.page = page /\ run'.last = last /\ run'.pages = run.pages
    BY <2>1, <2>2 DEF RunType
  <2>4. last <= PartitionLen(checkpoint.phase)
    BY <2>1
  <2>5. \A i \in page : Mine(i)'
    BY <2>1, <2>2 DEF Mine, Partition
  <2> QED
    BY <1>2, <2>2, <2>3, <2>4, <2>5 DEF ChosenOld
<1>6. CASE Assign
  <2>1. run' = [run EXCEPT !.pc = "assigned", !.pages = @ + 1, !.page = {}] /\ UNCHANGED checkpoint
        /\ run.pc = "queried" /\ run \in RunType
    BY <1>6, RunStarts DEF Assign
  <2>2. run'.pc = "assigned" /\ run'.last = run.last
    BY <2>1 DEF RunType
  <2> QED
    BY <1>2, <2>1, <2>2 DEF ChosenOld
<1>7. CASE MovedOn
  <2>1. run'.pc \in {"idle", "choose"}
    BY <1>7, RunStarts DEF MovedOn
  <2>2. ActiveOld'
    <3>1. CASE \E scan \in 0..Len(JobOrder) : checkpoint' = [EmptyCheckpoint EXCEPT !.scan = scan]
      BY <3>1 DEF EmptyCheckpoint
    <3>2. CASE \E scan \in 0..Len(JobOrder), j \in Jobs :
                 Old(j) /\ checkpoint' = [EmptyCheckpoint EXCEPT !.scan = scan, !.resume = scan,
                   !.active = j]
      <4>1. PICK scan \in 0..Len(JobOrder), j \in Jobs :
              Old(j) /\ checkpoint' = [EmptyCheckpoint EXCEPT !.scan = scan, !.resume = scan,
                !.active = j]
        BY <3>2
      <4>2. /\ checkpoint'.active = j /\ checkpoint'.scan = checkpoint'.resume
            /\ checkpoint'.after = 0 /\ checkpoint'.phase = "job"
        BY <4>1 DEF EmptyCheckpoint
      <4>3. PartitionLen("job") \in Nat
        BY PartitionKnown
      <4> QED
        BY <1>2, <4>1, <4>2, <4>3
    <3>3. CASE /\ checkpoint.active # NoJobYet
               /\ checkpoint' = [checkpoint EXCEPT !.phase = "owner", !.after = 0]
      <4>1. checkpoint \in CheckpointType /\ checkpoint.active \in Jobs
        BY <3>3 DEF ExpiryTyped, CheckpointType, ChosenOld
      <4>2. /\ checkpoint'.active = checkpoint.active /\ checkpoint'.scan = checkpoint.scan
            /\ checkpoint'.resume = checkpoint.resume
            /\ checkpoint'.after = 0 /\ checkpoint'.phase = "owner"
        BY <3>3, <4>1 DEF CheckpointType
      <4>3. PartitionLen("owner") \in Nat
        BY <4>1, PartitionKnown
      <4> QED
        BY <1>2, <3>3, <4>2, <4>3 DEF ChosenOld
    <3>4. CASE /\ checkpoint.active # NoJobYet
               /\ \E last \in 0..PartitionLen(checkpoint.phase) :
                    checkpoint' = [checkpoint EXCEPT !.after = last]
      <4>1. checkpoint \in CheckpointType
        BY DEF ExpiryTyped, CheckpointType
      <4>2. PICK last \in 0..PartitionLen(checkpoint.phase) :
              checkpoint' = [checkpoint EXCEPT !.after = last]
        BY <3>4
      <4>3. /\ checkpoint'.active = checkpoint.active /\ checkpoint'.scan = checkpoint.scan
            /\ checkpoint'.resume = checkpoint.resume
            /\ checkpoint'.after = last /\ checkpoint'.phase = checkpoint.phase
        BY <4>1, <4>2 DEF CheckpointType
      <4>4. last <= PartitionLen(checkpoint.phase)
        BY <4>2
      <4> QED
        BY <1>2, <3>4, <4>3, <4>4 DEF ChosenOld
    <3> QED
      BY <1>7, <3>1, <3>2, <3>3, <3>4 DEF MovedOn
  <2> QED
    BY <2>1, <2>2 DEF ChosenOld
<1> QED
  BY <1>3, <1>4, <1>5, <1>6, <1>7, SweepShape

LEMMA ExpiryInvStep == ExpiryInv /\ [ExpiryNext]_expiryVars => ExpiryInv'
<1> SUFFICES ASSUME ExpiryInv, [ExpiryNext]_expiryVars PROVE ExpiryInv'
  OBVIOUS
<1>1. CASE Step \/ RaiseInRun
  <2>1. ExpiryTyped'
    <3>1. /\ UNCHANGED <<expiryClock, jobRow>> /\ raised' \in 0..MaxRaises
          /\ run' \in RunType /\ checkpoint' \in CheckpointType
          /\ expires' \in [Rows -> {Absent, NoExpiry} \cup 0..(LastClock + Retention)]
      BY <1>1, SweepShape, SweepRunTyped, SweepCheckpointTyped, SweepRows
    <3>2. ExpiryTyped
      BY DEF ExpiryInv
    <3>3. /\ expiryClock' \in 0..LastClock
          /\ jobRow' \in [Jobs -> [state : JobStates, at : 0..LastClock]]
          /\ \A j \in Jobs : jobRow'[j].at <= expiryClock'
      BY <3>1, <3>2 DEF ExpiryTyped
    <3> QED
      BY <3>1, <3>3 DEF ExpiryTyped, RunType, CheckpointType
  <2> QED
    BY <1>1, <2>1, SweepRows, SweepChosen DEF ExpiryInv
<1>2. CASE UNCHANGED expiryVars
  BY <1>2 DEF expiryVars, ExpiryInv, ExpiryTyped, ChosenOld, OnlyOldTerminalExpires, Old, Mine,
     PartitionLen, Partition
<1>3. CASE \/ \E j \in Jobs : CreateJob(j)
           \/ \E j \in Jobs, s \in {"APPROVED", "CANCELLED", "FAILED_TERMINAL"} : End(j, s)
           \/ \E r \in Rows : ExpireRow(r)
           \/ ExpiryTick
  BY <1>3, TableExpiry
<1> QED
  BY <1>1, <1>2, <1>3 DEF ExpiryNext

LEMMA ExpiryInvImplies == ExpiryInv => ExpirySound
<1> SUFFICES ASSUME ExpiryInv PROVE ExpirySound
  OBVIOUS
<1> ExpiryTyped /\ ChosenOld /\ OnlyOldTerminalExpires
  BY DEF ExpiryInv
<1>1. checkpoint.active # NoJobYet =>
        /\ jobRow[checkpoint.active].state \in Eligible /\ checkpoint.scan = checkpoint.resume
        /\ checkpoint.after \in 0..Len(Partition(checkpoint.phase, checkpoint.active))
  <2> SUFFICES ASSUME checkpoint.active # NoJobYet
               PROVE  /\ jobRow[checkpoint.active].state \in Eligible
                      /\ checkpoint.scan = checkpoint.resume
                      /\ checkpoint.after \in 0..Len(Partition(checkpoint.phase, checkpoint.active))
    OBVIOUS
  <2>1. /\ checkpoint.active \in Jobs /\ Old(checkpoint.active)
             /\ checkpoint.scan = checkpoint.resume
        /\ checkpoint.after <= PartitionLen(checkpoint.phase)
        /\ checkpoint.after \in Nat /\ checkpoint.phase \in {"job", "owner"}
    BY DEF ChosenOld, ExpiryTyped
  <2>2. /\ PartitionLen(checkpoint.phase) \in Nat
        /\ Len(Partition(checkpoint.phase, checkpoint.active)) = PartitionLen(checkpoint.phase)
    BY <2>1, PartitionKnown
  <2> QED
    BY <2>1, <2>2 DEF Old
<1>2. ExpiryTypeOK
  BY <1>1 DEF ExpiryTypeOK, ExpiryTyped
<1> QED
  BY <1>2 DEF ExpirySound

\* Whatever the table, the sizes of the pages, the skew of the sweep's clock and the runs that fail:
\* a row gets an expiry only when its job has been terminal, and not approved, for the whole
\* retention, and the checkpoint holds a job and a cursor that make sense.
\* (production/operational_cleanup.py, _classify, _start_assignment and the assignment of a page)
THEOREM ExpiryAlwaysSound == ExpirySpec => []ExpirySound
<1>1. ExpiryInit => ExpiryInv
  BY ExpiryInvInit
<1>2. ExpiryInv /\ [ExpiryNext]_expiryVars => ExpiryInv'
  BY ExpiryInvStep
<1>3. ExpiryInv => ExpirySound
  BY ExpiryInvImplies
<1> QED
  BY <1>1, <1>2, <1>3, PTL DEF ExpirySpec

\* The assignment of a page that was read before DynamoDB removed some of its rows brings none of
\* them back: only the life of a job makes rows.  (the transaction over the rows of the page)
THEOREM RemovedAlwaysStays == ExpirySpec => RemovedStaysRemoved
<1> DEFINE Stays == \A r \in Rows : (~Present(r) /\ Present(r)') => jobRow'[r[1]] # jobRow[r[1]]
<1>1. ExpiryInv /\ [ExpiryNext]_expiryVars => [Stays]_expiryVars
  <2> SUFFICES ASSUME ExpiryInv, ExpiryNext, NEW r \in Rows, ~Present(r), Present(r)'
               PROVE  jobRow'[r[1]] # jobRow[r[1]]
    OBVIOUS
  <2> ExpiryTyped
    BY DEF ExpiryInv
  <2>1. r[1] \in Jobs /\ expires'[r] # expires[r] /\ expires[r] = Absent
    BY DEF Rows, Present
  <2>2. CASE \E j \in Jobs : CreateJob(j)
    <3>1. PICK j \in Jobs : CreateJob(j)
      BY <2>2
    <3>2. r[1] = j
      BY <2>1, <3>1 DEF CreateJob
    <3> QED
      BY <3>1, <3>2 DEF CreateJob, ExpiryTyped
  <2>3. CASE \E j \in Jobs, s \in {"APPROVED", "CANCELLED", "FAILED_TERMINAL"} : End(j, s)
    <3>1. PICK j \in Jobs, s \in {"APPROVED", "CANCELLED", "FAILED_TERMINAL"} : End(j, s)
      BY <2>3
    <3>2. r[1] = j
      BY <2>1, <3>1 DEF End
    <3> QED
      BY <3>1, <3>2 DEF End, ExpiryTyped
  <2>4. CASE (\E k \in Rows : ExpireRow(k)) \/ ExpiryTick
    BY <2>1, <2>4 DEF ExpireRow, ExpiryTick, ExpiryTyped, Present
  <2>5. CASE Step \/ RaiseInRun
    <3>1. Assign
      BY <2>1, <2>5, SweepShape DEF Resets, Started, Searched, Queried, MovedOn
    <3>2. r \in PageRows
      BY <2>1, <3>1 DEF Assign
    <3>3. expires[r] \in {NoExpiry, Expiry} /\ Expiry \in Nat
      BY <3>1, <3>2, AssignKnown
    <3> QED
      BY <2>1, <3>3 DEF NoExpiry, Absent
  <2> QED
    BY <2>2, <2>3, <2>4, <2>5 DEF ExpiryNext
<1>2. ExpiryInit => ExpiryInv
  BY ExpiryInvInit
<1>3. ExpiryInv /\ [ExpiryNext]_expiryVars => ExpiryInv'
  BY ExpiryInvStep
<1> QED
  BY <1>1, <1>2, <1>3, PTL DEF ExpirySpec, RemovedStaysRemoved

-----------------------------------------------------------------------------
(* Uploads, and the sweep over their sources.                              *)

LEMMA UploadNumbers ==
  /\ MaxVersions \in Nat /\ AuthTTL \in Nat /\ IntentTTL \in Nat /\ LifecycleAge \in Nat
  /\ InvocationLimit \in Nat /\ MaxClock \in Nat /\ ReleaseAge \in Nat /\ TerminalRetention \in Nat
  /\ PageSize \in Nat /\ PageSize > 0 /\ RunPages \in Nat
  /\ IntentTTL + InvocationLimit <= ReleaseAge
  /\ Versions \subseteq Nat /\ 0 \notin Versions /\ NoCursor \in Nat /\ NoCursor \notin Versions
  /\ \A v \in Versions : v <= MaxVersions /\ v < NoCursor
<1>1. /\ {MaxVersions, AuthTTL, IntentTTL, LifecycleAge, InvocationLimit, MaxClock} \subseteq Nat
      /\ {ReleaseAge, TerminalRetention, PageSize, RunPages} \subseteq Nat
      /\ PageSize > 0 /\ IntentTTL + InvocationLimit <= ReleaseAge
  BY UploadAssumption, RetentionAssumption
<1> QED
  BY <1>1 DEF Versions, NoCursor

\* The parts of SourceTyped.
Writers == {"nobody", "form", "completion", "compensation", "sweep"}
JobsOf(t) == [state : {"absent", "active", "terminal", "approved", "published"},
              version : Versions \union {0}, updated : 0..t]
ObjectsOf(t) == [tag : Tags, created : 0..t, by : Writers]
RequestsOf(t) == [pc : {"idle"} \cup Requested, key : Keys \union {0}, read : Intents,
                  observed : Versions \union {0}, began : 0..t]
SweepsOf == [pc : SweepStates, page : SUBSET Versions, tags : [Versions -> Tags],
             next : Versions \union {NoCursor}, pages : Nat, began : Nat]
ReceiptsOf == [command : {"create", "authorize", "complete", "cancel"}, key : Keys \union {0}]

ClockTyped == clock \in 0..MaxClock /\ clock \in Nat
IntentTyped == intent \in Intents
ReceiptsTyped == receipts \subseteq ReceiptsOf
JobTyped == job \in JobsOf(clock) /\ (job.state = "absent" => job = NoJob)
ObjectTyped == object \in [Versions -> ObjectsOf(clock)]
               /\ \A v \in Versions : object[v].tag = "none" => object[v] = Unposted
RequestTyped == request \in [Requests -> RequestsOf(clock)]
CursorTyped == cursor \in Versions \union {NoCursor}
SweepTyped == /\ sweep \in SweepsOf /\ sweep.page \subseteq {v \in Posted : v < cursor}
              /\ sweep.pc \in {"confirm", "release", "verify", "pin", "repair"} => sweep.page # {}

LEMMA SourceParts ==
  SourceTyped <=> /\ ClockTyped /\ IntentTyped /\ ReceiptsTyped /\ JobTyped /\ ObjectTyped
                  /\ RequestTyped /\ CursorTyped /\ SweepTyped
<1>1. clock \in 0..MaxClock => clock \in Nat
  OBVIOUS
<1> QED
  BY <1>1 DEF SourceTyped, ClockTyped, IntentTyped, ReceiptsTyped, JobTyped, ObjectTyped,
     RequestTyped,
     CursorTyped, SweepTyped, JobsOf, ObjectsOf, RequestsOf, SweepsOf, ReceiptsOf, Writers

LEMMA IdleTyped ==
  ASSUME NEW t \in Nat PROVE Idle \in RequestsOf(t) /\ Idle.pc = "idle" /\ NoIntent \in Intents
<1>1. NoIntent \in Intents
  BY DEF NoIntent, Intents, Statuses
<1>2. 0 \in 0..t /\ 0 \in Keys \union {0} /\ 0 \in Versions \union {0}
  OBVIOUS
<1> DEFINE T == 0..t
<1> HIDE DEF T
<1>3. 0 \in T
  BY <1>2 DEF T
<1>4. Idle \in [pc : {"idle"} \cup Requested, key : Keys \union {0}, read : Intents,
                observed : Versions \union {0}, began : T]
  BY <1>1, <1>3 DEF Idle
<1> QED
  BY <1>1, <1>4 DEF RequestsOf, Idle, T

LEMMA NoSweepTyped == /\ NoSweep \in SweepsOf /\ NoSweep.page = {} /\ NoSweep.pc = "idle"
                      /\ NoSweep.began = 0
<1>1. [v \in Versions |-> "none"] \in [Versions -> Tags]
  BY DEF Tags
<1> QED
  BY <1>1 DEF NoSweep, SweepsOf, SweepStates

LEMMA SourceInvInit == Init => SourceInv
<1> SUFFICES ASSUME Init PROVE SourceInv
  OBVIOUS
<1> /\ clock = 0 /\ intent = NoIntent /\ receipts = {} /\ job = NoJob
    /\ object = [v \in Versions |-> Unposted]
    /\ request = [p \in Requests |-> Idle]
    /\ cursor = NoCursor /\ sweep = NoSweep
  BY DEF Init, UploadInit
<1>1. clock \in Nat /\ 0 \in 0..clock
  OBVIOUS
<1>2. ClockTyped /\ IntentTyped /\ ReceiptsTyped
  BY <1>1, IdleTyped, UploadNumbers DEF ClockTyped, IntentTyped, ReceiptsTyped
<1>3. JobTyped
  BY <1>1 DEF JobTyped, JobsOf, NoJob
<1>4. ObjectTyped
  BY <1>1 DEF ObjectTyped, ObjectsOf, Unposted, Tags, Writers
<1>5. RequestTyped
  BY <1>1, IdleTyped DEF RequestTyped
<1>6. CursorTyped /\ SweepTyped
  BY NoSweepTyped DEF CursorTyped, SweepTyped
<1>7. SourceTyped
  BY <1>2, <1>3, <1>4, <1>5, <1>6, SourceParts
<1>8. IntentTrue
  <2>1. {r \in receipts : r.command \in {"complete", "cancel"}} = {}
    OBVIOUS
  <2>2. Cardinality({r \in receipts : r.command \in {"complete", "cancel"}}) <= 1
    BY <2>1, FS_EmptySet
  <2>3. Posted = {}
    BY DEF Posted, Unposted
  <2>4. OneOutcome
    BY <2>2 DEF OneOutcome, NoIntent
  <2> QED
    BY <2>3, <2>4 DEF IntentTrue, NoIntent, Idle, At
<1>9. RequestsTimely /\ PinnedForCommit
  BY DEF RequestsTimely, PinnedForCommit, At, Idle
<1>10. ReleasedUnneeded
  BY NoSweepTyped DEF ReleasedUnneeded
<1>11. NeededPinned
  BY UploadNumbers DEF NeededPinned, Retained, NoJob
<1> QED
  BY <1>7, <1>8, <1>9, <1>10, <1>11 DEF SourceInv

LEMMA CurrentKnown ==
  ASSUME SourceTyped, sweep.page # {}
  PROVE  Current \in sweep.page /\ Current \in Posted /\ Current \in Versions
<1>1. sweep.page \subseteq Posted /\ Posted \subseteq Versions
  BY DEF SourceTyped, Posted
<1>2. MaxVersions \in Nat /\ sweep.page \in SUBSET (0..MaxVersions)
  <2>1. MaxVersions \in Nat
    BY UploadNumbers
  <2>2. Versions \subseteq 0..MaxVersions
    BY <2>1 DEF Versions
  <2> QED
    BY <1>1, <2>1, <2>2
<1>3. \E v \in sweep.page : \A w \in sweep.page : w <= v
  BY <1>2, GreatestExists
<1>4. Current \in sweep.page
  BY <1>3 DEF Current
<1> QED
  BY <1>1, <1>4

\* What RequestsTimely says of one request.
Timely(p) ==
  ~At(p, "idle") =>
    /\ request[p].read.status = "open" /\ request[p].began < request[p].read.expires
    /\ clock <= request[p].began + InvocationLimit
    /\ request[p].read.expires <= clock + IntentTTL
    /\ \A v \in Posted : request[p].read.expires <= object[v].created + IntentTTL
    /\ request[p].pc \in {"pin", "recheck", "commit", "release", "stage", "confirm", "reassert"} =>
         request[p].observed \in Posted

Settled(o) == o.tag = "pinned" \/ o.by = "compensation"

LEMMA RequestsTimelyParts == /\ RequestsTimely <=> \A p \in Requests : Timely(p)
                             /\ PinnedForCommit <=> \A p \in Requests :
                                  request[p].pc \in {"recheck", "commit"}
                                                      => Settled(object[request[p].observed])
                             /\ NeededPinned <=> \A v \in Versions : Retained(v) =>
                                  Settled(object[v])
BY DEF RequestsTimely, Timely, PinnedForCommit, NeededPinned, Settled

\* No version is posted, and none gets another time.
Steady == /\ clock' = clock /\ Posted' = Posted
          /\ \A v \in Versions : object'[v].created = object[v].created

LEMMA TaggingKnown ==
  ASSUME SourceTyped, NEW v \in Posted, NEW tag \in {"staged", "pinned", "deleted"},
    NEW by \in Writers,
         object' = [object EXCEPT ![v].tag = tag, ![v].by = by], clock' = clock
  PROVE  /\ ObjectTyped' /\ Steady /\ object'[v].tag = tag /\ object'[v].by = by
         /\ \A w \in Versions \ {v} : object'[w] = object[w]
<1> ObjectTyped
  BY SourceParts
<1>1. v \in Versions /\ object[v].tag # "none"
  BY DEF Posted
<1>2. object[v] \in ObjectsOf(clock) /\ tag \in Tags
  BY <1>1 DEF ObjectTyped, Tags
<1>3. PICK o \in ObjectsOf(clock) : /\ o.tag = tag /\ o.by = by /\ o.created = object[v].created
                                    /\ object' = [object EXCEPT ![v] = o]
  <2>1. PICK t : t = 0..clock
    OBVIOUS
  <2>2. object[v] \in [tag : Tags, created : t, by : Writers]
    BY <1>2, <2>1 DEF ObjectsOf
  <2> DEFINE o == [object[v] EXCEPT !.tag = tag, !.by = by]
  <2>3. o \in [tag : Tags, created : t, by : Writers] /\ o.tag = tag /\ o.by = by
        /\ o.created = object[v].created
    BY <1>2, <2>2
  <2>4. object' = [object EXCEPT ![v] = o]
    BY <1>1 DEF ObjectTyped
  <2> HIDE DEF o
  <2> QED
    BY <2>1, <2>3, <2>4 DEF ObjectsOf
<1>4. object' \in [Versions -> ObjectsOf(clock)] /\ \A w \in Versions \ {v} : object'[w] = object[w]
  BY <1>1, <1>3 DEF ObjectTyped
<1>5. object'[v] = o
  BY <1>1, <1>3 DEF ObjectTyped
<1>6. tag # "none" /\ Posted' = Posted
  BY <1>1, <1>3, <1>4, <1>5 DEF Posted
<1>7. \A w \in Versions : object'[w].tag = "none" => object'[w] = Unposted
  BY <1>3, <1>4, <1>5, <1>6 DEF ObjectTyped
<1>8. ObjectTyped'
  BY <1>4, <1>7 DEF ObjectTyped, ObjectsOf
<1> QED
  BY <1>3, <1>4, <1>5, <1>6, <1>8 DEF Steady

LEMMA GoesKnown ==
  ASSUME SourceTyped, NEW p \in Requests, NEW r \in RequestsOf(clock), Goes(p, r), clock' = clock
  PROVE  RequestTyped' /\ request'[p] = r /\ \A q \in Requests \ {p} : request'[q] = request[q]
<1> RequestTyped
  BY SourceParts
<1>1. request' \in [Requests -> RequestsOf(clock)]
  BY DEF Goes, RequestTyped
<1>2. RequestTyped'
  BY <1>1 DEF RequestTyped, RequestsOf
<1> QED
  BY <1>2 DEF Goes, RequestTyped

\* The sweep, its place and what it is about to release are undisturbed.
LEMMA SweepStays ==
  ASSUME SourceInv, Steady, UNCHANGED <<cursor, sweep>>,
         sweep.pc = "release" /\ ~Retained(Current) => ~Retained(Current)'
  PROVE  CursorTyped' /\ SweepTyped' /\ ReleasedUnneeded'
<1> SourceTyped /\ ReleasedUnneeded
  BY DEF SourceInv
<1> CursorTyped /\ SweepTyped
  BY SourceParts
<1>1. CursorTyped' /\ SweepTyped'
  BY DEF CursorTyped, SweepTyped, Steady
<1>2. CASE sweep.pc \in {"confirm", "release", "verify"}
  <2>1. Current \in Versions /\ Current' = Current
    BY <1>2, CurrentKnown DEF SweepTyped, Current
  <2> QED
    BY <1>1, <1>2, <2>1 DEF ReleasedUnneeded, Steady
<1>3. CASE sweep.pc \notin {"confirm", "release", "verify"}
  BY <1>1, <1>3 DEF ReleasedUnneeded
<1> QED
  BY <1>2, <1>3

\* The intent and the receipts are undisturbed, and there is a job or none as before.
LEMMA IntentStays ==
  ASSUME SourceInv, Steady, UNCHANGED <<intent, receipts>>, job' = NoJob <=> job = NoJob,
         job'.version = job.version, receipts = {} => \A p \in Requests : At(p, "idle")'
  PROVE  IntentTyped' /\ ReceiptsTyped' /\ IntentTrue'
<1> SourceTyped /\ IntentTrue
  BY DEF SourceInv
<1>1. IntentTyped' /\ ReceiptsTyped'
  BY SourceParts DEF IntentTyped, ReceiptsTyped
<1>2. OneOutcome'
  BY DEF IntentTrue, OneOutcome, Refers
<1>3. (intent.status = "open" =>
          job = NoJob /\ \A c \in receipts : c.command \notin {"complete", "cancel"})'
  BY DEF IntentTrue
<1>4. (intent.status # "absent" =>
           /\ intent.expires <= clock + IntentTTL
           /\ \A v \in Posted : intent.expires <= object[v].created + IntentTTL)'
  BY DEF IntentTrue, Steady, Posted
<1>5. (receipts = {} => intent.status = "absent" /\ Posted = {}
                    /\ \A p \in Requests : At(p, "idle"))'
  BY DEF IntentTrue, Steady
<1> QED
  BY <1>1, <1>2, <1>3, <1>4, <1>5 DEF IntentTrue

LEMMA TimelyStays ==
  ASSUME SourceInv, Steady, NEW q \in Requests, request'[q] = request[q] PROVE Timely(q)'
<1> RequestsTimely
  BY DEF SourceInv
<1> QED
  BY DEF RequestsTimely, Timely, Steady, Posted, At

\* A request is old news to the sweep: the version it may refer to is too young to be released.
LEMMA TooYoungToRelease ==
  ASSUME SourceInv, NEW p \in Requests, request[p].pc \in {"recheck", "commit"},
         sweep.pc \in {"confirm", "release", "verify"}
  PROVE  request[p].observed # Current
<1> SourceTyped /\ RequestsTimely /\ ReleasedUnneeded
  BY DEF SourceInv
<1>1. sweep.page # {}
  BY DEF SourceTyped
<1>2. Current \in Posted /\ Current \in Versions /\ object[Current].created + ReleaseAge <= clock
  BY <1>1, CurrentKnown DEF ReleasedUnneeded
<1>3. /\ request[p].began < request[p].read.expires
      /\ clock <= request[p].began + InvocationLimit
      /\ request[p].read.expires <= object[Current].created + IntentTTL
  BY <1>2 DEF RequestsTimely, At
<1>4. /\ request[p].began \in Nat /\ request[p].read.expires \in Nat
           /\ object[Current].created \in Nat
      /\ clock \in Nat
  <2>1. request[p] \in RequestsOf(clock) /\ object[Current] \in ObjectsOf(clock) /\ clock \in Nat
    BY <1>2, SourceParts DEF RequestTyped, ObjectTyped, ClockTyped
  <2> QED
    BY <2>1 DEF RequestsOf, ObjectsOf, Intents
<1> QED
  BY <1>3, <1>4, <1>2, UploadNumbers

\* A request goes on, and nothing else moves.
LEMMA RequestMoves ==
  ASSUME SourceInv, NEW p \in Requests, NEW r \in RequestsOf(clock), Goes(p, r), receipts # {},
         UNCHANGED <<clock, intent, receipts, job, object, cursor, sweep>>, Timely(p)',
         r.pc \in {"recheck", "commit"} => Settled(object[r.observed])
  PROVE  SourceInv'
<1> SourceTyped /\ RequestsTimely /\ PinnedForCommit /\ NeededPinned
  BY DEF SourceInv
<1>1. RequestTyped' /\ request'[p] = r /\ \A q \in Requests \ {p} : request'[q] = request[q]
  BY GoesKnown
<1>2. Steady
  BY DEF Steady, Posted
<1>3. CursorTyped' /\ SweepTyped' /\ ReleasedUnneeded'
  BY <1>2, SweepStays DEF Retained, Current
<1>4. IntentTyped' /\ ReceiptsTyped' /\ IntentTrue'
  BY <1>2, IntentStays
<1>5. ClockTyped' /\ JobTyped' /\ ObjectTyped'
  BY SourceParts DEF ClockTyped, JobTyped, ObjectTyped
<1>6. SourceTyped'
  BY <1>1, <1>3, <1>4, <1>5, SourceParts, PTL
<1>7. \A q \in Requests : Timely(q)'
  BY <1>1, <1>2, TimelyStays
<1>8. RequestsTimely'
  BY <1>7 DEF RequestsTimely, Timely
<1>9. PinnedForCommit'
  BY <1>1 DEF PinnedForCommit, Settled
<1>10. NeededPinned'
  BY DEF NeededPinned, Retained
<1> QED
  BY <1>3, <1>4, <1>6, <1>8, <1>9, <1>10 DEF SourceInv

\* A request writes the tag of its version: it pins it, or takes it back.
LEMMA RequestTags ==
  ASSUME SourceInv, NEW p \in Requests, NEW r \in RequestsOf(clock), Goes(p, r), receipts # {},
         NEW v \in Posted, NEW tag \in {"staged", "pinned"}, NEW by \in Writers, Tagged(v, tag, by),
         tag = "pinned" \/ by = "compensation",
         UNCHANGED <<clock, intent, receipts, job, cursor, sweep>>, Timely(p)',
         r.pc \in {"recheck", "commit"} => r.observed = v
  PROVE  SourceInv'
<1> SourceTyped /\ RequestsTimely /\ PinnedForCommit /\ NeededPinned
  BY DEF SourceInv
<1>1. RequestTyped' /\ request'[p] = r /\ \A q \in Requests \ {p} : request'[q] = request[q]
  BY GoesKnown
<1>2. /\ ObjectTyped' /\ Steady /\ object'[v].tag = tag /\ object'[v].by = by
      /\ \A w \in Versions \ {v} : object'[w] = object[w]
  BY TaggingKnown DEF Tagged
<1>3. CursorTyped' /\ SweepTyped' /\ ReleasedUnneeded'
  BY <1>2, SweepStays DEF Retained, Current
<1>4. IntentTyped' /\ ReceiptsTyped' /\ IntentTrue'
  BY <1>2, IntentStays
<1>5. ClockTyped' /\ JobTyped'
  BY SourceParts DEF ClockTyped, JobTyped
<1>6. SourceTyped'
  BY <1>1, <1>2, <1>3, <1>4, <1>5, SourceParts, PTL
<1>7. \A q \in Requests : Timely(q)'
  BY <1>1, <1>2, TimelyStays
<1>8. RequestsTimely'
  BY <1>7 DEF RequestsTimely, Timely
<1>9. \A w \in Versions : Settled(object[w]) => Settled(object'[w])
  BY <1>2 DEF Settled
<1>10. PinnedForCommit'
  <2> SUFFICES ASSUME NEW q \in Requests, request'[q].pc \in {"recheck", "commit"}
               PROVE  Settled(object'[request'[q].observed])
    BY DEF PinnedForCommit, Settled
  <2>1. CASE q = p
    BY <1>1, <1>2, <2>1 DEF Settled
  <2>2. CASE q # p
    <3>1. request'[q] = request[q] /\ request[q].observed \in Posted
      BY <1>1, <2>2 DEF RequestsTimely, At
    <3> QED
      BY <1>9, <3>1 DEF PinnedForCommit, Settled, Posted
  <2> QED
    BY <2>1, <2>2
<1>11. NeededPinned'
  BY <1>9 DEF NeededPinned, Retained, Settled
<1> QED
  BY <1>3, <1>4, <1>6, <1>8, <1>10, <1>11 DEF SourceInv

\* The record a request goes on with.
LEMMA RecordKnown ==
  ASSUME SourceInv, NEW p \in Requests, ~At(p, "idle")
  PROVE  /\ receipts # {} /\ request[p] \in RequestsOf(clock) /\ Timely(p)
         /\ Idle \in RequestsOf(clock)
         /\ \A pc \in Requested : /\ [request[p] EXCEPT !.pc = pc] \in RequestsOf(clock)
                                  /\ [request[p] EXCEPT !.pc = pc].pc = pc
                                  /\ [request[p] EXCEPT !.pc = pc].key = request[p].key
                                  /\ [request[p] EXCEPT !.pc = pc].read = request[p].read
                                  /\ [request[p] EXCEPT !.pc = pc].observed = request[p].observed
                                  /\ [request[p] EXCEPT !.pc = pc].began = request[p].began
<1> SourceTyped /\ IntentTrue /\ RequestsTimely
  BY DEF SourceInv
<1>1. receipts # {} /\ Timely(p)
  BY DEF IntentTrue, RequestsTimely, Timely
<1>2. request[p] \in RequestsOf(clock) /\ clock \in Nat
  BY SourceParts DEF RequestTyped, ClockTyped
<1>3. Idle \in RequestsOf(clock)
  BY <1>2, IdleTyped
<1> QED
  BY <1>1, <1>2, <1>3 DEF RequestsOf

\* The steps of a request that only it notices.
LEMMA LocalSteps ==
  ASSUME SourceInv, NEW p \in Requests, UNCHANGED <<cursor, sweep>>,
         Observe(p) \/ Recheck(p) \/ CommitFails(p) \/ Release(p) \/ Confirm(p) \/ Raise(p)
  PROVE  SourceInv'
<1> SourceTyped /\ PinnedForCommit
  BY DEF SourceInv
<1>1. ~At(p, "idle") /\ UNCHANGED <<clock, intent, receipts, job, object>>
  BY DEF Observe, Recheck, CommitFails, Release, Confirm, Raise, At
<1> DEFINE R == request[p]
<1>2. /\ receipts # {} /\ R \in RequestsOf(clock) /\ Timely(p) /\ Idle \in RequestsOf(clock)
      /\ request \in [Requests -> RequestsOf(clock)] /\ Idle.pc = "idle"
  BY <1>1, RecordKnown, SourceParts, IdleTyped DEF RequestTyped, ClockTyped
<1>3. ASSUME Goes(p, Idle) PROVE SourceInv'
  <2>1. request'[p] = Idle
    BY <1>2, <1>3 DEF Goes
  <2>2. Timely(p)'
    BY <1>2, <2>1 DEF Timely, At
  <2> QED
    BY <1>1, <1>2, <1>3, <2>2, RequestMoves
<1>4. ASSUME NEW pc \in Requested, Goes(p, [R EXCEPT !.pc = pc]),
             pc \in {"pin", "recheck", "commit", "release", "stage", "confirm", "reassert"} =>
               R.observed \in Posted,
             pc \in {"recheck", "commit"} => R.pc \in {"recheck", "commit"}
      PROVE  SourceInv'
  <2>1. PICK r \in RequestsOf(clock) : /\ r = [R EXCEPT !.pc = pc] /\ r.pc = pc /\ r.read = R.read
                                       /\ r.observed = R.observed /\ r.began = R.began
    <3> DEFINE r == [R EXCEPT !.pc = pc]
    <3>1. r \in RequestsOf(clock) /\ r.pc = pc /\ r.read = R.read /\ r.observed = R.observed
          /\ r.began = R.began
      BY <1>1, <1>4, RecordKnown
    <3> QED
      BY <3>1
  <2>2. Goes(p, r) /\ request'[p] = r
    BY <1>2, <1>4, <2>1 DEF Goes
  <2>3. Timely(p)'
    BY <1>1, <1>2, <1>4, <2>1, <2>2 DEF Timely, At, Posted
  <2>4. r.pc \in {"recheck", "commit"} => Settled(object[r.observed])
    BY <1>4, <2>1 DEF PinnedForCommit, Settled
  <2> QED
    BY <1>1, <1>2, <2>2, <2>3, <2>4, RequestMoves
<1>5. CASE Observe(p)
  <2>1. PICK v \in Posted : Goes(p, [R EXCEPT !.pc = "pin", !.observed = v]) /\ R.pc = "observe"
    BY <1>5 DEF Observe, At
  <2>2. v \in Versions
    BY DEF Posted
  <2>3. PICK r \in RequestsOf(clock) : /\ r = [R EXCEPT !.pc = "pin", !.observed = v]
          /\ r.pc = "pin"
                                       /\ r.read = R.read /\ r.observed = v /\ r.began = R.began
    <3>1. PICK t : t = 0..clock
      OBVIOUS
    <3>2. R \in [pc : {"idle"} \cup Requested, key : Keys \union {0}, read : Intents,
                 observed : Versions \union {0}, began : t]
      BY <1>2, <3>1 DEF RequestsOf
    <3>3. "pin" \in {"idle"} \cup Requested /\ v \in Versions \union {0}
      BY <2>2 DEF Requested
    <3> HIDE DEF R
    <3>4. [R EXCEPT !.pc = "pin", !.observed = v] \in
            [pc : {"idle"} \cup Requested, key : Keys \union {0}, read : Intents,
             observed : Versions \union {0}, began : t]
      BY <3>2, <3>3
    <3> QED
      BY <3>1, <3>2, <3>4 DEF RequestsOf
  <2>4. Goes(p, r) /\ request'[p] = r
    BY <1>2, <2>1, <2>3 DEF Goes
  <2>5. Timely(p)'
    BY <1>1, <1>2, <2>1, <2>3, <2>4 DEF Timely, At, Posted
  <2> QED
    BY <1>1, <1>2, <2>3, <2>4, <2>5, RequestMoves
<1>6. ASSUME R.pc \in {"pin", "recheck", "commit", "release", "stage", "confirm", "reassert"}
      PROVE  R.observed \in Posted
  BY <1>1, <1>2, <1>6 DEF Timely
<1>7. CASE Recheck(p)
  <2>1. R.pc = "recheck" /\ \E pc \in {"commit", "release"} : Goes(p, [R EXCEPT !.pc = pc])
    BY <1>7 DEF Recheck, At
  <2> QED
    BY <1>4, <1>6, <2>1 DEF Requested
<1>8. CASE CommitFails(p)
  <2>1. R.pc = "commit" /\ Goes(p, [R EXCEPT !.pc = "release"])
    BY <1>8 DEF CommitFails, At
  <2> QED
    BY <1>4, <1>6, <2>1 DEF Requested
<1>9. CASE Release(p)
  <2>1. R.pc = "release" /\ \E pc \in {"reassert", "stage"} : Goes(p, [R EXCEPT !.pc = pc])
    BY <1>9 DEF Release, At
  <2> QED
    BY <1>4, <1>6, <2>1 DEF Requested
<1>10. CASE Confirm(p)
  <2>1. R.pc = "confirm" /\ (Goes(p, [R EXCEPT !.pc = "reassert"]) \/ Goes(p, Idle))
    BY <1>10 DEF Confirm, At, Done
  <2> QED
    BY <1>3, <1>4, <1>6, <2>1 DEF Requested
<1>11. CASE Raise(p)
  BY <1>3, <1>11 DEF Raise, Done
<1> QED
  BY <1>5, <1>7, <1>8, <1>9, <1>10, <1>11

\* The steps of a request that write a tag.
LEMMA TagSteps ==
  ASSUME SourceInv, NEW p \in Requests, UNCHANGED <<cursor, sweep>>,
    Pin(p) \/ Stage(p) \/ Reassert(p)
  PROVE  SourceInv'
<1> SourceTyped
  BY DEF SourceInv
<1> DEFINE R == request[p]
<1>1. /\ ~At(p, "idle") /\ UNCHANGED <<clock, intent, receipts, job>>
      /\ R.pc \in {"pin", "recheck", "commit", "release", "stage", "confirm", "reassert"}
  BY DEF Pin, Stage, Reassert, At
<1>2. /\ receipts # {} /\ R \in RequestsOf(clock) /\ Timely(p) /\ Idle \in RequestsOf(clock)
      /\ request \in [Requests -> RequestsOf(clock)] /\ Idle.pc = "idle" /\ R.observed \in Posted
  BY <1>1, RecordKnown, SourceParts, IdleTyped DEF RequestTyped, ClockTyped, Timely
<1>3. PICK v \in Posted : v = R.observed
  BY <1>2
<1>4. PICK tag \in {"staged", "pinned"}, by \in Writers :
        Tagged(v, tag, by) /\ (tag = "pinned" \/ by = "compensation")
  BY <1>3 DEF Pin, Stage, Reassert, Writers
<1>5. Steady
  BY <1>1, <1>4, TaggingKnown DEF Tagged
<1>6. PICK r \in RequestsOf(clock) :
        /\ Goes(p, r) /\ (r.pc = "idle" \/ (r.pc \in {"recheck", "confirm"} /\ r.read = R.read
                                            /\ r.observed = R.observed /\ r.began = R.began))
  <2>1. CASE Goes(p, Idle)
    BY <1>2, <2>1
  <2>2. CASE \E pc \in {"recheck", "confirm"} : Goes(p, [R EXCEPT !.pc = pc])
    BY <1>1, <2>2, RecordKnown DEF Requested
  <2> QED
    BY <2>1, <2>2 DEF Pin, Stage, Reassert, Done
<1>7. request'[p] = r
  BY <1>2, <1>6 DEF Goes
<1>8. Timely(p)'
  BY <1>1, <1>2, <1>5, <1>6, <1>7 DEF Timely, At, Steady, Posted
<1>9. r.pc \in {"recheck", "commit"} => r.observed = v
  BY <1>3, <1>6
<1> QED
  BY <1>1, <1>2, <1>4, <1>6, <1>8, <1>9, RequestTags

\* The intent, its receipts or the job move, under the versions and the sweep as they are.
LEMMA AuthorityMoves ==
  ASSUME SourceInv, UNCHANGED <<clock, object, cursor, sweep>>, RequestTyped', RequestsTimely',
         PinnedForCommit', IntentTyped', ReceiptsTyped', JobTyped', IntentTrue', NeededPinned',
         sweep.pc = "release" /\ ~Retained(Current) => ~Retained(Current)'
  PROVE  SourceInv'
<1> SourceTyped
  BY DEF SourceInv
<1>1. Steady
  BY DEF Steady, Posted
<1>2. CursorTyped' /\ SweepTyped' /\ ReleasedUnneeded'
  BY <1>1, SweepStays
<1>3. ClockTyped' /\ ObjectTyped'
  BY SourceParts DEF ClockTyped, ObjectTyped
<1>4. SourceTyped'
  BY <1>2, <1>3, SourceParts, PTL
<1> QED
  BY <1>2, <1>4 DEF SourceInv

LEMMA RequestsStay ==
  ASSUME SourceInv, UNCHANGED <<clock, object, request>>
  PROVE  RequestTyped' /\ RequestsTimely' /\ PinnedForCommit' /\ Steady
<1> SourceTyped /\ RequestsTimely /\ PinnedForCommit
  BY DEF SourceInv
<1>1. RequestTyped'
  BY SourceParts DEF RequestTyped
<1>2. Steady
  BY DEF Steady, Posted
<1>3. \A q \in Requests : Timely(q)'
  BY <1>2, TimelyStays
<1>4. RequestsTimely'
  BY <1>3 DEF RequestsTimely, Timely
<1>5. PinnedForCommit'
  BY DEF PinnedForCommit
<1> QED
  BY <1>1, <1>2, <1>4, <1>5

LEMMA CreateKeeps == ASSUME SourceInv, NEW p \in Requests, Create(p), UNCHANGED <<cursor, sweep>>
                     PROVE  SourceInv'
<1> SourceTyped /\ IntentTrue /\ NeededPinned
  BY DEF SourceInv
<1>1. /\ receipts = {} /\ UNCHANGED <<clock, job, object, request>> /\ clock \in Nat
      /\ receipts' = {[command |-> "create", key |-> 0]}
  BY SourceParts DEF Create, ClockTyped
<1>2. clock + IntentTTL \in Nat /\ clock + AuthTTL \in Nat
  BY <1>1, UploadNumbers
<1>3. PICK e \in Nat, a \in Nat :
        /\ intent' = [NoIntent EXCEPT !.status = "open", !.expires = e, !.authUntil = a]
        /\ e = clock + IntentTTL
  BY <1>2 DEF Create
<1>4. intent' \in Intents /\ intent'.status = "open" /\ intent'.expires = clock + IntentTTL
  BY <1>3 DEF NoIntent, Intents, Statuses
<1>5. RequestTyped' /\ RequestsTimely' /\ PinnedForCommit' /\ Steady
  BY <1>1, RequestsStay
<1>6. IntentTyped' /\ ReceiptsTyped' /\ JobTyped'
  BY <1>1, <1>4, SourceParts DEF IntentTyped, ReceiptsTyped, ReceiptsOf, JobTyped
<1>7. job = NoJob
  <2>1. job # NoJob <=> \E r \in receipts : r.command = "complete"
    BY DEF IntentTrue, OneOutcome
  <2> QED
    BY <1>1, <2>1
<1>8. IntentTrue'
  <2>1. \A c \in receipts' : c.command = "create"
    BY <1>1
  <2>2. {r \in receipts' : r.command \in {"complete", "cancel"}} = {}
    BY <2>1
  <2>3. Cardinality({r \in receipts' : r.command \in {"complete", "cancel"}}) <= 1
    BY <2>2, FS_EmptySet
  <2>4. OneOutcome'
    BY <1>1, <1>4, <1>7, <2>1, <2>3 DEF OneOutcome
  <2>5. Posted' = {}
    BY <1>1 DEF IntentTrue, Posted
  <2>6. job' = NoJob /\ receipts' # {} /\ clock' = clock
    BY <1>1, <1>7
  <2>7. IntentTTL \in Nat /\ intent'.expires <= clock' + IntentTTL
    BY <1>1, <1>4, <2>6, <1>2, UploadNumbers
  <2> QED
    BY <1>4, <2>1, <2>4, <2>5, <2>6, <2>7 DEF IntentTrue
<1>9. NeededPinned'
  BY <1>1 DEF NeededPinned, Retained
<1> QED
  BY <1>1, <1>5, <1>6, <1>8, <1>9, AuthorityMoves DEF Retained, Current

LEMMA BeginKeeps ==
  ASSUME SourceInv, NEW p \in Requests, NEW k \in Keys, NEW c \in {"authorize", "complete",
    "cancel"},
         Begin(p, c, k), UNCHANGED <<cursor, sweep>>
  PROVE  SourceInv'
<1> SourceTyped /\ IntentTrue
  BY DEF SourceInv
<1>1. /\ IsOpen(intent) /\ UNCHANGED <<clock, intent, receipts, job, object>>
      /\ clock \in Nat /\ intent \in Intents /\ IntentTyped
      /\ request \in [Requests -> RequestsOf(clock)]
  BY SourceParts DEF Begin, ClockTyped, IntentTyped, RequestTyped
<1>2. receipts # {}
  BY <1>1 DEF IntentTrue, IsOpen
<1>3. PICK pc \in {"observe", "authorize", "cancel"} :
        Goes(p, [Idle EXCEPT !.pc = pc, !.key = k, !.read = intent, !.began = clock])
  BY DEF Begin
<1>4. PICK r \in RequestsOf(clock) : /\ Goes(p, r) /\ r.pc = pc /\ r.read = intent
        /\ r.began = clock
  <2> DEFINE r == [Idle EXCEPT !.pc = pc, !.key = k, !.read = intent, !.began = clock]
  <2>1. PICK t : t = 0..clock
    OBVIOUS
  <2>2. clock \in t /\ pc \in {"idle"} \cup Requested /\ k \in Keys \union {0}
        /\ 0 \in Versions \union {0}
    BY <1>1, <1>3, <2>1 DEF Requested
  <2>3. Idle \in [pc : {"idle"} \cup Requested, key : Keys \union {0}, read : Intents,
                  observed : Versions \union {0}, began : t]
    BY <1>1, <2>1, IdleTyped DEF RequestsOf
  <2>4. r \in [pc : {"idle"} \cup Requested, key : Keys \union {0}, read : Intents,
               observed : Versions \union {0}, began : t]
        /\ r.pc = pc /\ r.read = intent /\ r.began = clock
    BY <1>1, <2>2, <2>3
  <2>5. r.pc = pc /\ r.read = intent /\ r.began = clock
    BY <2>4
  <2>6. Goes(p, r)
    BY <1>3
  <2> HIDE DEF r
  <2> QED
    BY <2>1, <2>4, <2>5, <2>6 DEF RequestsOf
<1>5. request'[p] = r
  BY <1>1, <1>4 DEF Goes
<1>6. Timely(p)'
  <2>1. intent.expires \in Nat
    BY <1>1 DEF Intents
  <2>2. intent.status = "open" /\ clock < intent.expires /\ clock <= clock + InvocationLimit
    BY <1>1, UploadNumbers DEF IsOpen
  <2>3. /\ intent.expires <= clock + IntentTTL
        /\ \A v \in Posted : intent.expires <= object[v].created + IntentTTL
    BY <2>2 DEF IntentTrue
  <2> QED
    BY <1>1, <1>3, <1>4, <1>5, <2>2, <2>3 DEF Timely, At, Posted
<1> QED
  BY <1>1, <1>2, <1>3, <1>4, <1>6, RequestMoves

\* A request that was granted the intent it read: nobody has ended it.
LEMMA GrantKnown ==
  ASSUME SourceInv, NEW p \in Requests, ~At(p, "idle"), intent = request[p].read
  PROVE  /\ intent.status = "open" /\ job = NoJob
         /\ \A c \in receipts : c.command \notin {"complete", "cancel"}
         /\ intent.version \in Nat /\ intent.version + 1 \in Nat /\ intent.expires \in Nat
         /\ request[p].key \in Keys \union {0}
         /\ receipts # {} /\ intent \in Intents /\ clock \in Nat
<1> SourceTyped /\ IntentTrue /\ RequestsTimely
  BY DEF SourceInv
<1>1. intent.status = "open" /\ receipts # {}
  BY DEF RequestsTimely, IntentTrue
<1>2. intent \in Intents /\ request[p] \in RequestsOf(clock) /\ clock \in Nat
  BY SourceParts DEF IntentTyped, RequestTyped, ClockTyped
<1> QED
  BY <1>1, <1>2 DEF IntentTrue, Intents, RequestsOf

LEMMA GrantedReceipt ==
  ASSUME SourceTyped, NEW c \in {"authorize", "complete", "cancel"}, NEW k \in Keys \union {0},
         receipts' = receipts \union {[command |-> c, key |-> k]}
  PROVE  receipts' \subseteq ReceiptsOf /\ receipts' # {}
<1>1. receipts \subseteq ReceiptsOf
  BY SourceParts DEF ReceiptsTyped
<1>2. [command |-> c, key |-> k] \in ReceiptsOf
  BY DEF ReceiptsOf
<1> QED
  BY <1>1, <1>2

LEMMA OneEnding ==
  ASSUME NEW c \in {"complete", "cancel"}, NEW k, \A d \in receipts :
    d.command \notin {"complete", "cancel"},
         receipts' = receipts \union {[command |-> c, key |-> k]}
  PROVE  /\ Cardinality({d \in receipts' : d.command \in {"complete", "cancel"}}) <= 1
         /\ c = "complete" <=> \E d \in receipts' : d.command = "complete"
<1> DEFINE new == [command |-> c, key |-> k]
<1>1. new.command = c
  OBVIOUS
<1> HIDE DEF new
<1>2. {d \in receipts' : d.command \in {"complete", "cancel"}} = {new}
  BY <1>1 DEF new
<1>3. Cardinality({d \in receipts' : d.command \in {"complete", "cancel"}}) <= 1
  <2>1. Cardinality({new}) = 1
    BY FS_Singleton
  <2>2. Cardinality({d \in receipts' : d.command \in {"complete", "cancel"}}) = 1
    BY <1>2, <2>1, Zenon
  <2> QED
    BY <2>2
<1>4. c = "complete" <=> \E d \in receipts' : d.command = "complete"
  BY <1>1 DEF new
<1> QED
  BY <1>3, <1>4

LEMMA AuthorizeKeeps ==
  ASSUME SourceInv, NEW p \in Requests, Authorize(p), UNCHANGED <<cursor, sweep>>
                        PROVE  SourceInv'
<1> SourceTyped /\ IntentTrue /\ RequestsTimely /\ PinnedForCommit /\ NeededPinned
  BY DEF SourceInv
<1> DEFINE R == request[p]
<1>1. /\ ~At(p, "idle") /\ intent = R.read /\ UNCHANGED <<clock, job, object>> /\ Goes(p, Idle)
  BY DEF Authorize, At, Unchanged, Done
<1>2. /\ intent.status = "open" /\ job = NoJob /\ intent \in Intents /\ clock \in Nat
      /\ \A c \in receipts : c.command \notin {"complete", "cancel"}
      /\ intent.version + 1 \in Nat /\ intent.expires \in Nat /\ R.key \in Keys \union {0}
  BY <1>1, GrantKnown
<1>3. R.began \in Nat /\ R.began + AuthTTL \in Nat
  <2>1. R \in RequestsOf(clock)
    BY SourceParts DEF RequestTyped
  <2> QED
    BY <1>2, <2>1, UploadNumbers DEF RequestsOf
<1>4. PICK n \in Nat, a \in Nat : intent' = [intent EXCEPT !.version = n, !.authUntil = a]
  BY <1>2, <1>3 DEF Authorize, Earlier
<1>5. /\ intent' \in Intents /\ intent'.status = "open" /\ intent'.expires = intent.expires
  BY <1>2, <1>4 DEF Intents
<1>6. receipts' = receipts \union {[command |-> "authorize", key |-> R.key]}
  BY DEF Authorize
<1>7. receipts' \subseteq ReceiptsOf /\ receipts' # {}
      /\ \A c \in receipts' : c.command \notin {"complete", "cancel"}
  BY <1>2, <1>6, GrantedReceipt
<1>8. Idle \in RequestsOf(clock) /\ Idle.pc = "idle" /\ Steady
  BY <1>1, <1>2, IdleTyped DEF Steady, Posted
<1>9. RequestTyped' /\ request'[p] = Idle /\ \A q \in Requests \ {p} : request'[q] = request[q]
  BY <1>1, <1>8, GoesKnown
<1>10. RequestsTimely'
  <2>1. Timely(p)'
    BY <1>8, <1>9 DEF Timely, At
  <2>2. \A q \in Requests : Timely(q)'
    BY <1>8, <1>9, <2>1, TimelyStays
  <2> QED
    BY <2>2 DEF RequestsTimely, Timely
<1>11. PinnedForCommit'
  BY <1>1, <1>8, <1>9 DEF PinnedForCommit
<1>12. IntentTyped' /\ ReceiptsTyped' /\ JobTyped'
  BY <1>1, <1>5, <1>7, SourceParts DEF IntentTyped, ReceiptsTyped, JobTyped
<1>13. IntentTrue'
  <2>1. {r \in receipts' : r.command \in {"complete", "cancel"}} = {}
    BY <1>7
  <2>2. Cardinality({r \in receipts' : r.command \in {"complete", "cancel"}}) <= 1
    BY <2>1, FS_EmptySet
  <2>3. OneOutcome'
    BY <1>1, <1>2, <1>5, <1>7, <2>2 DEF OneOutcome
  <2>4. (intent.status # "absent" =>
             /\ intent.expires <= clock + IntentTTL
             /\ \A v \in Posted : intent.expires <= object[v].created + IntentTTL)'
    BY <1>1, <1>2, <1>5, <1>8 DEF IntentTrue, Steady, Posted
  <2>5. (intent.status = "open" =>
          job = NoJob /\ \A c \in receipts : c.command \notin {"complete", "cancel"})'
    BY <1>1, <1>2, <1>7
  <2> QED
    BY <1>7, <2>3, <2>4, <2>5 DEF IntentTrue
<1>14. NeededPinned'
  BY <1>1 DEF NeededPinned, Retained
<1> QED
  BY <1>1, <1>9, <1>10, <1>11, <1>12, <1>13, <1>14, AuthorityMoves DEF Retained, Current

LEMMA CancelKeeps == ASSUME SourceInv, NEW p \in Requests, Cancel(p), UNCHANGED <<cursor, sweep>>
                     PROVE  SourceInv'
<1> SourceTyped /\ IntentTrue /\ RequestsTimely /\ PinnedForCommit /\ NeededPinned
  BY DEF SourceInv
<1> DEFINE R == request[p]
<1>1. /\ ~At(p, "idle") /\ intent = R.read /\ UNCHANGED <<clock, job, object>> /\ Goes(p, Idle)
  BY DEF Cancel, At, Unchanged, Done
<1>2. /\ intent.status = "open" /\ job = NoJob /\ intent \in Intents /\ clock \in Nat
      /\ \A c \in receipts : c.command \notin {"complete", "cancel"}
      /\ intent.version + 1 \in Nat /\ intent.expires \in Nat /\ R.key \in Keys \union {0}
  BY <1>1, GrantKnown
<1>4. PICK n \in Nat : intent' = [intent EXCEPT !.version = n, !.status = "cancelled"]
  BY <1>2 DEF Cancel
<1>5. /\ intent' \in Intents /\ intent'.status = "cancelled" /\ intent'.expires = intent.expires
  BY <1>2, <1>4 DEF Intents, Statuses
<1>6. receipts' = receipts \union {[command |-> "cancel", key |-> R.key]}
  BY DEF Cancel
<1>7. receipts' \subseteq ReceiptsOf /\ receipts' # {}
  BY <1>2, <1>6, GrantedReceipt
<1>8. Idle \in RequestsOf(clock) /\ Idle.pc = "idle" /\ Steady
  BY <1>1, <1>2, IdleTyped DEF Steady, Posted
<1>9. RequestTyped' /\ request'[p] = Idle /\ \A q \in Requests \ {p} : request'[q] = request[q]
  BY <1>1, <1>8, GoesKnown
<1>10. RequestsTimely'
  <2>1. Timely(p)'
    BY <1>8, <1>9 DEF Timely, At
  <2>2. \A q \in Requests : Timely(q)'
    BY <1>8, <1>9, <2>1, TimelyStays
  <2> QED
    BY <2>2 DEF RequestsTimely, Timely
<1>11. PinnedForCommit'
  BY <1>1, <1>8, <1>9 DEF PinnedForCommit
<1>12. IntentTyped' /\ ReceiptsTyped' /\ JobTyped'
  BY <1>1, <1>5, <1>7, SourceParts DEF IntentTyped, ReceiptsTyped, JobTyped
<1>13. IntentTrue'
  <2>2. /\ Cardinality({r \in receipts' : r.command \in {"complete", "cancel"}}) <= 1
        /\ ~\E r \in receipts' : r.command = "complete"
    BY <1>2, <1>6, OneEnding
  <2>3. OneOutcome'
    BY <1>1, <1>2, <1>5, <2>2 DEF OneOutcome
  <2>4. (intent.status # "absent" =>
             /\ intent.expires <= clock + IntentTTL
             /\ \A v \in Posted : intent.expires <= object[v].created + IntentTTL)'
    BY <1>1, <1>2, <1>5, <1>8 DEF IntentTrue, Steady, Posted
  <2> QED
    BY <1>5, <1>7, <2>3, <2>4 DEF IntentTrue
<1>14. NeededPinned'
  BY <1>1 DEF NeededPinned, Retained
<1> QED
  BY <1>1, <1>9, <1>10, <1>11, <1>12, <1>13, <1>14, AuthorityMoves DEF Retained, Current

LEMMA CommitKeeps ==
  ASSUME SourceInv, NEW p \in Requests, CommitComplete(p), UNCHANGED <<cursor, sweep>>
                     PROVE  SourceInv'
<1> SourceTyped /\ IntentTrue /\ RequestsTimely /\ PinnedForCommit /\ NeededPinned
  BY DEF SourceInv
<1> DEFINE R == request[p]
<1>1. /\ ~At(p, "idle") /\ R.pc = "commit" /\ intent = R.read /\ UNCHANGED <<clock, object>>
      /\ Goes(p, [R EXCEPT !.pc = "release"])
  BY DEF CommitComplete, At, Unchanged
<1>2. /\ intent.status = "open" /\ job = NoJob /\ intent \in Intents /\ clock \in Nat
      /\ \A c \in receipts : c.command \notin {"complete", "cancel"}
      /\ intent.version + 1 \in Nat /\ intent.expires \in Nat /\ R.key \in Keys \union {0}
  BY <1>1, GrantKnown
<1>3. R.observed \in Posted /\ R.observed \in Versions /\ R.began \in 0..clock
        /\ R \in RequestsOf(clock)
      /\ Timely(p)
  <2>1. R.observed \in Posted /\ Timely(p)
    BY <1>1 DEF RequestsTimely, Timely, At
  <2>2. R \in RequestsOf(clock)
    BY SourceParts DEF RequestTyped
  <2> QED
    BY <2>1, <2>2 DEF RequestsOf, Posted
<1>4. PICK n \in Nat, v \in Versions :
        /\ intent' = [intent EXCEPT !.version = n, !.status = "completed", !.completed = v]
        /\ v = R.observed
  BY <1>2, <1>3 DEF CommitComplete
<1>5. /\ intent' \in Intents /\ intent'.status = "completed" /\ intent'.expires = intent.expires
      /\ intent'.completed = v
  BY <1>2, <1>4 DEF Intents, Statuses
<1>6. /\ receipts' = receipts \union {[command |-> "complete", key |-> R.key]}
      /\ job' = [state |-> "active", version |-> v, updated |-> R.began]
  BY <1>4 DEF CommitComplete
<1>7. receipts' \subseteq ReceiptsOf /\ receipts' # {}
  BY <1>2, <1>6, GrantedReceipt
<1>8. PICK r \in RequestsOf(clock) : /\ Goes(p, r) /\ r.pc = "release" /\ r.read = R.read
                                     /\ r.observed = R.observed /\ r.began = R.began
  BY <1>1, RecordKnown DEF Requested
<1>9. RequestTyped' /\ request'[p] = r
        /\ (\A q \in Requests \ {p} : request'[q] = request[q]) /\ Steady
  BY <1>1, <1>8, GoesKnown DEF Steady, Posted
<1>10. RequestsTimely'
  <2>1. Timely(p)'
    BY <1>1, <1>3, <1>8, <1>9 DEF Timely, At, Steady, Posted
  <2>2. \A q \in Requests : Timely(q)'
    BY <1>9, <2>1, TimelyStays
  <2> QED
    BY <2>2 DEF RequestsTimely, Timely
<1>11. PinnedForCommit'
  BY <1>1, <1>8, <1>9 DEF PinnedForCommit
<1>12. IntentTyped' /\ ReceiptsTyped' /\ JobTyped'
  <2>1. PICK t : t = 0..clock
    OBVIOUS
  <2>2. job' \in [state : {"absent", "active", "terminal", "approved", "published"},
                  version : Versions \union {0}, updated : t]
    BY <1>3, <1>6, <2>1
  <2>3. job'.state = "active"
    BY <1>6
  <2> QED
    BY <1>1, <1>5, <1>7, <2>1, <2>2, <2>3 DEF IntentTyped, ReceiptsTyped, JobTyped, JobsOf
<1>13. IntentTrue'
  <2>2. /\ Cardinality({c \in receipts' : c.command \in {"complete", "cancel"}}) <= 1
        /\ \E c \in receipts' : c.command = "complete"
    BY <1>2, <1>6, OneEnding
  <2>3. job' # NoJob /\ job'.version = v
    BY <1>6 DEF NoJob
  <2>5. OneOutcome'
    BY <1>5, <2>2, <2>3 DEF OneOutcome, Refers
  <2>6. (intent.status # "absent" =>
             /\ intent.expires <= clock + IntentTTL
             /\ \A w \in Posted : intent.expires <= object[w].created + IntentTTL)'
    BY <1>1, <1>2, <1>5, <1>9 DEF IntentTrue, Steady, Posted
  <2> QED
    BY <1>5, <1>7, <2>5, <2>6 DEF IntentTrue
<1>14. NeededPinned'
  <2>1. Settled(object[v])
    BY <1>1, <1>4 DEF PinnedForCommit, Settled
  <2>2. \A w \in Versions : Retained(w)' => w = v
    BY <1>6 DEF Retained
  <2> QED
    BY <1>1, <2>1, <2>2 DEF NeededPinned, Settled
<1>15. sweep.pc = "release" => ~Retained(Current)'
  <2> SUFFICES ASSUME sweep.pc = "release" PROVE ~Retained(Current)'
    OBVIOUS
  <2>1. Current # v
    BY <1>1, <1>4, TooYoungToRelease
  <2>2. Current' = Current
    BY DEF Current
  <2> QED
    BY <1>6, <2>1, <2>2 DEF Retained
<1> QED
  BY <1>1, <1>9, <1>10, <1>11, <1>12, <1>13, <1>14, <1>15, AuthorityMoves

LEMMA ExpireRowKeeps ==
  ASSUME SourceInv, ExpireIntentRow, UNCHANGED <<cursor, sweep>> PROVE SourceInv'
<1> SourceTyped /\ IntentTrue /\ NeededPinned
  BY DEF SourceInv
<1>1. /\ intent' = NoIntent /\ UNCHANGED <<clock, receipts, job, object, request>>
      /\ intent.status # "absent"
  BY DEF ExpireIntentRow
<1>2. RequestTyped' /\ RequestsTimely' /\ PinnedForCommit' /\ Steady
  BY <1>1, RequestsStay
<1>3. clock \in Nat /\ ReceiptsTyped /\ JobTyped
  BY SourceParts DEF ClockTyped
<1>4. IntentTyped' /\ ReceiptsTyped' /\ JobTyped'
  BY <1>1, <1>3, IdleTyped DEF IntentTyped, ReceiptsTyped, JobTyped
<1>5. IntentTrue'
  <2>1. OneOutcome'
    BY <1>1 DEF IntentTrue, OneOutcome, NoIntent
  <2> QED
    BY <1>1, <2>1 DEF IntentTrue, NoIntent, At, Posted
<1>6. NeededPinned'
  BY <1>1 DEF NeededPinned, Retained
<1> QED
  BY <1>1, <1>2, <1>4, <1>5, <1>6, AuthorityMoves DEF Retained, Current

LEMMA JobKeeps == ASSUME SourceInv, JobEnds \/ MarkPublicationRetained PROVE SourceInv'
<1> SourceTyped /\ IntentTrue /\ NeededPinned
  BY DEF SourceInv
<1>1. UNCHANGED <<clock, intent, receipts, object, request, cursor, sweep>>
  BY DEF JobEnds, MarkPublicationRetained
<1>2. RequestTyped' /\ RequestsTimely' /\ PinnedForCommit' /\ Steady
  BY <1>1, RequestsStay
<1>3. clock \in Nat /\ job \in JobsOf(clock) /\ IntentTyped /\ ReceiptsTyped
  BY SourceParts DEF ClockTyped, JobTyped
<1>4. PICK s \in {"terminal", "approved", "published"}, at \in 0..clock :
        job' = [job EXCEPT !.state = s, !.updated = at] /\ job.state \in {"active", "approved"}
  <2>1. CASE JobEnds
    <3>1. clock \in 0..clock
      BY <1>3
    <3> QED
      BY <2>1, <3>1 DEF JobEnds
  <2>2. CASE MarkPublicationRetained
    <3>1. job.updated \in 0..clock
      BY <1>3 DEF JobsOf
    <3>2. job.updated..clock \subseteq 0..clock
      BY <1>3, <3>1
    <3> QED
      BY <2>2, <3>2 DEF MarkPublicationRetained
  <2> QED
    BY <2>1, <2>2
<1>5. job' \in JobsOf(clock) /\ job'.version = job.version /\ job'.state # "absent"
      /\ job' # NoJob /\ job # NoJob
  <2>1. PICK t : t = 0..clock
    OBVIOUS
  <2>2. job \in [state : {"absent", "active", "terminal", "approved", "published"},
                 version : Versions \union {0}, updated : t]
    BY <1>3, <2>1 DEF JobsOf
  <2>3. job' \in [state : {"absent", "active", "terminal", "approved", "published"},
                  version : Versions \union {0}, updated : t]
        /\ job'.version = job.version /\ job'.state = s
    BY <1>4, <2>1, <2>2
  <2>4. job' \in JobsOf(clock) /\ job'.state # "absent"
    BY <2>1, <2>3 DEF JobsOf
  <2>5. NoJob.state = "absent"
    BY DEF NoJob
  <2> QED
    BY <1>4, <2>3, <2>4, <2>5
<1>6. JobTyped'
  BY <1>1, <1>5 DEF JobTyped, JobsOf
<1>7. IntentTyped' /\ ReceiptsTyped' /\ IntentTrue'
  <2>1. receipts = {} => \A p \in Requests : At(p, "idle")'
    BY <1>1 DEF IntentTrue, At
  <2> QED
    BY <1>1, <1>2, <1>5, <2>1, IntentStays
<1>8. \A v : Retained(v)' => Retained(v)
  BY <1>4, <1>5 DEF Retained
<1>9. NeededPinned'
  BY <1>1, <1>8 DEF NeededPinned
<1>10. Current' = Current
  BY <1>1 DEF Current
<1>11. ~Retained(Current) => ~Retained(Current)'
  BY <1>4, <1>5, <1>10 DEF Retained
<1> QED
  BY <1>1, <1>2, <1>6, <1>7, <1>9, <1>11, AuthorityMoves

LEMMA PostKeeps == ASSUME SourceInv, NEW v \in Versions, Post(v), UNCHANGED <<cursor, sweep>>
                   PROVE  SourceInv'
<1> SourceTyped /\ IntentTrue /\ RequestsTimely /\ PinnedForCommit /\ ReleasedUnneeded
      /\ NeededPinned
  BY DEF SourceInv
<1> DEFINE new == [tag |-> "staged", created |-> clock, by |-> "form"]
<1>1. /\ UNCHANGED <<clock, intent, receipts, job, request>> /\ object' = [object EXCEPT ![v] = new]
      /\ intent.status # "absent" /\ clock \in Nat /\ v \notin Posted
  BY SourceParts, UploadNumbers DEF Post, ClockTyped
<1>2. new \in ObjectsOf(clock) /\ new.tag # "none" /\ new.created = clock
  <2>1. clock \in 0..clock
    BY <1>1
  <2> QED
    BY <2>1 DEF ObjectsOf, Tags, Writers
<1> HIDE DEF new
<1>3. object[v] = Unposted /\ object \in [Versions -> ObjectsOf(clock)]
  BY <1>1, SourceParts DEF ObjectTyped, Posted
<1>4. object'[v] = new /\ \A w \in Versions \ {v} : object'[w] = object[w]
  BY <1>1, <1>3
<1>5. Posted' = Posted \union {v}
  BY <1>2, <1>4 DEF Posted
<1>6. ObjectTyped'
  <2>1. object' \in [Versions -> ObjectsOf(clock)]
    BY <1>1, <1>2, <1>3
  <2>2. \A w \in Versions : object'[w].tag = "none" => object'[w] = Unposted
    BY <1>2, <1>4, SourceParts DEF ObjectTyped
  <2> QED
    BY <1>1, <2>1, <2>2 DEF ObjectTyped, ObjectsOf
<1>7. /\ ClockTyped' /\ IntentTyped' /\ ReceiptsTyped' /\ JobTyped' /\ RequestTyped' /\ CursorTyped'
  BY <1>1, SourceParts DEF ClockTyped, IntentTyped, ReceiptsTyped, JobTyped, JobsOf, RequestTyped,
     RequestsOf, CursorTyped
<1>8. SweepTyped'
  BY <1>5, SourceParts DEF SweepTyped
<1>9. SourceTyped'
  BY <1>6, <1>7, <1>8, SourceParts, PTL
<1>10. IntentTrue'
  <2>1. OneOutcome'
    BY <1>1 DEF IntentTrue, OneOutcome, Refers
  <2>2. ASSUME NEW w \in Posted' PROVE intent.expires <= object'[w].created + IntentTTL
    <3>1. CASE w = v
      BY <1>1, <1>2, <1>4, <3>1 DEF IntentTrue
    <3>2. CASE w # v
      BY <1>1, <1>4, <1>5, <2>2, <3>2 DEF IntentTrue, Posted
    <3> QED
      BY <3>1, <3>2
  <2>3. receipts # {}
    BY <1>1 DEF IntentTrue
  <2> QED
    BY <1>1, <2>1, <2>2, <2>3 DEF IntentTrue
<1>11. RequestsTimely'
  <2> SUFFICES ASSUME NEW p \in Requests, ~At(p, "idle")
               PROVE  Timely(p)'
    BY <1>1 DEF RequestsTimely, Timely, At
  <2>1. Timely(p)
    BY DEF RequestsTimely, Timely
  <2>2. ASSUME NEW w \in Posted' PROVE request[p].read.expires <= object'[w].created + IntentTTL
    <3>1. CASE w = v
      BY <1>2, <1>4, <2>1, <3>1 DEF Timely
    <3>2. CASE w # v
      BY <1>4, <1>5, <2>1, <2>2, <3>2 DEF Timely, Posted
    <3> QED
      BY <3>1, <3>2
  <2> QED
    BY <1>1, <1>5, <2>1, <2>2 DEF Timely, At
<1>12. \A p \in Requests : request[p].pc \in {"recheck", "commit"} =>
         request[p].observed \in Versions \ {v}
  BY <1>1 DEF RequestsTimely, At, Posted
<1>13. PinnedForCommit'
  BY <1>1, <1>4, <1>12 DEF PinnedForCommit
<1>14. ReleasedUnneeded'
  <2>1. CASE sweep.pc \in {"confirm", "release", "verify"}
    <3>1. Current \in Posted /\ Current \in Versions /\ Current' = Current
      BY <2>1, CurrentKnown DEF SourceTyped, Current
    <3>2. object'[Current] = object[Current]
      BY <1>1, <1>4, <3>1
    <3> QED
      BY <1>1, <2>1, <3>1, <3>2 DEF ReleasedUnneeded, Retained
  <2>2. CASE sweep.pc \notin {"confirm", "release", "verify"}
    BY <2>2 DEF ReleasedUnneeded
  <2> QED
    BY <2>1, <2>2
<1>15. ~Retained(v)
  BY <1>3 DEF NeededPinned, Unposted
<1>16. NeededPinned'
  <2> SUFFICES ASSUME NEW w \in Versions, Retained(w) PROVE Settled(object'[w])
    BY <1>1 DEF NeededPinned, Settled, Retained
  <2> QED
    BY <1>4, <1>15 DEF NeededPinned, Settled
<1> QED
  BY <1>9, <1>10, <1>11, <1>13, <1>14, <1>16 DEF SourceInv

LEMMA TickKeepsSource == ASSUME SourceInv, Tick PROVE SourceInv'
<1> SourceTyped /\ IntentTrue /\ RequestsTimely /\ PinnedForCommit /\ ReleasedUnneeded
      /\ NeededPinned
  BY DEF SourceInv
<1>1. /\ UNCHANGED <<intent, receipts, job, object, cursor>> /\ clock' = clock + 1
      /\ clock \in Nat /\ clock' \in 0..MaxClock /\ clock' \in Nat
  BY SourceParts, UploadNumbers DEF Tick, ClockTyped
<1>2. /\ request \in [Requests -> RequestsOf(clock)]
      /\ \A p \in Requests : request'[p] = Idle
                             \/ (request'[p] = request[p] /\ ~Overdue(request[p].began))
      /\ request' = [p \in Requests |-> request'[p]]
  BY SourceParts DEF Tick, RequestTyped
<1>3. sweep' = NoSweep \/ sweep' = sweep
  BY DEF Tick
<1>4. PICK t, u : t = 0..clock /\ u = 0..clock' /\ t \subseteq u
  BY <1>1
<1>5. ClockTyped' /\ IntentTyped' /\ ReceiptsTyped' /\ CursorTyped' /\ Posted' = Posted
  BY <1>1, SourceParts DEF ClockTyped, IntentTyped, ReceiptsTyped, CursorTyped, Posted
<1>6. JobTyped'
  <2>1. JobsOf(clock) \subseteq JobsOf(clock')
    BY <1>4 DEF JobsOf
  <2>2. job \in JobsOf(clock') /\ (job.state = "absent" => job = NoJob)
    BY <2>1, SourceParts DEF JobTyped
  <2> QED
    BY <1>1, <2>2 DEF JobTyped, JobsOf
<1>7. ObjectTyped'
  <2>1. ObjectsOf(clock) \subseteq ObjectsOf(clock')
    BY <1>4 DEF ObjectsOf
  <2>2. object \in [Versions -> ObjectsOf(clock')]
    BY <2>1, SourceParts DEF ObjectTyped
  <2> QED
    BY <1>1, <2>2, SourceParts DEF ObjectTyped, ObjectsOf
<1>8. RequestTyped'
  <2>1. RequestsOf(clock) \subseteq RequestsOf(clock')
    BY <1>4 DEF RequestsOf
  <2>2. Idle \in RequestsOf(clock') /\ \A p \in Requests : request[p] \in RequestsOf(clock')
    BY <1>1, <1>2, <2>1, IdleTyped
  <2>3. \A p \in Requests : request'[p] \in RequestsOf(clock')
    BY <1>2, <2>2
  <2>4. request' \in [Requests -> RequestsOf(clock')]
    BY <1>2, <2>3
  <2> QED
    BY <2>4 DEF RequestTyped, RequestsOf
<1>9. SweepTyped'
  BY <1>1, <1>3, <1>5, NoSweepTyped, SourceParts DEF SweepTyped
<1>10. SourceTyped'
  BY <1>5, <1>6, <1>7, <1>8, <1>9, SourceParts, PTL
<1>11. IntentTrue'
  <2>1. OneOutcome'
    BY <1>1 DEF IntentTrue, OneOutcome, Refers
  <2>2. intent.expires \in Nat /\ IntentTTL \in Nat
    BY SourceParts, UploadNumbers DEF IntentTyped, Intents
  <2>3. (intent.status # "absent" =>
             /\ intent.expires <= clock + IntentTTL
             /\ \A v \in Posted : intent.expires <= object[v].created + IntentTTL)'
    <3> SUFFICES ASSUME intent.status # "absent"
                 PROVE  /\ intent.expires <= clock + 1 + IntentTTL
                        /\ \A v \in Posted : intent.expires <= object[v].created + IntentTTL
      BY <1>1, <1>5
    <3>1. intent.expires <= clock + IntentTTL
      BY DEF IntentTrue
    <3>2. intent.expires <= clock + 1 + IntentTTL
      BY <1>1, <2>2, <3>1
    <3> QED
      BY <3>2 DEF IntentTrue
  <2>4. (receipts = {} => intent.status = "absent" /\ Posted = {}
                    /\ \A p \in Requests : At(p, "idle"))'
    <3>1. Idle.pc = "idle"
      BY <1>1, IdleTyped
    <3> QED
      BY <1>1, <1>2, <1>5, <3>1 DEF IntentTrue, At
  <2> QED
    BY <1>1, <2>1, <2>3, <2>4 DEF IntentTrue
<1>12. RequestsTimely'
  <2> SUFFICES ASSUME NEW p \in Requests, ~At(p, "idle")' PROVE Timely(p)'
    BY DEF RequestsTimely, Timely
  <2>1. request'[p] = request[p] /\ ~Overdue(request[p].began) /\ ~At(p, "idle")
    BY <1>1, <1>2, IdleTyped DEF At
  <2>2. Timely(p) /\ request[p] \in RequestsOf(clock)
    BY <1>2 DEF RequestsTimely, Timely
  <2>3. /\ request[p].began \in Nat /\ request[p].read.expires \in Nat /\ InvocationLimit \in Nat
        /\ IntentTTL \in Nat
    BY <1>1, <2>2, UploadNumbers DEF RequestsOf, Intents
  <2>4. clock + 1 <= request[p].began + InvocationLimit
    BY <1>1, <2>1, <2>3 DEF Overdue
  <2>5. request[p].read.expires <= clock + 1 + IntentTTL
    BY <1>1, <2>1, <2>2, <2>3 DEF Timely
  <2> QED
    BY <1>1, <1>5, <2>1, <2>2, <2>4, <2>5 DEF Timely, At
<1>13. PinnedForCommit'
  <2>1. Idle.pc = "idle"
    BY <1>1, IdleTyped
  <2> QED
    BY <1>1, <1>2, <2>1 DEF PinnedForCommit
<1>14. \A v \in Versions : Retained(v)' => Retained(v)
  <2>1. job.updated \in Nat /\ TerminalRetention \in Nat
    BY <1>1, SourceParts, UploadNumbers DEF JobTyped, JobsOf
  <2> QED
    BY <1>1, <2>1 DEF Retained
<1>15. ReleasedUnneeded'
  <2>1. CASE sweep' = NoSweep
    BY <2>1, NoSweepTyped DEF ReleasedUnneeded
  <2>2. CASE sweep' = sweep /\ sweep.pc \in {"confirm", "release", "verify"}
    <3>1. Current \in Versions /\ Current' = Current
      BY <2>2, CurrentKnown DEF SourceTyped, Current
    <3>2. object[Current].created \in Nat /\ ReleaseAge \in Nat
      BY <1>1, <3>1, SourceParts, UploadNumbers DEF ObjectTyped, ObjectsOf
    <3>3. object[Current].created + ReleaseAge <= clock + 1
      BY <1>1, <2>2, <3>2 DEF ReleasedUnneeded
    <3>4. PICK v \in Versions : v = Current
      BY <3>1
    <3>5. Retained(Current)' => Retained(v)'
      BY <3>1, <3>4 DEF Retained
    <3>6. Retained(v) => Retained(Current)
      BY <3>4
    <3> QED
      BY <1>1, <1>14, <2>2, <3>1, <3>3, <3>5, <3>6 DEF ReleasedUnneeded
  <2> QED
    BY <1>3, <2>1, <2>2 DEF ReleasedUnneeded
<1>16. NeededPinned'
  BY <1>1, <1>14 DEF NeededPinned
<1> QED
  BY <1>10, <1>11, <1>12, <1>13, <1>15, <1>16 DEF SourceInv

\* The sweep moves, and no version does.
LEMMA SweepMoves ==
  ASSUME SourceInv, UNCHANGED uploadVars, CursorTyped', SweepTyped', ReleasedUnneeded'
    PROVE  SourceInv'
<1> SourceTyped /\ IntentTrue /\ NeededPinned
  BY DEF SourceInv
<1>1. UNCHANGED <<clock, intent, receipts, job, object, request>>
  BY DEF uploadVars
<1>2. RequestTyped' /\ RequestsTimely' /\ PinnedForCommit' /\ Steady
  BY <1>1, RequestsStay
<1>3. IntentTyped' /\ ReceiptsTyped' /\ IntentTrue'
  <2>1. receipts = {} => \A p \in Requests : At(p, "idle")'
    BY <1>1 DEF IntentTrue, At
  <2> QED
    BY <1>1, <1>2, <2>1, IntentStays
<1>4. ClockTyped' /\ JobTyped' /\ ObjectTyped'
  BY <1>1, SourceParts DEF ClockTyped, JobTyped, JobsOf, ObjectTyped, ObjectsOf
<1>5. SourceTyped'
  BY <1>2, <1>3, <1>4, SourceParts, PTL
<1>6. NeededPinned'
  BY <1>1 DEF NeededPinned, Retained
<1> QED
  BY <1>2, <1>3, <1>5, <1>6 DEF SourceInv

\* The sweep or the lifecycle rule writes the tag of a version: it pins it, or nobody needs it.
LEMMA SweepTags ==
  ASSUME SourceInv, UNCHANGED <<clock, intent, receipts, job, request>>, NEW v \in Posted,
         NEW tag \in {"staged", "pinned", "deleted"}, NEW by \in Writers,
         object' = [object EXCEPT ![v].tag = tag, ![v].by = by],
         \/ tag = "pinned" \/ by = "compensation"
         \/ /\ ~Retained(v)
            /\ \A p \in Requests : request[p].pc \in {"recheck", "commit"} =>
                 request[p].observed # v,
         CursorTyped', SweepTyped', ReleasedUnneeded'
  PROVE  SourceInv'
<1> SourceTyped /\ IntentTrue /\ RequestsTimely /\ PinnedForCommit /\ NeededPinned
  BY DEF SourceInv
<1>1. /\ ObjectTyped' /\ Steady /\ object'[v].tag = tag /\ object'[v].by = by
      /\ \A w \in Versions \ {v} : object'[w] = object[w]
  BY TaggingKnown
<1>2. IntentTyped' /\ ReceiptsTyped' /\ IntentTrue'
  <2>1. receipts = {} => \A p \in Requests : At(p, "idle")'
    BY DEF IntentTrue, At
  <2> QED
    BY <1>1, <2>1, IntentStays
<1>3. ClockTyped' /\ JobTyped' /\ RequestTyped'
  BY SourceParts DEF ClockTyped, JobTyped, JobsOf, RequestTyped, RequestsOf
<1>4. SourceTyped'
  BY <1>1, <1>2, <1>3, SourceParts, PTL
<1>5. \A q \in Requests : Timely(q)'
  BY <1>1, TimelyStays
<1>6. RequestsTimely'
  BY <1>5 DEF RequestsTimely, Timely
<1>7. PinnedForCommit'
  <2> SUFFICES ASSUME NEW q \in Requests, request[q].pc \in {"recheck", "commit"}
               PROVE  Settled(object'[request[q].observed])
    BY DEF PinnedForCommit, Settled
  <2>1. request[q].observed \in Versions /\ Settled(object[request[q].observed])
    BY DEF RequestsTimely, At, Posted, PinnedForCommit, Settled
  <2> QED
    BY <1>1, <2>1 DEF Settled
<1>8. NeededPinned'
  <2> SUFFICES ASSUME NEW w \in Versions, Retained(w) PROVE Settled(object'[w])
    BY DEF NeededPinned, Settled, Retained
  <2>1. Settled(object[w])
    BY DEF NeededPinned, Settled
  <2> QED
    BY <1>1, <2>1 DEF Settled
<1> QED
  BY <1>2, <1>4, <1>6, <1>7, <1>8 DEF SourceInv

\* The sweep turns to another step on the same version.
LEMMA TurnKnown ==
  ASSUME SourceTyped, sweep.page # {}, NEW pc \in SweepStates, Turn(pc), Posted' = Posted,
    cursor' = cursor
  PROVE  SweepTyped' /\ Current' = Current /\ sweep'.pc = pc /\ sweep'.page = sweep.page
<1> SweepTyped
  BY SourceParts
<1>1. /\ sweep' \in SweepsOf /\ sweep'.pc = pc /\ sweep'.page = sweep.page
  BY DEF SweepTyped, Turn, SweepsOf
<1>2. SweepTyped'
  BY <1>1 DEF SweepTyped, SweepsOf
<1> QED
  BY <1>1, <1>2 DEF Current

\* The sweep is done with a version and takes the next one of the page.
LEMMA NextKnown ==
  ASSUME SourceTyped, sweep.page # {}, NextVersion, Posted' = Posted, cursor' = cursor
  PROVE  SweepTyped' /\ ReleasedUnneeded'
<1> SweepTyped /\ Current \in Versions
  BY SourceParts, CurrentKnown
<1> DEFINE page == sweep.page \ {Current}
<1>1. PICK tags \in [Versions -> Tags] :
        sweep' = [sweep EXCEPT !.pc = "reconcile", !.page = page, !.tags = tags]
  <2> DEFINE tags == [sweep.tags EXCEPT ![Current] = "none"]
  <2>1. sweep.tags \in [Versions -> Tags] /\ "none" \in Tags
    BY DEF SweepTyped, SweepsOf, Tags
  <2>2. tags \in [Versions -> Tags]
    BY <2>1
  <2>3. sweep' = [sweep EXCEPT !.pc = "reconcile", !.page = page, !.tags = tags]
    BY DEF NextVersion, SweepTyped, SweepsOf
  <2> QED
    BY <2>2, <2>3
<1>2. page \subseteq sweep.page
  OBVIOUS
<1> HIDE DEF page
<1>3. sweep' \in SweepsOf /\ sweep'.pc = "reconcile" /\ sweep'.page = page
  BY <1>1, <1>2 DEF SweepTyped, SweepsOf, SweepStates
<1> QED
  BY <1>2, <1>3 DEF SweepTyped, SweepsOf, ReleasedUnneeded

LEMMA IdleKnown == ASSUME sweep' = NoSweep PROVE SweepTyped' /\ ReleasedUnneeded'
BY NoSweepTyped DEF SweepTyped, ReleasedUnneeded

\* A run, from the stored cursor or further on, starts with a listing.
LEMMA ListKnown ==
  ASSUME NEW n \in Nat, NEW t \in Nat,
         sweep' = [NoSweep EXCEPT !.pc = "list", !.pages = n, !.began = t]
  PROVE  SweepTyped' /\ ReleasedUnneeded'
<1>1. sweep' \in SweepsOf /\ sweep'.page = {} /\ sweep'.pc = "list"
  BY NoSweepTyped DEF SweepsOf, SweepStates
<1> QED
  BY <1>1 DEF SweepTyped, ReleasedUnneeded

LEMMA StartKeeps == ASSUME SourceInv, StartSweep PROVE SourceInv'
<1> SourceTyped
  BY DEF SourceInv
<1>1. clock \in Nat /\ NoSweep.pages = 0 /\ NoSweep \in SweepsOf
  BY SourceParts, NoSweepTyped DEF ClockTyped, NoSweep
<1>2. PICK n \in Nat, t \in Nat : sweep' = [NoSweep EXCEPT !.pc = "list", !.pages = n, !.began = t]
  <2>1. sweep' = [NoSweep EXCEPT !.pc = "list", !.pages = 0, !.began = clock]
    BY <1>1 DEF StartSweep, SweepsOf
  <2> clock \in Nat /\ 0 \in Nat
    BY <1>1
  <2> WITNESS 0 \in Nat, clock \in Nat
  <2> QED
    BY <2>1
<1>3. SweepTyped' /\ ReleasedUnneeded'
  BY <1>2, ListKnown
<1>4. CursorTyped'
  BY SourceParts DEF StartSweep, CursorTyped
<1> QED
  BY <1>3, <1>4, SweepMoves DEF StartSweep

LEMMA ListKeeps == ASSUME SourceInv, ListPage PROVE SourceInv'
<1> SourceTyped
  BY DEF SourceInv
<1> SweepTyped /\ ObjectTyped
  BY SourceParts
<1> UNCHANGED uploadVars /\ cursor' = cursor
  BY DEF ListPage
<1>1. PICK page \in SUBSET Listed :
        /\ page # Listed => Cardinality(page) = PageSize
        /\ sweep' = [sweep EXCEPT !.pc = "reconcile", !.page = page,
             !.tags = [v \in Versions |-> IF v \in page THEN object[v].tag ELSE "none"],
             !.next = IF page = Listed THEN NoCursor
                      ELSE CHOOSE v \in page : \A w \in page : v <= w]
  BY DEF ListPage
<1>2. page \subseteq Versions /\ page \subseteq {v \in Posted : v < cursor}
  BY DEF Listed, Exists, Posted
<1> DEFINE tags == [v \in Versions |-> IF v \in page THEN object[v].tag ELSE "none"]
           next == IF page = Listed THEN NoCursor ELSE CHOOSE v \in page : \A w \in page : v <= w
<1>3. tags \in [Versions -> Tags]
  BY DEF ObjectTyped, ObjectsOf, Tags
<1>4. next \in Versions \union {NoCursor}
  <2>1. CASE page # Listed
    <3>1. page # {}
      BY <1>1, <2>1, UploadNumbers, FS_EmptySet
    <3>2. page \in SUBSET Nat
      BY <1>2, UploadNumbers
    <3>3. \E v \in page : \A w \in page : v <= w
      BY <3>1, <3>2, LeastExists
    <3>4. (CHOOSE v \in page : \A w \in page : v <= w) \in page
      BY <3>3
    <3> QED
      BY <1>2, <2>1, <3>4
  <2> QED
    BY <2>1
<1>5. sweep' = [sweep EXCEPT !.pc = "reconcile", !.page = page, !.tags = tags, !.next = next]
  BY <1>1
<1> HIDE DEF tags, next
<1>6. sweep' \in SweepsOf /\ sweep'.pc = "reconcile" /\ sweep'.page = page
  BY <1>2, <1>3, <1>4, <1>5 DEF SweepTyped, SweepsOf, SweepStates
<1>7. SweepTyped' /\ ReleasedUnneeded' /\ CursorTyped'
  BY <1>2, <1>6, SourceParts DEF SweepTyped, SweepsOf, ReleasedUnneeded, CursorTyped, Posted,
     uploadVars
<1> QED
  BY <1>7, SweepMoves

\* The steps that only read, on the version whose turn it is.
LEMMA ReadKeeps ==
  ASSUME SourceInv, Reconcile \/ ConfirmRelease \/ VerifyRelease PROVE SourceInv'
<1> SourceTyped /\ ReleasedUnneeded
  BY DEF SourceInv
<1>1. /\ UNCHANGED uploadVars /\ cursor' = cursor /\ Posted' = Posted /\ CursorTyped'
      /\ sweep.page # {} /\ UNCHANGED <<object, job, clock>>
  BY SourceParts DEF Reconcile, ConfirmRelease, VerifyRelease, SweepAt, SweepTyped, uploadVars,
     Posted, CursorTyped
<1>2. Current \in Versions
  BY <1>1, CurrentKnown
<1>3. CASE NextVersion
  BY <1>1, <1>3, NextKnown, SweepMoves
<1>4. CASE Turn("pin")
  <2>1. SweepTyped' /\ sweep'.pc = "pin"
    BY <1>1, <1>4, TurnKnown DEF SweepStates
  <2> QED
    BY <1>1, <2>1, SweepMoves DEF ReleasedUnneeded
<1>5. CASE Turn("confirm") /\ ~(clock < object[Current].created + ReleaseAge)
  <2>1. SweepTyped' /\ sweep'.pc = "confirm" /\ Current' = Current
    BY <1>1, <1>5, TurnKnown DEF SweepStates
  <2>2. object[Current].created \in Nat /\ clock \in Nat
    BY <1>2, SourceParts DEF ClockTyped, ObjectTyped, ObjectsOf
  <2>3. object[Current].created + ReleaseAge <= clock
    BY <1>5, <2>2, UploadNumbers
  <2> QED
    BY <1>1, <2>1, <2>3, SweepMoves DEF ReleasedUnneeded
<1>6. CASE SweepAt("confirm") /\ Turn("release") /\ ~Retained(Current)
  <2>1. SweepTyped' /\ sweep'.pc = "release" /\ Current' = Current
    BY <1>1, <1>6, TurnKnown DEF SweepStates
  <2>2. object[Current].created + ReleaseAge <= clock
    BY <1>6 DEF ReleasedUnneeded, SweepAt
  <2>3. ~Retained(Current)'
    BY <1>1, <1>6, <2>1 DEF Retained
  <2> QED
    BY <1>1, <2>1, <2>2, <2>3, SweepMoves DEF ReleasedUnneeded
<1> QED
  BY <1>3, <1>4, <1>5, <1>6 DEF Reconcile, ConfirmRelease, VerifyRelease

LEMMA SaveKeeps == ASSUME SourceInv, SavePage PROVE SourceInv'
<1> SourceTyped
  BY DEF SourceInv
<1>1. UNCHANGED uploadVars /\ sweep \in SweepsOf /\ cursor' = sweep.next
  BY SourceParts DEF SavePage, SweepTyped
<1>2. sweep.pages \in Nat /\ sweep.pages + 1 \in Nat /\ sweep.began \in Nat /\ CursorTyped'
  BY <1>1 DEF SweepsOf, CursorTyped
<1>3. SweepTyped' /\ ReleasedUnneeded'
  <2>1. CASE sweep' = NoSweep
    BY <2>1, IdleKnown
  <2>2. CASE sweep' = [NoSweep EXCEPT !.pc = "list", !.pages = sweep.pages + 1,
          !.began = sweep.began]
    BY <1>2, <2>2, ListKnown
  <2> QED
    BY <2>1, <2>2 DEF SavePage
<1> QED
  BY <1>1, <1>2, <1>3, SweepMoves

LEMMA StopKeeps == ASSUME SourceInv, SweepFails \/ SweepDies PROVE SourceInv'
<1> SourceTyped
  BY DEF SourceInv
<1>1. UNCHANGED uploadVars /\ cursor' = cursor /\ CursorTyped' /\ Posted' = Posted
  BY SourceParts DEF SweepFails, SweepDies, CursorTyped, uploadVars, Posted
<1>2. CASE sweep' = NoSweep
  BY <1>1, <1>2, IdleKnown, SweepMoves
<1>3. CASE sweep' # NoSweep
  <2>1. sweep.page # {} /\ Turn("repair")
    BY <1>3, SourceParts DEF SweepFails, SweepDies, SweepAt, SweepTyped, Turn
  <2>2. SweepTyped' /\ sweep'.pc = "repair"
    BY <1>1, <2>1, TurnKnown DEF SweepStates
  <2> QED
    BY <1>1, <2>2, SweepMoves DEF ReleasedUnneeded
<1> QED
  BY <1>2, <1>3

\* The sweep's own writes: what it releases is needed by nobody, else it pins.
LEMMA WriteKeeps ==
  ASSUME SourceInv, ReleaseVersion \/ PinVersion \/ RepairPinned PROVE SourceInv'
<1> SourceTyped /\ ReleasedUnneeded
  BY DEF SourceInv
<1>1. /\ UNCHANGED <<clock, intent, receipts, job, request>> /\ cursor' = cursor /\ CursorTyped'
      /\ sweep.page # {}
  BY SourceParts DEF ReleaseVersion, PinVersion, RepairPinned, SweepAt, SweepTyped, CursorTyped
<1>2. Current \in Posted /\ Current \in Versions
  BY <1>1, CurrentKnown
<1>3. PICK v \in Posted : v = Current
  BY <1>2
<1>4. CASE ReleaseVersion
  <2>1. object' = [object EXCEPT ![v].tag = "staged", ![v].by = "sweep"]
    BY <1>3, <1>4 DEF ReleaseVersion, Tagged
  <2>2. Posted' = Posted
    BY <1>1, <2>1, TaggingKnown DEF Steady, Writers
  <2>3. SweepTyped' /\ sweep'.pc = "verify" /\ Current' = Current
    BY <1>1, <1>4, <2>2, TurnKnown DEF ReleaseVersion, SweepStates
  <2>4. object[v].created + ReleaseAge <= clock /\ ~Retained(v)
    BY <1>3, <1>4 DEF ReleaseVersion, SweepAt, ReleasedUnneeded
  <2>5. object'[v].created = object[v].created
    <3>1. Steady
      BY <1>1, <2>1, TaggingKnown DEF Writers
    <3> QED
      BY <1>2, <1>3, <3>1 DEF Steady
  <2>6. ReleasedUnneeded'
    BY <1>1, <1>3, <2>3, <2>4, <2>5 DEF ReleasedUnneeded
  <2>7. \A p \in Requests : request[p].pc \in {"recheck", "commit"} => request[p].observed # v
    BY <1>3, <1>4, TooYoungToRelease DEF ReleaseVersion, SweepAt
  <2> QED
    BY <1>1, <2>1, <2>3, <2>4, <2>6, <2>7, SweepTags DEF Writers
<1>5. CASE PinVersion \/ RepairPinned
  <2>1. object' = [object EXCEPT ![v].tag = "pinned", ![v].by = "sweep"]
    BY <1>3, <1>5 DEF PinVersion, RepairPinned, Tagged
  <2>2. Posted' = Posted
    BY <1>1, <2>1, TaggingKnown DEF Steady, Writers
  <2>3. SweepTyped' /\ ReleasedUnneeded'
    BY <1>1, <1>5, <2>2, NextKnown, IdleKnown DEF PinVersion, RepairPinned
  <2> QED
    BY <1>1, <2>1, <2>3, SweepTags DEF Writers
<1> QED
  BY <1>4, <1>5

\* The lifecycle rule deletes what is staged; a job's version, or one about to be committed,
\* is so only if a losing completion took it back.
LEMMA LifecycleKeeps == ASSUME SourceInv, NEW v \in Versions, ExpireStaged(v) PROVE SourceInv'
<1> SourceTyped /\ NeededPinned /\ PinnedForCommit /\ ReleasedUnneeded
  BY DEF SourceInv
<1>1. /\ UNCHANGED <<clock, intent, receipts, job, request, cursor, sweep>>
           /\ object[v].tag = "staged"
      /\ object' = [object EXCEPT ![v].tag = "deleted"] /\ v \in Posted
  BY DEF ExpireStaged, Posted
<1>2. object[v] \in ObjectsOf(clock) /\ object \in [Versions -> ObjectsOf(clock)]
  BY SourceParts DEF ObjectTyped
<1>3. PICK by \in Writers : by = object[v].by
  BY <1>2 DEF ObjectsOf
<1>4. object' = [object EXCEPT ![v].tag = "deleted", ![v].by = by]
  <2>1. [object[v] EXCEPT !.tag = "deleted"] = [object[v] EXCEPT !.tag = "deleted", !.by = by]
    <3>1. PICK t : t = 0..clock
      OBVIOUS
    <3>2. object[v] \in [tag : Tags, created : t, by : Writers]
      BY <1>2, <3>1 DEF ObjectsOf
    <3> QED
      BY <1>3, <3>2
  <2>2. object' = [object EXCEPT ![v] = [object[v] EXCEPT !.tag = "deleted"]]
    BY <1>1
  <2>3. object' = [object EXCEPT ![v] = [object[v] EXCEPT !.tag = "deleted", !.by = by]]
    BY <2>1, <2>2
  <2> QED
    BY <1>2, <2>3
<1>5. Steady
  BY <1>1, <1>4, TaggingKnown
<1>6. CursorTyped' /\ SweepTyped' /\ ReleasedUnneeded'
  <2>1. Retained(Current)' <=> Retained(Current)
    BY <1>1 DEF Retained, Current
  <2> QED
    BY <1>1, <1>5, <2>1, SweepStays
<1>7. \/ by = "compensation"
      \/ /\ ~Retained(v)
         /\ \A p \in Requests : request[p].pc \in {"recheck", "commit"} => request[p].observed # v
  BY <1>1, <1>3 DEF NeededPinned, PinnedForCommit
<1> QED
  BY <1>1, <1>4, <1>6, <1>7, SweepTags

LEMMA SourceStuttering == ASSUME SourceInv, UNCHANGED vars PROVE SourceInv'
<1> SourceTyped /\ ReleasedUnneeded
  BY DEF SourceInv
<1>1. UNCHANGED uploadVars /\ UNCHANGED <<cursor, sweep>> /\ UNCHANGED <<object, job, clock>>
  BY DEF vars, uploadVars
<1>2. CursorTyped' /\ SweepTyped' /\ ReleasedUnneeded'
  BY <1>1, SourceParts DEF CursorTyped, SweepTyped, Posted, ReleasedUnneeded, Current, Retained
<1> QED
  BY <1>1, <1>2, SweepMoves

LEMMA SourceInvStep == SourceInv /\ [Next]_vars => SourceInv'
<1> SUFFICES ASSUME SourceInv, [Next]_vars PROVE SourceInv'
  OBVIOUS
<1>1. CASE UploadNext /\ UNCHANGED <<cursor, sweep, failures>>
  <2> UNCHANGED <<cursor, sweep>>
    BY <1>1
  <2>1. ASSUME NEW p \in Requests, Create(p) PROVE SourceInv'
    BY <2>1, CreateKeeps
  <2>2. ASSUME NEW p \in Requests, NEW k \in Keys, NEW c \in {"authorize", "complete", "cancel"},
               Begin(p, c, k)
        PROVE  SourceInv'
    BY <2>2, BeginKeeps
  <2>3. ASSUME NEW p \in Requests, Authorize(p) \/ Cancel(p) PROVE SourceInv'
    BY <2>3, AuthorizeKeeps, CancelKeeps
  <2>4. ASSUME NEW p \in Requests, CommitComplete(p) PROVE SourceInv'
    BY <2>4, CommitKeeps
  <2>5. ASSUME NEW p \in Requests,
               Observe(p) \/ Recheck(p) \/ CommitFails(p) \/ Release(p) \/ Confirm(p) \/ Raise(p)
        PROVE  SourceInv'
    BY <2>5, LocalSteps
  <2>6. ASSUME NEW p \in Requests, Pin(p) \/ Stage(p) \/ Reassert(p) PROVE SourceInv'
    BY <2>6, TagSteps
  <2>7. ASSUME NEW v \in Versions, Post(v) PROVE SourceInv'
    BY <2>7, PostKeeps
  <2>8. CASE ExpireIntentRow
    BY <2>8, ExpireRowKeeps
  <2> QED
    BY <1>1, <2>1, <2>2, <2>3, <2>4, <2>5, <2>6, <2>7, <2>8 DEF UploadNext, RequestStep
<1>2. CASE JobEnds \/ MarkPublicationRetained
  BY <1>2, JobKeeps
<1>3. CASE StartSweep \/ SweepStep \/ SweepFails \/ SweepDies
  BY <1>3, StartKeeps, ListKeeps, ReadKeeps, WriteKeeps, SaveKeeps, StopKeeps DEF SweepStep
<1>4. CASE \E v \in Versions : ExpireStaged(v)
  BY <1>4, LifecycleKeeps
<1>5. CASE Tick
  BY <1>5, TickKeepsSource
<1>6. CASE UNCHANGED vars
  BY <1>6, SourceStuttering
<1> QED
  BY <1>1, <1>2, <1>3, <1>4, <1>5, <1>6 DEF Next

\* Every job keeps the source it was created from (service.py and repository.py of uploads,
\* production/retention.py): for any number of versions, requests, keys and pages, and any
\* lifetimes that leave a request no time to refer to a version old enough to be released,
\* whatever requests, sweeps, the lifecycle rule and failures cross, the intent ends once, in
\* completion or in cancellation, and a version a job needs is pinned, the compensation of a
\* losing completion apart.
THEOREM SourceAlwaysKept == Spec => []SourceKept
<1>1. Init => SourceInv
  BY SourceInvInit
<1>2. SourceInv /\ [Next]_vars => SourceInv'
  BY SourceInvStep
<1>3. SourceInv => SourceKept
  <2> SUFFICES ASSUME SourceInv PROVE SourceKept
    OBVIOUS
  <2>1. SourceTyped /\ OneOutcome /\ NeededPinned
    BY DEF SourceInv, IntentTrue
  <2>2. sweep.page \subseteq {v \in Versions : v < cursor}
    BY <2>1 DEF SourceTyped, Posted
  <2>3. RetentionTypeOK
    BY <2>1, <2>2 DEF SourceTyped, RetentionTypeOK, Intents
  <2> QED
    BY <2>1, <2>3 DEF SourceKept
<1> QED
  BY <1>1, <1>2, <1>3, PTL DEF Spec

=============================================================================
