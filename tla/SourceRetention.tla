--------------------------- MODULE SourceRetention ---------------------------
(***************************************************************************)
(* What becomes of the posted versions: the lifecycle rule of the bucket   *)
(* deletes versions tagged staged, and a scheduled sweep, one at a time    *)
(* (production/retention.py), pins again what a job refers to and releases *)
(* pinned versions that no job needs any more.                             *)
(*                                                                         *)
(* The sweep lists versions page by page behind a stored cursor, reads the *)
(* tags of a page first and the authority of each version in turn, and     *)
(* confirms the authority before and after a releasing write.              *)
(***************************************************************************)
EXTENDS UploadIntake

CONSTANTS
  ReleaseAge,        \* MIN_UNREFERENCED_SOURCE_RELEASE_AGE
  TerminalRetention, \* DEFAULT_TERMINAL_SOURCE_RETENTION
  PageSize,          \* page_size
  RunPages,          \* max_pages_per_run
  MaxFailures        \* bound: runs that fail although they could go on

ASSUME RetentionAssumption ==
  /\ {ReleaseAge, TerminalRetention, PageSize, RunPages, MaxFailures} \subseteq Nat
  /\ PageSize > 0 /\ RunPages > 0
  /\ IntentTTL + InvocationLimit <= ReleaseAge

VARIABLES
  cursor,  \* the stored checkpoint: the last version listed, or none
  sweep,   \* the sweep under way
  failures \* runs that failed so far although they could go on

vars == <<uploadVars, cursor, sweep, failures>>

NoCursor == MaxVersions + 1
NoSweep == [pc |-> "idle", page |-> {}, tags |-> [v \in Versions |-> "none"], next |-> NoCursor,
            pages |-> 0, began |-> 0]

Init == UploadInit /\ cursor = NoCursor /\ sweep = NoSweep /\ failures = 0

SweepAt(pc) == sweep.pc = pc
\* Versions of one key are listed newest first.
Current == CHOOSE v \in sweep.page : \A w \in sweep.page : w <= v
Turn(pc) == sweep' = [sweep EXCEPT !.pc = pc]
NextVersion == sweep' = [sweep EXCEPT !.pc = "reconcile", !.page = @ \ {Current},
                                      !.tags[Current] = "none"]

-----------------------------------------------------------------------------
(* The job's own life, as far as its source is concerned                   *)

\* An active job ends cancelled or failed, or is approved for good; late ends are not followed.
JobEnds ==
  /\ job.state = "active" /\ clock + TerminalRetention <= MaxClock
  /\ \E s \in {"terminal", "approved"} : job' = [job EXCEPT !.state = s, !.updated = clock]
  /\ UNCHANGED <<clock, intent, receipts, object, request, cursor, sweep, failures>>

\* The retention of a finished publication leaves its marker when all its rows have an expiry.
MarkPublicationRetained ==
  /\ job.state = "approved"
  /\ \E at \in job.updated..clock : job' = [job EXCEPT !.state = "published", !.updated = at]
  /\ UNCHANGED <<clock, intent, receipts, object, request, cursor, sweep, failures>>

\* _is_retained: a version is needed by the job that refers to it, until some time after its end.
Retained(v) ==
  /\ job.version = v
  /\ \/ job.state \in {"active", "approved"}
     \/ job.state \in {"terminal", "published"} /\ clock < job.updated + TerminalRetention

-----------------------------------------------------------------------------
(* The sweep                                                               *)

\* A run continues at the stored cursor.
StartSweep ==
  /\ SweepAt("idle")
  /\ sweep' = [NoSweep EXCEPT !.pc = "list", !.began = clock]
  /\ UNCHANGED <<uploadVars, cursor, failures>>

Listed == {v \in Versions : Exists(v) /\ v < cursor}

\* The newest versions below the cursor, and their tags as they are now.
ListPage ==
  /\ SweepAt("list")
  /\ \E page \in SUBSET Listed :
       /\ \A v \in page, w \in Listed \ page : w < v
       /\ Cardinality(page) <= PageSize
       /\ page # Listed => Cardinality(page) = PageSize
       /\ sweep' = [sweep EXCEPT !.pc = "reconcile", !.page = page,
            !.tags = [v \in Versions |-> IF v \in page THEN object[v].tag ELSE "none"],
            !.next = IF page = Listed THEN NoCursor
                     ELSE CHOOSE v \in page : \A w \in page : v <= w]
  /\ UNCHANGED <<uploadVars, cursor, failures>>

\* Mutant: a young version is not spared.
ReconcileYoung ==
  /\ SweepAt("reconcile") /\ sweep.page # {}
  /\ LET v == Current IN
     IF Retained(v) THEN Turn("pin")
     ELSE IF sweep.tags[v] = "staged" THEN NextVersion
     ELSE Turn("confirm")
  /\ UNCHANGED <<uploadVars, cursor, failures>>

\* _reconcile_version, up to its first write.
Reconcile ==
  /\ SweepAt("reconcile") /\ sweep.page # {}
  /\ LET v == Current IN
     IF Retained(v) THEN Turn("pin")
     ELSE IF sweep.tags[v] = "staged" THEN NextVersion
     ELSE IF clock < object[v].created + ReleaseAge THEN Turn("pin")
     ELSE Turn("confirm")
  /\ UNCHANGED <<uploadVars, cursor, failures>>

\* The authority is read again before the releasing write ...
ConfirmRelease ==
  /\ SweepAt("confirm")
  /\ Turn(IF Retained(Current) THEN "pin" ELSE "release")
  /\ UNCHANGED <<uploadVars, cursor, failures>>

ReleaseVersion ==
  /\ SweepAt("release") /\ Exists(Current)
  /\ Tagged(Current, "staged", "sweep")
  /\ Turn("verify")
  /\ UNCHANGED <<clock, intent, receipts, job, request, cursor, failures>>

\* ... and after it.
VerifyRelease ==
  /\ SweepAt("verify")
  /\ IF Retained(Current) THEN Turn("pin") ELSE NextVersion
  /\ UNCHANGED <<uploadVars, cursor, failures>>

PinVersion ==
  /\ SweepAt("pin") /\ Exists(Current)
  /\ Tagged(Current, "pinned", "sweep")
  /\ NextVersion
  /\ UNCHANGED <<clock, intent, receipts, job, request, cursor, failures>>

\* Mutant: a finished scan is not started over.
SavePageOnce ==
  /\ SweepAt("reconcile") /\ sweep.page = {}
  /\ cursor' = IF sweep.next = NoCursor THEN 1 ELSE sweep.next
  /\ sweep' = IF sweep.next # NoCursor /\ sweep.pages + 1 < RunPages
              THEN [NoSweep EXCEPT !.pc = "list", !.pages = sweep.pages + 1, !.began = sweep.began]
              ELSE NoSweep
  /\ UNCHANGED <<uploadVars, failures>>

\* The cursor is stored after every complete page; the end of the listing starts over.
SavePage ==
  /\ SweepAt("reconcile") /\ sweep.page = {}
  /\ cursor' = sweep.next
  /\ sweep' = IF sweep.next # NoCursor /\ sweep.pages + 1 < RunPages
              THEN [NoSweep EXCEPT !.pc = "list", !.pages = sweep.pages + 1, !.began = sweep.began]
              ELSE NoSweep
  /\ UNCHANGED <<uploadVars, failures>>

\* The version whose tags are to be written is gone: that write fails.
Failure ==
  \/ sweep.pc \in {"release", "pin", "repair"} /\ ~Exists(Current) /\ UNCHANGED failures
  \/ failures < MaxFailures /\ failures' = failures + 1

\* A failed read or write ends the run, which first pins what it may have released, or left so.
SweepFails ==
  /\ ~SweepAt("idle") /\ ~SweepAt("repair") /\ Failure
  /\ sweep' = IF \/ SweepAt("release") \/ SweepAt("verify")
                 \/ SweepAt("reconcile") /\ sweep.page # {} /\ sweep.tags[Current] = "staged"
              THEN [sweep EXCEPT !.pc = "repair"] ELSE NoSweep
  /\ UNCHANGED <<uploadVars, cursor>>

RepairPinned ==
  /\ SweepAt("repair") /\ Exists(Current)
  /\ Tagged(Current, "pinned", "sweep")
  /\ sweep' = NoSweep
  /\ UNCHANGED <<clock, intent, receipts, job, request, cursor, failures>>

SweepDies ==
  /\ ~SweepAt("idle") /\ Failure /\ sweep' = NoSweep
  /\ UNCHANGED <<uploadVars, cursor>>

-----------------------------------------------------------------------------
(* The lifecycle rule and the clock                                        *)

ExpireStaged(v) ==
  /\ object[v].tag = "staged" /\ object[v].created + LifecycleAge <= clock
  /\ object' = [object EXCEPT ![v].tag = "deleted"]
  /\ UNCHANGED <<clock, intent, receipts, job, request, cursor, sweep, failures>>

Overdue(began) == began + InvocationLimit < clock + 1

Tick ==
  /\ clock < MaxClock /\ clock' = clock + 1
  /\ request' = [p \in Requests |-> IF Overdue(request[p].began) THEN Idle ELSE request[p]]
  /\ sweep' = IF Overdue(sweep.began) THEN NoSweep ELSE sweep
  /\ UNCHANGED <<intent, receipts, job, object, cursor, failures>>

SweepStep ==
  \/ ListPage \/ Reconcile \/ ConfirmRelease \/ ReleaseVersion \/ VerifyRelease
  \/ PinVersion \/ SavePage \/ RepairPinned

Next ==
  \/ UploadNext /\ UNCHANGED <<cursor, sweep, failures>>
  \/ JobEnds \/ MarkPublicationRetained
  \/ StartSweep \/ SweepStep \/ SweepFails \/ SweepDies
  \/ \E v \in Versions : ExpireStaged(v)
  \/ Tick

Spec == Init /\ [][Next]_vars

\* The sweep runs every quarter of an hour and a run goes on or fails; the lifecycle rule is
\* applied once a day.
Fairness ==
  /\ WF_vars(Tick)
  /\ \A p \in Requests : WF_vars(Raise(p) /\ UNCHANGED <<cursor, sweep, failures>>)
  /\ WF_vars(StartSweep \/ SweepStep \/ SweepFails \/ SweepDies)
  /\ WF_vars(\E v \in Versions : ExpireStaged(v))

-----------------------------------------------------------------------------
(* What intake and retention promise.                                      *)

RetentionTypeOK ==
  /\ clock \in 0..MaxClock
  /\ intent \in [status : Statuses, version : Nat, authUntil : Nat, expires : Nat,
                 completed : Versions \union {0}]
  /\ receipts \subseteq
       [command : {"create", "authorize", "complete", "cancel"}, key : Keys \union {0}]
  /\ job \in [state : {"absent", "active", "terminal", "approved", "published"},
              version : Versions \union {0}, updated : 0..clock]
  /\ object \in [Versions -> [tag : Tags, created : 0..clock,
                 by : {"nobody", "form", "completion", "compensation", "sweep"}]]
  /\ cursor \in Versions \union {NoCursor}
  /\ sweep.page \subseteq {v \in Versions : v < cursor}

\* A version a job needs is there and pinned: neither the sweep, whatever it read before and
\* wherever it stops, nor the lifecycle rule takes it away.  The exception is the compensation
\* of a completion that lost against the one that committed.
NeededPinned ==
  \A v \in Versions : Retained(v) => \/ object[v].tag = "pinned"
                                    \/ object[v].by = "compensation"

\* "a concurrently committed winner's referenced version remains pinned": when no request is
\* under way the version a job needs is pinned.
WinnerRemainsPinned ==
  (\A p \in Requests : At(p, "idle")) =>
    \A v \in Versions : Retained(v) => object[v].tag = "pinned"

\* Every job keeps the source it was created from, whatever requests and sweeps cross.
SourceKept == RetentionTypeOK /\ OneOutcome /\ NeededPinned

\* A version no job needs is eventually deleted, whoever pinned it and then stopped, and so is
\* the source of a job that has ended.
OrphansDeleted ==
  Fairness => \A v \in Versions : Exists(v) ~> (object[v].tag = "deleted" \/ Retained(v))

=============================================================================
