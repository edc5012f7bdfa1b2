---------------------------- MODULE UploadIntake ----------------------------
(***************************************************************************)
(* The intake of one artwork (control/upload_service.py): an intent is     *)
(* reserved, the browser posts the file straight to S3 with a short-lived  *)
(* form, and completion verifies the newest version under the intent's     *)
(* key, pins exactly that version, and turns intent into job, source,      *)
(* event, receipt and work in one transaction.                             *)
(*                                                                         *)
(* The pin and the transaction are writes to two services.  A completion   *)
(* that does not win hands its version back to the lifecycle rule unless   *)
(* the intent it reads refers to that version, so completions, their       *)
(* compensations and the lifecycle rule race over the tag of a version.    *)
(*                                                                         *)
(* The forms fix key, size, type and checksum, so every version holds the  *)
(* declared bytes.  Time is counted in ticks of half a day.                *)
(***************************************************************************)
EXTENDS Naturals, FiniteSets

CONSTANTS
  Requests,      \* invocations of the upload handlers alive at once
  Keys,          \* idempotency keys of completions, cancellations, renewals
  MaxVersions,   \* bound: versions posted under the key
  AuthTTL,       \* UPLOAD_AUTHORIZATION_TTL
  IntentTTL,     \* UPLOAD_INTENT_TTL
  LifecycleAge,  \* ExpirationInDays of the staged-artwork rule
  InvocationLimit, \* time limit of a Lambda
  LastCreate,    \* bound: an intent is created up to this time
  MaxClock       \* bound of the clock

ASSUME UploadAssumption ==
  /\ {MaxVersions, AuthTTL, IntentTTL, LifecycleAge, InvocationLimit, LastCreate, MaxClock}
       \subseteq Nat
  /\ AuthTTL > 0 /\ AuthTTL <= IntentTTL /\ IntentTTL <= LifecycleAge

VARIABLES
  clock,
  intent,    \* the intent row
  receipts,  \* the upload receipts: command and key
  job,       \* the job a completion creates, with its source version
  object,    \* the versions under the intent's key, in the order they were posted
  request    \* the invocations

uploadVars == <<clock, intent, receipts, job, object, request>>

Versions == 1..MaxVersions
Statuses == {"absent", "open", "completed", "cancelled"}
Tags == {"none", "staged", "pinned", "deleted"}

NoIntent == [status |-> "absent", version |-> 0, authUntil |-> 0, expires |-> 0, completed |-> 0]
NoJob == [state |-> "absent", version |-> 0, updated |-> 0]
\* by: who wrote the tag last.
Unposted == [tag |-> "none", created |-> 0, by |-> "nobody"]
Idle == [pc |-> "idle", key |-> 0, read |-> NoIntent, observed |-> 0, began |-> 0]

UploadInit ==
  /\ clock = 0 /\ intent = NoIntent /\ receipts = {} /\ job = NoJob
  /\ object = [v \in Versions |-> Unposted]
  /\ request = [p \in Requests |-> Idle]

At(p, pc) == request[p].pc = pc
Goes(p, r) == request' = [request EXCEPT ![p] = r]
Done(p) == Goes(p, Idle)

Posted == {v \in Versions : object[v].tag # "none"}
Exists(v) == v \in Versions /\ object[v].tag \in {"staged", "pinned"}
Tagged(v, tag, by) == object' = [object EXCEPT ![v].tag = tag, ![v].by = by]

Earlier(a, b) == IF a <= b THEN a ELSE b

IsOpen(i) == i.status = "open" /\ clock < i.expires
Refers(i, v) == i.status = "completed" /\ i.completed = v

-----------------------------------------------------------------------------
(* create, authorize, cancel                                               *)

\* A known key is replayed; the stored intent decides whether a form is issued.
Create(p) ==
  /\ At(p, "idle") /\ intent.status = "absent" /\ receipts = {}
  /\ clock <= LastCreate
  /\ intent' = [NoIntent EXCEPT !.status = "open", !.expires = clock + IntentTTL,
                                !.authUntil = clock + AuthTTL]
  /\ receipts' = {[command |-> "create", key |-> 0]}
  /\ UNCHANGED <<clock, job, object, request>>

\* A command on the intent reads its receipt, then the row its transaction will compare.
Begin(p, command, k) ==
  /\ At(p, "idle") /\ [command |-> command, key |-> k] \notin receipts
  /\ IsOpen(intent)
  /\ command = "authorize" => intent.authUntil <= clock
  /\ Goes(p, [Idle EXCEPT !.pc = IF command = "complete" THEN "observe" ELSE command,
                          !.key = k, !.read = intent, !.began = clock])
  /\ UNCHANGED <<clock, intent, receipts, job, object>>

\* The row is replaced only if it is still the one read and the receipt is new.
Unchanged(p, command) ==
  /\ intent = request[p].read
  /\ [command |-> command, key |-> request[p].key] \notin receipts

Authorize(p) ==
  LET r == request[p] IN
  /\ At(p, "authorize") /\ Unchanged(p, "authorize")
  /\ intent' = [intent EXCEPT !.version = @ + 1,
                              !.authUntil = Earlier(r.began + AuthTTL, intent.expires)]
  /\ receipts' = receipts \union {[command |-> "authorize", key |-> r.key]}
  /\ Done(p)
  /\ UNCHANGED <<clock, job, object>>

Cancel(p) ==
  /\ At(p, "cancel") /\ Unchanged(p, "cancel")
  /\ intent' = [intent EXCEPT !.version = @ + 1, !.status = "cancelled"]
  /\ receipts' = receipts \union {[command |-> "cancel", key |-> request[p].key]}
  /\ Done(p)
  /\ UNCHANGED <<clock, job, object>>

\* DynamoDB removes open and cancelled rows some time after their expiry.
ExpireIntentRow ==
  /\ intent.status \in {"open", "cancelled"} /\ intent.expires <= clock
  /\ intent' = NoIntent
  /\ UNCHANGED <<clock, receipts, job, object, request>>

\* The browser posts with a form; S3 takes it until it expires, whatever became of the intent.
Post(v) ==
  /\ intent.status # "absent" /\ clock < intent.authUntil
  /\ v \in Versions /\ \A w \in Versions : w < v <=> w \in Posted
  /\ object' = [object EXCEPT ![v] = [tag |-> "staged", created |-> clock, by |-> "form"]]
  /\ UNCHANGED <<clock, intent, receipts, job, request>>

-----------------------------------------------------------------------------
(* complete                                                                *)

\* The newest version is read and verified; a deleted newest version hides the older ones.
Observe(p) ==
  /\ At(p, "observe")
  /\ \E v \in Posted : /\ \A w \in Posted : w <= v
                       /\ Exists(v)
                       /\ Goes(p, [request[p] EXCEPT !.pc = "pin", !.observed = v])
  /\ UNCHANGED <<clock, intent, receipts, job, object>>

\* The intent's authority is rechecked (against the row read) right before the tag is written.
Pin(p) ==
  LET r == request[p] IN
  /\ At(p, "pin") /\ IsOpen(r.read) /\ Exists(r.observed)
  /\ Tagged(r.observed, "pinned", "completion")
  /\ Goes(p, [r EXCEPT !.pc = "recheck"])
  /\ UNCHANGED <<clock, intent, receipts, job>>

\* ... and again after it: an expired completion hands the version back.
Recheck(p) ==
  LET r == request[p] IN
  /\ At(p, "recheck")
  /\ Goes(p, [r EXCEPT !.pc = IF IsOpen(r.read) THEN "commit" ELSE "release"])
  /\ UNCHANGED <<clock, intent, receipts, job, object>>

\* complete_upload: intent, receipt, job, source, event and work commit together.
CommitComplete(p) ==
  LET r == request[p] IN
  /\ At(p, "commit") /\ Unchanged(p, "complete") /\ job = NoJob
  /\ intent' = [intent EXCEPT !.version = @ + 1, !.status = "completed", !.completed = r.observed]
  /\ receipts' = receipts \union {[command |-> "complete", key |-> r.key]}
  /\ job' = [state |-> "active", version |-> r.observed, updated |-> r.began]
  /\ Goes(p, [r EXCEPT !.pc = "release"])
  /\ UNCHANGED <<clock, object>>

\* A conflict, a failure of the store, a replay of another completion: all go the same way.
CommitFails(p) ==
  /\ At(p, "commit") /\ Goes(p, [request[p] EXCEPT !.pc = "release"])
  /\ UNCHANGED <<clock, intent, receipts, job, object>>

\* _release_if_unreferenced: what the intent says now decides which tag is written.
Release(p) ==
  LET r == request[p] IN
  /\ At(p, "release") /\ intent.status # "absent"
  /\ Goes(p, [r EXCEPT !.pc = IF Refers(intent, r.observed) THEN "reassert" ELSE "stage"])
  /\ UNCHANGED <<clock, intent, receipts, job, object>>

Stage(p) ==
  LET r == request[p] IN
  /\ At(p, "stage") /\ Exists(r.observed)
  /\ Tagged(r.observed, "staged", "compensation")
  /\ Goes(p, [r EXCEPT !.pc = "confirm"])
  /\ UNCHANGED <<clock, intent, receipts, job>>

\* A completion may have committed the version between the read and the tag.
Confirm(p) ==
  LET r == request[p] IN
  /\ At(p, "confirm") /\ intent.status # "absent"
  /\ IF Refers(intent, r.observed) THEN Goes(p, [r EXCEPT !.pc = "reassert"]) ELSE Done(p)
  /\ UNCHANGED <<clock, intent, receipts, job, object>>

Reassert(p) ==
  LET r == request[p] IN
  /\ At(p, "reassert") /\ Exists(r.observed)
  /\ Tagged(r.observed, "pinned", "completion")
  /\ Done(p)
  /\ UNCHANGED <<clock, intent, receipts, job>>

\* A request is refused, fails (a failed compensation is swallowed), or dies.
Raise(p) ==
  /\ ~At(p, "idle") /\ Done(p)
  /\ UNCHANGED <<clock, intent, receipts, job, object>>

RequestStep(p) ==
  \/ Create(p)
  \/ \E k \in Keys, c \in {"authorize", "complete", "cancel"} : Begin(p, c, k)
  \/ Authorize(p) \/ Cancel(p)
  \/ Observe(p) \/ Pin(p) \/ Recheck(p) \/ CommitComplete(p) \/ CommitFails(p)
  \/ Release(p) \/ Stage(p) \/ Confirm(p) \/ Reassert(p)
  \/ Raise(p)

UploadNext ==
  \/ \E p \in Requests : RequestStep(p)
  \/ \E v \in Versions : Post(v)
  \/ ExpireIntentRow

-----------------------------------------------------------------------------
\* At most one command ends an intent, the job exists exactly where a completion did, and it
\* refers to the version that completion pinned, whatever completions and cancellations race.
OneOutcome ==
  /\ Cardinality({r \in receipts : r.command \in {"complete", "cancel"}}) <= 1
  /\ (job # NoJob) <=> \E r \in receipts : r.command = "complete"
  /\ intent.status = "completed" => Refers(intent, job.version)

=============================================================================
