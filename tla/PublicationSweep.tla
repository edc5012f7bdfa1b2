-------------------------- MODULE PublicationSweep --------------------------
(***************************************************************************)
(* Many publications and the three processes that find their work: the     *)
(* dispatcher, which pages through the due index and writes nothing; the   *)
(* recovery queue, fed by the dispatcher and by Step Functions' failure    *)
(* events; and the recovery sweep, which pages through the index of the    *)
(* active work.  Both indexes are eventually consistent, both pages are    *)
(* limited and oldest first, events get lost, and several recoveries may   *)
(* hold the same failed execution.                                         *)
(*                                                                         *)
(* What the workflow does to one publication is in PublicationMachine;     *)
(* here it makes the work active, touches it, and ends it.                 *)
(***************************************************************************)
EXTENDS Naturals, Sequences, Functions

CONSTANTS
  Pubs,           \* numbers: the older of two rows of one second has the smaller
  Recoverers,     \* invocations of the recovery sweep and of the queue's handler
  Limit,          \* rows of a page (25 in the code)
  PubStaleAfter,  \* age of a recovery hint (2 minutes in the code)
  Deadline,       \* verification_deadline, here of all publications (30 minutes)
  MaxPubRedrives, \* redrives of one execution (3 in the code)
  MaxTouches,     \* bound: updates of one active work
  MaxFailures,    \* bound: failures of one execution before its timeout
  MaxPubFaults    \* bound: recoveries that find a dependency unavailable

ASSUME PubSweepAssumption ==
  /\ Pubs \subseteq Nat /\ Limit \in Nat \ {0} /\ PubStaleAfter \in Nat
  /\ Deadline \in Nat /\ MaxPubRedrives \in Nat /\ MaxTouches \in Nat /\ MaxFailures \in Nat
  /\ MaxPubFaults \in Nat

VARIABLES
  work,        \* the work: "pending", "active", "terminal"
  updated,     \* updated_at of the work
  pubVersion,  \* record_version of the work and its aggregate
  outcome,     \* "open", or what ended it: "workflow", "deadline"
  pubExec,     \* "none", "running", "failed", "exhausted" (a known fail state), "succeeded"
  pubRedrives, \* redriveCount of the execution
  failures,
  pubNow,
  due,         \* the rows of the due index
  hint,        \* the rows of the recovery index, each with its second; Absent without
  pubBatch,    \* the dispatcher's page
  queue,       \* the recovery queue: <<kind, publication>>
  todo,        \* the candidates of each recovery, the one in hand first
  stage,       \* where it stands with that one
  pubSeen,     \* what it has read of it
  pubFaults

rowVars == <<work, updated, pubVersion, outcome>>
execVars == <<pubExec, pubRedrives, failures>>
indexVars == <<due, hint>>
recVars == <<todo, stage, pubSeen, pubFaults>>
pubSweepVars == <<rowVars, execVars, pubNow, indexVars, pubBatch, queue, recVars>>

Absent == Deadline + 1
Unseen == [work |-> "unread", version |-> 0, exec |-> "unread", redrives |-> 0]

PubSweepInit ==
  /\ work = [p \in Pubs |-> "pending"] /\ updated = [p \in Pubs |-> 0]
  /\ pubVersion = [p \in Pubs |-> 1] /\ outcome = [p \in Pubs |-> "open"]
  /\ pubExec = [p \in Pubs |-> "none"] /\ pubRedrives = [p \in Pubs |-> 0]
  /\ failures = [p \in Pubs |-> 0] /\ pubNow = 0
  /\ due = {} /\ hint = [p \in Pubs |-> Absent]
  /\ pubBatch = <<>> /\ queue = {}
  /\ todo = [r \in Recoverers |-> <<>>] /\ stage = [r \in Recoverers |-> "idle"]
  /\ pubSeen = [r \in Recoverers |-> Unseen] /\ pubFaults = 0

-----------------------------------------------------------------------------
(* The workflow, Step Functions, the clock and the indexes.                *)

NoRecovery == UNCHANGED <<indexVars, pubBatch, recVars>>

\* The workflow's first command, and any later one that does not end the publication.
WorkflowTouches(p) ==
  /\ pubExec[p] = "running" /\ work[p] # "terminal" /\ pubVersion[p] <= MaxTouches
  /\ work' = [work EXCEPT ![p] = "active"]
  /\ updated' = [updated EXCEPT ![p] = pubNow]
  /\ pubVersion' = [pubVersion EXCEPT ![p] = @ + 1]
  /\ UNCHANGED <<outcome, execVars, pubNow, queue>> /\ NoRecovery

WorkflowEnds(p) ==
  /\ pubExec[p] = "running" /\ work[p] = "active"
  /\ work' = [work EXCEPT ![p] = "terminal"]
  /\ outcome' = [outcome EXCEPT ![p] = "workflow"]
  /\ pubVersion' = [pubVersion EXCEPT ![p] = @ + 1]
  /\ UNCHANGED <<updated, execVars, pubNow, queue>> /\ NoRecovery

ExecutionSucceeds(p) ==
  /\ pubExec[p] = "running" /\ work[p] = "terminal"
  /\ pubExec' = [pubExec EXCEPT ![p] = "succeeded"]
  /\ UNCHANGED <<rowVars, pubRedrives, failures, pubNow, queue>> /\ NoRecovery

\* A failure, with an event that may be lost; or a fail state of its own; or its timeout.
ExecutionFails(p) ==
  /\ pubExec[p] = "running"
  /\ \/ /\ failures[p] < MaxFailures /\ failures' = [failures EXCEPT ![p] = @ + 1]
        /\ \E e \in {"failed", "exhausted"} : pubExec' = [pubExec EXCEPT ![p] = e]
     \/ pubNow = Deadline /\ pubExec' = [pubExec EXCEPT ![p] = "failed"] /\ UNCHANGED failures
  /\ queue' = queue \cup {<<"failure", p>>} \/ UNCHANGED queue
  /\ UNCHANGED <<rowVars, pubRedrives, pubNow>> /\ NoRecovery

\* next_dispatch_at is there while the work is pending, and is never moved.
DueRow(p) == work[p] = "pending"

RecoveryRow(p) == IF work[p] = "active" THEN updated[p] ELSE Absent

Behind(p) == (p \in due) # DueRow(p) \/ hint[p] # RecoveryRow(p)

PubIndexCatchesUp(p) ==
  /\ Behind(p)
  /\ due' = IF DueRow(p) THEN due \cup {p} ELSE due \ {p}
  /\ hint' = [hint EXCEPT ![p] = RecoveryRow(p)]
  /\ UNCHANGED <<rowVars, execVars, pubNow, pubBatch, queue, recVars>>

PubTick == pubNow < Deadline /\ pubNow' = pubNow + 1
        /\ UNCHANGED <<rowVars, execVars, queue>> /\ NoRecovery

-----------------------------------------------------------------------------
(* The dispatcher.                                                         *)

PubOlder(at, p, o) == at[p] < at[o] \/ (at[p] = at[o] /\ p < o)

\* A page of an index: its first rows, in the order of their times.
PubPage(q, all, at) ==
  /\ \A i, j \in DOMAIN q : i < j => PubOlder(at, q[i], q[j])
  /\ Len(q) = Limit \/ Range(q) = all
  /\ \A p \in Range(q), o \in all \ Range(q) : PubOlder(at, p, o)

\* list_due_publication_work: all publications were due from the start.
ListDue ==
  /\ pubBatch = <<>>
  /\ \E n \in 1..Limit : \E q \in [1..n -> due] :
       PubPage(q, due, [p \in Pubs |-> 0]) /\ pubBatch' = q
  /\ UNCHANGED <<rowVars, execVars, pubNow, indexVars, queue, recVars>>

\* Mutant of Dispatch: an expired row is left to the recovery sweep.
DispatchLive ==
  LET p == Head(pubBatch) IN
  /\ pubBatch # <<>> /\ pubBatch' = Tail(pubBatch)
  /\ \/ pubNow >= Deadline /\ UNCHANGED <<pubExec, queue>>
     \/ /\ pubNow < Deadline /\ pubExec[p] = "none"
        /\ pubExec' = [pubExec EXCEPT ![p] = "running"] \/ UNCHANGED pubExec
        /\ UNCHANGED queue
     \/ /\ pubNow < Deadline /\ pubExec[p] \in {"failed", "exhausted"}
        /\ queue' = queue \cup {<<"failure", p>>} /\ UNCHANGED pubExec
     \/ pubNow < Deadline /\ pubExec[p] \in {"running", "succeeded"} /\ UNCHANGED <<pubExec, queue>>
  /\ UNCHANGED <<rowVars, pubRedrives, failures, pubNow, indexVars, recVars>>

\* One row of the page, from its index entry alone: past its deadline it goes to the queue;
\* otherwise its execution is started, unless Step Functions is unavailable, or described, and a
\* failed one goes to the queue.  RETRY_REQUIRED does not stop the page.
Dispatch ==
  LET p == Head(pubBatch) IN
  /\ pubBatch # <<>> /\ pubBatch' = Tail(pubBatch)
  /\ \/ pubNow >= Deadline /\ queue' = queue \cup {<<"deadline", p>>} /\ UNCHANGED pubExec
     \/ /\ pubNow < Deadline /\ pubExec[p] = "none"
        /\ pubExec' = [pubExec EXCEPT ![p] = "running"] \/ UNCHANGED pubExec
        /\ UNCHANGED queue
     \/ /\ pubNow < Deadline /\ pubExec[p] \in {"failed", "exhausted"}
        /\ queue' = queue \cup {<<"failure", p>>} /\ UNCHANGED pubExec
     \/ pubNow < Deadline /\ pubExec[p] \in {"running", "succeeded"} /\ UNCHANGED <<pubExec, queue>>
  /\ UNCHANGED <<rowVars, pubRedrives, failures, pubNow, indexVars, recVars>>

-----------------------------------------------------------------------------
(* Recovery: of the page of a sweep, or of one message.                    *)

PubWorld == UNCHANGED <<pubNow, indexVars, pubBatch, pubFaults>>
PubRows == UNCHANGED <<rowVars, execVars>>

Candidate(kind, p, epoch) == [kind |-> kind, pub |-> p, epoch |-> epoch]

\* list_recovery_candidates: the first page of the rows old enough.
Sweep(r) ==
  LET stale == {p \in Pubs : hint[p] + PubStaleAfter <= pubNow} IN
  /\ stage[r] = "idle"
  /\ \E n \in 1..Limit : \E q \in [1..n -> stale] :
       /\ PubPage(q, stale, hint)
       /\ todo' = [todo EXCEPT ![r] = [i \in 1..n |-> Candidate("hint", q[i], hint[q[i]])]]
  /\ stage' = [stage EXCEPT ![r] = "start"]
  /\ UNCHANGED <<queue, pubSeen>> /\ PubRows /\ PubWorld

\* One message; it stays in the queue until it has succeeded or its receives are used up.
Receive(r, m) ==
  /\ stage[r] = "idle" /\ m \in queue
  /\ todo' = [todo EXCEPT ![r] = <<Candidate(m[1], m[2], Absent)>>]
  /\ stage' = [stage EXCEPT ![r] = "start"]
  /\ UNCHANGED <<queue, pubSeen>> /\ PubRows /\ PubWorld

InHand(r) == Head(todo[r])

\* One candidate is done, well or not: the others of the page do not starve.  A message is
\* deleted, or kept for another receive.
Leave(r) ==
  /\ todo' = [todo EXCEPT ![r] = Tail(@)]
  /\ stage' = [stage EXCEPT ![r] = IF Len(todo[r]) = 1 THEN "idle" ELSE "start"]
  /\ pubSeen' = [pubSeen EXCEPT ![r] = Unseen]

PubDone(r) ==
  Leave(r) /\ queue' = IF InHand(r).kind = "hint" THEN queue
                       ELSE queue \ {<<InHand(r).kind, InHand(r).pub>>}

PubGoto(r, label) == stage' = [stage EXCEPT ![r] = label] /\ UNCHANGED <<todo, queue>>

Loaded(r, p) == pubSeen' = [pubSeen EXCEPT ![r].work = work[p], ![r].version = pubVersion[p]]
Described(r, p) ==
  pubSeen' = [pubSeen EXCEPT ![r].exec = pubExec[p], ![r].redrives = pubRedrives[p]]

\* The strong load.  Of a hint it comes first, and a hint older than its row is stale; of a
\* failure event it comes after the description.
LoadPublication(r) ==
  LET c == InHand(r) IN
  /\ stage[r] # "idle" /\ stage[r] = (IF c.kind = "failure" THEN "described" ELSE "start")
  /\ PubRows /\ PubWorld
  /\ \/ work[c.pub] = "terminal" /\ PubDone(r)
     \/ c.kind = "hint" /\ work[c.pub] = "active" /\ updated[c.pub] > c.epoch /\ PubDone(r)
     \/ /\ work[c.pub] # "terminal"
        /\ c.kind = "hint" => updated[c.pub] = c.epoch
        /\ Loaded(r, c.pub)
        /\ PubGoto(r, IF c.kind = "hint" THEN "loaded" ELSE "bound")

DescribePublication(r) ==
  LET c == InHand(r) IN
  /\ stage[r] # "idle" /\ stage[r] = (IF c.kind = "hint" THEN "loaded" ELSE "start")
  /\ c.kind # "deadline"
  /\ pubExec[c.pub] # "none" /\ Described(r, c.pub)
  /\ PubGoto(r, IF c.kind = "hint" THEN "bound" ELSE "described")
  /\ PubRows /\ PubWorld

\* _command_basis: every record version that was read.
Unchanged(r, p) == pubSeen[r].version = pubVersion[p]

\* _settle_deadline, of whatever execution there is.
SettleDeadline(r) ==
  LET p == InHand(r).pub IN
  /\ stage[r] = "bound" /\ pubNow >= Deadline /\ Unchanged(r, p)
  /\ work' = [work EXCEPT ![p] = "terminal"]
  /\ outcome' = [outcome EXCEPT ![p] = "deadline"]
  /\ pubVersion' = [pubVersion EXCEPT ![p] = @ + 1]
  /\ PubDone(r) /\ UNCHANGED <<updated, execVars>> /\ PubWorld

FindRunning(r) ==
  /\ stage[r] = "bound" /\ pubNow < Deadline /\ pubSeen[r].exec = "running"
  /\ PubDone(r) /\ PubRows /\ PubWorld

Redrivable(r) == pubSeen[r].exec = "failed" /\ pubSeen[r].redrives < MaxPubRedrives

\* Mutant of Redriven: every call has a token of its own.
RedrivenAnew(r, p) == pubExec[p] = "failed"

\* Step Functions takes a redrive whose token, of the execution and its redriveCount, is new.
Redriven(r, p) == pubExec[p] = "failed" /\ pubSeen[r].redrives = pubRedrives[p]

Redrive(r) ==
  LET p == InHand(r).pub IN
  /\ stage[r] = "bound" /\ pubNow < Deadline /\ Redrivable(r)
  /\ IF Redriven(r, p)
       THEN /\ pubExec' = [pubExec EXCEPT ![p] = "running"]
            /\ pubRedrives' = [pubRedrives EXCEPT ![p] = @ + 1]
       ELSE UNCHANGED <<pubExec, pubRedrives>>
  /\ PubDone(r) /\ UNCHANGED <<rowVars, failures>> /\ PubWorld

\* A message that failed is received again, until its receives are used up.
GiveUp(r) ==
  /\ Leave(r)
  /\ \/ UNCHANGED queue
     \/ InHand(r).kind # "hint" /\ queue' = queue \ {<<InHand(r).kind, InHand(r).pub>>}

\* NON_REDRIVABLE, a success without its authority, or versions that have moved.
Refuse(r) ==
  LET p == InHand(r).pub IN
  /\ stage[r] = "bound"
  /\ \/ pubNow < Deadline /\ pubSeen[r].exec # "running" /\ ~Redrivable(r)
     \/ pubNow >= Deadline /\ ~Unchanged(r, p)
  /\ GiveUp(r) /\ PubRows /\ PubWorld

PubUnavailable(r) ==
  /\ stage[r] # "idle" /\ pubFaults < MaxPubFaults /\ pubFaults' = pubFaults + 1
  /\ GiveUp(r) /\ PubRows /\ UNCHANGED <<pubNow, indexVars, pubBatch>>

RecoverStep(r) ==
  \/ LoadPublication(r) \/ DescribePublication(r) \/ SettleDeadline(r)
  \/ FindRunning(r) \/ Redrive(r) \/ Refuse(r)

PubSweepNext ==
  \/ \E p \in Pubs :
       \/ WorkflowTouches(p) \/ WorkflowEnds(p) \/ ExecutionSucceeds(p) \/ ExecutionFails(p)
       \/ PubIndexCatchesUp(p)
  \/ PubTick \/ ListDue \/ Dispatch
  \/ \E r \in Recoverers :
       Sweep(r) \/ (\E m \in queue : Receive(r, m)) \/ RecoverStep(r) \/ PubUnavailable(r)

PubSweepSpec == PubSweepInit /\ [][PubSweepNext]_pubSweepVars

\* The rules invoke the dispatcher and the sweep for ever, the queue is polled, invocations go
\* on, and the indexes and the clock advance.  A workflow owes nothing but its timeout.
PubSweepFairness ==
  /\ WF_pubSweepVars(PubTick) /\ WF_pubSweepVars(\E p \in Pubs : PubIndexCatchesUp(p))
  /\ WF_pubSweepVars(ListDue \/ Dispatch)
  /\ WF_pubSweepVars(pubNow = Deadline /\ \E p \in Pubs : ExecutionFails(p))
  /\ \A r \in Recoverers :
       /\ WF_pubSweepVars(RecoverStep(r)) /\ SF_pubSweepVars(Sweep(r))
       /\ SF_pubSweepVars(\E p \in Pubs : Receive(r, <<"deadline", p>>))

-----------------------------------------------------------------------------
(* Properties.                                                             *)

\* The variables stay in their types; a recovery at work has a candidate in hand, of a page of
\* at most Limit; what it read is no later than the rows.  (PublicationRecoverySweeper.sweep)
PubSweepTypeOK ==
  /\ work \in [Pubs -> {"pending", "active", "terminal"}]
  /\ outcome \in [Pubs -> {"open", "workflow", "deadline"}]
  /\ \A p \in Pubs : (work[p] = "terminal") = (outcome[p] # "open")
  /\ pubExec \in [Pubs -> {"none", "running", "failed", "exhausted", "succeeded"}]
  /\ updated \in [Pubs -> 0..pubNow] /\ pubNow \in 0..Deadline
  /\ due \subseteq Pubs /\ hint \in [Pubs -> 0..pubNow \cup {Absent}]
  /\ queue \subseteq {"failure", "deadline"} \X Pubs /\ Len(pubBatch) <= Limit
  /\ stage \in [Recoverers -> {"idle", "start", "loaded", "described", "bound"}]
  /\ \A r \in Recoverers :
       /\ (stage[r] = "idle") = (todo[r] = <<>>) /\ Len(todo[r]) <= Limit
       /\ stage[r] # "idle" => pubSeen[r].version <= pubVersion[InHand(r).pub]

\* However many recoveries hold the same failed execution, from the event, the dispatcher and
\* the sweep, it is redriven no more often than allowed.  (_redrive_token, maximum_redrives)
RedrivesBounded == PubSweepTypeOK /\ \A p \in Pubs : pubRedrives[p] <= MaxPubRedrives

\* The end a publication has reached, by its workflow or by its deadline, is never replaced by a
\* recovery that had read it open.  (_settle_deadline, _command_basis)
OutcomeKept == [][\A p \in Pubs : outcome[p] # "open" => outcome'[p] = outcome[p]]_outcome

\* Every publication ends, once, whichever events are lost, behind a page of one row.  A pending
\* one is seen by the dispatcher only, an active one by the recovery sweep only.
EveryPublicationEnds ==
  OutcomeKept /\ (PubSweepFairness => <>(\A p \in Pubs : outcome[p] # "open"))
=============================================================================
