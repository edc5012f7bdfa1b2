------------------------- MODULE PublicationRequest -------------------------
(***************************************************************************)
(* The command that asks for the publication of an approved listing        *)
(* (publication/service.py over publication/dynamodb.py), as its callers   *)
(* see it: several invocations at a time, with idempotency keys that are   *)
(* used again, also with another body, and answers that get lost.          *)
(*                                                                         *)
(* The rows of a publication have one identity per job.  They are written  *)
(* together and deleted one at a time (PublicationRetention).              *)
(***************************************************************************)
EXTENDS Naturals, Sequences

CONSTANTS
  Keys,       \* idempotency keys
  Calls,      \* invocations of the request handler
  Repeats,    \* do clients send commands when one has been committed?
  Appended,   \* rows that a worker appends later
  Freshness,  \* for how long a pricing snapshot is fresh
  MaxEdits,   \* bound on the seller's edits before the approval
  MaxClock    \* bound on the clock

ASSUME RequestAssumption == {Freshness, MaxEdits, MaxClock} \subseteq Nat /\ Repeats \in BOOLEAN

VARIABLES
  clock,
  job,      \* the job's row: what the command and its transaction look at
  pinned,   \* is the store connection the job is bound to still the current one?
  rows,     \* the aggregate's rows and the owner's receipt
  receipt,  \* what the receipt row records
  call,     \* the invocations
  issued,   \* history: the requests that got a permit
  told      \* history: the successful answers

jobVars == <<clock, job, pinned>>
requestVars == <<jobVars, rows, receipt, call, issued, told>>

\* The aggregate's row stands also for those that come with it: snapshot, attempt, permit, ...
NewRows == {"meta", "locator", "receipt"}
\* The report stands also for the tombstone and the job link of a terminal publication.
Rows == NewRows \cup {"report"} \cup Appended
RowState == {"absent", "kept", "expiring"}
Present(r) == rows[r] # "absent"

Versions == 0..(MaxEdits + 3)
Requests == [key : Keys, version : Versions, at : 0..MaxClock]
NoRequest == [key |-> "none", version |-> 0, at |-> 0]
Idle == [pc |-> "idle", key |-> "none", version |-> 0, at |-> 0]

RequestInit ==
  /\ clock = 0 /\ pinned = TRUE
  /\ job = [state |-> "review", version |-> 0, linked |-> FALSE, fresh |-> 0, updated |-> 0,
            expiring |-> FALSE]
  /\ rows = [r \in Rows |-> "absent"] /\ receipt = NoRequest
  /\ call = [c \in Calls |-> Idle]
  /\ issued = <<>> /\ told = {}

-----------------------------------------------------------------------------
(* What happens to the job before                                          *)

Tick == clock < MaxClock /\ clock' = clock + 1
        /\ UNCHANGED <<job, pinned, rows, receipt, call, issued, told>>

Edit ==
  /\ job.state = "review" /\ job.version < MaxEdits
  /\ job' = [job EXCEPT !.version = @ + 1, !.updated = clock]
  /\ UNCHANGED <<clock, pinned, rows, receipt, call, issued, told>>

\* Only a synchronized draft with fresh pricing is approved; the approval is final.
Approve ==
  /\ job.state = "review"
  /\ \E f \in (clock + 1)..(clock + Freshness) :
       job' = [job EXCEPT !.state = "approved", !.version = @ + 1, !.updated = clock, !.fresh = f]
  /\ UNCHANGED <<clock, pinned, rows, receipt, call, issued, told>>

Disconnect ==
  /\ pinned /\ pinned' = FALSE
  /\ UNCHANGED <<clock, job, rows, receipt, call, issued, told>>

-----------------------------------------------------------------------------
(* The command                                                             *)

Goes(c, pc) == call' = [call EXCEPT ![c].pc = pc]
Returns(c) == call' = [call EXCEPT ![c] = Idle]
ReadOnly == UNCHANGED <<jobVars, rows, receipt, issued>>

\* resolve_request_receipt: the receipt counts only together with its locator.
Resolved(c) == Present("receipt") /\ Present("locator") /\ receipt.key = call[c].key

\* A key and the version the seller saw; a client may repeat both, or one of them.
Submit(c) ==
  /\ call[c].pc = "idle" /\ (Repeats \/ issued = <<>>)
  /\ \E k \in Keys, v \in 0..job.version :
       call' = [call EXCEPT ![c] = [pc |-> "resolve", key |-> k, version |-> v, at |-> 0]]
  /\ UNCHANGED told /\ ReadOnly

\* Mutant: the receipt's answer is given whatever the command says.
AnswerFromReceiptUnchecked(c) ==
  /\ told' = told \cup {[receipt EXCEPT !.version = call[c].version]}
  /\ Returns(c)

\* _receipt_response: another body under the same key is a conflict.
AnswerFromReceipt(c) ==
  /\ told' = IF receipt.version = call[c].version THEN told \cup {receipt} ELSE told
  /\ Returns(c)

Replay(c) ==
  /\ call[c].pc = "resolve" /\ Resolved(c)
  /\ AnswerFromReceipt(c) /\ ReadOnly

NoReplay(c) ==
  /\ call[c].pc = "resolve" /\ ~Resolved(c)
  /\ Goes(c, "load") /\ UNCHANGED told /\ ReadOnly

\* _require_request_expectations
Admitted(c) == job.state = "approved" /\ ~job.linked /\ job.version = call[c].version

\* _require_temporal_authority
FreshlyPriced == clock >= job.updated /\ clock < job.fresh

\* The authority is frozen as it is read, and dated with the clock.
Load(c) ==
  /\ call[c].pc = "load"
  /\ IF Admitted(c) /\ FreshlyPriced
     THEN call' = [call EXCEPT ![c] = [@ EXCEPT !.pc = "commit", !.version = job.version,
                                                !.at = clock]]
     ELSE Returns(c)
  /\ UNCHANGED told /\ ReadOnly

\* Mutant: the binding's epoch is not part of the transaction.
AuthorityUnchangedUnbound(c) == job.state = "approved" /\ job.version = call[c].version

\* The conditions of the transaction: the job's exact row and the binding's epoch ...
AuthorityUnchanged(c) == job.state = "approved" /\ job.version = call[c].version /\ pinned

\* ... and that nothing of a publication is there.
PutNew == \A r \in NewRows : ~Present(r)

Committed(c) ==
  /\ job' = [job EXCEPT !.version = @ + 1, !.linked = TRUE, !.updated = call[c].at,
                        !.expiring = FALSE]
  /\ rows' = [r \in Rows |-> IF r \in NewRows THEN "kept" ELSE rows[r]]
  /\ receipt' = [key |-> call[c].key, version |-> call[c].version, at |-> call[c].at]
  /\ issued' = Append(issued, receipt')

\* One transaction; its answer may not arrive, and then the handler fails.
Commit(c) ==
  /\ call[c].pc = "commit" /\ AuthorityUnchanged(c) /\ PutNew
  /\ Committed(c)
  /\ told' \in {told, told \cup {receipt'}}
  /\ Returns(c)
  /\ UNCHANGED <<clock, pinned>>

\* A cancelled transaction: the store looks for the receipt, and the service once more.
Cancelled(c) ==
  /\ call[c].pc = "commit" /\ ~(AuthorityUnchanged(c) /\ PutNew)
  /\ Goes(c, "store") /\ UNCHANGED told /\ ReadOnly

StoreResolves(c) ==
  /\ call[c].pc = "store"
  /\ IF Resolved(c) /\ receipt.version = call[c].version THEN AnswerFromReceipt(c)
     ELSE Goes(c, "service") /\ UNCHANGED told
  /\ ReadOnly

ServiceResolves(c) ==
  /\ call[c].pc = "service"
  /\ IF Resolved(c) THEN AnswerFromReceipt(c) ELSE Returns(c) /\ UNCHANGED told
  /\ ReadOnly

\* A read fails, or the invocation ends.
Fails(c) == call[c].pc # "idle" /\ Returns(c) /\ UNCHANGED told /\ ReadOnly

CallStep(c) ==
  \/ Submit(c) \/ Replay(c) \/ NoReplay(c) \/ Load(c) \/ Commit(c) \/ Cancelled(c)
  \/ StoreResolves(c) \/ ServiceResolves(c) \/ Fails(c)

-----------------------------------------------------------------------------
(* Properties                                                              *)

\* The types of the variables.
RequestTypeOK ==
  /\ clock \in 0..MaxClock /\ pinned \in BOOLEAN
  /\ job \in [state : {"review", "approved", "deleted"}, version : Versions, linked : BOOLEAN,
              fresh : 0..(MaxClock + Freshness), updated : 0..MaxClock, expiring : BOOLEAN]
  /\ rows \in [Rows -> RowState]
  /\ receipt \in Requests \cup {NoRequest}
  /\ \A c \in Calls : call[c].pc \in {"idle", "resolve", "load", "commit", "store", "service"}
  /\ issued \in Seq(Requests) /\ told \subseteq Requests

\* One permit for a job, ever: with other keys, and when the rows of its publication have been
\* deleted one by one while the job can still be read.
OnePermitEver == Len(issued) <= 1

\* Whoever is told that the publication is requested is told so of the one request that was
\* committed: its key, its body and its time, whether he asked first, raced or repeated himself.
AnswersAgree == \A t \in told : issued # <<>> /\ t = issued[1]

\* One request, one permit, one answer.
RequestSound == RequestTypeOK /\ OnePermitEver /\ AnswersAgree

\* A permit is created only for the very version that was asked for, dated while its pricing was
\* fresh, and with the store connection in place: whatever changed since the handler looked.
GrantedOnAuthority ==
  [][issued' # issued => LET r == issued'[Len(issued')] IN
       /\ job.state = "approved" /\ job.version = r.version
       /\ job.updated <= r.at /\ r.at < job.fresh
       /\ pinned]_requestVars

=============================================================================
