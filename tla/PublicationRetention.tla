------------------------ MODULE PublicationRetention ------------------------
(***************************************************************************)
(* What becomes of a publication's rows.  Its workers append to them until *)
(* the settlement; the stream record of the settlement then makes          *)
(* publication/retention.py give every row one expiry, batch by batch, and *)
(* leave a marker last.  The marker is what lets the source be released.   *)
(* DynamoDB deletes expired rows in any order.                             *)
(***************************************************************************)
EXTENDS PublicationRequest, FiniteSets

CONSTANTS
  Deliveries,    \* invocations of the retention handler
  Lifetime,      \* operational_expires_at - terminal_at
  BatchSize,     \* rows of a batch besides its guards
  MaxDeliveries, \* 1 + MaximumRetryAttempts
  NoDelivery

ASSUME RetentionAssumption ==
  /\ {Lifetime, BatchSize, MaxDeliveries} \subseteq Nat \ {0} /\ NoDelivery \notin Deliveries
  /\ IsFiniteSet(Appended) /\ Appended \cap (NewRows \cup {"report", "job"}) = {}

VARIABLES
  root,     \* the aggregate's row: its version, and when it became terminal
  worker,   \* the version of it that a worker has read
  stream,   \* the record of the settlement: deliveries made, and where it is
  ret,      \* the invocations of the retention handler
  marker    \* whose completion marker is there

retentionVars == <<root, worker, stream, ret, marker>>
vars == <<requestVars, retentionVars>>

NoTime == MaxClock + 1
\* An append moves the aggregate, and so does the settlement.
MaxRoot == Cardinality(Appended) + 1
NotRead == MaxRoot + 1
Asleep == [pc |-> "idle", todo |-> {}]

Init ==
  /\ RequestInit
  /\ root = [version |-> 0, terminal |-> NoTime] /\ worker = NotRead
  /\ stream = [tries |-> 0, at |-> "none"]
  /\ ret = [d \in Deliveries |-> Asleep] /\ marker = NoDelivery

Terminal == root.terminal # NoTime
Expiry == root.terminal + Lifetime

-----------------------------------------------------------------------------
(* The publication                                                         *)

\* The invocations of the request handler know nothing of all this.
RequestStep == (Tick \/ Edit \/ Approve \/ Disconnect \/ \E c \in Calls : CallStep(c))
               /\ UNCHANGED retentionVars

ReadRoot ==
  /\ Present("meta") /\ ~Terminal /\ worker' = root.version
  /\ UNCHANGED <<requestVars, root, stream, ret, marker>>

\* Mutant: a worker appends without a condition on the aggregate.
AppendRowBlindly ==
  /\ worker # NotRead /\ worker' = NotRead
  /\ \E r \in Appended : ~Present(r) /\ rows' = [rows EXCEPT ![r] = "kept"]
  /\ UNCHANGED <<jobVars, receipt, call, issued, told, root, stream, ret, marker>>

\* commit_provider_audit: an append moves the aggregate it has read.
AppendRow ==
  /\ Present("meta") /\ worker = root.version /\ worker' = NotRead
  /\ \E r \in Appended : ~Present(r) /\ rows' = [rows EXCEPT ![r] = "kept"]
  /\ root' = [root EXCEPT !.version = @ + 1]
  /\ UNCHANGED <<jobVars, receipt, call, issued, told, stream, ret, marker>>

\* The settlement, by any of them, on the aggregate as it is then; it writes the report, the
\* tombstone and the job's summary with it.  A worker may be left with what it has read before.
SettlePublication ==
  /\ Present("meta") /\ ~Terminal
  /\ root' = [version |-> root.version + 1, terminal |-> clock]
  /\ rows' = [rows EXCEPT !["report"] = "kept"]
  /\ job' = [job EXCEPT !.version = @ + 1, !.updated = clock]
  /\ stream' = [stream EXCEPT !.at = "waiting"]
  /\ UNCHANGED <<clock, pinned, receipt, call, issued, told, worker, ret, marker>>

-----------------------------------------------------------------------------
(* The retention handler                                                   *)

Turn(d, pc) == ret' = [ret EXCEPT ![d].pc = pc]
Quiet == UNCHANGED <<requestVars, root, worker, marker>>
Targets == {r \in Rows : Present(r)} \cup {"job"}
Expiring(r) == IF r = "job" THEN job.expiring ELSE rows[r] = "expiring"
Written == Rows \ Appended
\* The inventory must be the whole history of the aggregate, and the job's row.
Whole == job.state # "deleted" /\ \A r \in Written : Present(r)

\* At least once: a delivery may overlap an earlier one.
Deliver(d) ==
  /\ stream.at = "waiting" /\ stream.tries < MaxDeliveries /\ ret[d].pc = "idle"
  /\ stream' = [tries |-> stream.tries + 1, at |-> "delivered"]
  /\ ret' = [ret EXCEPT ![d] = [pc |-> "load", todo |-> {}]]
  /\ Quiet

Redeliver ==
  /\ stream.at = "delivered" /\ stream.tries < MaxDeliveries
  /\ stream' = [stream EXCEPT !.at = "waiting"]
  /\ UNCHANGED ret /\ Quiet

\* Mutant: a record that failed is dropped.
RaiseDropped(d) ==
  /\ ret[d].pc # "idle"
  /\ ret' = [ret EXCEPT ![d] = Asleep]
  /\ stream' = [stream EXCEPT !.at = "done"]
  /\ Quiet

\* An error, a conflict or a crash: the record is retried, and at last handed to the operators.
Raise(d) ==
  /\ ret[d].pc # "idle"
  /\ ret' = [ret EXCEPT ![d] = Asleep]
  /\ stream' = [stream EXCEPT !.at =
       IF @ = "done" THEN "done" ELSE IF stream.tries < MaxDeliveries THEN "waiting" ELSE "dead"]
  /\ Quiet

Done(d) ==
  /\ ret' = [ret EXCEPT ![d] = Asleep]
  /\ stream' = [stream EXCEPT !.at = "done"]

\* assign: within the operational lifetime only.
WithinLifetime == root.terminal <= clock /\ clock < Expiry

\* The settled aggregate, its job, its locator and the receipt that it names.
LoadAuthority(d) ==
  /\ ret[d].pc = "load" /\ WithinLifetime
  /\ job.state # "deleted" /\ \A r \in {"meta", "report", "locator", "receipt"} : Present(r)
  /\ Turn(d, "inventory") /\ UNCHANGED stream /\ Quiet

LoadInventory(d) ==
  /\ ret[d].pc = "inventory" /\ Whole /\ marker = NoDelivery
  /\ ret' = [ret EXCEPT ![d] = [pc |-> "first", todo |-> Targets \ {"meta", "job"}]]
  /\ UNCHANGED stream /\ Quiet

\* A marker that is there already is the answer, if what it says is so.
FindMarker(d) ==
  /\ ret[d].pc = "inventory" /\ Whole /\ marker # NoDelivery
  /\ \A r \in Targets : Expiring(r)
  /\ Done(d) /\ Quiet

\* Rows that get the expiry in one transaction; each is the row that was read.
Assign(batch) ==
  /\ \A r \in batch \ {"job"} : Present(r)
  /\ "job" \in batch => job.state # "deleted"
  /\ rows' = [r \in Rows |-> IF r \in batch THEN "expiring" ELSE rows[r]]
  /\ job' = [job EXCEPT !.expiring = @ \/ "job" \in batch]

Batch(d, chunk) ==
  /\ chunk \subseteq ret[d].todo
  /\ Cardinality(chunk) = BatchSize \/ (chunk = ret[d].todo /\ Cardinality(chunk) < BatchSize)

\* The first batch holds both guards of the later ones.
AssignFirst(d) ==
  /\ ret[d].pc = "first"
  /\ \E chunk \in SUBSET ret[d].todo :
       /\ Batch(d, chunk) /\ Assign(chunk \cup {"meta", "job"})
       /\ ret' = [ret EXCEPT ![d] = [pc |-> "next", todo |-> @.todo \ chunk]]
  /\ UNCHANGED <<clock, pinned, receipt, call, issued, told, root, worker, stream, marker>>

GuardsHold == rows["meta"] = "expiring" /\ job.state # "deleted" /\ job.expiring

AssignNext(d) ==
  /\ ret[d].pc = "next" /\ ret[d].todo # {}
  /\ GuardsHold
  /\ \E chunk \in SUBSET ret[d].todo :
       /\ Batch(d, chunk) /\ Assign(chunk)
       /\ ret' = [ret EXCEPT ![d].todo = @ \ chunk]
  /\ UNCHANGED <<clock, pinned, receipt, call, issued, told, root, worker, stream, marker>>

\* Everything is read again, and every row must carry the expiry.
Prove(d) ==
  /\ ret[d].pc = "next" /\ ret[d].todo = {}
  /\ Whole /\ \A r \in Targets : Expiring(r)
  /\ Turn(d, "mark") /\ UNCHANGED stream /\ Quiet

Guarded == {"meta", "job", "report", "locator", "receipt"}

\* The marker is new, and its transaction is conditioned on the rows that identify the rest.
Mark(d) ==
  /\ ret[d].pc = "mark" /\ marker = NoDelivery
  /\ job.state # "deleted" /\ \A r \in Guarded : Expiring(r)
  /\ marker' = d
  /\ \/ Done(d)
     \/ Turn(d, "replay") /\ UNCHANGED stream
  /\ UNCHANGED <<requestVars, root, worker>>

\* Its answer was lost, or another delivery was faster.
MarkRefused(d) == ret[d].pc = "mark" /\ marker # NoDelivery /\ Turn(d, "replay")
                  /\ UNCHANGED stream /\ Quiet

\* A marker with this invocation's own time of completion is its own.
ReplayMarker(d) ==
  /\ ret[d].pc = "replay" /\ marker = d /\ Whole /\ (\A r \in Targets : Expiring(r))
  /\ Done(d) /\ Quiet

-----------------------------------------------------------------------------
(* DynamoDB's deletions                                                    *)

DeleteRow ==
  /\ Terminal /\ clock >= Expiry
  /\ \/ \E r \in Rows : /\ rows[r] = "expiring"
                        /\ rows' = [rows EXCEPT ![r] = "absent"]
                        /\ UNCHANGED job
     \/ /\ job.expiring /\ job.state # "deleted"
        /\ job' = [job EXCEPT !.state = "deleted"]
        /\ UNCHANGED rows
  /\ UNCHANGED <<clock, pinned, receipt, call, issued, told, retentionVars>>

RetentionStep(d) ==
  \/ LoadAuthority(d) \/ LoadInventory(d) \/ FindMarker(d)
  \/ AssignFirst(d) \/ AssignNext(d) \/ Prove(d)
  \/ Mark(d) \/ MarkRefused(d) \/ ReplayMarker(d)

Next ==
  \/ RequestStep \/ ReadRoot \/ AppendRow \/ SettlePublication \/ Redeliver \/ DeleteRow
  \/ \E d \in Deliveries : Deliver(d) \/ Raise(d) \/ RetentionStep(d)

Spec == Init /\ [][Next]_vars

\* A waiting record is delivered, and an invocation goes on or ends.
Fairness ==
  /\ WF_vars(\E d \in Deliveries : Deliver(d))
  /\ \A d \in Deliveries : WF_vars(Raise(d) \/ RetentionStep(d))

-----------------------------------------------------------------------------
(* Properties                                                              *)

\* The types of this module's variables.
RetentionTypeOK ==
  /\ root \in [version : 0..MaxRoot, terminal : 0..NoTime]
  /\ worker \in 0..MaxRoot \cup {NotRead}
  /\ stream \in [tries : 0..MaxDeliveries,
                 at : {"none", "waiting", "delivered", "done", "dead"}]
  /\ ret \in [Deliveries -> [pc : {"idle", "load", "inventory", "first", "next", "mark", "replay"},
                             todo : SUBSET Rows]]
  /\ marker \in Deliveries \cup {NoDelivery}

\* The marker says that every row of the publication expires: none is left without an expiry,
\* not even one that a slow worker meant to append.
MarkedMeansExpiring ==
  /\ RetentionTypeOK
  /\ marker # NoDelivery => /\ \A r \in Rows : rows[r] # "kept"
                            /\ job.expiring

\* A settled publication is marked, or its record reaches the operators: it is not forgotten.
MarkedOrReported == Fairness => (Terminal ~> (marker # NoDelivery \/ stream.at = "dead"))

=============================================================================
