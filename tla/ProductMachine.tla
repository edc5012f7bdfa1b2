--------------------------- MODULE ProductMachine ---------------------------
(***************************************************************************)
(* The processes around one ControlJob and the print provider they write   *)
(* to: a Step Functions execution per work request, the worker Lambda it   *)
(* invokes, the settlement Lambda that follows it, and the sweeper that    *)
(* settles executions that died.  A worker is modelled at the granularity  *)
(* of its store commands and provider calls, so it can be overtaken by a   *)
(* seller, by the settlement of its own work and by its successor between  *)
(* any two of them.                                                        *)
(*                                                                         *)
(* Nothing stops a worker that Step Functions has given up: it runs on     *)
(* beside the settlement of its work and beside its successors.  Most      *)
(* commands name the caller's work and are refused when it is no longer    *)
(* active, which makes the worker raise: the conjunct Owns(w).  The two    *)
(* that consume a permit name only the attempt, and serve any worker that  *)
(* carries it, under the authority of whatever work is active.             *)
(***************************************************************************)
EXTENDS ControlJob, FiniteSets

CONSTANTS
  MaxFaults,    \* bound: crashes, lost invocations, lost replies, unavailable reads
  SellerWork    \* bound: the seller opens no work once this many exist

ASSUME MachineAssumption ==
  MaxFaults \in Nat /\ SellerWork \in 0..MaxWork

VARIABLES
  exec,     \* the Step Functions execution of each work request
  pc,       \* where its worker Lambda stands
  seen,     \* what a reconciliation read at the provider
  attempt,  \* the ProviderWriteAttempt the worker carries
  calls,    \* provider calls given up by their sender that may still take effect
  images,   \* artwork uploads the provider holds
  products, \* products the provider holds
  payload,  \* the review the product carries, 0 without a product
  faults,   \* faults spent
  overtaken \* history: an update was recorded as not applied and may be applied after that

machineVars  == <<exec, pc, seen, attempt>>
providerVars == <<images, products, payload>>
callVars     == <<calls, faults, overtaken>>
allVars == <<vars, machineVars, providerVars, callVars>>

NoAttempt == [work |-> 0, op |-> "none", prior |-> 0]

MachineInit ==
  /\ Init
  /\ exec = [w \in WorkId |-> "none"]
  /\ pc = [w \in WorkId |-> "off"]
  /\ seen = [w \in WorkId |-> "nothing"]
  /\ attempt = [w \in WorkId |-> NoAttempt]
  /\ images = 0 /\ products = 0 /\ payload = 0
  /\ calls = {} /\ faults = 0 /\ overtaken = FALSE

-----------------------------------------------------------------------------
(* Executions and worker control flow.                                     *)

Fault == faults < MaxFaults /\ faults' = faults + 1

\* The store accepts commands in the name of w: it is the active work.
Owns(w) == active = w

\* The execution is created under a name derived from the work, so a redriven claim finds
\* it instead of starting another.
StartExecution(w) ==
  /\ works[w].status = "claimed" /\ exec[w] = "none"
  /\ exec' = [exec EXCEPT ![w] = "worker"]
  /\ pc' = [pc EXCEPT ![w] = "start"]
  /\ UNCHANGED <<vars, seen, attempt, providerVars, callVars>>

Goto(w, label) ==
  /\ pc' = [pc EXCEPT ![w] = label]
  /\ UNCHANGED <<exec, seen, attempt>>

\* Whatever a worker knew is gone with it.
Stop(w, next) ==
  /\ pc' = [pc EXCEPT ![w] = "off"]
  /\ exec' = [exec EXCEPT ![w] = IF @ = "worker" THEN next ELSE @]
  /\ seen' = [seen EXCEPT ![w] = "nothing"]
  /\ attempt' = [attempt EXCEPT ![w] = NoAttempt]

\* The worker returned its response: the settlement that follows finds the work completed.
Return(w) == Stop(w, "ended")

\* The worker raised: its execution, if still waiting for it, goes on to settle the work.
NoProviderCall == UNCHANGED <<providerVars, callVars>>

Raise(w) == Stop(w, "settling") /\ UNCHANGED vars /\ NoProviderCall

-----------------------------------------------------------------------------
(* Preparation: the AgentCore run, of which only the checkpoints matter.   *)

PreparationStep(w) ==
  /\ pc[w] = "start" /\ works[w].type = "prepare" /\ NoProviderCall
  /\ \/ Owns(w) /\ BeginPreparation /\ Goto(w, "start")
     \/ Owns(w) /\ (\E passed \in BOOLEAN : RecordPreparedReview(passed)) /\ Goto(w, "start")
     \/ Owns(w) /\ CompletePreparation /\ Return(w)

PreparationRefused(w) ==
  /\ pc[w] = "start" /\ works[w].type = "prepare"
  /\ ~(Owns(w) /\ state \in {"intake_validated", "analyzing_artwork", "listing_drafted"})
  /\ Raise(w)

-----------------------------------------------------------------------------
(* run_product_sync.                                                       *)

\* The seller may have cancelled, or the work may have been settled, since it started.
MaySync(w) == Owns(w) /\ Held /\ state = "product_draft_syncing"

SyncStart(w) ==
  /\ pc[w] = "start" /\ works[w].type = "synchronize_product" /\ MaySync(w) /\ ~uploaded
  /\ Goto(w, "upload") /\ NoProviderCall
  /\ \/ BeginProviderUpload
     \/ upload.work # 0 /\ Recoverable(upload) /\ upload.permit = "available" /\ UNCHANGED vars

SyncStartRefused(w) ==
  /\ pc[w] = "start" /\ works[w].type = "synchronize_product"
  /\ \/ ~MaySync(w)
     \/ ~uploaded /\ upload.work # 0 /\ ~(Recoverable(upload) /\ upload.permit = "available")
  /\ Raise(w)

\* Mutant of SyncAuthorizeUpload: an answer without a permit is taken for one.
SyncAuthorizeUploadUnchecked(w) ==
  /\ pc[w] = "upload" /\ Goto(w, "uploading") /\ NoProviderCall
  /\ AuthorizeProviderUpload \/ (~UploadAuthorized /\ UNCHANGED vars)

\* Any worker that carries the attempt is served.  One that finds the permit consumed, by
\* another worker of this attempt, treats the call as its own of unknown outcome.
SyncAuthorizeUpload(w) ==
  /\ pc[w] = "upload"
  /\ \/ AuthorizeProviderUpload /\ Goto(w, "uploading") /\ NoProviderCall
     \/ /\ ~UploadAuthorized /\ upload.permit = "consumed"
        /\ Goto(w, "uploadLost") /\ UNCHANGED vars /\ NoProviderCall
     \/ ~UploadAuthorized /\ upload.permit # "consumed" /\ Raise(w)

\* POST the artwork.  Whatever is not a verified readback counts as unknown.
SyncUpload(w) ==
  /\ pc[w] = "uploading" /\ UNCHANGED <<vars, products, payload, overtaken>>
  /\ \/ images' = images + 1 /\ Goto(w, "uploaded") /\ UNCHANGED <<calls, faults>>
     \/ Fault /\ images' \in {images, images + 1} /\ Goto(w, "uploadLost") /\ UNCHANGED calls
     \/ /\ Fault /\ calls' = calls \cup {[op |-> "upload", review |-> 0]}
        /\ Goto(w, "uploadLost") /\ UNCHANGED images

SyncRecordUpload(w) ==
  \/ /\ pc[w] = "uploaded"
     /\ \/ MaySync(w) /\ RecordProviderUploadSuccess /\ Goto(w, "write") /\ NoProviderCall
        \/ ~MaySync(w) /\ Raise(w)
  \/ /\ pc[w] = "uploadLost"
     /\ \/ Owns(w) /\ RecordProviderUploadOutcomeUnknown /\ Return(w) /\ NoProviderCall
        \/ ~Owns(w) /\ Raise(w)

\* An unused permit of an earlier synchronization of this review is taken over, whoever
\* owns the job by then.
TakesOverWrite(w) ==
  /\ write.work # 0 /\ write.review = review /\ write.review = works[w].review
  /\ write.permit = "available" /\ state # "cancel_requested"
  /\ works[write.work].type = "synchronize_product" /\ works[write.work].status = "completed"

\* Its job and what it may claim there: read at the start, or again after its own upload.
AtWrite(w) ==
  \/ pc[w] = "write"
  \/ pc[w] = "start" /\ works[w].type = "synchronize_product" /\ MaySync(w) /\ uploaded

SyncClaimWrite(w) ==
  /\ AtWrite(w) /\ NoProviderCall
  /\ \/ TakesOverWrite(w) /\ UNCHANGED vars
     \/ MaySync(w) /\ (BeginProviderCreate \/ BeginProviderUpdate \/ BeginExactUpdateRetry)
  /\ pc' = [pc EXCEPT ![w] = "authorize"]
  /\ attempt' = [attempt EXCEPT
                   ![w] = [work |-> write'.work, op |-> write'.op, prior |-> write'.prior]]
  /\ UNCHANGED <<exec, seen>>

SyncClaimRefused(w) ==
  /\ AtWrite(w) /\ ~TakesOverWrite(w)
  /\ \/ ~MaySync(w)
     \/ writeUnconfirmed
     \/ synced # 0 /\ IsExactRetry /\ (write.retries >= MaxExactUpdateRetries \/ write.expired)
  /\ Raise(w)

\* The job still points at the attempt this worker carries.
CarriesCurrent(w) == attempt[w].work = write.work

MayCall(w) == CarriesCurrent(w) /\ CallAuthorized

\* Mutant of SyncAuthorizeWrite: an answer without a permit is taken for one.
SyncAuthorizeWriteUnchecked(w) ==
  /\ pc[w] = "authorize" /\ Goto(w, "writing") /\ NoProviderCall
  /\ \/ CarriesCurrent(w) /\ AuthorizeProviderCall
     \/ ~MayCall(w) /\ UNCHANGED vars

\* The worker would record the outcome of the call another one was permitted.
FindsConsumed(w) == Owns(w) /\ CarriesCurrent(w) /\ write.permit = "consumed"

SyncAuthorizeWrite(w) ==
  /\ pc[w] = "authorize"
  /\ \/ CarriesCurrent(w) /\ AuthorizeProviderCall /\ Goto(w, "writing") /\ NoProviderCall
     \/ ~MayCall(w) /\ FindsConsumed(w) /\ Goto(w, "writeLost") /\ UNCHANGED vars /\ NoProviderCall
     \/ ~MayCall(w) /\ ~FindsConsumed(w) /\ Raise(w)

\* An update first reads that the product still carries the exact prior payload.
SyncReadPrior(w) ==
  /\ pc[w] = "writing" /\ attempt[w].op = "update"
  /\ UNCHANGED <<vars, providerVars, calls, overtaken>>
  /\ \/ payload = attempt[w].prior /\ Goto(w, "putting") /\ UNCHANGED faults
     \/ payload # attempt[w].prior /\ Goto(w, "writeLost") /\ UNCHANGED faults
     \/ Fault /\ Goto(w, "writeLost")

\* What a POST or a PUT of a review does at the provider.
Created(r) == products' = products + 1 /\ payload' = r
Replaced(r) == payload' = r /\ UNCHANGED products
Applied(op, r) == IF op = "create" THEN Created(r) ELSE Replaced(r)

SyncWrite(w) ==
  /\ pc[w] = IF attempt[w].op = "create" THEN "writing" ELSE "putting"
  /\ UNCHANGED <<vars, images, overtaken>>
  /\ LET op == attempt[w].op
         r == works[w].review IN
       \/ Applied(op, r) /\ Goto(w, "written") /\ UNCHANGED <<calls, faults>>
       \/ /\ Fault /\ Goto(w, "writeLost") /\ UNCHANGED calls
          /\ Applied(op, r) \/ UNCHANGED <<products, payload>>
       \/ /\ Fault /\ Goto(w, "writeLost") /\ calls' = calls \cup {[op |-> op, review |-> r]}
          /\ UNCHANGED <<products, payload>>

SyncRecordWrite(w) ==
  \/ /\ pc[w] = "written"
     /\ \/ Owns(w) /\ RecordProductSyncSuccess /\ Return(w) /\ NoProviderCall
        \/ ~Owns(w) /\ Raise(w)
  \/ /\ pc[w] = "writeLost"
     /\ \/ Owns(w) /\ RecordProductWriteOutcomeUnknown /\ Return(w) /\ NoProviderCall
        \/ ~Owns(w) /\ Raise(w)

-----------------------------------------------------------------------------
(* run_product_reconciliation: read, then record against the latest job.   *)

ReconcileStart(w) ==
  /\ pc[w] = "start" /\ works[w].type = "reconcile_product"
  /\ \/ Owns(w) /\ Reconciling /\ Goto(w, "observe") /\ UNCHANGED vars /\ NoProviderCall
     \/ ~(Owns(w) /\ Reconciling) /\ Raise(w)

UploadRead == CASE images = 0 -> "none" [] images = 1 -> "target" [] OTHER -> "conflict"

CreateRead == CASE products = 0 -> "none"
                [] products = 1 /\ payload = write.review -> "target"
                [] OTHER -> "conflict"

\* Mutant of UpdateRead: the prior payload is taken for the target.
UpdateReadEither == IF payload \in {write.prior, write.review} THEN "target" ELSE "conflict"

UpdateRead == IF payload = write.review THEN "target"
              ELSE IF payload = write.prior THEN "prior" ELSE "conflict"

Reading == IF uploadUnconfirmed THEN UploadRead
           ELSE IF write.op = "create" THEN CreateRead ELSE UpdateRead

ReconcileObserve(w) ==
  /\ pc[w] = "observe" /\ UNCHANGED <<vars, providerVars, calls, overtaken, exec, attempt>>
  /\ IF Owns(w)
       THEN \/ seen' = [seen EXCEPT ![w] = Reading] /\ UNCHANGED faults
            \/ Fault /\ seen' = [seen EXCEPT ![w] = "unavailable"]
       ELSE seen' = [seen EXCEPT ![w] = "unavailable"] /\ UNCHANGED faults
  /\ pc' = [pc EXCEPT ![w] = "observed"]

\* An update that was permitted has not been given up by everybody who may apply it.
UpdateOnItsWay ==
  \/ \E w \in WorkId : pc[w] \in {"writing", "putting"} /\ attempt[w].op = "update"
  \/ \E c \in calls : c.op = "update"

\* Reading the prior payload is taken for proof that the update did not happen.
RecordPrior ==
  /\ WriteObservedPrior
  /\ overtaken' = (overtaken \/ UpdateOnItsWay \/ payload # write.prior)

\* The bound on faults also bounds how often an empty read is deferred before its deadline.
ReconcileRecord(w) ==
  /\ pc[w] = "observed" /\ Owns(w) /\ Return(w) /\ UNCHANGED <<calls, providerVars>>
  /\ \/ seen[w] = "prior" /\ RecordPrior /\ UNCHANGED faults
     \/ /\ UNCHANGED overtaken
        /\ \/ /\ seen[w] = "target" /\ (UploadObservedTarget \/ WriteObservedTarget)
              /\ UNCHANGED faults
           \/ /\ seen[w] \in {"none", "unavailable"}
              /\ \/ Fault /\ (UploadReadDeferred \/ WriteReadDeferred)
                 \/ (UploadReadEnded(FALSE) \/ WriteReadEnded(FALSE)) /\ UNCHANGED faults
           \/ /\ seen[w] = "conflict" /\ (UploadReadEnded(TRUE) \/ WriteReadEnded(TRUE))
              /\ UNCHANGED faults

ReconcileRefused(w) == pc[w] = "observed" /\ ~Owns(w) /\ Raise(w)

-----------------------------------------------------------------------------
(* run_economics_refresh: reads only.                                      *)

EconomicsStep(w) ==
  /\ pc[w] = "start" /\ works[w].type = "refresh_economics"
  /\ \/ Owns(w) /\ RecordPricingSuccess /\ Return(w) /\ NoProviderCall
     \/ ~(Owns(w) /\ Held /\ state \in {"pricing_refreshing", "cancel_requested"}) /\ Raise(w)

-----------------------------------------------------------------------------
(* Settlement of an execution, and of work whose execution is gone.        *)

\* Mutant of Settles: a cancelled job's work is failed like any other.
SettlesByFailure(w) == Owns(w) /\ RecordWorkerFailure("unavailable")

Settles(w) ==
  /\ Owns(w)
  /\ IF cancelRequested THEN SettleCancellation ELSE RecordWorkerFailure("unavailable")

\* The Catch of the state machine settles at once, whether or not the worker runs on.
SettleExecution(w) ==
  /\ exec[w] = "settling" /\ UNCHANGED <<pc, seen, attempt>> /\ NoProviderCall
  /\ \/ /\ works[w].status = "completed" /\ UNCHANGED vars
        /\ exec' = [exec EXCEPT ![w] = "ended"]
     \/ Settles(w) /\ exec' = [exec EXCEPT ![w] = "ended"]
     \/ /\ works[w].status = "cancelled" /\ UNCHANGED vars
        /\ exec' = [exec EXCEPT ![w] = "dead"]

\* Only marked work whose execution is terminal; twenty minutes outlive any worker.
SweepExecution(w) ==
  /\ works[w].status = "dispatched" /\ exec[w] \in {"ended", "dead"} /\ pc[w] = "off"
  /\ Settles(w)
  /\ UNCHANGED machineVars /\ NoProviderCall

-----------------------------------------------------------------------------
(* Faults.                                                                 *)

WorkerDies(w) ==
  /\ pc[w] # "off" /\ Fault /\ Stop(w, "settling")
  /\ UNCHANGED <<vars, providerVars, calls, overtaken>>

\* Step Functions gives the invocation up while the Lambda runs on.
InvocationLost(w) ==
  /\ exec[w] = "worker" /\ Fault
  /\ exec' = [exec EXCEPT ![w] = "settling"]
  /\ UNCHANGED <<vars, pc, seen, attempt, providerVars, calls, overtaken>>

ExecutionDies(w) ==
  /\ exec[w] \in {"worker", "settling"} /\ Fault
  /\ exec' = [exec EXCEPT ![w] = "dead"]
  /\ UNCHANGED <<vars, pc, seen, attempt, providerVars, calls, overtaken>>

LateEffect ==
  \E c \in calls :
    /\ calls' = calls \ {c}
    /\ IF c.op = "upload"
         THEN images' = images + 1 /\ UNCHANGED <<products, payload>>
         ELSE Applied(c.op, c.review) /\ UNCHANGED images
    /\ UNCHANGED <<vars, machineVars, faults, overtaken>>

-----------------------------------------------------------------------------

Worker(w) ==
  \/ PreparationStep(w) \/ PreparationRefused(w)
  \/ SyncStart(w) \/ SyncStartRefused(w)
  \/ SyncAuthorizeUpload(w) \/ SyncUpload(w) \/ SyncRecordUpload(w)
  \/ SyncClaimWrite(w) \/ SyncClaimRefused(w)
  \/ SyncAuthorizeWrite(w) \/ SyncReadPrior(w) \/ SyncWrite(w) \/ SyncRecordWrite(w)
  \/ ReconcileStart(w) \/ ReconcileObserve(w) \/ ReconcileRecord(w) \/ ReconcileRefused(w)
  \/ EconomicsStep(w)

Faults(w) == WorkerDies(w) \/ InvocationLost(w) \/ ExecutionDies(w)

\* The work is marked once StartExecution has answered or the execution was found.
DispatchWork ==
  /\ ClaimWork \/ (MarkWorkDispatched /\ exec[active] # "none")
  /\ UNCHANGED machineVars /\ NoProviderCall

SellerCommand ==
  /\ Seller /\ UNCHANGED machineVars /\ NoProviderCall
  /\ lastWork' # lastWork => lastWork < SellerWork

DeadlinePasses ==
  /\ UploadDeadlinePasses \/ WriteDeadlinePasses
  /\ UNCHANGED machineVars /\ NoProviderCall

PricingAges == PricingExpires /\ UNCHANGED machineVars /\ NoProviderCall

MachineNext ==
  \/ \E w \in WorkId : \/ StartExecution(w) \/ Worker(w) \/ Faults(w)
                       \/ SettleExecution(w) \/ SweepExecution(w)
  \/ LateEffect
  \/ DispatchWork \/ SellerCommand \/ DeadlinePasses \/ PricingAges

MachineSpec == MachineInit /\ [][MachineNext]_allVars

\* The dispatcher and the sweeper are scheduled for ever, a Lambda runs until it returns,
\* raises or dies, and clocks advance.  Sellers and faults owe nothing.
Owed ==
  \/ DispatchWork \/ DeadlinePasses
  \/ \E w \in WorkId : StartExecution(w) \/ Worker(w) \/ SettleExecution(w) \/ SweepExecution(w)

\* Weaker than fairness to each of them, which the schedules would justify: as long as one
\* of them is due, one of them happens.
FairSpec == MachineSpec /\ WF_allVars(Owed)

-----------------------------------------------------------------------------
(* Properties.                                                             *)

\* Executions, workers and the provider stay within their domains: a worker is at one of its
\* calls or off, one at a product call carries an attempt, and the product carries a review
\* that was saved.
MachineTypeOK ==
  /\ exec \in [WorkId -> {"none", "worker", "settling", "ended", "dead"}]
  /\ pc \in [WorkId -> {"off", "start", "upload", "uploading", "uploaded", "uploadLost",
                         "write", "authorize", "writing", "putting", "written", "writeLost",
                         "observe", "observed"}]
  /\ seen \in [WorkId -> {"nothing", "none", "target", "prior", "conflict", "unavailable"}]
  /\ attempt \in [WorkId -> [work : 0..MaxWork, op : {"none", "create", "update"},
                             prior : Review]]
  /\ calls \subseteq [op : {"upload", "create", "update"}, review : Review]
  /\ images \in Nat /\ products \in Nat /\ payload \in 0..review
  /\ faults \in 0..MaxFaults /\ overtaken \in BOOLEAN
  /\ \A w \in WorkId : exec[w] = "worker" => pc[w] # "off"
  /\ \A w \in WorkId : pc[w] \in {"authorize", "writing", "putting"} => attempt[w].op # "none"

Uploading == {w \in WorkId : pc[w] = "uploading"}
Creating  == {w \in WorkId : pc[w] = "writing" /\ attempt[w].op = "create"}

CallsOut(op) == {c \in calls : c.op = op}

\* Under any crash, lost reply and takeover the provider holds, and will ever get, at most
\* one image and one product of a job: also from workers that were given up long ago and
\* share the permit of their successors (run_product_sync, phase6_worker.py:174).
OneProviderResource ==
  /\ images + Cardinality(CallsOut("upload")) + Cardinality(Uploading) <= 1
  /\ products + Cardinality(CallsOut("create")) + Cardinality(Creating) <= 1

\* An image or a product that is there or may still come is on record or announced by its
\* flag, also once the job has ended: nobody is told that there is nothing.
LateCallAnnounced ==
  /\ images > 0 \/ CallsOut("upload") # {} \/ Uploading # {} => uploadUnconfirmed \/ uploaded
  /\ products > 0 \/ CallsOut("create") # {} \/ Creating # {} => writeUnconfirmed \/ synced # 0

\* No call, however late and of whomever, makes a second resource or an unannounced one.
LateCallsSafe == OneProviderResource /\ LateCallAnnounced

\* What the record claims as known is what the provider holds: a recorded image and product
\* are there, and the product carries the recorded review or the one whose update is open,
\* as long as no update was written off too early.
EvidenceTrue ==
  /\ uploaded => images = 1
  /\ synced # 0 => products = 1
  /\ synced # 0 /\ ~overtaken => payload = synced \/ (writeUnconfirmed /\ payload = write.review)

\* The record is well formed and true about the provider, wherever a worker has stopped.
MachineSound == MachineTypeOK /\ EvidenceTrue

\* An ended job's resources are left alone, except by a call of which its record says for
\* ever that the outcome is unknown, or by an update written off too early.
QuietAfterEnd ==
  [][(state \in TerminalStates) => /\ images' # images => uploadUnconfirmed
                                   /\ products' # products => writeUnconfirmed
                                   /\ payload' # payload => writeUnconfirmed \/ overtaken]_allVars

\* docs/architecture/0010-one-printify-product-per-job.md:35: a GET and canonical comparison
\* determine whether the update completed before any retry.  So a product whose update the
\* record calls resolved carries what the record says.
UpdateDetermined == synced # 0 /\ ~writeUnconfirmed => payload = synced

\* Machine work always ends: with the seller as the next to act, or with the job closed.
HandsBack == active # 0 ~> active = 0

\* A cancellation that was accepted is always carried out.
CancelCompletes == cancelRequested ~> state = "cancelled"

\* Whatever stops workers, the machine comes to an end, and to the one that was asked for.
MachineEnds == HandsBack /\ CancelCompletes

\* The abstract promise, read off the job and the provider.
Promise == INSTANCE DraftPromise WITH
  turn <- IF state \in TerminalStates THEN "over"
          ELSE IF active = 0 THEN "seller" ELSE "machine",
  saved <- review, image <- images, draft <- payload,
  approval <- IF state = "approved" THEN review ELSE 0,
  told <- state \in TerminalStates /\ (uploadUnconfirmed \/ writeUnconfirmed),
  strayed <- overtaken

\* Workers, settlements, crashes and reconciliations together implement what the seller is
\* promised about the draft (DraftPromise).
PromiseKept == Promise!Spec

=============================================================================
