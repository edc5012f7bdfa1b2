----------------------------- MODULE ControlJob -----------------------------
(***************************************************************************)
(* One seller job as the durable store sees it: the ControlJobRecord, its  *)
(* WorkRequests, and the two one-shot provider permits (artwork upload,    *)
(* product write), under every command of SellerControlService,            *)
(* WorkerControlService and the dispatcher's claim.                        *)
(*                                                                         *)
(* A command is one compare-and-swap on the whole job (record_version), so *)
(* each is one atomic action.  Whoever knows the id of the active work may *)
(* issue a worker command: the model does not say which process does, or   *)
(* that it is only one.  The provider, the processes and their crashes are *)
(* in ProductMachine, which composes with this module.                     *)
(***************************************************************************)
EXTENDS Naturals

CONSTANTS
  MaxReview,  \* bound: the last review version a seller may save
  MaxWork     \* bound: the number of work requests one job may open

ASSUME BoundsAssumption == MaxReview \in Nat \ {0} /\ MaxWork \in Nat \ {0}

VARIABLES
  state,             \* ControlJobState
  cancelRequested,   \* cancellation_requested_at is set
  resume,            \* resume_state of the advertised failure, "none" without one
  active,            \* active_work_request_id, 0 for none
  works,             \* the durable WorkRequests, by allocation order
  lastWork,          \* how many of them exist
  review,            \* review_version, 0 before the first
  valid,             \* review_validated
  synced,            \* review whose payload the product carries, 0 without a product
  pricing,           \* the pricing snapshot: "none", "fresh" or "stale"
  upload,            \* ProviderUploadAttempt with its permit; work 0 for none
  uploaded,          \* uploaded_artwork_id is set
  uploadUnconfirmed, \* upload_outcome_unconfirmed
  write,             \* the current ProviderWriteAttempt with its permit
  createClaimed,     \* product_create_attempt_id is set
  writeUnconfirmed,  \* provider_outcome_unconfirmed
  ledger             \* history: calls permitted, and which of them lack evidence

jobVars    == <<state, cancelRequested, resume>>
workVars   == <<active, works, lastWork>>
reviewVars == <<review, valid, synced, pricing>>
uploadVars == <<upload, uploaded, uploadUnconfirmed>>
writeVars  == <<write, createClaimed, writeUnconfirmed>>
vars == <<jobVars, workVars, reviewVars, uploadVars, writeVars, ledger>>

-----------------------------------------------------------------------------

States == {"intake_validated", "analyzing_artwork", "listing_drafted", "needs_revision",
           "product_draft_syncing", "awaiting_approval", "pricing_refreshing",
           "reconciliation_required", "failed_retryable", "failed_terminal",
           "cancel_requested", "cancelled", "approved"}

TerminalStates == {"approved", "cancelled", "failed_terminal"}

AllowedTransitions == [
  intake_validated  |-> {"analyzing_artwork", "cancel_requested", "cancelled",
                         "failed_retryable", "failed_terminal"},
  analyzing_artwork |-> {"listing_drafted", "cancel_requested", "cancelled",
                         "failed_retryable", "failed_terminal"},
  listing_drafted   |-> {"needs_revision", "product_draft_syncing", "cancel_requested",
                         "cancelled", "failed_retryable", "failed_terminal"},
  needs_revision    |-> {"needs_revision", "product_draft_syncing", "cancelled"},
  product_draft_syncing |->
    {"product_draft_syncing", "awaiting_approval", "pricing_refreshing",
     "reconciliation_required", "cancel_requested", "cancelled", "failed_retryable",
     "failed_terminal"},
  awaiting_approval |-> {"needs_revision", "product_draft_syncing", "pricing_refreshing",
                         "approved", "cancelled"},
  pricing_refreshing |-> {"awaiting_approval", "cancel_requested", "cancelled",
                          "failed_retryable", "failed_terminal"},
  reconciliation_required |->
    {"reconciliation_required", "product_draft_syncing", "awaiting_approval",
     "pricing_refreshing", "cancel_requested", "cancelled", "failed_terminal"},
  failed_retryable  |-> {"analyzing_artwork", "listing_drafted", "product_draft_syncing",
                         "pricing_refreshing", "reconciliation_required", "cancelled"},
  cancel_requested  |-> {"reconciliation_required", "cancelled"},
  approved          |-> {},
  cancelled         |-> {},
  failed_terminal   |-> {}]

NewWorkByState == [
  intake_validated        |-> "prepare",
  analyzing_artwork       |-> "prepare",
  listing_drafted         |-> "prepare",
  product_draft_syncing   |-> "synchronize_product",
  reconciliation_required |-> "reconcile_product",
  pricing_refreshing      |-> "refresh_economics"]

MachineStates == DOMAIN NewWorkByState
WorkTypes == {"prepare", "synchronize_product", "reconcile_product", "refresh_economics"}
Permits == {"none", "available", "consumed", "retired"}

WorkId == 1..MaxWork
Review == 0..MaxReview

NoWork   == [type |-> "none", status |-> "absent", review |-> 0]
NoUpload == [work |-> 0, permit |-> "none", consumer |-> 0, expired |-> FALSE]
NoWrite  == [work |-> 0, permit |-> "none", consumer |-> 0, expired |-> FALSE,
             op |-> "none", review |-> 0, prior |-> 0, retries |-> 0]

Init ==
  /\ state = "intake_validated" /\ cancelRequested = FALSE /\ resume = "none"
  /\ active = 1 /\ lastWork = 1
  /\ works = [w \in WorkId |-> IF w = 1
                THEN [type |-> "prepare", status |-> "pending", review |-> 0]
                ELSE NoWork]
  /\ review = 0 /\ valid = FALSE /\ synced = 0 /\ pricing = "none"
  /\ upload = NoUpload /\ uploaded = FALSE /\ uploadUnconfirmed = FALSE
  /\ write = NoWrite /\ createClaimed = FALSE /\ writeUnconfirmed = FALSE
  /\ ledger = [uploads |-> 0, creates |-> 0, puts |-> [r \in Review |-> 0],
               uploadOpen |-> FALSE, writeOpen |-> FALSE]

-----------------------------------------------------------------------------
(* Work requests: what every command does to the outbox.                   *)

WorkType == works[active].type

\* The caller still owns the operation: its work is the active one and was claimed.
Held == active # 0 /\ works[active].status \in {"claimed", "dispatched"}

CompleteWork ==
  /\ works' = [works EXCEPT ![active].status = "completed"]
  /\ active' = 0
  /\ UNCHANGED lastWork

\* Settle the active work and open its successor in the same transaction.
ReplaceWork(type) ==
  /\ lastWork < MaxWork
  /\ works' = [works EXCEPT ![active].status = "completed",
                            ![lastWork + 1] = [type |-> type, status |-> "pending",
                                               review |-> review]]
  /\ active' = lastWork + 1
  /\ lastWork' = lastWork + 1

\* Open work from a state that holds none.
OpenWork(type, forReview) ==
  /\ lastWork < MaxWork
  /\ works' = [works EXCEPT ![lastWork + 1] = [type |-> type, status |-> "pending",
                                               review |-> forReview]]
  /\ active' = lastWork + 1
  /\ lastWork' = lastWork + 1

ClaimWork ==
  /\ active # 0 /\ works[active].status = "pending"
  /\ works' = [works EXCEPT ![active].status = "claimed"]
  /\ UNCHANGED <<jobVars, active, lastWork, reviewVars, uploadVars, writeVars, ledger>>

MarkWorkDispatched ==
  /\ active # 0 /\ works[active].status = "claimed"
  /\ works' = [works EXCEPT ![active].status = "dispatched"]
  /\ UNCHANGED <<jobVars, active, lastWork, reviewVars, uploadVars, writeVars, ledger>>

-----------------------------------------------------------------------------
(* Preparation.                                                            *)

BeginPreparation ==
  /\ Held /\ state = "intake_validated"
  /\ state' = "analyzing_artwork"
  /\ UNCHANGED <<cancelRequested, resume, workVars, reviewVars, uploadVars, writeVars, ledger>>

RecordPreparedReview(passed) ==
  /\ Held /\ state = "analyzing_artwork"
  /\ state' = "listing_drafted"
  /\ review' = IF review = 0 THEN 1 ELSE review
  /\ valid' = passed
  /\ UNCHANGED <<cancelRequested, resume, workVars, synced, pricing, uploadVars, writeVars,
                 ledger>>

CompletePreparation ==
  /\ Held /\ state = "listing_drafted"
  /\ \/ /\ valid
        /\ state' = "product_draft_syncing" /\ ReplaceWork("synchronize_product")
     \/ /\ ~valid
        /\ state' = "needs_revision" /\ CompleteWork
  /\ UNCHANGED <<cancelRequested, resume, reviewVars, uploadVars, writeVars, ledger>>

-----------------------------------------------------------------------------
(* The artwork upload: one attempt and one permit for the life of the job. *)

BeginProviderUpload ==
  /\ Held /\ state = "product_draft_syncing" /\ WorkType = "synchronize_product"
  /\ upload.work = 0 /\ ~uploaded /\ ~writeUnconfirmed
  /\ upload' = [work |-> active, permit |-> "available", consumer |-> 0, expired |-> FALSE]
  /\ uploadUnconfirmed' = TRUE
  /\ UNCHANGED <<jobVars, workVars, reviewVars, uploaded, writeVars, ledger>>

\* An unused permit of a settled synchronization may be taken over by the next one.
Recoverable(attempt) ==
  \/ attempt.work = active
  \/ /\ works[attempt.work].type = "synchronize_product"
     /\ works[attempt.work].status = "completed"

\* Mutant of AuthorizeProviderUpload: the permit's status is not compared.
AuthorizeUploadAnyPermit ==
  /\ Held /\ state = "product_draft_syncing"
  /\ upload.work # 0 /\ ~uploaded /\ uploadUnconfirmed /\ ~writeUnconfirmed
  /\ WorkType = "synchronize_product" /\ works[active].review = review
  /\ Recoverable(upload)
  /\ upload' = [upload EXCEPT !.permit = "consumed", !.consumer = active]
  /\ ledger' = [ledger EXCEPT !.uploads = @ + 1, !.uploadOpen = TRUE]
  /\ UNCHANGED <<jobVars, workVars, reviewVars, uploaded, uploadUnconfirmed, writeVars>>

\* Looks at the job and its active work, never at who is asking.
UploadAuthorized ==
  /\ Held /\ state = "product_draft_syncing"
  /\ upload.work # 0 /\ ~uploaded /\ uploadUnconfirmed /\ ~writeUnconfirmed
  /\ WorkType = "synchronize_product" /\ works[active].review = review
  /\ Recoverable(upload)
  /\ upload.permit = "available"

AuthorizeProviderUpload ==
  /\ UploadAuthorized
  /\ upload' = [upload EXCEPT !.permit = "consumed", !.consumer = active]
  /\ ledger' = [ledger EXCEPT !.uploads = @ + 1, !.uploadOpen = TRUE]
  /\ UNCHANGED <<jobVars, workVars, reviewVars, uploaded, uploadUnconfirmed, writeVars>>

ConsumedByActive(attempt) == attempt.permit = "consumed" /\ attempt.consumer = active

\* The evidence names the job's attempt, and the active work may speak for that attempt.
Binds(attempt) ==
  /\ attempt.work # 0
  /\ \/ attempt.work = active
     \/ WorkType = "reconcile_product"
     \/ WorkType = "synchronize_product" /\ ConsumedByActive(attempt)

RecordProviderUploadSuccess ==
  /\ Held /\ state = "product_draft_syncing"
  /\ Binds(upload) /\ ConsumedByActive(upload)
  /\ uploaded' = TRUE /\ uploadUnconfirmed' = FALSE
  /\ ledger' = [ledger EXCEPT !.uploadOpen = FALSE]
  /\ UNCHANGED <<jobVars, workVars, reviewVars, upload, writeVars>>

RecordProviderUploadOutcomeUnknown ==
  /\ Held /\ state \in {"product_draft_syncing", "cancel_requested"}
  /\ Binds(upload) /\ ConsumedByActive(upload)
  /\ uploadUnconfirmed /\ ~writeUnconfirmed
  /\ state' = "reconciliation_required"
  /\ ReplaceWork("reconcile_product")
  /\ UNCHANGED <<cancelRequested, resume, reviewVars, uploadVars, writeVars, ledger>>

\* Observations come only from the reconciliation worker, which holds such work.
Reconciling ==
  /\ Held /\ WorkType = "reconcile_product" /\ works[active].review = review
  /\ state \in {"reconciliation_required", "cancel_requested"}

ReconcilingUpload == Reconciling /\ uploadUnconfirmed /\ ~writeUnconfirmed /\ Binds(upload)

UploadObservedTarget ==
  /\ ReconcilingUpload
  /\ uploaded' = TRUE /\ uploadUnconfirmed' = FALSE
  /\ ledger' = [ledger EXCEPT !.uploadOpen = FALSE]
  /\ IF cancelRequested
       THEN state' = "cancelled" /\ CompleteWork
       ELSE state' = "product_draft_syncing" /\ ReplaceWork("synchronize_product")
  /\ UNCHANGED <<cancelRequested, resume, reviewVars, upload, writeVars>>

UploadReadDeferred ==
  /\ ReconcilingUpload
  /\ ~upload.expired /\ ~cancelRequested
  /\ state' = "reconciliation_required"
  /\ ReplaceWork("reconcile_product")
  /\ UNCHANGED <<cancelRequested, resume, reviewVars, uploadVars, writeVars, ledger>>

\* Mutant of UploadReadEnded: ending the job also lowers the flag.
UploadReadEndedCleared(conflict) ==
  /\ ReconcilingUpload
  /\ conflict \/ upload.expired \/ cancelRequested
  /\ state' = IF cancelRequested THEN "cancelled" ELSE "failed_terminal"
  /\ uploadUnconfirmed' = FALSE
  /\ CompleteWork
  /\ UNCHANGED <<cancelRequested, resume, reviewVars, upload, uploaded, writeVars, ledger>>

\* An unresolved or conflicting read ends the job; the flag stays as the only evidence.
UploadReadEnded(conflict) ==
  /\ ReconcilingUpload
  /\ conflict \/ upload.expired \/ cancelRequested
  /\ state' = IF cancelRequested THEN "cancelled" ELSE "failed_terminal"
  /\ CompleteWork
  /\ UNCHANGED <<cancelRequested, resume, reviewVars, uploadVars, writeVars, ledger>>

-----------------------------------------------------------------------------
(* The product write: one create ever, then updates of that product.       *)

ReadyToWrite ==
  /\ Held /\ state = "product_draft_syncing"
  /\ uploaded /\ ~uploadUnconfirmed /\ upload.work # 0 /\ ~writeUnconfirmed

ClaimWrite(op, retries) ==
  /\ write' = [work |-> active, permit |-> "available", consumer |-> 0, expired |-> FALSE,
               op |-> op, review |-> review, prior |-> synced, retries |-> retries]
  /\ writeUnconfirmed' = TRUE
  /\ UNCHANGED <<jobVars, workVars, reviewVars, uploadVars, ledger>>

BeginProviderCreate ==
  /\ ReadyToWrite /\ synced = 0 /\ ~createClaimed
  /\ createClaimed' = TRUE
  /\ ClaimWrite("create", 0)

\* The previous attempt was an update of this same review: this one repeats it.
IsExactRetry == write.op = "update" /\ write.review = review

BeginProviderUpdate ==
  /\ ReadyToWrite /\ synced # 0 /\ ~IsExactRetry
  /\ ClaimWrite("update", 0)
  /\ UNCHANGED createClaimed

MaxExactUpdateRetries == 1

BeginExactUpdateRetry ==
  /\ ReadyToWrite /\ synced # 0 /\ IsExactRetry
  /\ write.retries < MaxExactUpdateRetries /\ ~write.expired
  /\ ClaimWrite("update", write.retries + 1)
  /\ UNCHANGED createClaimed

\* Taking over another work's unused permit needs the basis it was claimed on.
WriteBasisUnchanged ==
  \/ write.op = "create" /\ synced = 0 /\ createClaimed
  \/ write.op = "update" /\ synced # 0 /\ synced = write.prior

\* Mutant of AuthorizeProviderCall: a cancellation in progress still authorizes the call.
AuthorizeCallCancelling ==
  /\ Held /\ state \in {"product_draft_syncing", "cancel_requested"}
  /\ write.work # 0 /\ writeUnconfirmed /\ ~uploadUnconfirmed
  /\ write.review = review
  /\ WorkType = "synchronize_product" /\ works[active].review = review
  /\ Recoverable(write) /\ (write.work # active => WriteBasisUnchanged)
  /\ write.permit = "available"
  /\ write' = [write EXCEPT !.permit = "consumed", !.consumer = active]
  /\ ledger' = IF write.op = "create"
                 THEN [ledger EXCEPT !.creates = @ + 1, !.writeOpen = TRUE]
                 ELSE [ledger EXCEPT !.puts[review] = @ + 1, !.writeOpen = TRUE]
  /\ UNCHANGED <<jobVars, workVars, reviewVars, uploadVars, createClaimed, writeUnconfirmed>>

CallAuthorized ==
  /\ Held /\ state = "product_draft_syncing"
  /\ write.work # 0 /\ writeUnconfirmed /\ ~uploadUnconfirmed
  /\ write.review = review
  /\ WorkType = "synchronize_product" /\ works[active].review = review
  /\ Recoverable(write) /\ (write.work # active => WriteBasisUnchanged)
  /\ write.permit = "available"

AuthorizeProviderCall ==
  /\ CallAuthorized
  /\ write' = [write EXCEPT !.permit = "consumed", !.consumer = active]
  /\ ledger' = IF write.op = "create"
                 THEN [ledger EXCEPT !.creates = @ + 1, !.writeOpen = TRUE]
                 ELSE [ledger EXCEPT !.puts[review] = @ + 1, !.writeOpen = TRUE]
  /\ UNCHANGED <<jobVars, workVars, reviewVars, uploadVars, createClaimed, writeUnconfirmed>>

BindsWrite == Binds(write) /\ write.review = review

\* Mutant of ProductSynchronized: the success forgets the cancellation.
ProductSynchronizedUncancelled ==
  /\ synced' = review /\ pricing' = "none" /\ writeUnconfirmed' = FALSE
  /\ ledger' = [ledger EXCEPT !.writeOpen = FALSE]
  /\ state' = "pricing_refreshing" /\ ReplaceWork("refresh_economics")
  /\ UNCHANGED <<cancelRequested, resume, review, valid, uploadVars, write, createClaimed>>

\* The target payload is on the product: by direct readback or by reconciliation.
ProductSynchronized ==
  /\ synced' = review /\ pricing' = "none" /\ writeUnconfirmed' = FALSE
  /\ ledger' = [ledger EXCEPT !.writeOpen = FALSE]
  /\ IF cancelRequested
       THEN state' = "cancelled" /\ CompleteWork
       ELSE state' = "pricing_refreshing" /\ ReplaceWork("refresh_economics")
  /\ UNCHANGED <<cancelRequested, resume, review, valid, uploadVars, write, createClaimed>>

RecordProductSyncSuccess ==
  /\ Held /\ BindsWrite /\ ConsumedByActive(write)
  /\ ProductSynchronized

RecordProductWriteOutcomeUnknown ==
  /\ Held /\ BindsWrite /\ ConsumedByActive(write)
  /\ state \in {"product_draft_syncing", "cancel_requested"}
  /\ state' = "reconciliation_required"
  /\ writeUnconfirmed' = TRUE
  /\ ReplaceWork("reconcile_product")
  /\ UNCHANGED <<cancelRequested, resume, reviewVars, uploadVars, write, createClaimed, ledger>>

ReconcilingWrite == Reconciling /\ ~uploadUnconfirmed /\ writeUnconfirmed /\ BindsWrite

WriteObservedTarget == ReconcilingWrite /\ ProductSynchronized

EndReconciliation(outcome, unconfirmed) ==
  /\ state' = outcome
  /\ CompleteWork
  /\ writeUnconfirmed' = unconfirmed
  /\ ledger' = [ledger EXCEPT !.writeOpen = @ /\ unconfirmed]
  /\ UNCHANGED <<cancelRequested, resume, reviewVars, uploadVars, write, createClaimed>>

\* The product still carries the payload from before the update: nothing happened.
WriteObservedPrior ==
  /\ ReconcilingWrite /\ write.op = "update"
  /\ \/ /\ cancelRequested
        /\ EndReconciliation("cancelled", FALSE)
     \/ /\ ~cancelRequested
        /\ write.retries >= MaxExactUpdateRetries \/ write.expired
        /\ EndReconciliation("failed_terminal", FALSE)
     \/ /\ ~cancelRequested
        /\ write.retries < MaxExactUpdateRetries /\ ~write.expired
        /\ state' = "product_draft_syncing"
        /\ ReplaceWork("synchronize_product")
        /\ writeUnconfirmed' = FALSE
        /\ ledger' = [ledger EXCEPT !.writeOpen = FALSE]
        /\ UNCHANGED <<cancelRequested, resume, reviewVars, uploadVars, write, createClaimed>>

WriteReadDeferred ==
  /\ ReconcilingWrite
  /\ ~write.expired /\ ~cancelRequested
  /\ state' = "reconciliation_required"
  /\ ReplaceWork("reconcile_product")
  /\ UNCHANGED <<cancelRequested, resume, reviewVars, uploadVars, writeVars, ledger>>

WriteReadEnded(conflict) ==
  /\ ReconcilingWrite
  /\ conflict \/ write.expired \/ cancelRequested
  /\ EndReconciliation(IF cancelRequested THEN "cancelled" ELSE "failed_terminal", TRUE)

-----------------------------------------------------------------------------
(* Pricing evidence.                                                       *)

RecordPricingSuccess ==
  /\ Held /\ state \in {"pricing_refreshing", "cancel_requested"}
  /\ WorkType = "refresh_economics" /\ works[active].review = review
  /\ synced = review /\ synced # 0
  /\ state' = IF cancelRequested THEN "cancelled" ELSE "awaiting_approval"
  /\ pricing' = "fresh"
  /\ CompleteWork
  /\ UNCHANGED <<cancelRequested, resume, review, valid, synced, uploadVars, writeVars, ledger>>

-----------------------------------------------------------------------------
(* Seller commands.                                                        *)

\* Mutant of ReviseListing: the version advances twice.
ReviseListingTwice(passed) ==
  /\ state \in {"awaiting_approval", "needs_revision"} /\ review > 0
  /\ review < MaxReview
  /\ review' = review + 2 /\ valid' = passed /\ pricing' = "none"
  /\ ~passed /\ state' = "needs_revision"
  /\ UNCHANGED <<cancelRequested, resume, workVars, synced, uploadVars, writeVars, ledger>>

ReviseListing(passed) ==
  /\ state \in {"awaiting_approval", "needs_revision"} /\ review > 0
  /\ review < MaxReview
  /\ review' = review + 1 /\ valid' = passed /\ pricing' = "none"
  /\ IF passed
       THEN state' = "product_draft_syncing" /\ OpenWork("synchronize_product", review + 1)
       ELSE state' = "needs_revision" /\ UNCHANGED workVars
  /\ UNCHANGED <<cancelRequested, resume, synced, uploadVars, writeVars, ledger>>

ApproveReview ==
  /\ state = "awaiting_approval"
  /\ review > 0 /\ valid /\ synced = review /\ pricing = "fresh"
  /\ ~writeUnconfirmed /\ ~uploadUnconfirmed
  /\ state' = "approved"
  /\ UNCHANGED <<cancelRequested, resume, workVars, reviewVars, uploadVars, writeVars, ledger>>

RefreshEconomics ==
  /\ state = "awaiting_approval"
  /\ review > 0 /\ valid /\ synced = review /\ pricing # "fresh"
  /\ ~writeUnconfirmed /\ ~uploadUnconfirmed
  /\ state' = "pricing_refreshing"
  /\ pricing' = "none"
  /\ OpenWork("refresh_economics", review)
  /\ UNCHANGED <<cancelRequested, resume, review, valid, synced, uploadVars, writeVars, ledger>>

\* The permit an uncertainty flag points at, "none" when nothing is uncertain.
UncertainPermit ==
  IF uploadUnconfirmed THEN upload.permit
  ELSE IF writeUnconfirmed THEN write.permit ELSE "none"

ProductWriteWork == active = 0 \/ WorkType \in {"synchronize_product", "reconcile_product"}

MustReconcile == ProductWriteWork /\ UncertainPermit = "consumed"

\* Close as CANCELLED: retire the unused permit and lower both flags.
CloseCancelled ==
  /\ ~MustReconcile
  /\ ProductWriteWork => UncertainPermit # "retired"
  /\ state' = "cancelled"
  /\ uploadUnconfirmed' = FALSE /\ writeUnconfirmed' = FALSE
  /\ upload' = IF ProductWriteWork /\ uploadUnconfirmed
                 THEN [upload EXCEPT !.permit = "retired"] ELSE upload
  /\ write' = IF ProductWriteWork /\ ~uploadUnconfirmed /\ writeUnconfirmed
                THEN [write EXCEPT !.permit = "retired"] ELSE write

\* Undispatched work is cancelled with the job, except a reconciliation.
WorkMustSettle ==
  /\ active # 0
  /\ works[active].status = "pending" => state = "reconciliation_required"

CancelJob ==
  /\ state \notin TerminalStates \cup {"cancel_requested"} /\ ~cancelRequested
  /\ cancelRequested' = TRUE
  /\ \/ /\ WorkMustSettle
        /\ state' = "cancel_requested"
        /\ UNCHANGED <<workVars, uploadVars, writeVars>>
     \/ /\ ~WorkMustSettle
        /\ works' = IF active = 0 THEN works
                    ELSE [works EXCEPT ![active].status = "cancelled"]
        /\ active' = 0
        /\ CloseCancelled
        /\ UNCHANGED <<lastWork, uploaded, createClaimed>>
  /\ UNCHANGED <<resume, reviewVars, ledger>>

RetryJob ==
  /\ state = "failed_retryable" /\ ~cancelRequested
  /\ state' = resume
  /\ resume' = "none"
  /\ OpenWork(NewWorkByState[resume], review)
  /\ UNCHANGED <<cancelRequested, reviewVars, uploadVars, writeVars, ledger>>

-----------------------------------------------------------------------------
(* Settlement of work that ended without recording an outcome.             *)

\* Mutant of OutcomeUnknown: only an uncertain upload counts.
OutcomeUnknownUploadOnly ==
  WorkType = "synchronize_product" /\ uploadUnconfirmed /\ upload.permit = "consumed"

\* The failing synchronization consumed a permit and never learned what it did.
OutcomeUnknown == WorkType = "synchronize_product" /\ UncertainPermit = "consumed"

UncertainConsumer == IF uploadUnconfirmed THEN upload.consumer ELSE write.consumer

\* code "unavailable" is the code the retry policy lists for the work's type, "other"
\* any code it does not list.
Transient(code) == WorkType = "reconcile_product" /\ code = "unavailable"
Retryable(code) == WorkType # "reconcile_product" /\ code = "unavailable"

RecordWorkerFailure(code) ==
  /\ Held
  /\ OutcomeUnknown => UncertainConsumer = active
  /\ \/ \* Still ambiguous: only reads may follow.  With a cancellation the command would
        \* also raise provider_outcome_unconfirmed, which the record refuses beside an
        \* uncertain upload.
        /\ Transient(code) \/ OutcomeUnknown
        /\ ~(OutcomeUnknown /\ cancelRequested /\ uploadUnconfirmed)
        /\ state' = "reconciliation_required"
        /\ ReplaceWork("reconcile_product")
        /\ UNCHANGED <<resume, uploadVars, writeVars>>
     \/ /\ ~Transient(code) /\ ~OutcomeUnknown /\ cancelRequested
        /\ CloseCancelled
        /\ CompleteWork
        /\ UNCHANGED <<resume, uploaded, createClaimed>>
     \/ /\ ~Transient(code) /\ ~OutcomeUnknown /\ ~cancelRequested /\ Retryable(code)
        /\ state' = "failed_retryable"
        /\ resume' = CASE WorkType = "synchronize_product" -> "product_draft_syncing"
                       [] WorkType = "refresh_economics"   -> "pricing_refreshing"
                       [] WorkType = "prepare" /\ state = "listing_drafted" -> "listing_drafted"
                       [] OTHER -> "analyzing_artwork"
        /\ CompleteWork
        /\ UNCHANGED <<uploadVars, writeVars>>
     \/ /\ ~Transient(code) /\ ~OutcomeUnknown /\ ~cancelRequested /\ ~Retryable(code)
        /\ state' = "failed_terminal"
        /\ CompleteWork
        /\ UNCHANGED <<resume, uploadVars, writeVars>>
  /\ UNCHANGED <<cancelRequested, reviewVars, ledger>>

SettleCancellation ==
  /\ Held /\ cancelRequested
  /\ \/ /\ MustReconcile
        /\ state' = "reconciliation_required"
        /\ ReplaceWork("reconcile_product")
        /\ UNCHANGED <<uploadVars, writeVars>>
     \/ /\ CloseCancelled
        /\ CompleteWork
        /\ UNCHANGED <<uploaded, createClaimed>>
  /\ UNCHANGED <<cancelRequested, resume, reviewVars, ledger>>

-----------------------------------------------------------------------------
(* The clock, seen through the deadlines the commands compare it with.     *)

PricingExpires ==
  /\ pricing = "fresh" /\ pricing' = "stale"
  /\ UNCHANGED <<jobVars, workVars, review, valid, synced, uploadVars, writeVars, ledger>>

UploadDeadlinePasses ==
  /\ uploadUnconfirmed /\ ~upload.expired
  /\ upload' = [upload EXCEPT !.expired = TRUE]
  /\ UNCHANGED <<jobVars, workVars, reviewVars, uploaded, uploadUnconfirmed, writeVars, ledger>>

WriteDeadlinePasses ==
  /\ write.work # 0 /\ ~write.expired
  /\ write' = [write EXCEPT !.expired = TRUE]
  /\ UNCHANGED <<jobVars, workVars, reviewVars, uploadVars, createClaimed, writeUnconfirmed,
                 ledger>>

-----------------------------------------------------------------------------

Dispatcher == ClaimWork \/ MarkWorkDispatched

Preparation ==
  \/ BeginPreparation
  \/ \E passed \in BOOLEAN : RecordPreparedReview(passed)
  \/ CompletePreparation

ArtworkUpload ==
  \/ BeginProviderUpload \/ AuthorizeProviderUpload
  \/ RecordProviderUploadSuccess \/ RecordProviderUploadOutcomeUnknown
  \/ UploadObservedTarget \/ UploadReadDeferred
  \/ \E conflict \in BOOLEAN : UploadReadEnded(conflict)

ProductWrite ==
  \/ BeginProviderCreate \/ BeginProviderUpdate \/ BeginExactUpdateRetry
  \/ AuthorizeProviderCall
  \/ RecordProductSyncSuccess \/ RecordProductWriteOutcomeUnknown
  \/ WriteObservedTarget \/ WriteObservedPrior \/ WriteReadDeferred
  \/ \E conflict \in BOOLEAN : WriteReadEnded(conflict)

Seller ==
  \/ \E passed \in BOOLEAN : ReviseListing(passed)
  \/ ApproveReview \/ RefreshEconomics \/ CancelJob \/ RetryJob

Settlement ==
  \/ \E code \in {"unavailable", "other"} : RecordWorkerFailure(code)
  \/ SettleCancellation

Clock == PricingExpires \/ UploadDeadlinePasses \/ WriteDeadlinePasses

Next ==
  \/ Dispatcher \/ Preparation \/ ArtworkUpload \/ ProductWrite
  \/ RecordPricingSuccess \/ Seller \/ Settlement \/ Clock

Spec == Init /\ [][Next]_vars

-----------------------------------------------------------------------------
(* Type invariant.                                                         *)

Work == [type : WorkTypes \cup {"none"},
         status : {"absent", "pending", "claimed", "dispatched", "completed", "cancelled"},
         review : Review]

UploadAttempt == [work : 0..MaxWork, permit : Permits, consumer : 0..MaxWork,
                  expired : BOOLEAN]

WriteAttempt == [work : 0..MaxWork, permit : Permits, consumer : 0..MaxWork,
                 expired : BOOLEAN, op : {"none", "create", "update"}, review : Review,
                 prior : Review, retries : 0..MaxExactUpdateRetries]

JobTyped == state \in States /\ resume \in MachineStates \cup {"none"}
FlagsTyped == /\ cancelRequested \in BOOLEAN /\ valid \in BOOLEAN
              /\ uploaded \in BOOLEAN /\ uploadUnconfirmed \in BOOLEAN
              /\ createClaimed \in BOOLEAN /\ writeUnconfirmed \in BOOLEAN
WorkTyped == active \in 0..MaxWork /\ lastWork \in WorkId /\ works \in [WorkId -> Work]
ReviewTyped == /\ review \in Review /\ synced \in Review
               /\ pricing \in {"none", "fresh", "stale"}
AttemptsTyped == upload \in UploadAttempt /\ write \in WriteAttempt
LedgerTyped == ledger \in [uploads : Nat, creates : Nat, puts : [Review -> Nat],
                           uploadOpen : BOOLEAN, writeOpen : BOOLEAN]

\* Every variable of the job, its work and its attempts stays in its domain, and the
\* counts of permitted provider calls stay natural numbers (control/models.py).
TypeOK == JobTyped /\ FlagsTyped /\ WorkTyped /\ ReviewTyped /\ AttemptsTyped /\ LedgerTyped

-----------------------------------------------------------------------------
(* Safety.                                                                 *)

\* Through any sequence of commands, takeovers, retries and reconciliations, a job is
\* permitted at most one artwork upload, one product create and, for each review, one
\* update with one exact repetition (the permits of worker_service.py).
OneShot ==
  /\ ledger.uploads <= 1 /\ ledger.creates <= 1
  /\ \A r \in Review : ledger.puts[r] <= 1 + MaxExactUpdateRetries

\* A permitted call whose outcome nobody has evidenced is never forgotten: the job's flag
\* says so, and until the job ends its active work is either the consumer itself or a
\* reconciliation.  In particular no approval, revision or retry happens over it.
AmbiguityKept ==
  /\ ledger.uploadOpen =>
       /\ uploadUnconfirmed
       /\ \/ state \in {"failed_terminal", "cancelled"}
          \/ active # 0 /\ (WorkType = "reconcile_product" \/ upload.consumer = active)
  /\ ledger.writeOpen =>
       /\ writeUnconfirmed
       /\ \/ state \in {"failed_terminal", "cancelled"}
          \/ active # 0 /\ (WorkType = "reconcile_product" \/ write.consumer = active)

\* The only work that is not settled is the one the job calls active, it is the kind the
\* state calls for, and it was opened for the current review; states outside the machine
\* and terminal ones leave no work behind (CONTROL_NEW_WORK_BY_STATE).
OneLiveWork ==
  /\ \A w \in WorkId : works[w].status \in {"pending", "claimed", "dispatched"} => w = active
  /\ active # 0 => /\ works[active].status \in {"pending", "claimed", "dispatched"}
                   /\ works[active].type # "prepare" => works[active].review = review
                   /\ state \in MachineStates => WorkType = NewWorkByState[state]
  /\ active # 0 <=> state \in MachineStates \cup {"cancel_requested"}

\* A job that was cancelled or approved leaves no permit a late worker could consume.
NoPermitAfterClose ==
  state \in {"cancelled", "approved"} => upload.permit # "available" /\ write.permit # "available"

\* What the record's own validator demands of every stored job (models.py:345).  The
\* commands must never compute a record it refuses, or the job could not move.
RecordCoherent ==
  /\ uploaded => upload.work # 0 /\ ~uploadUnconfirmed
  /\ uploadUnconfirmed => upload.work # 0 /\ ~writeUnconfirmed
  /\ synced <= review
  /\ state = "approved" => synced = review /\ pricing # "none"
  /\ state = "failed_retryable" => resume # "none"
  /\ state \in {"cancel_requested", "cancelled"} => cancelRequested
  /\ cancelRequested => state \in {"cancel_requested", "reconciliation_required", "cancelled"}

\* Permits and ambiguities are accounted for: none is forgotten, none is left behind.
PermitsAccounted == AmbiguityKept /\ NoPermitAfterClose

\* The record stays one the store accepts, and its works are what it says they are.
JobCoherent == RecordCoherent /\ OneLiveWork

-----------------------------------------------------------------------------
(* Action properties.                                                      *)

\* validate_command_commit (store.py:281) compares the record before a command with the one
\* after it: the transition table, the evidence that may lower an uncertainty flag, immutable
\* cancellation, and the pairing of settled with new work.
EvidenceKept ==
  /\ cancelRequested => cancelRequested'
  /\ ~uploadUnconfirmed /\ uploadUnconfirmed' => upload.work = 0 /\ upload'.work # 0
  /\ uploadUnconfirmed /\ ~uploadUnconfirmed' =>
       (~uploaded /\ uploaded') \/ upload'.permit = "retired"
  /\ writeUnconfirmed /\ ~writeUnconfirmed' =>
       synced' = review \/ write'.permit = "retired" \/ WorkType = "reconcile_product"

WorkPaired ==
  /\ active # active' /\ active # 0 => works'[active].status \in {"completed", "cancelled"}
  /\ active # active' /\ active' # 0 => active' = lastWork + 1
  /\ active = active' /\ active # 0 /\ state' \notin {state, "cancel_requested"} =>
       {state, state'} \subseteq MachineStates
         /\ NewWorkByState[state'] = NewWorkByState[state]

CommitStep ==
  /\ state' # state => state' \in AllowedTransitions[state]
  /\ EvidenceKept /\ WorkPaired

\* What the commands compute is what the store accepts: a command it refused could never
\* commit, and the job could not move.
CommitAccepted == [][CommitStep]_vars

\* While a consumed permit is unresolved no new attempt replaces it: a write attempt's
\* identity may change only when nothing is open.
NoReplacementWhileOpen ==
  [][ /\ write.work # write'.work => ~ledger.writeOpen
      /\ upload.work # upload'.work => upload.work = 0 ]_vars

\* Once the seller's cancellation is recorded no permit is consumed any more.
NoCallAfterCancel ==
  [][cancelRequested => /\ ledger'.uploads = ledger.uploads
                        /\ ledger'.creates = ledger.creates
                        /\ ledger'.puts = ledger.puts]_vars

\* Neither a new attempt nor a call is let in where an earlier decision stands against it.
CallsKept == NoReplacementWhileOpen /\ NoCallAfterCancel

\* docs/phase6-provider-integration.md:75: one exact-prior PUT retry may occur within the
\* original attempt's inherited deadline.  So no repetition is permitted after it.
RetryWithinDeadline ==
  [][ledger'.puts # ledger.puts /\ write.retries > 0 => ~write.expired]_vars

\* docs/phase6-provider-integration.md:76: a second ambiguity or expired deadline ends
\* terminally without another mutation.  So a synchronization that can no longer repeat its
\* update is not advertised to the seller as retryable.
ExhaustedUpdateEnds ==
  [][ /\ state = "product_draft_syncing" /\ ~writeUnconfirmed /\ synced # 0
      /\ IsExactRetry /\ (write.retries >= MaxExactUpdateRetries \/ write.expired)
      => state' # "failed_retryable" ]_vars

=============================================================================
