------------------------ MODULE ProductMachineProofs ------------------------
(***************************************************************************)
(* Proofs about ProductMachine, for every number of works, reviews and     *)
(* faults and without any hypothesis on when a given-up worker stops, when *)
(* a late call takes effect or when an execution is settled.               *)
(*                                                                         *)
(* The inductive invariant SentInv is built in four layers.                *)
(*                                                                         *)
(*  1. TellingInv: the machine issues commands of ControlJob and nothing   *)
(*     else (MachineObeysJob), so every invariant proved there holds here; *)
(*     what the job tells of the calls it permitted is added.              *)
(*  2. OwedInv: while a synchronization is open or a write is uncertain    *)
(*     the record lacks what the review says, so a command that finds the  *)
(*     product in step never meets a call of its own still out.            *)
(*  3. CarryInv: which attempt each worker carries, also the worker whose  *)
(*     work was taken from it; a permit is consumed once, by whoever comes *)
(*     first, and at most one worker or late call holds what it allows.    *)
(*  4. SentInv: where each of the three calls is, from its permit to the   *)
(*     record: at a worker, still out, at the provider, or recorded; and   *)
(*     what a worker has read or sent is so when it records it.  For an    *)
(*     update this holds until one is written off while it may still be on *)
(*     its way, which the history variable overtaken remembers.            *)
(*                                                                         *)
(* From SentInv follow LateCallsAlwaysSafe, MachineAlwaysSound and         *)
(* QuietAlwaysAfterEnd, and that each step of the machine is a step of     *)
(* DraftPromise or a stutter (DraftAlwaysAsPromised).                      *)
(***************************************************************************)
EXTENDS ProductMachine, ControlJobProofs, FiniteSetTheorems, TLAPS

-----------------------------------------------------------------------------
(* What the job tells of the calls it permitted.                           *)

\* A call that was permitted is either still uncertain or known to have been made; an attempt
\* that is uncertain is the one of this review, over what the product carried before it.
PermitsTell ==
  /\ upload.permit = "consumed" => uploadUnconfirmed \/ uploaded
  /\ write.op = "create" /\ write.permit = "consumed" => writeUnconfirmed \/ synced # 0
  /\ write.op = "update" => synced # 0
  /\ writeUnconfirmed => write.review = review /\ write.prior = synced /\ write.op # "none"
  /\ active # 0 /\ ConsumedByActive(write) => writeUnconfirmed
  /\ state \in {"awaiting_approval", "needs_revision", "approved"} => ~Uncertain

\* Works are listed in order, and none was opened for a review that was not saved.
WorksListed ==
  /\ \A w \in WorkId : w > lastWork => works[w].status = "absent"
  /\ \A w \in WorkId : works[w].review <= review
  /\ state = "listing_drafted" \/ resume \notin {"none", "analyzing_artwork"} => review > 0
  /\ \A w \in WorkId : works[w].type \notin {"none", "prepare"} => review > 0

TellingInv == JobInv /\ LedgerInv /\ PermitsTell /\ WorksListed

\* What the job tells holds at the start: nothing was permitted.
LEMMA InitTelling == Init => TellingInv
<1> SUFFICES ASSUME Init PROVE TellingInv
  OBVIOUS
<1>1. PermitsTell
  BY DEF Init, PermitsTell, NoUpload, NoWrite, Uncertain, ConsumedByActive
<1>2. \A w \in WorkId : /\ w > lastWork => works[w].status = "absent"
                        /\ works[w].review = 0 /\ works[w].type \in {"none", "prepare"}
  BY BoundsAssumption DEF Init, WorkId, NoWork
<1>3. WorksListed
  BY <1>2 DEF WorksListed, Init
<1> QED
  BY <1>1, <1>3, InitJob, InitLedger DEF TellingInv

\* Closing as cancelled lowers no flag over a permit that was consumed.
LEMMA CloseTells ==
  ASSUME TellingInv, CloseCancelled, UNCHANGED <<review, synced, uploaded, createClaimed>>
  PROVE  /\ ~(Uncertain /\ UncertainPermit = "consumed")
         /\ upload'.permit = "consumed" => upload.permit = "consumed" /\ uploaded
         /\ write'.op = write.op /\ write'.prior = write.prior /\ write'.review = write.review
         /\ write'.permit = "consumed" => write.permit = "consumed"
         /\ (write.op = "create" /\ write'.permit = "consumed") => synced # 0
         /\ ~uploadUnconfirmed' /\ ~writeUnconfirmed' /\ state' = "cancelled"
<1>1. /\ write \in WriteAttempt /\ upload \in UploadAttempt /\ active \in 0..MaxWork
      /\ uploadUnconfirmed \in BOOLEAN /\ writeUnconfirmed \in BOOLEAN
  BY DEF TellingInv, JobInv, TypeOK, AttemptsTyped, WorkTyped, FlagsTyped
<1>2. active # 0 /\ ~ProductWriteWork => ~Uncertain
  BY DEF TellingInv, JobInv, FlagsByWork, ProductWriteWork, Allocated, WorkTypes
<1>3. ~(Uncertain /\ UncertainPermit = "consumed")
  BY <1>2 DEF CloseCancelled, MustReconcile, ProductWriteWork
<1>4. /\ write'.op = write.op /\ write'.prior = write.prior /\ write'.review = write.review
      /\ write' = write \/ (write'.permit = "retired")
      /\ upload' = upload \/ upload'.permit = "retired"
      /\ ~uploadUnconfirmed' /\ ~writeUnconfirmed' /\ state' = "cancelled"
  BY <1>1 DEF CloseCancelled, WriteAttempt, UploadAttempt
<1>5. /\ uploadUnconfirmed => upload.permit # "consumed"
      /\ writeUnconfirmed /\ ~uploadUnconfirmed => write.permit # "consumed"
      /\ uploadUnconfirmed => ~writeUnconfirmed
  BY <1>3 DEF Uncertain, UncertainPermit, TellingInv, JobInv, RecordCoherent
<1> QED
  BY <1>3, <1>4, <1>5 DEF TellingInv, PermitsTell

\* Every command keeps the record of a permitted call until the call is known.
LEMMA PermitsTellStep ==
  ASSUME TellingInv, TypeOK', [Next]_vars
  PROVE  PermitsTell'
<1> USE DEF jobVars, workVars, reviewVars, uploadVars, writeVars
<1>0. /\ write \in WriteAttempt /\ upload \in UploadAttempt /\ active \in 0..MaxWork
      /\ lastWork \in Nat /\ write.consumer <= lastWork /\ write.consumer \in Nat
  BY DEF TellingInv, JobInv, TypeOK, AttemptsTyped, WorkTyped, WriteAttempt, Allocated, WorkId
<1>1. ASSUME UNCHANGED <<review, synced, uploaded, uploadUnconfirmed, writeUnconfirmed>>,
             upload'.permit = upload.permit, write'.op = write.op, write'.permit = write.permit,
             write'.review = write.review, write'.prior = write.prior,
             write'.consumer = write.consumer,
             active' \in {active, 0, lastWork + 1},
             \/ state' \notin {"awaiting_approval", "needs_revision", "approved"}
             \/ state \in {"awaiting_approval", "needs_revision", "approved"}
             \/ ~Uncertain
      PROVE  PermitsTell'
  BY <1>0, <1>1 DEF TellingInv, PermitsTell, ConsumedByActive, Uncertain
<1>2. ASSUME UNCHANGED <<review, synced, uploaded, createClaimed>>, CloseCancelled, active' = 0
      PROVE  PermitsTell'
  BY <1>2, CloseTells DEF PermitsTell, TellingInv, Uncertain
<1>3. CASE Dispatcher \/ UNCHANGED vars
  BY <1>1, <1>3 DEF Dispatcher, ClaimWork, MarkWorkDispatched, vars
<1>4. CASE Preparation
  <2>1. ~Uncertain
    BY <1>4, HeldWork DEF Preparation, BeginPreparation, RecordPreparedReview,
       CompletePreparation, TellingInv, JobInv, FlagsByWork
  <2>2. CASE \E passed \in BOOLEAN : RecordPreparedReview(passed)
    BY <2>1, <2>2 DEF RecordPreparedReview, TellingInv, PermitsTell, Uncertain, ConsumedByActive
  <2> QED
    BY <1>1, <1>4, <2>1, <2>2 DEF Preparation, BeginPreparation, CompletePreparation,
       CompleteWork, ReplaceWork
<1>5. CASE ArtworkUpload
  <2>1. CASE BeginProviderUpload
    BY <1>0, <2>1, HeldWork DEF BeginProviderUpload, TellingInv, JobInv, PermitsTell, Uncertain,
       ConsumedByActive, LedgerInv, UploadCounted
  <2>2. CASE AuthorizeProviderUpload
    BY <1>0, <2>2 DEF AuthorizeProviderUpload, UploadAuthorized, TellingInv, PermitsTell,
         Uncertain, ConsumedByActive, UploadAttempt
  <2>3. CASE RecordProviderUploadSuccess
    BY <1>0, <2>3 DEF RecordProviderUploadSuccess, TellingInv, PermitsTell, Uncertain,
       ConsumedByActive
  <2>4. CASE UploadObservedTarget
    <3>1. active' \in {0, lastWork + 1} /\ state' \in {"cancelled", "product_draft_syncing"}
      BY <2>4 DEF UploadObservedTarget, CompleteWork, ReplaceWork
    <3> QED
      BY <1>0, <2>4, <3>1 DEF UploadObservedTarget, TellingInv, PermitsTell, Uncertain,
         ConsumedByActive
  <2>5. CASE RecordProviderUploadOutcomeUnknown \/ UploadReadDeferred
    BY <1>1, <2>5 DEF RecordProviderUploadOutcomeUnknown, UploadReadDeferred, ReplaceWork
  <2>6. CASE \E conflict \in BOOLEAN : UploadReadEnded(conflict)
    BY <1>1, <2>6 DEF UploadReadEnded, CompleteWork
  <2> QED
    BY <1>5, <2>1, <2>2, <2>3, <2>4, <2>5, <2>6 DEF ArtworkUpload
<1>6. CASE ProductWrite
  <2>1. CASE BeginProviderCreate \/ BeginProviderUpdate \/ BeginExactUpdateRetry
    <3>1. /\ write'.permit = "available" /\ write'.review = review /\ write'.prior = synced
          /\ writeUnconfirmed' = TRUE /\ write'.op \in {"create", "update"}
          /\ write'.op = "update" => synced # 0
          /\ UNCHANGED <<active, state, review, synced, uploadVars>>
          /\ state = "product_draft_syncing"
      BY <2>1 DEF BeginProviderCreate, BeginProviderUpdate, BeginExactUpdateRetry, ClaimWrite,
         ReadyToWrite
    <3> QED
      BY <3>1 DEF TellingInv, PermitsTell, ConsumedByActive
  <2>2. CASE AuthorizeProviderCall
    BY <1>0, <2>2 DEF AuthorizeProviderCall, CallAuthorized, TellingInv, PermitsTell,
         ConsumedByActive, Uncertain, WriteAttempt
  <2>3. CASE RecordProductSyncSuccess \/ WriteObservedTarget
    <3>1. /\ active' \in {0, lastWork + 1} /\ state' \in {"cancelled", "pricing_refreshing"}
          /\ ProductSynchronized
      BY <2>3 DEF RecordProductSyncSuccess, WriteObservedTarget, ProductSynchronized,
         CompleteWork, ReplaceWork
    <3>2. review # 0
      BY <2>3, HeldWork DEF RecordProductSyncSuccess, WriteObservedTarget, ReconcilingWrite,
         Reconciling, TellingInv, JobInv, WorksListed, FlagsByWork, BindsWrite, Held, WorkType,
         TypeOK, WorkTyped, WorkId, ReviewTyped, Review
    <3> QED
      BY <1>0, <3>1, <3>2 DEF ProductSynchronized, TellingInv, PermitsTell, ConsumedByActive
  <2>4. CASE RecordProductWriteOutcomeUnknown
    <3>1. writeUnconfirmed /\ writeUnconfirmed' = TRUE
      BY <2>4 DEF RecordProductWriteOutcomeUnknown, TellingInv, PermitsTell, Held
    <3> QED
      BY <1>0, <2>4, <3>1 DEF RecordProductWriteOutcomeUnknown, ReplaceWork, TellingInv,
         PermitsTell, ConsumedByActive
  <2>5. CASE WriteObservedPrior
    <3>1. /\ active' \in {0, lastWork + 1} /\ writeUnconfirmed' = FALSE /\ write.op = "update"
          /\ UNCHANGED <<write, reviewVars, uploadVars>>
          /\ state' \in {"cancelled", "failed_terminal", "product_draft_syncing"}
      BY <2>5 DEF WriteObservedPrior, EndReconciliation, CompleteWork, ReplaceWork
    <3> QED
      BY <1>0, <3>1 DEF TellingInv, PermitsTell, ConsumedByActive
  <2>6. CASE WriteReadDeferred
    BY <1>1, <2>6 DEF WriteReadDeferred, ReplaceWork
  <2>7. CASE \E conflict \in BOOLEAN : WriteReadEnded(conflict)
    BY <1>1, <2>7 DEF WriteReadEnded, EndReconciliation, CompleteWork, ReconcilingWrite
  <2> QED
    BY <1>6, <2>1, <2>2, <2>3, <2>4, <2>5, <2>6, <2>7 DEF ProductWrite
<1>7. CASE RecordPricingSuccess
  <2>1. ~Uncertain
    BY <1>7, HeldWork DEF RecordPricingSuccess, TellingInv, JobInv, FlagsByWork
  <2> QED
    BY <1>1, <1>7, <2>1 DEF RecordPricingSuccess, CompleteWork
<1>8. CASE Seller
  <2>1. CASE CancelJob
    <3>1. CASE CloseCancelled
      BY <1>2, <2>1, <3>1 DEF CancelJob, WorkMustSettle, CloseCancelled
    <3>2. CASE /\ UNCHANGED workVars /\ UNCHANGED <<uploadVars, writeVars>>
               /\ state' = "cancel_requested"
      BY <1>1, <2>1, <3>2 DEF CancelJob
    <3> QED
      BY <2>1, <3>1, <3>2 DEF CancelJob
  <2>2. CASE \E passed \in BOOLEAN : ReviseListing(passed)
    <3>1. ~Uncertain /\ active' \in {active, lastWork + 1}
      BY <2>2 DEF ReviseListing, OpenWork, TellingInv, PermitsTell
    <3> QED
      BY <1>0, <2>2, <3>1 DEF ReviseListing, TellingInv, PermitsTell, Uncertain, ConsumedByActive
  <2>3. CASE ApproveReview \/ RefreshEconomics
    BY <1>1, <2>3 DEF ApproveReview, RefreshEconomics, OpenWork
  <2>4. CASE RetryJob
    <3>1. state' \notin {"awaiting_approval", "needs_revision", "approved"}
      BY <2>4 DEF RetryJob, TellingInv, JobInv, TypeOK, JobTyped, MachineStates, NewWorkByState,
         RecordCoherent
    <3> QED
      BY <1>1, <2>4, <3>1 DEF RetryJob, OpenWork
  <2> QED
    BY <1>8, <2>1, <2>2, <2>3, <2>4 DEF Seller
<1>9. CASE Settlement
  <2>1. CASE CloseCancelled
    BY <1>2, <1>9, <2>1 DEF Settlement, RecordWorkerFailure, SettleCancellation, CompleteWork,
       CloseCancelled
  <2>2. CASE ~CloseCancelled
    <3>1. /\ UNCHANGED <<reviewVars, uploadVars, writeVars>> /\ active' \in {0, lastWork + 1}
          /\ state' \in {"reconciliation_required", "failed_retryable", "failed_terminal"}
      BY <1>9, <2>2 DEF Settlement, RecordWorkerFailure, SettleCancellation, CompleteWork,
         ReplaceWork
    <3> QED
      BY <1>1, <3>1
  <2> QED
    BY <2>1, <2>2
<1>10. CASE Clock
  <2>1. /\ write'.op = write.op /\ write'.review = write.review /\ write'.prior = write.prior
    BY <1>0, <1>10 DEF Clock, PricingExpires, UploadDeadlinePasses, WriteDeadlinePasses,
       WriteAttempt
  <2>2. active' = active /\ state' = state
    BY <1>10, ClockKeeps DEF TellingInv, JobInv
  <2> QED
    BY <1>0, <1>10, <2>1, <2>2, ClockKeeps
       DEF TellingInv, JobInv, PermitsTell, ConsumedByActive, Uncertain
<1> QED
  BY <1>3, <1>4, <1>5, <1>6, <1>7, <1>8, <1>9, <1>10 DEF Next

\* No work but the active one changes, and that one only in its status.
Settled(f) ==
  \A w \in WorkId : /\ f[w].type = works[w].type /\ f[w].review = works[w].review
                    /\ w # active => f[w] = works[w]

\* Changing the status of the active work leaves every other work and its type and review.
LEMMA StatusSettles ==
  ASSUME TypeOK, NEW s
  PROVE  Settled([works EXCEPT ![active].status = s])
<1>1. works \in [WorkId -> Work]
  BY DEF TypeOK, WorkTyped
<1> QED
  BY <1>1 DEF Settled, Work

\* Settling works leaves them listed in order.
LEMMA SettledListed ==
  ASSUME TellingInv, TypeOK', Settled(works'), UNCHANGED lastWork, review <= review',
         state' = "listing_drafted" \/ resume' \notin {"none", "analyzing_artwork"} => review' > 0
  PROVE  WorksListed'
<1>1. /\ review \in Nat /\ review' \in Nat /\ active <= lastWork /\ active \in Nat
      /\ lastWork \in Nat /\ \A w \in WorkId : works[w].review \in Nat
  BY DEF TellingInv, JobInv, TypeOK, ReviewTyped, Review, WorkTyped, WorkId, Work, Allocated
<1> QED
  BY <1>1 DEF Settled, WorksListed, TellingInv, WorkId

\* Opening a work leaves the works listed in order.
LEMMA GrownListed ==
  ASSUME TellingInv, TypeOK', NEW t \in WorkTypes,
         (Held /\ ReplaceWork(t) /\ UNCHANGED review) \/ OpenWork(t, review'),
         t = "prepare" \/ review' > 0, review <= review',
         state' = "listing_drafted" \/ resume' \notin {"none", "analyzing_artwork"} => review' > 0
  PROVE  WorksListed'
<1>1. /\ review \in Nat /\ review' \in Nat /\ active <= lastWork /\ active \in 0..MaxWork
      /\ lastWork \in WorkId /\ \A w \in WorkId : works[w].review \in Nat
      /\ works \in [WorkId -> Work] /\ TypeOK
  BY DEF TellingInv, JobInv, TypeOK, ReviewTyped, Review, WorkTyped, WorkId, Work, Allocated
<1>2. /\ lastWork' = lastWork + 1 /\ lastWork' \in WorkId
      /\ works'[lastWork'] = [type |-> t, status |-> "pending", review |-> review']
  BY <1>1 DEF ReplaceWork, OpenWork, WorkId, TypeOK, WorkTyped
<1>3. ASSUME NEW w \in WorkId, w # lastWork'
      PROVE  /\ works'[w].type = works[w].type /\ works'[w].review = works[w].review
             /\ w # active => works'[w] = works[w]
  BY <1>1, <1>2, <1>3 DEF ReplaceWork, OpenWork, Work
<1> QED
  BY <1>1, <1>2, <1>3 DEF WorksListed, TellingInv, WorkId

\* Every command leaves the works listed in order.
LEMMA WorksListedStep ==
  ASSUME TellingInv, TypeOK', [Next]_vars
  PROVE  WorksListed'
<1> USE DEF jobVars, workVars, reviewVars
<1>0. /\ TypeOK /\ review \in Nat /\ JobInv /\ WorksListed /\ OneLiveWork /\ Allocated
      /\ active \in 0..MaxWork /\ review' \in Nat
  BY DEF TellingInv, JobInv, TypeOK, ReviewTyped, Review, WorkTyped
<1>1. /\ active # 0 /\ WorkType # "prepare" => review > 0
      /\ state = "listing_drafted" => review > 0
      /\ resume \notin {"none", "analyzing_artwork"} => review > 0
  BY <1>0 DEF WorksListed, WorkType, Allocated, WorkTypes, WorkId
<1>2. Settled(works)
  BY DEF Settled
<1>3. ASSUME UNCHANGED <<review, resume>>, CompleteWork, state' # "listing_drafted"
      PROVE  WorksListed'
  <2>1. Settled(works') /\ UNCHANGED lastWork /\ review <= review'
    <3>1. Settled([works EXCEPT ![active].status = "completed"])
      BY <1>0, StatusSettles
    <3> QED
      BY <1>0, <1>3, <3>1 DEF CompleteWork
  <2>2. state' = "listing_drafted" \/ resume' \notin {"none", "analyzing_artwork"} => review' > 0
    BY <1>1, <1>3
  <2> QED
    BY <1>0, <2>1, <2>2, SettledListed
<1>4. ASSUME UNCHANGED <<review, resume>>, Held, NEW t \in WorkTypes, ReplaceWork(t),
             state' # "listing_drafted", review > 0
      PROVE  WorksListed'
  BY <1>0, <1>1, <1>4, GrownListed
<1>5. CASE Dispatcher \/ UNCHANGED vars
  <2>1. Settled(works')
    BY <1>0, <1>2, <1>5, StatusSettles DEF Dispatcher, ClaimWork, MarkWorkDispatched, vars
  <2> QED
    BY <1>0, <1>1, <1>5, <2>1, SettledListed DEF Dispatcher, ClaimWork, MarkWorkDispatched, vars
<1>6. CASE Preparation
  <2>1. CASE BeginPreparation \/ \E passed \in BOOLEAN : RecordPreparedReview(passed)
    <3>1. /\ Settled(works') /\ UNCHANGED <<lastWork, resume>> /\ review <= review'
          /\ state' = "listing_drafted" => review' > 0
          /\ state' = "analyzing_artwork" \/ state' = "listing_drafted"
      BY <1>0, <1>2, <2>1 DEF BeginPreparation, RecordPreparedReview
    <3> QED
      BY <1>0, <1>1, <3>1, SettledListed
  <2>2. CASE CompletePreparation
    BY <1>1, <1>3, <1>4, <2>2 DEF CompletePreparation, WorkTypes
  <2> QED
    BY <1>6, <2>1, <2>2 DEF Preparation
<1>7. ASSUME Held, ConsumedByActive(upload) \/ ConsumedByActive(write)
      PROVE  review > 0
  BY <1>0, <1>1, <1>7 DEF JobInv, FlagsByWork, Held
<1>8. CASE ArtworkUpload
  <2>1. CASE UNCHANGED <<workVars, review, resume>> /\ state' = state
    BY <1>0, <1>1, <1>2, <2>1, SettledListed
  <2>2. CASE RecordProviderUploadOutcomeUnknown
    <3>1. /\ UNCHANGED <<review, resume>> /\ Held /\ ReplaceWork("reconcile_product")
          /\ state' = "reconciliation_required" /\ Binds(upload) /\ ConsumedByActive(upload)
      BY <2>2 DEF RecordProviderUploadOutcomeUnknown
    <3> QED
      <4>1. review > 0
        BY <1>7, <3>1
      <4> QED
        BY <1>4, <3>1, <4>1 DEF WorkTypes
  <2>3. CASE \/ UploadObservedTarget \/ UploadReadDeferred
             \/ \E conflict \in BOOLEAN : UploadReadEnded(conflict)
    <3>1. Held /\ WorkType = "reconcile_product" /\ active # 0
      BY <2>3 DEF UploadObservedTarget, UploadReadDeferred, UploadReadEnded, ReconcilingUpload,
         Reconciling, Held
    <3> QED
      BY <1>1, <1>3, <1>4, <2>3, <3>1 DEF UploadObservedTarget, UploadReadDeferred,
         UploadReadEnded, WorkTypes
  <2> QED
    BY <1>8, <2>1, <2>2, <2>3 DEF ArtworkUpload, BeginProviderUpload, AuthorizeProviderUpload,
         UploadAuthorized, RecordProviderUploadSuccess
<1>9. CASE ProductWrite
  <2>1. CASE UNCHANGED <<workVars, review, resume>> /\ state' = state
    BY <1>0, <1>1, <1>2, <2>1, SettledListed
  <2>2. CASE RecordProductWriteOutcomeUnknown
    BY <1>4, <1>7, <2>2 DEF RecordProductWriteOutcomeUnknown, BindsWrite, WorkTypes
  <2>3. CASE RecordProductSyncSuccess
    BY <1>3, <1>4, <1>7, <2>3 DEF RecordProductSyncSuccess, ProductSynchronized, BindsWrite,
       WorkTypes
  <2>4. CASE \/ WriteObservedTarget \/ WriteObservedPrior \/ WriteReadDeferred
             \/ \E conflict \in BOOLEAN : WriteReadEnded(conflict)
    <3>1. Held /\ WorkType = "reconcile_product" /\ active # 0
      BY <2>4 DEF WriteObservedTarget, WriteObservedPrior, WriteReadDeferred, WriteReadEnded,
         ReconcilingWrite, Reconciling, Held
    <3> QED
      BY <1>1, <1>3, <1>4, <2>4, <3>1 DEF WriteObservedTarget, WriteObservedPrior,
         WriteReadDeferred, WriteReadEnded, ProductSynchronized, EndReconciliation, WorkTypes
  <2> QED
    BY <1>9, <2>1, <2>2, <2>3, <2>4 DEF ProductWrite, BeginProviderCreate,
         BeginProviderUpdate, BeginExactUpdateRetry, AuthorizeProviderCall, CallAuthorized,
         ClaimWrite
<1>10. CASE RecordPricingSuccess
  BY <1>3, <1>10 DEF RecordPricingSuccess
<1>11. CASE Seller
  <2>1. CASE CancelJob
    <3>1. Settled(works') /\ UNCHANGED <<lastWork, review, resume>> /\ state' # "listing_drafted"
      BY <1>0, <1>2, <2>1, StatusSettles DEF CancelJob, CloseCancelled
    <3> QED
      BY <1>0, <1>1, <3>1, SettledListed
  <2>2. ASSUME NEW passed \in BOOLEAN, ReviseListing(passed) PROVE WorksListed'
    <3>1. review' = review + 1 /\ UNCHANGED resume /\ review' > 0
      BY <1>0, <2>2 DEF ReviseListing
    <3>2. CASE passed
      BY <1>0, <2>2, <3>1, <3>2, GrownListed DEF ReviseListing, WorkTypes
    <3>3. CASE ~passed
      BY <1>0, <1>2, <2>2, <3>1, <3>3, SettledListed DEF ReviseListing
    <3> QED
      BY <3>2, <3>3
  <2>3. CASE ApproveReview
    BY <1>0, <1>1, <1>2, <2>3, SettledListed DEF ApproveReview
  <2>4. CASE RefreshEconomics
    BY <1>0, <1>1, <2>4, GrownListed DEF RefreshEconomics, WorkTypes
  <2>5. CASE RetryJob
    <3>1. /\ resume \in {"analyzing_artwork", "listing_drafted", "product_draft_syncing",
                         "pricing_refreshing"}
          /\ NewWorkByState[resume] \in WorkTypes
          /\ NewWorkByState[resume] = "prepare" \/ review > 0
      BY <1>0, <1>1, <2>5 DEF RetryJob, JobInv, RecordCoherent, ResumeSound, NewWorkByState,
         WorkTypes
    <3>2. OpenWork(NewWorkByState[resume], review') /\ UNCHANGED review
          /\ state' = resume /\ resume' = "none"
      BY <2>5 DEF RetryJob
    <3> QED
      BY <1>0, <1>1, <3>1, <3>2, GrownListed
  <2> QED
    BY <1>11, <2>1, <2>2, <2>3, <2>4, <2>5 DEF Seller
<1>12. CASE Settlement
  <2>1. CASE SettleCancellation
    <3>1. Held /\ MustReconcile => review > 0
      BY <1>1 DEF MustReconcile, ProductWriteWork, Held
    <3> QED
      BY <1>3, <1>4, <2>1, <3>1 DEF SettleCancellation, CloseCancelled, WorkTypes
  <2>2. ASSUME NEW code \in {"unavailable", "other"}, RecordWorkerFailure(code)
        PROVE  WorksListed'
    <3>1. Held /\ active # 0 /\ UNCHANGED review
      BY <2>2 DEF RecordWorkerFailure, Held
    <3>2. CASE ReplaceWork("reconcile_product")
      <4>1. WorkType # "prepare" /\ UNCHANGED resume /\ state' = "reconciliation_required"
        BY <2>2, <3>2 DEF RecordWorkerFailure, Transient, OutcomeUnknown, ReplaceWork, CompleteWork,
           TellingInv, JobInv, TypeOK, WorkTyped, WorkId
      <4> QED
        BY <1>1, <1>4, <3>1, <3>2, <4>1 DEF WorkTypes
    <3>3. CASE CompleteWork
      <4>1. state' # "listing_drafted"
        BY <2>2 DEF RecordWorkerFailure, CloseCancelled
      <4>2. resume' \in {resume, "analyzing_artwork"} \/ WorkType # "prepare"
            \/ state = "listing_drafted"
        BY <2>2 DEF RecordWorkerFailure
      <4>3. Settled(works') /\ UNCHANGED lastWork
        BY <1>0, <3>3, StatusSettles DEF CompleteWork
      <4> QED
        BY <1>0, <1>1, <3>1, <4>1, <4>2, <4>3, SettledListed
    <3> QED
      BY <2>2, <3>2, <3>3 DEF RecordWorkerFailure
  <2> QED
    BY <1>12, <2>1, <2>2 DEF Settlement
<1>13. CASE Clock
  BY <1>0, <1>1, <1>2, <1>13, ClockKeeps, SettledListed
<1> QED
  BY <1>5, <1>6, <1>8, <1>9, <1>10, <1>11, <1>12, <1>13 DEF Next

\* The first layer of the invariant is inductive over the commands of the job.
LEMMA TellingStep == ASSUME TellingInv, [Next]_vars PROVE TellingInv'
<1>1. JobInv' /\ TypeOK'
  BY JobStep DEF TellingInv, JobInv
<1>2. LedgerInv'
  BY <1>1, LedgerStep DEF TellingInv, JobInv, RecordCoherent, ResumeKnown
<1> QED
  BY <1>1, <1>2, PermitsTellStep, WorksListedStep DEF TellingInv

-----------------------------------------------------------------------------
(* The machine issues nothing but commands of the job.                     *)

Labels == {"off", "start", "upload", "uploading", "uploaded", "uploadLost", "write", "authorize",
           "writing", "putting", "written", "writeLost", "observe", "observed"}

\* A settlement is one command of the job.
LEMMA SettlesCommand ==
  ASSUME NEW w \in WorkId, Settles(w)
  PROVE  Next
BY DEF Settles, Next, Settlement

\* A step of a worker is one command of the job or leaves the job alone.
LEMMA WorkerCommands ==
  ASSUME NEW w \in WorkId, Worker(w)
  PROVE  [Next]_vars
<1>1. CASE PreparationStep(w) \/ PreparationRefused(w)
  BY <1>1 DEF PreparationStep, PreparationRefused, Raise, Next, Preparation
<1>2. CASE SyncStart(w) \/ SyncStartRefused(w)
  BY <1>2 DEF SyncStart, SyncStartRefused, Raise, Next, ArtworkUpload
<1>3. CASE SyncAuthorizeUpload(w) \/ SyncUpload(w) \/ SyncRecordUpload(w)
  BY <1>3 DEF SyncAuthorizeUpload, SyncUpload, SyncRecordUpload, Raise, Next, ArtworkUpload
<1>4. CASE SyncClaimWrite(w) \/ SyncClaimRefused(w)
  BY <1>4 DEF SyncClaimWrite, SyncClaimRefused, Raise, Next, ProductWrite
<1>5. CASE SyncAuthorizeWrite(w) \/ SyncReadPrior(w) \/ SyncWrite(w) \/ SyncRecordWrite(w)
  BY <1>5 DEF SyncAuthorizeWrite, SyncReadPrior, SyncWrite, SyncRecordWrite, Raise, Next,
     ProductWrite
<1>6. CASE ReconcileStart(w) \/ ReconcileObserve(w) \/ ReconcileRefused(w)
  BY <1>6 DEF ReconcileStart, ReconcileObserve, ReconcileRefused, Raise
<1>7. CASE ReconcileRecord(w)
  BY <1>7 DEF ReconcileRecord, RecordPrior, Next, ArtworkUpload, ProductWrite
<1>8. CASE EconomicsStep(w)
  BY <1>8 DEF EconomicsStep, Raise, Next
<1> QED
  BY <1>1, <1>2, <1>3, <1>4, <1>5, <1>6, <1>7, <1>8 DEF Worker

\* So is every step of the machine.
LEMMA MachineCommands ==
  ASSUME [MachineNext]_allVars
  PROVE  [Next]_vars
<1>1. CASE \E w \in WorkId : StartExecution(w) \/ Faults(w)
  BY <1>1 DEF StartExecution, Faults, WorkerDies, InvocationLost, ExecutionDies
<1>2. CASE \E w \in WorkId : Worker(w)
  BY <1>2, WorkerCommands
<1>3. CASE \E w \in WorkId : SettleExecution(w) \/ SweepExecution(w)
  BY <1>3, SettlesCommand DEF SettleExecution, SweepExecution
<1>4. CASE LateEffect \/ UNCHANGED allVars
  BY <1>4 DEF LateEffect, allVars
<1>5. CASE DispatchWork \/ SellerCommand \/ DeadlinePasses \/ PricingAges
  BY <1>5 DEF DispatchWork, SellerCommand, DeadlinePasses, PricingAges, Next, Dispatcher, Clock
<1> QED
  BY <1>1, <1>2, <1>3, <1>4, <1>5 DEF MachineNext

\* Whatever workers, settlements, sweeps and crashes do to a job is a sequence of commands its
\* store accepts: the machine implements ControlJob, so what is proved of every job holds of
\* every job the machine works on.
THEOREM MachineObeysJob == MachineSpec => Spec
<1>1. MachineInit => Init
  BY DEF MachineInit
<1> QED
  BY <1>1, MachineCommands, PTL DEF MachineSpec, Spec

-----------------------------------------------------------------------------
(* What the commands do to the attempts and the works a worker relies on.  *)

\* A work that exists keeps its type and its review, and once it was claimed it never waits again; what
\* becomes active next did not exist before.
LEMMA StatusMoves ==
  ASSUME TellingInv, [Next]_vars, NEW w \in WorkId
  PROVE  /\ works[w].status # "absent" =>
              works'[w].type = works[w].type /\ works'[w].review = works[w].review
         /\ works[w].status \notin {"absent", "pending"} =>
              works'[w].status \notin {"absent", "pending"}
         /\ works[w].status # "absent" /\ active' = w => active = w
<1> USE DEF jobVars, workVars
<1>0. /\ TypeOK /\ works \in [WorkId -> Work] /\ active \in 0..MaxWork /\ lastWork \in WorkId
      /\ active <= lastWork /\ (lastWork + 1 = w => works[w].status = "absent")
      /\ lastWork + 1 > lastWork /\ lastWork # 0
  BY BoundsAssumption DEF TellingInv, JobInv, TypeOK, WorkTyped, Allocated, WorksListed, WorkId
<1> DEFINE Goal == /\ works[w].status # "absent" =>
                        works'[w].type = works[w].type /\ works'[w].review = works[w].review
                   /\ works[w].status \notin {"absent", "pending"} =>
                        works'[w].status \notin {"absent", "pending"}
                   /\ works[w].status # "absent" /\ active' = w => active = w
<1> SUFFICES Goal
  OBVIOUS
<1>1. ASSUME UNCHANGED <<works, active>> PROVE Goal
  BY <1>1
<1>2. ASSUME NEW s \in {"claimed", "dispatched", "completed", "cancelled"},
             works' = [works EXCEPT ![active].status = s], active' \in {active, 0}
      PROVE  Goal
  BY <1>0, <1>2 DEF Work, WorkId
<1>3. ASSUME NEW t, ReplaceWork(t) PROVE Goal
  BY <1>0, <1>3 DEF ReplaceWork, Work
<1>4. ASSUME NEW t, NEW r, OpenWork(t, r) PROVE Goal
  BY <1>0, <1>4 DEF OpenWork, Work
<1>5. ASSUME CompleteWork PROVE Goal
  BY <1>2, <1>5 DEF CompleteWork
<1> HIDE DEF Goal
<1>6. CASE Dispatcher \/ Preparation \/ RecordPricingSuccess \/ UNCHANGED vars
  BY <1>1, <1>2, <1>3, <1>5, <1>6 DEF Dispatcher, ClaimWork, MarkWorkDispatched, Preparation,
     BeginPreparation, RecordPreparedReview, CompletePreparation, RecordPricingSuccess, vars
<1>7. CASE ArtworkUpload
  BY <1>1, <1>3, <1>5, <1>7 DEF ArtworkUpload, BeginProviderUpload, AuthorizeProviderUpload,
       UploadAuthorized, RecordProviderUploadSuccess, UploadReadDeferred,
       RecordProviderUploadOutcomeUnknown, UploadObservedTarget, UploadReadEnded
<1>8. CASE ProductWrite
  BY <1>1, <1>3, <1>5, <1>8 DEF ProductWrite, BeginProviderCreate, BeginProviderUpdate,
       BeginExactUpdateRetry, ClaimWrite, AuthorizeProviderCall, CallAuthorized,
       RecordProductSyncSuccess, WriteObservedTarget, RecordProductWriteOutcomeUnknown,
       WriteObservedPrior, WriteReadDeferred, WriteReadEnded, ProductSynchronized,
       EndReconciliation
<1>9. CASE Seller
  <2>1. CASE CancelJob
    <3>1. CASE active = 0
      <4>1. UNCHANGED <<works, active>>
        BY <2>1, <3>1 DEF CancelJob
      <4> QED
        BY <1>1, <4>1
    <3>2. CASE active # 0
      BY <1>1, <1>2, <2>1, <3>2 DEF CancelJob
    <3> QED
      BY <3>1, <3>2
  <2> QED
    BY <1>1, <1>4, <1>9, <2>1 DEF Seller, ReviseListing, ApproveReview, RefreshEconomics, RetryJob
<1>10. CASE Settlement
  BY <1>3, <1>5, <1>10 DEF Settlement, RecordWorkerFailure, SettleCancellation
<1>11. CASE Clock
  BY <1>0, <1>1, <1>11, ClockKeeps
<1> QED
  BY <1>6, <1>7, <1>8, <1>9, <1>10, <1>11 DEF Next

\* The write attempt is still the same one.
SameWrite == /\ write'.work = write.work /\ write'.op = write.op
             /\ write'.review = write.review /\ write'.prior = write.prior

\* The provider attempts as a worker under way knows them.
AttemptsKept ==
  /\ UNCHANGED <<active, review, synced, uploaded, uploadUnconfirmed, writeUnconfirmed>>
  /\ SameWrite

\* Neither the dispatcher nor a seller nor the clock takes claimed work from its worker.
LEMMA Bystanders ==
  ASSUME TellingInv, Dispatcher \/ Seller \/ Clock, active # 0, works[active].status # "pending"
  PROVE  AttemptsKept
<1> USE DEF AttemptsKept, SameWrite, jobVars, workVars, reviewVars, uploadVars, writeVars
<1>0. TypeOK /\ OneLiveWork /\ RecordCoherent /\ write \in WriteAttempt
  BY DEF TellingInv, JobInv, TypeOK, AttemptsTyped
<1>1. CASE Dispatcher
  BY <1>1 DEF Dispatcher, ClaimWork, MarkWorkDispatched
<1>2. CASE Seller
  <2>1. state \in MachineStates \cup {"cancel_requested"}
    BY <1>0 DEF OneLiveWork
  <2>2. CancelJob
    BY <1>0, <1>2, <2>1 DEF Seller, ReviseListing, ApproveReview, RefreshEconomics, RetryJob,
       MachineStates, NewWorkByState
  <2> QED
    BY <2>2 DEF CancelJob, WorkMustSettle
<1>3. CASE Clock
  <2>1. write'.op = write.op /\ write'.review = write.review /\ write'.prior = write.prior
    BY <1>0, <1>3 DEF Clock, PricingExpires, UploadDeadlinePasses, WriteDeadlinePasses,
       WriteAttempt
  <2> QED
    BY <1>0, <1>3, <2>1, ClockKeeps
<1> QED
  BY <1>1, <1>2, <1>3

\* The commands that touch no permit that may be or was used, and record no evidence.
Plain ==
  \/ Dispatcher \/ Preparation \/ BeginProviderUpload
  \/ RecordProviderUploadOutcomeUnknown \/ UploadReadDeferred
  \/ \E conflict \in BOOLEAN : UploadReadEnded(conflict)
  \/ RecordProductWriteOutcomeUnknown \/ WriteReadDeferred
  \/ \E conflict \in BOOLEAN : WriteReadEnded(conflict)
  \/ RecordPricingSuccess \/ Seller \/ Settlement \/ Clock

\* A permit that was consumed stays so, one that was not is not consumed now, and a call
\* that was permitted stays uncertain until it is evidenced.
Calm ==
  /\ UNCHANGED <<synced, uploaded>> /\ SameWrite /\ review <= review'
  /\ upload.permit = "consumed" <=> upload'.permit = "consumed"
  /\ write.permit = "consumed" <=> write'.permit = "consumed"
  /\ writeUnconfirmed /\ write.permit = "consumed" => writeUnconfirmed' /\ review' = review

\* Commands other than the telling ones leave what is uncertain as it was.
LEMMA PlainCalm == ASSUME TellingInv, [Plain]_vars PROVE Calm
<1> USE DEF SameWrite, jobVars, workVars, reviewVars, uploadVars, writeVars
<1>0. /\ TypeOK /\ write \in WriteAttempt /\ upload \in UploadAttempt /\ review \in Nat
      /\ RecordCoherent /\ PermitsTell /\ LedgerInv
  BY DEF TellingInv, JobInv, TypeOK, AttemptsTyped, ReviewTyped, Review
<1>1. ASSUME UNCHANGED <<synced, uploaded, upload, write, writeUnconfirmed, review>> PROVE Calm
  BY <1>0, <1>1 DEF Calm
<1>2. ASSUME CloseCancelled, UNCHANGED <<review, synced, uploaded, createClaimed>> PROVE Calm
  <2>1. ~(Uncertain /\ UncertainPermit = "consumed")
    BY <1>2, CloseTells
  <2>2. ~(writeUnconfirmed /\ write.permit = "consumed")
    BY <1>0, <2>1 DEF Uncertain, UncertainPermit, RecordCoherent
  <2>3. \/ upload' = upload
        \/ (upload' = [upload EXCEPT !.permit = "retired"] /\ upload.permit # "consumed")
    BY <1>2 DEF CloseCancelled, MustReconcile, UncertainPermit
  <2>4. \/ write' = write
        \/ (write' = [write EXCEPT !.permit = "retired"] /\ write.permit # "consumed")
    BY <1>2 DEF CloseCancelled, MustReconcile, UncertainPermit
  <2> QED
    BY <1>0, <1>2, <2>2, <2>3, <2>4 DEF Calm, WriteAttempt, UploadAttempt
<1>3. CASE Dispatcher \/ RecordPricingSuccess \/ RecordProviderUploadOutcomeUnknown
           \/ UploadReadDeferred \/ (\E conflict \in BOOLEAN : UploadReadEnded(conflict))
           \/ WriteReadDeferred \/ UNCHANGED vars
  BY <1>1, <1>3 DEF Dispatcher, ClaimWork, MarkWorkDispatched, RecordPricingSuccess,
     RecordProviderUploadOutcomeUnknown, UploadReadDeferred, UploadReadEnded,
     WriteReadDeferred, vars
<1>4. CASE BeginProviderUpload
  BY <1>0, <1>4 DEF BeginProviderUpload, Calm, LedgerInv, UploadCounted
<1>5. CASE Preparation
  <2>1. ~writeUnconfirmed
    BY <1>5, HeldWork DEF Preparation, BeginPreparation, RecordPreparedReview,
       CompletePreparation, TellingInv, JobInv, FlagsByWork, Uncertain
  <2> QED
    BY <1>0, <1>5, <2>1 DEF Calm, Preparation, BeginPreparation, RecordPreparedReview,
       CompletePreparation
<1>6. CASE RecordProductWriteOutcomeUnknown \/ \E conflict \in BOOLEAN : WriteReadEnded(conflict)
  BY <1>0, <1>6 DEF Calm, RecordProductWriteOutcomeUnknown, WriteReadEnded, EndReconciliation
<1>7. CASE Seller
  <2>1. ASSUME NEW passed \in BOOLEAN, ReviseListing(passed) PROVE Calm
    BY <1>0, <2>1 DEF ReviseListing, PermitsTell, Uncertain, Calm
  <2>2. CASE CancelJob
    BY <1>1, <1>2, <2>2 DEF CancelJob
  <2> QED
    BY <1>1, <1>7, <2>1, <2>2 DEF Seller, ApproveReview, RefreshEconomics, RetryJob
<1>8. CASE Settlement
  BY <1>1, <1>2, <1>8 DEF Settlement, RecordWorkerFailure, SettleCancellation
<1>9. CASE Clock
  <2>1. /\ write'.op = write.op /\ write'.review = write.review /\ write'.prior = write.prior
    BY <1>0, <1>9 DEF Clock, PricingExpires, UploadDeadlinePasses, WriteDeadlinePasses,
       WriteAttempt
  <2> QED
    BY <1>0, <1>9, <2>1, ClockKeeps DEF Calm
<1> QED
  BY <1>3, <1>4, <1>5, <1>6, <1>7, <1>8, <1>9 DEF Plain

-----------------------------------------------------------------------------
(* What is still to be written.                                            *)

\* A synchronization, also one that failed, and a write that is uncertain are of a review the
\* record does not have on the product; until the first one nothing is there; and what was
\* used up to fail retryably left nothing unknown.
WriteOwed ==
  /\ state \in {"intake_validated", "analyzing_artwork", "listing_drafted"} => synced = 0
  /\ state = "failed_retryable" =>
       /\ resume \in {"analyzing_artwork", "listing_drafted"} => synced = 0
       /\ resume = "product_draft_syncing" => synced # review
       /\ ~(Uncertain /\ UncertainPermit = "consumed")
  /\ state = "product_draft_syncing" \/ writeUnconfirmed => synced # review

\* An upload is of a saved review, and a write of one whose artwork is there.
AttemptsGrounded ==
  /\ upload.work # 0 => review > 0
  /\ write.op # "none" \/ synced # 0 => uploaded
  /\ write.op # "none" => write.review > 0

OwedInv == WriteOwed /\ AttemptsGrounded

\* At the start nothing is owed.
LEMMA InitOwed == Init => OwedInv
  BY BoundsAssumption DEF Init, OwedInv, WriteOwed, AttemptsGrounded, NoUpload, NoWrite

\* The second layer of the invariant is inductive over the commands of the job.
LEMMA OwedStep == ASSUME TellingInv, OwedInv, [Next]_vars PROVE OwedInv'
<1> USE DEF jobVars, workVars, reviewVars, uploadVars, writeVars
<1>0. /\ review \in Nat /\ synced \in Nat /\ synced <= review /\ TypeOK /\ JobInv
      /\ WorksListed /\ PermitsTell /\ OneLiveWork /\ RecordCoherent /\ WriteOwed
      /\ AttemptsGrounded /\ LedgerInv
      /\ upload \in UploadAttempt /\ write \in WriteAttempt
  BY DEF TellingInv, JobInv, TypeOK, ReviewTyped, Review, RecordCoherent, OwedInv, AttemptsTyped
<1>1. ASSUME UNCHANGED <<review, synced, uploaded>>, UNCHANGED <<upload, uploadUnconfirmed>>,
             UNCHANGED <<write, writeUnconfirmed>>,
             \/ state' = state /\ resume' = resume
             \/ state' \notin {"intake_validated", "analyzing_artwork", "listing_drafted",
                               "failed_retryable", "product_draft_syncing"}
             \/ state \in {"intake_validated", "analyzing_artwork"}
                  /\ state' \in {"analyzing_artwork", "listing_drafted"}
      PROVE  OwedInv'
  BY <1>0, <1>1 DEF OwedInv, WriteOwed, AttemptsGrounded, Uncertain, UncertainPermit
<1>2. ASSUME CloseCancelled, UNCHANGED <<review, synced, uploaded, createClaimed>>
      PROVE  OwedInv'
  <2>1. /\ state' = "cancelled" /\ ~writeUnconfirmed' /\ upload'.work = upload.work
        /\ write'.op = write.op /\ write'.review = write.review
    BY <1>0, <1>2 DEF CloseCancelled, WriteAttempt, UploadAttempt
  <2> QED
    BY <1>0, <1>2, <2>1 DEF OwedInv, WriteOwed, AttemptsGrounded
<1>3. CASE Dispatcher \/ RecordPricingSuccess \/ UNCHANGED vars
  BY <1>1, <1>3 DEF Dispatcher, ClaimWork, MarkWorkDispatched, RecordPricingSuccess, vars
<1>4. CASE Preparation
  <2>1. CASE BeginPreparation
    BY <1>1, <2>1 DEF BeginPreparation
  <2>2. ASSUME NEW passed \in BOOLEAN, RecordPreparedReview(passed) PROVE OwedInv'
    <3>1. ~Uncertain
      BY <1>0, <2>2, HeldWork DEF RecordPreparedReview, JobInv, FlagsByWork
    <3>2. state' = "listing_drafted" /\ synced' = 0 /\ review' > 0 /\ ~writeUnconfirmed'
      BY <1>0, <2>2, <3>1 DEF RecordPreparedReview, WriteOwed, Uncertain
    <3> QED
      BY <1>0, <2>2, <3>2 DEF RecordPreparedReview, OwedInv, WriteOwed, AttemptsGrounded
  <2>3. CASE CompletePreparation
    <3>1. state' \in {"product_draft_syncing", "needs_revision"} /\ synced = 0 /\ review > 0
      BY <1>0, <2>3 DEF CompletePreparation, WriteOwed, WorksListed
    <3> QED
      BY <1>0, <2>3, <3>1 DEF CompletePreparation, OwedInv, WriteOwed, AttemptsGrounded
  <2> QED
    BY <1>4, <2>1, <2>2, <2>3 DEF Preparation
<1>5. CASE ArtworkUpload
  <2>1. CASE BeginProviderUpload
    <3>1. review > 0
      BY <1>0, <2>1 DEF BeginProviderUpload, WorksListed, WorkType, Held, TypeOK, WorkTyped, WorkId
    <3> QED
      BY <1>0, <2>1, <3>1 DEF BeginProviderUpload, OwedInv, WriteOwed, AttemptsGrounded
  <2>2. CASE AuthorizeProviderUpload
    <3>1. upload'.work = upload.work /\ state = "product_draft_syncing"
      BY <1>0, <2>2 DEF AuthorizeProviderUpload, UploadAuthorized, UploadAttempt
    <3> QED
      BY <1>0, <2>2, <3>1 DEF AuthorizeProviderUpload, OwedInv, WriteOwed, AttemptsGrounded
  <2>3. CASE RecordProviderUploadSuccess
    BY <1>0, <2>3 DEF RecordProviderUploadSuccess, OwedInv, WriteOwed, AttemptsGrounded
  <2>4. CASE UploadObservedTarget
    <3>1. uploadUnconfirmed /\ synced = 0 /\ review > 0
      BY <1>0, <2>4 DEF UploadObservedTarget, ReconcilingUpload, RecordCoherent, AttemptsGrounded
    <3>2. state' \in {"cancelled", "product_draft_syncing"} /\ uploaded'
      BY <2>4 DEF UploadObservedTarget
    <3> QED
      BY <1>0, <2>4, <3>1, <3>2 DEF UploadObservedTarget, OwedInv, WriteOwed, AttemptsGrounded
  <2>5. CASE \/ RecordProviderUploadOutcomeUnknown \/ UploadReadDeferred
             \/ \E conflict \in BOOLEAN : UploadReadEnded(conflict)
    BY <1>1, <2>5 DEF RecordProviderUploadOutcomeUnknown, UploadReadDeferred, UploadReadEnded
  <2> QED
    BY <1>5, <2>1, <2>2, <2>3, <2>4, <2>5 DEF ArtworkUpload
<1>6. CASE ProductWrite
  <2>1. CASE BeginProviderCreate \/ BeginProviderUpdate \/ BeginExactUpdateRetry
    <3>1. /\ write'.review = review /\ state = "product_draft_syncing" /\ uploaded
          /\ upload.work # 0 /\ UNCHANGED <<state, upload, uploaded, synced, review>>
      BY <2>1 DEF BeginProviderCreate, BeginProviderUpdate, BeginExactUpdateRetry, ReadyToWrite,
         ClaimWrite
    <3> QED
      BY <1>0, <3>1 DEF OwedInv, WriteOwed, AttemptsGrounded
  <2>2. CASE AuthorizeProviderCall
    <3>1. write'.op = write.op /\ write'.review = write.review /\ state = "product_draft_syncing"
      BY <1>0, <2>2 DEF AuthorizeProviderCall, CallAuthorized, WriteAttempt
    <3> QED
      BY <1>0, <2>2, <3>1 DEF AuthorizeProviderCall, OwedInv, WriteOwed, AttemptsGrounded
  <2>3. CASE RecordProductSyncSuccess \/ WriteObservedTarget
    <3>1. /\ UNCHANGED <<review, upload, uploaded, write>> /\ ~writeUnconfirmed'
          /\ state' \in {"cancelled", "pricing_refreshing"}
      BY <2>3 DEF RecordProductSyncSuccess, WriteObservedTarget, ProductSynchronized
    <3>2. write.op # "none"
      BY <1>0, <2>3 DEF RecordProductSyncSuccess, WriteObservedTarget, ReconcilingWrite, BindsWrite,
         Binds, LedgerInv, CreateCounted
    <3> QED
      BY <1>0, <3>1, <3>2 DEF OwedInv, WriteOwed, AttemptsGrounded
  <2>4. CASE WriteObservedPrior
    <3>1. /\ writeUnconfirmed /\ UNCHANGED <<review, synced, upload, uploaded, write>>
          /\ state' \in {"cancelled", "failed_terminal", "product_draft_syncing"}
      BY <2>4 DEF WriteObservedPrior, ReconcilingWrite, EndReconciliation
    <3> QED
      BY <1>0, <3>1 DEF OwedInv, WriteOwed, AttemptsGrounded
  <2>5. CASE \/ RecordProductWriteOutcomeUnknown \/ WriteReadDeferred
             \/ \E conflict \in BOOLEAN : WriteReadEnded(conflict)
    <3>1. /\ UNCHANGED <<review, synced, upload, uploaded, write>>
          /\ state' \in {"cancelled", "failed_terminal", "reconciliation_required"}
          /\ writeUnconfirmed \/ state = "product_draft_syncing" \/ state = "cancel_requested"
      BY <2>5 DEF RecordProductWriteOutcomeUnknown, WriteReadDeferred, WriteReadEnded,
         EndReconciliation, ReconcilingWrite
    <3>2. synced # review
      BY <1>0, <2>5, <3>1 DEF RecordProductWriteOutcomeUnknown, WriteReadDeferred, WriteReadEnded,
         ReconcilingWrite, PermitsTell, Held, WriteOwed
    <3> QED
      BY <1>0, <3>1, <3>2 DEF OwedInv, WriteOwed, AttemptsGrounded
  <2> QED
    BY <1>6, <2>1, <2>2, <2>3, <2>4, <2>5 DEF ProductWrite
<1>7. CASE Seller
  <2>1. CASE CancelJob
    BY <1>1, <1>2, <2>1 DEF CancelJob
  <2>2. ASSUME NEW passed \in BOOLEAN, ReviseListing(passed) PROVE OwedInv'
    <3>1. /\ review' = review + 1 /\ ~writeUnconfirmed'
          /\ state' \in {"product_draft_syncing", "needs_revision"}
          /\ UNCHANGED <<synced, upload, uploaded, write>>
      BY <1>0, <2>2 DEF ReviseListing, PermitsTell, Uncertain
    <3> QED
      BY <1>0, <3>1 DEF OwedInv, WriteOwed, AttemptsGrounded
  <2>3. CASE ApproveReview \/ RefreshEconomics
    BY <1>1, <2>3 DEF ApproveReview, RefreshEconomics
  <2>4. CASE RetryJob
    <3>1. /\ state = "failed_retryable" /\ state' = resume
          /\ resume \in {"analyzing_artwork", "listing_drafted", "product_draft_syncing",
                         "pricing_refreshing"}
          /\ UNCHANGED <<synced, review, upload, uploaded, write, writeUnconfirmed>>
      BY <1>0, <2>4 DEF RetryJob, JobInv, RecordCoherent, ResumeSound
    <3> QED
      BY <1>0, <3>1 DEF OwedInv, WriteOwed, AttemptsGrounded
  <2> QED
    BY <1>7, <2>1, <2>2, <2>3, <2>4 DEF Seller
<1>8. CASE Settlement
  <2>1. CASE SettleCancellation
    BY <1>1, <1>2, <2>1 DEF SettleCancellation
  <2>2. ASSUME NEW code \in {"unavailable", "other"}, RecordWorkerFailure(code) PROVE OwedInv'
    <3>1. CASE CloseCancelled
      BY <1>2, <2>2, <3>1 DEF RecordWorkerFailure, CloseCancelled
    <3>2. CASE state' = "failed_retryable" /\ ~CloseCancelled
      <4>1. /\ ~cancelRequested /\ ~OutcomeUnknown /\ UNCHANGED <<uploadVars, writeVars, reviewVars>>
            /\ resume' = CASE WorkType = "synchronize_product" -> "product_draft_syncing"
                          [] WorkType = "refresh_economics"   -> "pricing_refreshing"
                          [] WorkType = "prepare" /\ state = "listing_drafted" -> "listing_drafted"
                          [] OTHER -> "analyzing_artwork"
            /\ WorkType # "reconcile_product" /\ Held
        BY <2>2, <3>2 DEF RecordWorkerFailure, Transient, Retryable
      <4>2. state # "cancel_requested" /\ WorkType \in WorkTypes /\ active # 0
        BY <1>0, <4>1 DEF RecordCoherent, JobInv, Allocated, Held
      <4>3. ~(Uncertain /\ UncertainPermit = "consumed")
        BY <1>0, <4>1, <4>2 DEF OutcomeUnknown, JobInv, FlagsByWork, WorkTypes
      <4>4. /\ resume' \in {"analyzing_artwork", "listing_drafted"} => synced = 0
            /\ resume' = "product_draft_syncing" => synced # review
        BY <1>0, <4>1, <4>2, HeldWork DEF WriteOwed
      <4> QED
        BY <1>0, <3>2, <4>1, <4>3, <4>4 DEF OwedInv, WriteOwed, AttemptsGrounded, Uncertain,
           UncertainPermit
    <3>3. CASE state' # "failed_retryable" /\ ~CloseCancelled
      BY <1>1, <2>2, <3>3 DEF RecordWorkerFailure
    <3> QED
      BY <3>1, <3>2, <3>3
  <2> QED
    BY <1>8, <2>1, <2>2 DEF Settlement
<1>9. CASE Clock
  <2>1. write'.op = write.op /\ write'.review = write.review
    BY <1>0, <1>9 DEF Clock, PricingExpires, UploadDeadlinePasses, WriteDeadlinePasses,
       WriteAttempt
  <2> QED
    BY <1>0, <1>9, <2>1, ClockKeeps DEF OwedInv, WriteOwed, AttemptsGrounded, Uncertain,
       UncertainPermit
<1> QED
  BY <1>3, <1>4, <1>5, <1>6, <1>7, <1>8, <1>9 DEF Next

-----------------------------------------------------------------------------
(* What the steps of a worker do to its execution.                         *)

Execs == {"none", "worker", "settling", "ended", "dead"}
Reads == {"nothing", "none", "target", "prior", "conflict", "unavailable"}
Carried == [work : 0..MaxWork, op : {"none", "create", "update"}, prior : Review]
Call == [op : {"upload", "create", "update"}, review : Review]

MachineTyped ==
  /\ exec \in [WorkId -> Execs] /\ pc \in [WorkId -> Labels] /\ seen \in [WorkId -> Reads]
  /\ attempt \in [WorkId -> Carried] /\ calls \subseteq Call
  /\ faults \in 0..MaxFaults /\ overtaken \in BOOLEAN
  /\ \A w \in WorkId : exec[w] = "worker" => pc[w] # "off"

\* The places before a work has claimed its write, and those at which it carries an attempt.
PreClaim == {"start", "upload", "uploading", "uploaded", "uploadLost", "write"}
Carrying == {"authorize", "writing", "putting", "written"}

\* A worker gets the permit for its call.
AuthorizesUpload(w) ==
  pc[w] = "upload" /\ AuthorizeProviderUpload /\ Goto(w, "uploading") /\ NoProviderCall

AuthorizesWrite(w) ==
  /\ pc[w] = "authorize" /\ CarriesCurrent(w) /\ AuthorizeProviderCall /\ Goto(w, "writing")
  /\ NoProviderCall

\* The ways to the places that matter.
Enters(w, l) ==
  /\ l \in PreClaim => pc[w] \in PreClaim
  /\ l = "uploading" => AuthorizesUpload(w)
  /\ l = "uploaded" => SyncUpload(w)
  /\ l = "authorize" => SyncClaimWrite(w)
  /\ l = "writing" => AuthorizesWrite(w)
  /\ l = "putting" => pc[w] = "writing"
  /\ l = "written" => SyncWrite(w)
  /\ l = "observe" => works[w].type = "reconcile_product"
  /\ l = "observed" => ReconcileObserve(w)

\* A worker moves only its own control, keeps or forgets the attempt it carries unless it
\* claims one, and when it is done its execution is told so.
WorkerMoved(w) ==
  /\ pc[w] # "off"
  /\ \E l \in Labels :
       /\ pc' = [pc EXCEPT ![w] = l] /\ Enters(w, l)
       /\ \/ l = "off" /\ attempt' = [attempt EXCEPT ![w] = NoAttempt]
          \/ l \notin {"off", "authorize"} /\ attempt' = attempt
          \/ l = "authorize" /\ \E a : attempt' = [attempt EXCEPT ![w] = a]
       /\ \/ exec' = exec /\ l # "off"
          \/ \E x \in {"ended", "settling"} :
               exec' = [exec EXCEPT ![w] = IF @ = "worker" THEN x ELSE @]
  /\ seen' = seen \/ (\E s \in Reads : seen' = [seen EXCEPT ![w] = s])
  /\ faults' = faults \/ Fault

\* A reading is one of the five the reconciliation tells apart.
LEMMA ReadingKnown == Reading \in Reads
  BY DEF Reading, UploadRead, CreateRead, UpdateRead, Reads

\* A worker that stops keeps its attempt and moves itself alone.
LEMMA StopMoves ==
  ASSUME NEW w \in WorkId, NEW x \in {"ended", "settling"}, Stop(w, x), pc[w] # "off",
         UNCHANGED faults \/ Fault
  PROVE  WorkerMoved(w)
<1>1. Enters(w, "off") /\ "off" \in Labels /\ "nothing" \in Reads
  BY DEF Enters, Labels, PreClaim, Reads
<1> QED
  BY <1>1 DEF Stop, WorkerMoved

\* So does a worker that goes on to a step without a new attempt.
LEMMA GotoMoves ==
  ASSUME NEW w \in WorkId, NEW l \in Labels, Goto(w, l), pc[w] # "off", Enters(w, l),
         l \notin {"off", "authorize"}, UNCHANGED faults \/ Fault
  PROVE  WorkerMoved(w)
BY DEF Goto, WorkerMoved

\* A step of a worker moves no other worker.
LEMMA WorkerMoves ==
  ASSUME NEW w \in WorkId, Worker(w)
  PROVE  WorkerMoved(w)
<1> USE DEF Return, Raise, NoProviderCall, callVars
<1> DEFINE Ends == \E x \in {"ended", "settling"} : Stop(w, x) /\ UNCHANGED faults
<1> HIDE DEF Ends
<1>0. Ends /\ pc[w] # "off" => WorkerMoved(w)
  BY StopMoves DEF Ends
<1>a. (Raise(w) => Ends) /\ (Return(w) /\ UNCHANGED faults => Ends)
  BY DEF Ends
<1>b. ASSUME NEW l \in Labels, Goto(w, l), pc[w] # "off", Enters(w, l), l \notin {"off", "authorize"},
             UNCHANGED faults \/ Fault
      PROVE  WorkerMoved(w)
  BY <1>b, GotoMoves
<1>1. CASE PreparationStep(w) \/ PreparationRefused(w)
  <2>1. pc[w] = "start" /\ (Ends \/ (Goto(w, "start") /\ UNCHANGED faults))
    BY <1>1, <1>a DEF PreparationStep, PreparationRefused
  <2> QED
    BY <1>0, <1>b, <2>1 DEF Labels, Enters, PreClaim
<1>2. CASE SyncStart(w) \/ SyncStartRefused(w)
  <2>1. pc[w] = "start" /\ (Ends \/ (Goto(w, "upload") /\ UNCHANGED faults))
    BY <1>2, <1>a DEF SyncStart, SyncStartRefused
  <2> QED
    BY <1>0, <1>b, <2>1 DEF Labels, Enters, PreClaim
<1>3. CASE SyncAuthorizeUpload(w)
  <2>1. /\ pc[w] = "upload"
        /\ \/ Ends
           \/ AuthorizesUpload(w) /\ Goto(w, "uploading") /\ UNCHANGED faults
           \/ Goto(w, "uploadLost") /\ UNCHANGED faults
    BY <1>3, <1>a DEF SyncAuthorizeUpload, AuthorizesUpload
  <2> QED
    BY <1>0, <1>b, <2>1 DEF Labels, Enters, PreClaim
<1>4. CASE SyncUpload(w)
  <2>1. /\ pc[w] = "uploading" /\ (UNCHANGED faults \/ Fault)
        /\ Goto(w, "uploaded") \/ Goto(w, "uploadLost")
    BY <1>4 DEF SyncUpload
  <2> QED
    BY <1>b, <1>4, <2>1 DEF Labels, Enters, PreClaim
<1>5. CASE SyncRecordUpload(w)
  <2>1. /\ pc[w] \in {"uploaded", "uploadLost"}
        /\ Ends \/ (Goto(w, "write") /\ UNCHANGED faults)
    BY <1>5, <1>a DEF SyncRecordUpload
  <2> QED
    BY <1>0, <1>b, <2>1 DEF Labels, Enters, PreClaim
<1>6. CASE SyncClaimWrite(w)
  <2>1. Enters(w, "authorize") /\ "authorize" \in Labels
    BY <1>6 DEF Enters, Labels, PreClaim
  <2> QED
    BY <1>6, <2>1 DEF SyncClaimWrite, AtWrite, WorkerMoved
<1>7. CASE SyncClaimRefused(w)
  BY <1>0, <1>7, <1>a DEF SyncClaimRefused, AtWrite
<1>8. CASE SyncAuthorizeWrite(w)
  <2>1. /\ pc[w] = "authorize"
        /\ \/ Ends
           \/ AuthorizesWrite(w) /\ Goto(w, "writing") /\ UNCHANGED faults
           \/ Goto(w, "writeLost") /\ UNCHANGED faults
    BY <1>8, <1>a DEF SyncAuthorizeWrite, AuthorizesWrite
  <2> QED
    BY <1>0, <1>b, <2>1 DEF Labels, Enters, PreClaim
<1>9. CASE SyncReadPrior(w)
  <2>1. /\ pc[w] = "writing" /\ (UNCHANGED faults \/ Fault)
        /\ Goto(w, "putting") \/ Goto(w, "writeLost")
    BY <1>9 DEF SyncReadPrior
  <2> QED
    BY <1>b, <2>1 DEF Labels, Enters, PreClaim
<1>10. CASE SyncWrite(w)
  <2>1. /\ pc[w] \in {"writing", "putting"} /\ (UNCHANGED faults \/ Fault)
        /\ Goto(w, "written") \/ Goto(w, "writeLost")
    BY <1>10 DEF SyncWrite
  <2> QED
    BY <1>b, <1>10, <2>1 DEF Labels, Enters, PreClaim
<1>11. CASE SyncRecordWrite(w)
  BY <1>0, <1>11, <1>a DEF SyncRecordWrite
<1>12. CASE ReconcileStart(w)
  <2>1. /\ pc[w] = "start" /\ works[w].type = "reconcile_product"
        /\ Ends \/ (Goto(w, "observe") /\ UNCHANGED faults)
    BY <1>12, <1>a DEF ReconcileStart
  <2> QED
    BY <1>0, <1>b, <2>1 DEF Labels, Enters, PreClaim
<1>13. CASE ReconcileObserve(w)
  <2>1. \E s \in Reads : seen' = [seen EXCEPT ![w] = s]
    BY <1>13, ReadingKnown DEF ReconcileObserve, Reads
  <2>2. Enters(w, "observed") /\ "observed" \in Labels
    BY <1>13 DEF Enters, Labels, PreClaim, ReconcileObserve
  <2> QED
    BY <1>13, <2>1, <2>2 DEF ReconcileObserve, WorkerMoved
<1>14. CASE ReconcileRecord(w)
  <2>1. pc[w] = "observed" /\ Stop(w, "ended") /\ (UNCHANGED faults \/ Fault)
    BY <1>14 DEF ReconcileRecord
  <2> QED
    BY <2>1, StopMoves
<1>15. CASE ReconcileRefused(w)
  BY <1>0, <1>15, <1>a DEF ReconcileRefused
<1>16. CASE EconomicsStep(w)
  BY <1>0, <1>16, <1>a DEF EconomicsStep
<1> QED
  BY <1>1, <1>2, <1>3, <1>4, <1>5, <1>6, <1>7, <1>8, <1>9, <1>10, <1>11, <1>12, <1>13, <1>14,
     <1>15, <1>16 DEF Worker

\* Everyone else leaves a worker where it is, or starts or stops it.
OthersMoved ==
  /\ \A v \in WorkId :
       \/ pc'[v] = pc[v] /\ attempt'[v] = attempt[v] /\ seen'[v] = seen[v]
            /\ (exec[v] # "none" <=> exec'[v] # "none")
       \/ exec[v] = "none" /\ works[v].status = "claimed" /\ exec'[v] = "worker"
            /\ pc'[v] = "start" /\ attempt'[v] = attempt[v] /\ seen'[v] = seen[v]
       \/ pc[v] # "off" /\ pc'[v] = "off" /\ attempt'[v] = NoAttempt /\ seen'[v] = "nothing"
            /\ (exec[v] # "none" <=> exec'[v] # "none")

Outside(w) == StartExecution(w) \/ Faults(w) \/ SettleExecution(w) \/ SweepExecution(w)

\* Starting, failing and settling an execution moves no worker but its own.
LEMMA OutsideMoves ==
  ASSUME MachineTyped,
         \/ \E w \in WorkId : Outside(w)
         \/ LateEffect \/ DispatchWork \/ SellerCommand \/ DeadlinePasses \/ PricingAges
         \/ UNCHANGED allVars
  PROVE  MachineTyped' /\ OthersMoved
<1> USE DEF OthersMoved
<1>0. Fault => faults' \in 0..MaxFaults
  BY MachineAssumption DEF MachineTyped, Fault
<1>1. ASSUME NEW w \in WorkId, StartExecution(w) PROVE MachineTyped' /\ OthersMoved
  BY <1>1 DEF StartExecution, MachineTyped, Labels, Execs, callVars
<1>2. ASSUME NEW w \in WorkId, WorkerDies(w) PROVE MachineTyped' /\ OthersMoved
  <2>1. NoAttempt \in Carried
    BY BoundsAssumption DEF NoAttempt, Carried, Review
  <2> QED
    BY <1>0, <1>2, <2>1 DEF WorkerDies, Stop, MachineTyped, Labels, Execs, Reads
<1>3. ASSUME NEW w \in WorkId, InvocationLost(w) \/ ExecutionDies(w)
      PROVE  MachineTyped' /\ OthersMoved
  BY <1>0, <1>3 DEF InvocationLost, ExecutionDies, MachineTyped, Execs
<1>4. ASSUME NEW w \in WorkId, SettleExecution(w) PROVE MachineTyped' /\ OthersMoved
  BY <1>4 DEF SettleExecution, MachineTyped, NoProviderCall, callVars, Execs
<1>5. ASSUME NEW w \in WorkId, SweepExecution(w) PROVE MachineTyped' /\ OthersMoved
  BY <1>5 DEF SweepExecution, machineVars, MachineTyped, NoProviderCall, callVars
<1>6. CASE LateEffect
  BY <1>6 DEF LateEffect, machineVars, MachineTyped
<1>7. CASE DispatchWork \/ SellerCommand \/ DeadlinePasses \/ PricingAges \/ UNCHANGED allVars
  BY <1>7 DEF DispatchWork, SellerCommand, DeadlinePasses, PricingAges, allVars, machineVars,
     NoProviderCall, callVars, MachineTyped
<1> QED
  BY <1>1, <1>2, <1>3, <1>4, <1>5, <1>6, <1>7 DEF Outside, Faults

-----------------------------------------------------------------------------
(* Which command each step of the machine issues.                          *)

LearnsUpload(w) ==
  pc[w] = "uploaded" /\ active = w /\ RecordProviderUploadSuccess /\ Goto(w, "write")
    /\ NoProviderCall

LearnsWrite(w) ==
  pc[w] = "written" /\ active = w /\ RecordProductSyncSuccess /\ Return(w) /\ NoProviderCall

Observes(w) ==
  /\ pc[w] = "observed" /\ active = w /\ Return(w) /\ UNCHANGED <<calls, providerVars, overtaken>>
  /\ seen[w] = "target" /\ (UploadObservedTarget \/ WriteObservedTarget)

WritesOff(w) ==
  /\ pc[w] = "observed" /\ active = w /\ Return(w) /\ UNCHANGED <<calls, providerVars>>
  /\ RecordPrior

\* A step that neither permits a call, nor makes one, nor learns anything from one.
Quiet == [Plain]_vars /\ UNCHANGED <<calls, providerVars, overtaken>>

Telling(w) ==
  \/ AuthorizesUpload(w) \/ SyncUpload(w) \/ LearnsUpload(w)
  \/ SyncClaimWrite(w) \/ AuthorizesWrite(w) \/ SyncWrite(w) \/ LearnsWrite(w)
  \/ Observes(w) \/ WritesOff(w)

\* A step of a worker is one of the telling steps or a plain command.
LEMMA WorkerKinds ==
  ASSUME NEW w \in WorkId, Worker(w)
  PROVE  Quiet \/ Telling(w)
<1> USE DEF Raise, NoProviderCall, callVars, Quiet, Telling, Owns
<1>1. CASE PreparationStep(w) \/ PreparationRefused(w)
  BY <1>1 DEF PreparationStep, PreparationRefused, Plain, Preparation
<1>2. CASE SyncStart(w) \/ SyncStartRefused(w)
  BY <1>2 DEF SyncStart, SyncStartRefused, Plain
<1>3. CASE SyncAuthorizeUpload(w)
  BY <1>3 DEF SyncAuthorizeUpload, AuthorizesUpload
<1>4. CASE SyncRecordUpload(w)
  BY <1>4 DEF SyncRecordUpload, LearnsUpload, Plain, MaySync
<1>5. CASE SyncClaimRefused(w)
  BY <1>5 DEF SyncClaimRefused
<1>6. CASE SyncAuthorizeWrite(w)
  BY <1>6 DEF SyncAuthorizeWrite, AuthorizesWrite
<1>7. CASE SyncReadPrior(w)
  BY <1>7 DEF SyncReadPrior
<1>8. CASE SyncRecordWrite(w)
  BY <1>8 DEF SyncRecordWrite, LearnsWrite, Plain
<1>9. CASE ReconcileStart(w) \/ ReconcileObserve(w) \/ ReconcileRefused(w)
  BY <1>9 DEF ReconcileStart, ReconcileObserve, ReconcileRefused
<1>10. CASE ReconcileRecord(w)
  BY <1>10 DEF ReconcileRecord, Observes, WritesOff, Plain
<1>11. CASE EconomicsStep(w)
  BY <1>11 DEF EconomicsStep, Plain
<1> QED
  BY <1>1, <1>2, <1>3, <1>4, <1>5, <1>6, <1>7, <1>8, <1>9, <1>10, <1>11 DEF Worker

\* A step of the machine is a telling step, a plain command or a late effect.
LEMMA MachineKinds ==
  ASSUME [MachineNext]_allVars
  PROVE  Quiet \/ (\E w \in WorkId : Worker(w) /\ Telling(w)) \/ LateEffect
<1>1. CASE \E w \in WorkId : Worker(w)
  BY <1>1, WorkerKinds
<1>2. CASE \E w \in WorkId : StartExecution(w) \/ Faults(w)
  BY <1>2 DEF StartExecution, Faults, WorkerDies, InvocationLost, ExecutionDies, Quiet, callVars
<1>3. CASE \E w \in WorkId : SettleExecution(w) \/ SweepExecution(w)
  BY <1>3 DEF SettleExecution, SweepExecution, Settles, Settlement, NoProviderCall, callVars,
     Quiet, Plain
<1>4. CASE DispatchWork \/ SellerCommand \/ DeadlinePasses \/ PricingAges \/ UNCHANGED allVars
  BY <1>4 DEF DispatchWork, SellerCommand, DeadlinePasses, PricingAges, Dispatcher, Clock,
     NoProviderCall, callVars, Quiet, Plain, allVars
<1> QED
  BY <1>1, <1>2, <1>3, <1>4 DEF MachineNext

\* What the commands of the telling steps leave of the write attempt.
LEMMA TellingKeeps ==
  ASSUME TellingInv, NEW w \in WorkId, Telling(w)
  PROVE  /\ SyncClaimWrite(w) \/ SameWrite
         /\ UNCHANGED review
<1> USE DEF SameWrite, reviewVars, writeVars
<1>0. write \in WriteAttempt
  BY DEF TellingInv, JobInv, TypeOK, AttemptsTyped
<1>1. CASE AuthorizesUpload(w) \/ LearnsUpload(w)
  BY <1>1 DEF AuthorizesUpload, LearnsUpload, AuthorizeProviderUpload,
     RecordProviderUploadSuccess
<1>2. CASE SyncUpload(w) \/ SyncWrite(w)
  BY <1>2 DEF SyncUpload, SyncWrite, vars
<1>3. CASE AuthorizesWrite(w)
  BY <1>0, <1>3 DEF AuthorizesWrite, AuthorizeProviderCall, WriteAttempt
<1>4. CASE LearnsWrite(w)
  BY <1>4 DEF LearnsWrite, RecordProductSyncSuccess, ProductSynchronized
<1>5. CASE Observes(w) \/ WritesOff(w)
  BY <1>5 DEF Observes, WritesOff, UploadObservedTarget, WriteObservedTarget, RecordPrior,
     ProductSynchronized, WriteObservedPrior, EndReconciliation
<1>6. CASE SyncClaimWrite(w)
  BY <1>6 DEF SyncClaimWrite, BeginProviderCreate, BeginProviderUpdate, BeginExactUpdateRetry,
     ClaimWrite, vars
<1> QED
  BY <1>1, <1>2, <1>3, <1>4, <1>5, <1>6 DEF Telling

\* How the write attempt changes in a step of the machine.
LEMMA WriteMoves ==
  ASSUME TellingInv, [MachineNext]_allVars
  PROVE  /\ SameWrite \/ \E w \in WorkId : SyncClaimWrite(w)
         /\ review <= review' /\ review \in Nat
<1>1. review \in Nat
  BY DEF TellingInv, JobInv, TypeOK, ReviewTyped, Review
<1>2. CASE Quiet
  BY <1>1, <1>2, PlainCalm DEF Calm, Quiet
<1>3. CASE LateEffect
  BY <1>1, <1>3 DEF LateEffect, vars, SameWrite, writeVars, reviewVars
<1>4. ASSUME NEW w \in WorkId, Telling(w)
      PROVE  (SameWrite \/ SyncClaimWrite(w)) /\ review <= review'
  BY <1>1, <1>4, TellingKeeps
<1> QED
  BY <1>1, <1>2, <1>3, <1>4, MachineKinds

-----------------------------------------------------------------------------
(* Who carries which attempt.                                              *)

\* An execution starts only for work that was claimed, and a worker only in one.
Started(w) ==
  /\ works[w].status \in {"absent", "pending"} => exec[w] = "none"
  /\ exec[w] = "none" => pc[w] = "off"
  /\ pc[w] = "off" => attempt[w] = NoAttempt

\* The work has been beyond its claim: it will not claim another write.
Claimed(u) == u \in WorkId /\ exec[u] # "none" /\ pc[u] \notin PreClaim

\* A worker knows the attempt it carries, and carries the current one while it owns the job.
AttemptKnown(w) ==
  /\ attempt[w].op # "none" =>
       /\ Claimed(attempt[w].work) /\ works[w].review \in 1..review
       /\ attempt[w].op = "update" => write.op = "update"
       /\ attempt[w].work = write.work =>
            /\ attempt[w].op = write.op /\ attempt[w].prior = write.prior
            /\ works[w].review = write.review
  /\ pc[w] \in Carrying =>
       attempt[w].op # "none" /\ (active = w => attempt[w].work = write.work)

CallsKnown ==
  \A c \in calls : /\ c.op # "upload" => c.review \in 1..review
                   /\ c.op = "update" => write.op = "update"

Claims ==
  /\ write.work # 0 => Claimed(write.work)
  /\ \A w \in WorkId : Started(w) /\ AttemptKnown(w)
  /\ CallsKnown

CarryInv == TellingInv /\ OwedInv /\ MachineTyped /\ Claims

\* At the start nobody carries an attempt.
LEMMA InitCarry == MachineInit => CarryInv
<1> SUFFICES ASSUME MachineInit PROVE CarryInv
  OBVIOUS
<1>1. TellingInv /\ OwedInv
  BY InitTelling, InitOwed DEF MachineInit
<1>2. NoAttempt \in Carried /\ NoAttempt.op = "none" /\ NoAttempt.work = 0
  BY BoundsAssumption DEF NoAttempt, Carried, Review
<1>3. MachineTyped
  <2>1. exec \in [WorkId -> Execs] /\ (\A w \in WorkId : exec[w] # "worker")
    BY DEF MachineInit, Execs
  <2>2. pc \in [WorkId -> Labels] /\ seen \in [WorkId -> Reads]
    BY DEF MachineInit, Labels, Reads
  <2>3. attempt \in [WorkId -> Carried]
    <3> HIDE DEF NoAttempt, Carried
    <3> QED
      BY <1>2 DEF MachineInit
  <2>4. calls \subseteq Call /\ faults \in 0..MaxFaults
    BY MachineAssumption DEF MachineInit
  <2>5. overtaken \in BOOLEAN
    BY Zenon DEF MachineInit
  <2> QED
    BY <2>1, <2>2, <2>3, <2>4, <2>5 DEF MachineTyped
<1>4. \A w \in WorkId : Started(w) /\ AttemptKnown(w)
  BY <1>2 DEF MachineInit, Started, AttemptKnown, Carrying
<1>5. write.work = 0 /\ calls = {}
  BY DEF MachineInit, Init, NoWrite
<1> QED
  BY <1>1, <1>3, <1>4, <1>5 DEF CarryInv, Claims, CallsKnown

\* Where each worker goes in a step of the machine, and with which attempt.
LEMMA Flow ==
  ASSUME CarryInv, [MachineNext]_allVars, NEW v \in WorkId
  PROVE  /\ exec[v] # "none" =>
              exec'[v] # "none" /\ (pc[v] \notin PreClaim => pc'[v] \notin PreClaim)
         /\ attempt'[v] \in {attempt[v], NoAttempt} \/ SyncClaimWrite(v)
         /\ pc'[v] \in Carrying =>
              (pc[v] \in Carrying /\ attempt'[v] = attempt[v]) \/ SyncClaimWrite(v)
         /\ Started(v)'
<1>0. /\ Started(v) /\ exec \in [WorkId -> Execs] /\ pc \in [WorkId -> Labels]
      /\ attempt \in [WorkId -> Carried]
  BY DEF CarryInv, Claims, MachineTyped
<1>1. works'[v].status \in {"absent", "pending"} => works[v].status \in {"absent", "pending"}
  BY StatusMoves, MachineCommands DEF CarryInv
<1>2. ASSUME NEW w \in WorkId, Worker(w)
      PROVE  /\ exec[v] # "none" =>
                  exec'[v] # "none" /\ (pc[v] \notin PreClaim => pc'[v] \notin PreClaim)
             /\ attempt'[v] \in {attempt[v], NoAttempt} \/ SyncClaimWrite(v)
             /\ pc'[v] \in Carrying =>
                  (pc[v] \in Carrying /\ attempt'[v] = attempt[v]) \/ SyncClaimWrite(v)
             /\ Started(v)'
  <2>1. PICK l \in Labels :
          /\ pc' = [pc EXCEPT ![w] = l] /\ Enters(w, l)
          /\ \/ l = "off" /\ attempt' = [attempt EXCEPT ![w] = NoAttempt]
             \/ l \notin {"off", "authorize"} /\ attempt' = attempt
             \/ l = "authorize" /\ \E a : attempt' = [attempt EXCEPT ![w] = a]
          /\ \/ exec' = exec /\ l # "off"
             \/ \E x \in {"ended", "settling"} :
                  exec' = [exec EXCEPT ![w] = IF @ = "worker" THEN x ELSE @]
    BY <1>2, WorkerMoves DEF WorkerMoved
  <2>2. pc[w] # "off"
    BY <1>2, WorkerMoves DEF WorkerMoved
  <2>3. exec'[v] # "none" <=> exec[v] # "none"
    BY <1>0, <2>1
  <2>4. CASE v # w
    <3>1. pc'[v] = pc[v]
      BY <1>0, <2>1, <2>4
    <3>2. attempt'[v] = attempt[v]
      <4>1. CASE attempt' = attempt
        BY <4>1
      <4>2. ASSUME NEW a, attempt' = [attempt EXCEPT ![w] = a] PROVE attempt'[v] = attempt[v]
        BY <1>0, <2>4, <4>2
      <4> QED
        BY <2>1, <4>1, <4>2
    <3> QED
      BY <1>0, <1>1, <2>3, <3>1, <3>2 DEF Started
  <2>5. CASE v = w
    <3>0. pc'[v] = l
      BY <1>0, <2>1, <2>5
    <3>1. exec[v] # "none" /\ exec'[v] # "none"
      BY <1>0, <2>2, <2>3, <2>5 DEF Started
    <3>2. l \in PreClaim => pc[v] \in PreClaim
      BY <2>1, <2>5 DEF Enters
    <3>3. /\ l = "off" => attempt'[v] = NoAttempt
          /\ l \notin {"off", "authorize"} => attempt'[v] = attempt[v]
      <4>1. CASE l = "off"
        <5>1. attempt' = [attempt EXCEPT ![w] = NoAttempt]
          BY <2>1, <4>1
        <5>2. v \in DOMAIN attempt
          BY <1>0
        <5>3. attempt'[v] = NoAttempt
          BY <2>5, <5>1, <5>2
        <5> QED
          BY <4>1, <5>3
      <4> QED
        BY <2>1, <4>1
    <3>4. l = "authorize" => SyncClaimWrite(v)
      BY <2>1, <2>5 DEF Enters
    <3>5. l \in Carrying /\ l # "authorize" => pc[v] \in Carrying
      <4>1. SyncWrite(w) => pc[w] \in Carrying
        BY DEF SyncWrite, Carrying
      <4> QED
        BY <2>1, <2>5, <4>1 DEF Enters, Carrying, AuthorizesWrite
    <3>6. Started(v)'
      BY <1>0, <1>1, <3>0, <3>1, <3>3 DEF Started
    <3>7. l \in Carrying => l # "off"
      BY DEF Carrying
    <3> QED
      BY <3>0, <3>1, <3>2, <3>3, <3>4, <3>5, <3>6, <3>7
  <2> QED
    BY <2>4, <2>5
<1>3. ASSUME OthersMoved
      PROVE  /\ exec[v] # "none" =>
                  exec'[v] # "none" /\ (pc[v] \notin PreClaim => pc'[v] \notin PreClaim)
             /\ attempt'[v] \in {attempt[v], NoAttempt}
             /\ pc'[v] \in Carrying => pc[v] \in Carrying /\ attempt'[v] = attempt[v]
             /\ Started(v)'
  <2>1. \/ pc'[v] = pc[v] /\ attempt'[v] = attempt[v] /\ (exec[v] # "none" <=> exec'[v] # "none")
        \/ exec[v] = "none" /\ works[v].status = "claimed" /\ exec'[v] = "worker"
             /\ pc'[v] = "start" /\ attempt'[v] = attempt[v]
        \/ pc[v] # "off" /\ pc'[v] = "off" /\ attempt'[v] = NoAttempt
             /\ (exec[v] # "none" <=> exec'[v] # "none")
    BY <1>3 DEF OthersMoved
  <2>2. "off" \notin PreClaim \cup Carrying /\ "start" \notin Carrying
    BY DEF PreClaim, Carrying
  <2>3. CASE pc'[v] = pc[v] /\ attempt'[v] = attempt[v] /\ (exec[v] # "none" <=> exec'[v] # "none")
    BY <1>0, <1>1, <2>3 DEF Started
  <2>4. CASE exec[v] = "none" /\ works[v].status = "claimed" /\ exec'[v] = "worker"
             /\ pc'[v] = "start" /\ attempt'[v] = attempt[v]
    <3>1. works'[v].status \notin {"absent", "pending"}
      BY <2>4, StatusMoves, MachineCommands DEF CarryInv
    <3> QED
      BY <1>0, <2>2, <2>4, <3>1 DEF Started
  <2>5. CASE pc[v] # "off" /\ pc'[v] = "off" /\ attempt'[v] = NoAttempt
             /\ (exec[v] # "none" <=> exec'[v] # "none")
    BY <1>0, <1>1, <2>2, <2>5 DEF Started
  <2> QED
    BY <2>1, <2>3, <2>4, <2>5
<1> QED
  BY <1>2, <1>3, OutsideMoves DEF MachineNext, Outside, CarryInv

-----------------------------------------------------------------------------
(* Workers keep to the attempt they carry.                                 *)

\* Which calls are still out after a step.
LEMMA CallsMove ==
  ASSUME [MachineNext]_allVars, NEW c \in calls'
  PROVE  \/ c \in calls
         \/ c = [op |-> "upload", review |-> 0] /\ \E w \in WorkId : SyncUpload(w)
         \/ \E w \in WorkId : SyncWrite(w) /\ c = [op |-> attempt[w].op, review |-> works[w].review]
<1>1. CASE Quiet
  BY <1>1 DEF Quiet
<1>2. CASE LateEffect
  BY <1>2 DEF LateEffect
<1>3. ASSUME NEW w \in WorkId, Telling(w), ~SyncUpload(w), ~SyncWrite(w) PROVE c \in calls
  BY <1>3 DEF Telling, AuthorizesUpload, LearnsUpload, AuthorizesWrite, LearnsWrite, Observes,
     WritesOff, SyncClaimWrite, NoProviderCall, callVars
<1>4. ASSUME NEW w \in WorkId, SyncUpload(w)
      PROVE  c \in calls \/ c = [op |-> "upload", review |-> 0]
  BY <1>4 DEF SyncUpload
<1>5. ASSUME NEW w \in WorkId, SyncWrite(w)
      PROVE  c \in calls \/ c = [op |-> attempt[w].op, review |-> works[w].review]
  BY <1>5 DEF SyncWrite
<1> QED
  BY <1>1, <1>2, <1>3, <1>4, <1>5, MachineKinds

\* A worker that makes a product call carries an attempt.
LEMMA WritingKnown ==
  ASSUME CarryInv, NEW w \in WorkId, pc[w] \in {"writing", "putting"}
  PROVE  attempt[w].op \in {"create", "update"} /\ works[w].review \in 1..review
<1>1. AttemptKnown(w) /\ attempt[w] \in Carried
  BY DEF CarryInv, Claims, MachineTyped
<1> QED
  BY <1>1 DEF AttemptKnown, Carrying, Carried

\* Every step leaves the variables of the machine typed.
LEMMA TypedStep ==
  ASSUME CarryInv, [MachineNext]_allVars, TypeOK'
  PROVE  MachineTyped'
<1>0. MachineTyped /\ review \in Review /\ write' \in WriteAttempt
  BY DEF CarryInv, TellingInv, JobInv, TypeOK, ReviewTyped, AttemptsTyped
<1>1. NoAttempt \in Carried /\ 0 \in Review
  BY BoundsAssumption DEF NoAttempt, Carried, Review
<1>2. calls' \subseteq Call
  <2>1. ASSUME NEW w \in WorkId, SyncWrite(w)
        PROVE  [op |-> attempt[w].op, review |-> works[w].review] \in Call
    <3>1. works[w].review \in Review /\ attempt[w].op \in {"create", "update"}
      BY <1>0, <2>1, WritingKnown, BoundsAssumption DEF SyncWrite, Review
    <3> QED
      BY <3>1 DEF Call
  <2>2. [op |-> "upload", review |-> 0] \in Call
    BY <1>1 DEF Call
  <2> QED
    BY <1>0, <2>1, <2>2, CallsMove DEF MachineTyped
<1>3. CASE \E w \in WorkId : Worker(w)
  <2>1. PICK w \in WorkId : Worker(w)
    BY <1>3
  <2>2. PICK l \in Labels :
          /\ pc' = [pc EXCEPT ![w] = l] /\ Enters(w, l)
          /\ \/ l = "off" /\ attempt' = [attempt EXCEPT ![w] = NoAttempt]
             \/ l \notin {"off", "authorize"} /\ attempt' = attempt
             \/ l = "authorize" /\ \E a : attempt' = [attempt EXCEPT ![w] = a]
          /\ \/ exec' = exec /\ l # "off"
             \/ \E x \in {"ended", "settling"} :
                  exec' = [exec EXCEPT ![w] = IF @ = "worker" THEN x ELSE @]
    BY <2>1, WorkerMoves DEF WorkerMoved
  <2>3. pc' \in [WorkId -> Labels]
    BY <1>0, <2>2 DEF MachineTyped
  <2>4. exec' \in [WorkId -> Execs]
    BY <1>0, <2>2 DEF MachineTyped, Execs
  <2>5. seen' \in [WorkId -> Reads]
    BY <1>0, <2>1, WorkerMoves DEF WorkerMoved, MachineTyped
  <2>6. faults' \in 0..MaxFaults
    BY <1>0, <2>1, WorkerMoves, MachineAssumption DEF WorkerMoved, MachineTyped, Fault
  <2>7. attempt' \in [WorkId -> Carried]
    <3>0. attempt \in [WorkId -> Carried]
      BY <1>0 DEF MachineTyped
    <3>1. CASE attempt' = attempt
      BY <3>0, <3>1
    <3>2. CASE attempt' = [attempt EXCEPT ![w] = NoAttempt]
      <4> HIDE DEF Carried, NoAttempt
      <4> QED
        BY <1>1, <3>0, <3>2
    <3>3. CASE SyncClaimWrite(w)
      <4> DEFINE a == [work |-> write'.work, op |-> write'.op, prior |-> write'.prior]
      <4>1. a \in Carried
        BY <1>0 DEF Carried, WriteAttempt
      <4>2. attempt' = [attempt EXCEPT ![w] = a]
        BY <3>3 DEF SyncClaimWrite
      <4> HIDE DEF a, Carried
      <4> QED
        BY <3>0, <4>1, <4>2
    <3> QED
      BY <2>2, <3>1, <3>2, <3>3 DEF Enters
  <2>8. \A v \in WorkId : exec'[v] = "worker" => pc'[v] # "off"
    <3> SUFFICES ASSUME NEW v \in WorkId, exec'[v] = "worker" PROVE pc'[v] # "off"
      OBVIOUS
    <3>1. exec \in [WorkId -> Execs] /\ pc \in [WorkId -> Labels] /\ (exec[v] = "worker" => pc[v] # "off")
      BY <1>0 DEF MachineTyped
    <3>2. CASE v # w
      BY <2>2, <3>1, <3>2
    <3>3. CASE v = w
      BY <2>2, <3>1, <3>3
    <3> QED
      BY <3>2, <3>3
  <2>9. overtaken' \in BOOLEAN
    <3>1. overtaken' = overtaken \/ (overtaken' = (overtaken \/ UpdateOnItsWay \/ payload # write.prior))
      BY <2>1, WorkerKinds DEF Quiet, Telling, AuthorizesUpload, SyncUpload, LearnsUpload,
         SyncClaimWrite, AuthorizesWrite, SyncWrite, LearnsWrite, Observes, WritesOff, RecordPrior,
         NoProviderCall, callVars
    <3>2. overtaken \in BOOLEAN
      BY <1>0 DEF MachineTyped
    <3> QED
      BY <3>1, <3>2, Zenon
  <2> QED
    BY <1>2, <2>3, <2>4, <2>5, <2>6, <2>7, <2>8, <2>9 DEF MachineTyped
<1>4. CASE ~\E w \in WorkId : Worker(w)
  BY <1>0, <1>4, OutsideMoves DEF MachineNext, Outside
<1> QED
  BY <1>3, <1>4

\* Claiming a write takes an unused attempt over or begins a new one as the active work.
LEMMA ClaimMeans ==
  ASSUME CarryInv, NEW w \in WorkId, SyncClaimWrite(w)
  PROVE  /\ exec[w] # "none" /\ pc[w] \in PreClaim
         /\ works[w].review = review /\ review > 0
         /\ write'.review = review /\ write'.op # "none" /\ write'.work # 0
         /\ UNCHANGED <<active, works, state, review, synced, uploaded, upload, uploadUnconfirmed>>
         /\ \/ UNCHANGED vars
            \/ /\ active = w /\ write'.work = w /\ ~writeUnconfirmed /\ writeUnconfirmed'
               /\ state = "product_draft_syncing" /\ uploaded
               /\ write'.permit = "available" /\ write'.prior = synced
               /\ \/ write'.op = "create" /\ write.op = "none" /\ synced = 0
                  \/ write'.op = "update" /\ synced # 0
<1> USE DEF jobVars, workVars, reviewVars, uploadVars, writeVars
<1>0. /\ Started(w) /\ CreateCounted /\ PutsCounted /\ OneLiveWork /\ AttemptsGrounded /\ WorksListed
      /\ review \in Nat /\ createClaimed \in BOOLEAN
  BY DEF CarryInv, Claims, TellingInv, LedgerInv, JobInv, OwedInv, TypeOK, ReviewTyped, Review,
     FlagsTyped
<1>1. AtWrite(w) /\ pc[w] \in PreClaim
  BY DEF SyncClaimWrite, AtWrite, PreClaim
<1>2. exec[w] # "none"
  BY <1>0, <1>1 DEF Started, PreClaim
<1>3. CASE TakesOverWrite(w) /\ UNCHANGED vars
  <2>1. write.op # "none"
    BY <1>0, <1>3 DEF TakesOverWrite, CreateCounted
  <2> QED
    BY <1>0, <1>1, <1>2, <1>3, <2>1 DEF TakesOverWrite, vars, AttemptsGrounded
<1>4. CASE MaySync(w) /\ (BeginProviderCreate \/ BeginProviderUpdate \/ BeginExactUpdateRetry)
  <2>1. active = w /\ Held /\ state = "product_draft_syncing" /\ uploaded /\ ~writeUnconfirmed
    BY <1>4 DEF MaySync, Owns, BeginProviderCreate, BeginProviderUpdate, BeginExactUpdateRetry,
       ReadyToWrite
  <2>2. works[w].review = review /\ review > 0
    BY <1>0, <2>1, HeldWork DEF OneLiveWork, WorkType, WorksListed
  <2>3. \/ ClaimWrite("create", 0) /\ synced = 0 /\ ~createClaimed
        \/ synced # 0 /\ (ClaimWrite("update", 0) \/ ClaimWrite("update", write.retries + 1))
    BY <1>4 DEF BeginProviderCreate, BeginProviderUpdate, BeginExactUpdateRetry
  <2>4. ~createClaimed => write.op = "none"
    BY <1>0 DEF CreateCounted
  <2>5. /\ write'.work = active /\ write'.permit = "available" /\ write'.review = review
        /\ write'.prior = synced /\ writeUnconfirmed'
        /\ UNCHANGED <<active, works, state, review, synced, uploaded, upload, uploadUnconfirmed>>
        /\ \/ write'.op = "create" /\ synced = 0 /\ ~createClaimed
           \/ write'.op = "update" /\ synced # 0
    BY <2>3 DEF ClaimWrite
  <2>6. active # 0
    BY <2>1 DEF Held
  <2> QED
    BY <1>1, <1>2, <2>1, <2>2, <2>4, <2>5, <2>6
<1> QED
  BY <1>3, <1>4 DEF SyncClaimWrite

\* Every step keeps what the workers carry and which calls are out in line with the permits.
LEMMA ClaimsStep ==
  ASSUME CarryInv, [MachineNext]_allVars
  PROVE  Claims'
<1> DEFINE Then(u) == u \in WorkId /\ exec'[u] # "none" /\ pc'[u] \notin PreClaim
<1>0. /\ review \in Nat /\ review <= review' /\ exec \in [WorkId -> Execs] /\ pc \in [WorkId -> Labels]
      /\ attempt \in [WorkId -> Carried] /\ (write.work # 0 => Claimed(write.work)) /\ CallsKnown
      /\ write.op # "none" => write.work \in Nat
  BY WriteMoves DEF CarryInv, Claims, MachineTyped, TellingInv, JobInv, TypeOK, AttemptsTyped,
     WriteAttempt
<1>r. review' \in Nat
  BY TellingStep, MachineCommands DEF CarryInv, TellingInv, JobInv, TypeOK, ReviewTyped, Review
<1>1. \A u \in WorkId : Claimed(u) => Then(u)
  BY Flow DEF Claimed
<1>2. \A v \in WorkId : Started(v)'
  BY Flow
<1>3. \A v \in WorkId : Started(v) /\ AttemptKnown(v)
  BY DEF CarryInv, Claims
<1>4. NoAttempt.op = "none"
  BY DEF NoAttempt
<1>5. CASE \E w \in WorkId : SyncClaimWrite(w)
  <2>1. PICK w \in WorkId : SyncClaimWrite(w)
    BY <1>5
  <2>2. /\ pc' = [pc EXCEPT ![w] = "authorize"] /\ UNCHANGED <<exec, calls>>
        /\ attempt' = [attempt EXCEPT
                         ![w] = [work |-> write'.work, op |-> write'.op, prior |-> write'.prior]]
    BY <2>1 DEF SyncClaimWrite, NoProviderCall, callVars
  <2>3. /\ exec[w] # "none" /\ pc[w] \in PreClaim /\ works[w].review = review /\ review > 0
        /\ write'.review = review /\ write'.op # "none" /\ write'.work # 0
        /\ UNCHANGED <<active, works, review>>
        /\ write.op = "update" => write'.op = "update"
        /\ write' = write \/ (active = w /\ write'.work = w)
    BY <2>1, ClaimMeans DEF vars, writeVars
  <2>4. Then(w)
    BY <1>0, <2>2, <2>3 DEF PreClaim
  <2>5. Then(write'.work)
    BY <1>0, <1>1, <2>3, <2>4 DEF Claimed
  <2>6. ASSUME NEW v \in WorkId PROVE AttemptKnown(v)'
    <3>1. CASE v = w
      <4>1. attempt'[v] = [work |-> write'.work, op |-> write'.op, prior |-> write'.prior]
        BY <1>0, <2>2, <3>1
      <4>2. works'[v].review \in 1..review'
        BY <1>0, <2>3, <3>1
      <4> QED
        BY <2>3, <2>5, <3>1, <4>1, <4>2 DEF AttemptKnown, Claimed
    <3>2. CASE v # w
      <4>1. attempt'[v] = attempt[v] /\ pc'[v] = pc[v]
        BY <1>0, <2>2, <3>2
      <4>2. attempt[v].op # "none" => attempt[v].work # w
        BY <1>3, <2>3 DEF AttemptKnown, Claimed
      <4>3. attempt[v].op # "none" => Then(attempt[v].work)
        BY <1>1, <1>3 DEF AttemptKnown, Claimed
      <4>4. AttemptKnown(v)
        BY <1>3
      <4>5. CASE write' = write
        BY <2>3, <4>1, <4>3, <4>4, <4>5 DEF AttemptKnown, Claimed
      <4>6. CASE active = w /\ write'.work = w
        BY <2>3, <3>2, <4>1, <4>2, <4>3, <4>4, <4>6 DEF AttemptKnown, Claimed
      <4> QED
        BY <2>3, <4>5, <4>6
    <3> QED
      BY <3>1, <3>2
  <2>7. CallsKnown'
    BY <1>0, <2>2, <2>3 DEF CallsKnown
  <2> QED
    BY <1>2, <2>5, <2>6, <2>7 DEF Claims, Claimed
<1>6. CASE ~\E w \in WorkId : SyncClaimWrite(w)
  <2>1. SameWrite
    BY <1>6, WriteMoves DEF CarryInv
  <2>2. ASSUME NEW v \in WorkId PROVE AttemptKnown(v)'
    <3>1. /\ attempt'[v] \in {attempt[v], NoAttempt}
          /\ pc'[v] \in Carrying => pc[v] \in Carrying /\ attempt'[v] = attempt[v]
      BY <1>6, Flow
    <3>2. AttemptKnown(v) /\ Started(v)
      BY <1>3
    <3>3. pc[v] # "off" => /\ works[v].status # "absent" /\ works'[v].review = works[v].review
                           /\ active' = v => active = v
      BY <3>2, StatusMoves, MachineCommands DEF Started, CarryInv
    <3>4. attempt[v].op # "none" => pc[v] # "off"
      BY <1>4, <3>2 DEF Started
    <3>5. attempt[v].op # "none" => Then(attempt[v].work) /\ works'[v].review \in 1..review'
      BY <1>0, <1>1, <1>r, <3>2, <3>3, <3>4 DEF AttemptKnown, Claimed
    <3>6. pc[v] \in Carrying => pc[v] # "off"
      BY DEF Carrying
    <3>7. attempt'[v].op # "none" => attempt'[v] = attempt[v]
      BY <1>4, <3>1
    <3>8. attempt'[v].op # "none" =>
            /\ Then(attempt'[v].work) /\ works'[v].review \in 1..review'
            /\ attempt'[v].op = "update" => write'.op = "update"
            /\ attempt'[v].work = write'.work =>
                 /\ attempt'[v].op = write'.op /\ attempt'[v].prior = write'.prior
                 /\ works'[v].review = write'.review
      BY <2>1, <3>2, <3>3, <3>4, <3>5, <3>7 DEF AttemptKnown, SameWrite
    <3>9. pc'[v] \in Carrying =>
            attempt'[v].op # "none" /\ (active' = v => attempt'[v].work = write'.work)
      BY <2>1, <3>1, <3>2, <3>3, <3>6 DEF AttemptKnown, SameWrite
    <3> QED
      BY <3>8, <3>9 DEF AttemptKnown, Claimed
  <2>3. CallsKnown'
    <3> SUFFICES ASSUME NEW c \in calls'
                 PROVE  /\ c.op # "upload" => c.review \in 1..review'
                        /\ c.op = "update" => write'.op = "update"
      BY DEF CallsKnown
    <3>1. CASE c \in calls
      BY <1>0, <1>r, <2>1, <3>1 DEF CallsKnown, SameWrite
    <3>2. ASSUME NEW w \in WorkId, SyncWrite(w), c = [op |-> attempt[w].op, review |-> works[w].review]
          PROVE  c.review \in 1..review' /\ (c.op = "update" => write'.op = "update")
      <4>1. attempt[w].op \in {"create", "update"} /\ works[w].review \in 1..review
        BY <3>2, WritingKnown DEF SyncWrite
      <4> QED
        BY <1>0, <1>3, <1>r, <2>1, <3>2, <4>1 DEF AttemptKnown, SameWrite
    <3> QED
      BY <3>1, <3>2, CallsMove
  <2>4. write'.work # 0 => Then(write'.work)
    BY <1>0, <1>1, <2>1 DEF SameWrite, Claimed
  <2> QED
    BY <1>2, <2>2, <2>3, <2>4 DEF Claims, Claimed
<1> QED
  BY <1>5, <1>6

\* The third layer of the invariant is inductive over the steps of the machine.
LEMMA CarryStep ==
  ASSUME CarryInv, [MachineNext]_allVars
  PROVE  CarryInv'
<1>1. TellingInv' /\ OwedInv' /\ TypeOK'
  BY TellingStep, OwedStep, MachineCommands DEF CarryInv, TellingInv, JobInv
<1> QED
  BY <1>1, TypedStep, ClaimsStep DEF CarryInv

-----------------------------------------------------------------------------
(* What was sent, and what is known of it.                                 *)

Updating == {w \in WorkId : pc[w] \in {"writing", "putting"} /\ attempt[w].op = "update"}

\* At most one worker is at the call, or it was given up and may come late, but not both.
Single(at, out, call) ==
  /\ \A v, w \in at : v = w
  /\ out \subseteq {call} /\ (at = {} \/ out = {})

UploadOut == Uploading # {} \/ CallsOut("upload") # {}
CreateOut == Creating # {} \/ CallsOut("create") # {}

\* The upload goes out on the permit, once.
UploadSent ==
  /\ Single(Uploading, CallsOut("upload"), [op |-> "upload", review |-> 0])
  /\ images \in {0, 1}
  /\ UploadOut \/ images = 1 => upload.permit = "consumed"
  /\ UploadOut => images = 0
  /\ uploaded => images = 1
  /\ \A w \in WorkId : pc[w] = "uploaded" => images = 1

\* The create goes out on the permit, once, and carries the review of its attempt.
CreateSent ==
  /\ Single(Creating, CallsOut("create"), [op |-> "create", review |-> write.review])
  /\ \A w \in Creating : works[w].review = write.review
  /\ products \in {0, 1} /\ payload \in 0..review /\ (payload = 0 <=> products = 0)
  /\ CreateOut => products = 0 /\ write.op = "create" /\ write.permit = "consumed"
  /\ products = 1 => \/ write.op = "update"
                     \/ write.op = "create" /\ write.permit = "consumed"
  /\ synced # 0 => products = 1
  /\ \A w \in WorkId : pc[w] = "written" => products = 1

\* As long as no update was written off early, one that is on its way is the one on record,
\* and the product carries what the record says or what is on its way.
UpdateSent ==
  ~overtaken =>
    /\ Single(Updating, CallsOut("update"), [op |-> "update", review |-> write.review])
    /\ \A w \in Updating : works[w].review = write.review
    /\ UpdateOnItsWay =>
         /\ writeUnconfirmed /\ write.op = "update" /\ write.permit = "consumed"
         /\ payload = synced
    /\ synced # 0 =>
         \/ payload = synced
         \/ /\ writeUnconfirmed /\ write.op = "update" /\ write.permit = "consumed"
            /\ payload = write.review

\* What a worker is about to record is so.
Knows(w) ==
  /\ pc[w] \in {"observe", "observed"} => works[w].type = "reconcile_product"
  /\ pc[w] = "written" /\ active = w /\ ~overtaken => payload = write.review
  /\ pc[w] = "observed" /\ active = w /\ seen[w] = "target" =>
       /\ uploadUnconfirmed => images = 1
       /\ writeUnconfirmed => products = 1 /\ (~overtaken => payload = write.review)

SentInv == CarryInv /\ UploadSent /\ CreateSent /\ UpdateSent /\ \A w \in WorkId : Knows(w)

\* When no call is out, none is at a worker or on its way.
LEMMA NobodyOut ==
  ASSUME calls = {}, \A w \in WorkId : pc[w] = "off"
  PROVE  /\ Uploading = {} /\ Creating = {} /\ Updating = {} /\ ~UpdateOnItsWay
         /\ \A op : CallsOut(op) = {}
BY DEF Uploading, Creating, Updating, UpdateOnItsWay, CallsOut

\* At the start nothing was sent.
LEMMA InitSent == MachineInit => SentInv
<1> SUFFICES ASSUME MachineInit PROVE SentInv
  OBVIOUS
<1>1. /\ images = 0 /\ products = 0 /\ payload = 0 /\ overtaken = FALSE /\ ~uploaded /\ synced = 0
      /\ calls = {} /\ (\A w \in WorkId : pc[w] = "off") /\ review = 0
  BY DEF MachineInit, Init
<1>2. UploadSent /\ CreateSent
  BY <1>1, NobodyOut DEF UploadSent, CreateSent, Single, UploadOut, CreateOut
<1>3. UpdateSent
  BY <1>1, NobodyOut DEF UpdateSent, Single
<1>4. \A w \in WorkId : Knows(w)
  BY <1>1 DEF Knows
<1> QED
  BY <1>2, <1>3, <1>4, InitCarry DEF SentInv

\* How a worker comes to where it is after a step.
LEMMA Arrives ==
  ASSUME CarryInv, [MachineNext]_allVars, NEW v \in WorkId
  PROVE  /\ pc'[v] = "uploading" => pc[v] = "uploading" \/ AuthorizesUpload(v)
         /\ pc'[v] = "uploaded" => pc[v] = "uploaded" \/ SyncUpload(v)
         /\ pc'[v] \in {"writing", "putting"} =>
              /\ attempt'[v] = attempt[v]
              /\ pc[v] \in {"writing", "putting"} \/ AuthorizesWrite(v)
         /\ pc'[v] = "writing" => pc[v] = "writing" \/ AuthorizesWrite(v)
         /\ pc'[v] = "written" => pc[v] = "written" \/ SyncWrite(v)
         /\ pc'[v] \in {"observe", "observed"} =>
              pc[v] \in {"observe", "observed"} \/ works[v].type = "reconcile_product"
         /\ pc'[v] = "observed" => \/ pc[v] = "observed" /\ ~Worker(v) /\ seen'[v] = seen[v]
                                   \/ ReconcileObserve(v)
         /\ pc'[v] # "off" => pc[v] # "off" \/ pc'[v] = "start"
<1>0. pc \in [WorkId -> Labels] /\ attempt \in [WorkId -> Carried] /\ seen \in [WorkId -> Reads]
  BY DEF CarryInv, MachineTyped
<1> DEFINE Goal ==
         /\ pc'[v] = "uploading" => pc[v] = "uploading" \/ AuthorizesUpload(v)
         /\ pc'[v] = "uploaded" => pc[v] = "uploaded" \/ SyncUpload(v)
         /\ pc'[v] \in {"writing", "putting"} =>
              /\ attempt'[v] = attempt[v]
              /\ pc[v] \in {"writing", "putting"} \/ AuthorizesWrite(v)
         /\ pc'[v] = "writing" => pc[v] = "writing" \/ AuthorizesWrite(v)
         /\ pc'[v] = "written" => pc[v] = "written" \/ SyncWrite(v)
         /\ pc'[v] \in {"observe", "observed"} =>
              pc[v] \in {"observe", "observed"} \/ works[v].type = "reconcile_product"
         /\ pc'[v] = "observed" => \/ pc[v] = "observed" /\ ~Worker(v) /\ seen'[v] = seen[v]
                                   \/ ReconcileObserve(v)
         /\ pc'[v] # "off" => pc[v] # "off" \/ pc'[v] = "start"
<1> SUFFICES Goal
  OBVIOUS
<1>1. ASSUME Worker(v) PROVE Goal
  <2>1. PICK l \in Labels :
          /\ pc' = [pc EXCEPT ![v] = l] /\ Enters(v, l)
          /\ \/ l = "off" /\ attempt' = [attempt EXCEPT ![v] = NoAttempt]
             \/ l \notin {"off", "authorize"} /\ attempt' = attempt
             \/ l = "authorize" /\ \E a : attempt' = [attempt EXCEPT ![v] = a]
          /\ \/ exec' = exec /\ l # "off"
             \/ \E x \in {"ended", "settling"} :
                  exec' = [exec EXCEPT ![v] = IF @ = "worker" THEN x ELSE @]
    BY <1>1, WorkerMoves DEF WorkerMoved
  <2>2. pc[v] # "off" /\ pc'[v] = l
    BY <1>0, <1>1, <2>1, WorkerMoves DEF WorkerMoved
  <2>3. l \in {"writing", "putting"} => attempt' = attempt
    BY <2>1
  <2>4. ReconcileObserve(v) => pc[v] = "observe"
    BY DEF ReconcileObserve
  <2> QED
    BY <2>1, <2>2, <2>3, <2>4 DEF Enters
<1>2. ASSUME NEW w \in WorkId, Worker(w), ~Worker(v) PROVE Goal
  <2>1. PICK l \in Labels :
          /\ pc' = [pc EXCEPT ![w] = l]
          /\ \/ l = "off" /\ attempt' = [attempt EXCEPT ![w] = NoAttempt]
             \/ l \notin {"off", "authorize"} /\ attempt' = attempt
             \/ l = "authorize" /\ \E a : attempt' = [attempt EXCEPT ![w] = a]
    BY <1>2, WorkerMoves DEF WorkerMoved
  <2>2. v # w
    BY <1>2
  <2>3. pc'[v] = pc[v]
    BY <1>0, <2>1, <2>2
  <2>4. seen'[v] = seen[v]
    BY <1>0, <1>2, <2>2, WorkerMoves DEF WorkerMoved
  <2>5. attempt'[v] = attempt[v]
    <3>1. ASSUME NEW a, attempt' = [attempt EXCEPT ![w] = a] PROVE attempt'[v] = attempt[v]
      BY <1>0, <2>2, <3>1
    <3> QED
      BY <2>1, <3>1
  <2> QED
    BY <1>2, <2>3, <2>4, <2>5
<1>3. ASSUME OthersMoved, ~Worker(v) PROVE Goal
  BY <1>3 DEF OthersMoved
<1> QED
  BY <1>1, <1>2, <1>3, OutsideMoves DEF MachineNext, Outside, CarryInv

\* A worker whose work is not active changes the job only through a permit.
LEMMA StrangersWait ==
  ASSUME NEW w \in WorkId, Worker(w), active # w
  PROVE  UNCHANGED vars \/ AuthorizeProviderUpload \/ AuthorizeProviderCall
<1> USE DEF Raise, Owns, MaySync
<1>1. CASE PreparationStep(w) \/ PreparationRefused(w) \/ SyncStart(w) \/ SyncStartRefused(w)
  BY <1>1 DEF PreparationStep, PreparationRefused, SyncStart, SyncStartRefused
<1>2. CASE SyncAuthorizeUpload(w) \/ SyncUpload(w) \/ SyncRecordUpload(w)
  BY <1>2 DEF SyncAuthorizeUpload, SyncUpload, SyncRecordUpload
<1>3. CASE SyncClaimWrite(w) \/ SyncClaimRefused(w)
  BY <1>3 DEF SyncClaimWrite, SyncClaimRefused
<1>4. CASE SyncAuthorizeWrite(w) \/ SyncReadPrior(w) \/ SyncWrite(w) \/ SyncRecordWrite(w)
  BY <1>4 DEF SyncAuthorizeWrite, SyncReadPrior, SyncWrite, SyncRecordWrite, FindsConsumed
<1>5. CASE ReconcileStart(w) \/ ReconcileObserve(w) \/ ReconcileRecord(w) \/ ReconcileRefused(w)
  BY <1>5 DEF ReconcileStart, ReconcileObserve, ReconcileRecord, ReconcileRefused
<1>6. CASE EconomicsStep(w)
  BY <1>6 DEF EconomicsStep
<1> QED
  BY <1>1, <1>2, <1>3, <1>4, <1>5, <1>6 DEF Worker

\* Nobody else disturbs what a reconciliation has read before it is recorded.
LEMMA Undisturbed ==
  ASSUME CarryInv, [MachineNext]_allVars, NEW v \in WorkId, works[v].type = "reconcile_product",
         pc[v] # "off", active = v, active' = v, ~Worker(v)
  PROVE  UNCHANGED <<uploadUnconfirmed, writeUnconfirmed>> /\ SameWrite
<1>0. /\ Started(v) /\ TellingInv /\ active \in 0..MaxWork /\ active <= lastWork
      /\ lastWork \in Nat
  BY DEF CarryInv, Claims, TellingInv, JobInv, TypeOK, WorkTyped, Allocated, WorkId
<1> DEFINE Goal == UNCHANGED <<uploadUnconfirmed, writeUnconfirmed>> /\ SameWrite
<1>1. UNCHANGED vars => Goal
  BY DEF vars, uploadVars, writeVars, SameWrite
<1>2. ASSUME NEW w \in WorkId, Worker(w) PROVE Goal
  <2>1. active # w
    BY <1>2
  <2>2. ~AuthorizeProviderUpload /\ ~AuthorizeProviderCall
    BY DEF AuthorizeProviderUpload, UploadAuthorized, AuthorizeProviderCall, CallAuthorized,
       WorkType
  <2> QED
    BY <1>1, <1>2, <2>1, <2>2, StrangersWait
<1>3. ASSUME NEW w \in WorkId, Settles(w) PROVE FALSE
  <2>1. active' \in {0, lastWork + 1}
    BY <1>3 DEF Settles, RecordWorkerFailure, SettleCancellation, ReplaceWork, CompleteWork
  <2> QED
    BY <1>0, <2>1 DEF WorkId
<1>4. ASSUME Dispatcher \/ Seller \/ Clock PROVE Goal
  <2>1. active # 0 /\ works[active].status # "pending"
    BY <1>0 DEF Started, WorkId
  <2> QED
    BY <1>0, <1>4, <2>1, Bystanders DEF AttemptsKept
<1>5. CASE \E w \in WorkId : Outside(w)
  BY <1>1, <1>3, <1>5 DEF Outside, StartExecution, Faults, WorkerDies, InvocationLost,
     ExecutionDies, SettleExecution, SweepExecution
<1>6. CASE LateEffect \/ UNCHANGED allVars
  BY <1>1, <1>6 DEF LateEffect, allVars
<1>7. CASE DispatchWork \/ SellerCommand \/ DeadlinePasses \/ PricingAges
  BY <1>1, <1>4, <1>7 DEF DispatchWork, SellerCommand, DeadlinePasses, PricingAges, Dispatcher,
     Clock
<1> QED
  BY <1>2, <1>5, <1>6, <1>7 DEF MachineNext, Outside

-----------------------------------------------------------------------------
(* The upload goes out once.                                               *)

\* Steps other than getting the permit, using it, and a late effect.
LEMMA UploadKeeps ==
  ASSUME SentInv, [MachineNext]_allVars, ~LateEffect,
         \A w \in WorkId : ~AuthorizesUpload(w) /\ ~SyncUpload(w)
  PROVE  /\ UNCHANGED images
         /\ upload.permit = "consumed" => upload'.permit = "consumed"
         /\ uploaded' => uploaded \/ images = 1
<1> DEFINE Goal == /\ UNCHANGED images
                   /\ upload.permit = "consumed" => upload'.permit = "consumed"
                   /\ uploaded' => uploaded \/ images = 1
<1> USE DEF NoProviderCall, providerVars, uploadVars
<1>0. TellingInv
  BY DEF SentInv, CarryInv
<1>1. CASE Quiet
  BY <1>0, <1>1, PlainCalm DEF Quiet, Calm
<1>2. ASSUME NEW w \in WorkId, LearnsUpload(w) PROVE Goal
  BY <1>2 DEF LearnsUpload, RecordProviderUploadSuccess, SentInv, UploadSent
<1>3. ASSUME NEW w \in WorkId, SyncClaimWrite(w) PROVE Goal
  BY <1>3, ClaimMeans DEF SentInv, SyncClaimWrite
<1>4. ASSUME NEW w \in WorkId, AuthorizesWrite(w) \/ SyncWrite(w) PROVE Goal
  BY <1>4 DEF AuthorizesWrite, AuthorizeProviderCall, SyncWrite, vars
<1>5. ASSUME NEW w \in WorkId, LearnsWrite(w) \/ WritesOff(w) PROVE Goal
  BY <1>5 DEF LearnsWrite, RecordProductSyncSuccess, ProductSynchronized, WritesOff, RecordPrior,
     WriteObservedPrior, EndReconciliation
<1>6. ASSUME NEW w \in WorkId, Observes(w) PROVE Goal
  <2>1. CASE UploadObservedTarget
    BY <1>6, <2>1 DEF Observes, UploadObservedTarget, ReconcilingUpload, SentInv, Knows
  <2>2. CASE WriteObservedTarget
    BY <1>6, <2>2 DEF Observes, WriteObservedTarget, ProductSynchronized
  <2> QED
    BY <1>6, <2>1, <2>2 DEF Observes
<1> QED
  BY <1>1, <1>2, <1>3, <1>4, <1>5, <1>6, MachineKinds DEF Telling

\* Every step keeps track of where the upload is.
LEMMA UploadSentStep ==
  ASSUME SentInv, [MachineNext]_allVars
  PROVE  UploadSent'
<1> DEFINE late == [op |-> "upload", review |-> 0]
<1>0. /\ UploadSent /\ CarryInv /\ pc \in [WorkId -> Labels]
      /\ \A w \in WorkId : pc'[w] = "uploaded" => pc[w] = "uploaded" \/ SyncUpload(w)
      /\ \A w \in WorkId : pc'[w] = "uploading" => pc[w] = "uploading" \/ AuthorizesUpload(w)
  BY Arrives DEF SentInv, CarryInv, MachineTyped
<1>1. (\A w \in WorkId : ~SyncUpload(w)) => CallsOut("upload")' \subseteq CallsOut("upload")
  <2> SUFFICES ASSUME \A w \in WorkId : ~SyncUpload(w), NEW c \in calls', c.op = "upload"
               PROVE  c \in calls
    BY DEF CallsOut
  <2>1. ASSUME NEW w \in WorkId, SyncWrite(w), c = [op |-> attempt[w].op, review |-> works[w].review]
        PROVE  FALSE
    BY <1>0, <2>1, WritingKnown DEF SyncWrite
  <2> QED
    BY <1>0, <2>1, CallsMove
<1>2. CASE \E w \in WorkId : AuthorizesUpload(w)
  <2>1. PICK w \in WorkId : AuthorizesUpload(w)
    BY <1>2
  <2>2. /\ pc' = [pc EXCEPT ![w] = "uploading"] /\ UNCHANGED <<calls, images, uploaded>>
        /\ upload.permit = "available" /\ upload'.permit = "consumed"
    <3>1. upload \in UploadAttempt
      BY <1>0 DEF CarryInv, TellingInv, JobInv, TypeOK, AttemptsTyped
    <3> QED
      BY <2>1, <3>1 DEF AuthorizesUpload, AuthorizeProviderUpload, UploadAuthorized, Goto,
         NoProviderCall, providerVars, callVars, UploadAttempt
  <2>3. images = 0 /\ Uploading = {} /\ CallsOut("upload") = {} /\ ~uploaded
    BY <1>0, <2>2 DEF UploadSent, UploadOut
  <2>4. Uploading' \subseteq {w} /\ CallsOut("upload")' = {}
    BY <1>0, <2>2, <2>3 DEF Uploading, CallsOut
  <2>5. \A v \in WorkId : pc'[v] = "uploaded" => pc[v] = "uploaded"
    BY <1>0, <2>2
  <2> QED
    BY <1>0, <2>2, <2>3, <2>4, <2>5 DEF UploadSent, Single, UploadOut
<1>3. CASE \E w \in WorkId : SyncUpload(w)
  <2>1. PICK w \in WorkId : SyncUpload(w)
    BY <1>3
  <2>2. w \in Uploading
    BY <2>1 DEF SyncUpload, Uploading
  <2>3. Uploading = {w} /\ CallsOut("upload") = {} /\ images = 0 /\ upload.permit = "consumed"
    BY <1>0, <2>2 DEF UploadSent, Single, UploadOut
  <2>4. UNCHANGED <<upload, uploaded>> /\ ~uploaded
    BY <1>0, <2>1, <2>3 DEF SyncUpload, vars, uploadVars, UploadSent
  <2>5. PICK l \in {"uploaded", "uploadLost"} : pc' = [pc EXCEPT ![w] = l]
    BY <2>1 DEF SyncUpload, Goto
  <2>6. Uploading' = {}
    <3>1. \A v \in WorkId : pc'[v] # "uploading"
      BY <1>0, <2>3, <2>5 DEF Uploading
    <3> QED
      BY <3>1 DEF Uploading
  <2>7. \A v \in WorkId : v # w => pc'[v] = pc[v]
    BY <1>0, <2>5
  <2>8. \A v \in WorkId : v # w => pc'[v] # "uploaded"
    BY <1>0, <2>3, <2>7 DEF UploadSent
  <2>9. CASE images' \in {0, 1} /\ UNCHANGED calls /\ (pc'[w] = "uploaded" => images' = 1)
    <3>1. CallsOut("upload")' = {}
      BY <2>3, <2>9 DEF CallsOut
    <3> QED
      BY <2>3, <2>4, <2>6, <2>8, <2>9, <3>1 DEF UploadSent, Single, UploadOut
  <2>10. CASE images' = 0 /\ calls' = calls \cup {late} /\ pc'[w] # "uploaded"
    <3>1. CallsOut("upload")' \subseteq {late}
      BY <2>3, <2>10 DEF CallsOut
    <3> QED
      BY <2>3, <2>4, <2>6, <2>8, <2>10, <3>1 DEF UploadSent, Single, UploadOut
  <2>11. \/ images' \in {0, 1} /\ UNCHANGED calls /\ (pc'[w] = "uploaded" => images' = 1)
         \/ images' = 0 /\ calls' = calls \cup {late} /\ pc'[w] # "uploaded"
    BY <1>0, <2>1, <2>3 DEF SyncUpload, Goto
  <2> QED
    BY <2>9, <2>10, <2>11
<1>4. CASE LateEffect
  <2>1. PICK c \in calls :
          /\ calls' = calls \ {c} /\ UNCHANGED <<pc, upload, uploaded>>
          /\ images' = IF c.op = "upload" THEN images + 1 ELSE images
    BY <1>4 DEF LateEffect, vars, uploadVars, machineVars
  <2>2. Uploading' = Uploading
    BY <2>1 DEF Uploading
  <2>3. CASE c.op = "upload"
    <3>1. c \in CallsOut("upload") /\ CallsOut("upload")' = CallsOut("upload") \ {c}
      BY <2>1, <2>3 DEF CallsOut
    <3>2. Uploading = {} /\ images = 0 /\ CallsOut("upload")' = {} /\ upload.permit = "consumed"
      BY <1>0, <3>1 DEF UploadSent, Single, UploadOut
    <3> QED
      BY <1>0, <2>1, <2>2, <2>3, <3>2 DEF UploadSent, Single, UploadOut
  <2>4. CASE c.op # "upload"
    <3>1. CallsOut("upload")' = CallsOut("upload")
      BY <2>1, <2>4 DEF CallsOut
    <3> QED
      BY <1>0, <2>1, <2>2, <2>4, <3>1 DEF UploadSent, Single, UploadOut
  <2> QED
    BY <2>3, <2>4
<1>5. CASE ~LateEffect /\ \A w \in WorkId : ~AuthorizesUpload(w) /\ ~SyncUpload(w)
  <2>1. Uploading' \subseteq Uploading /\ CallsOut("upload")' \subseteq CallsOut("upload")
    BY <1>0, <1>1, <1>5 DEF Uploading
  <2>2. \A v \in WorkId : pc'[v] = "uploaded" => pc[v] = "uploaded"
    BY <1>0, <1>5
  <2>3. /\ UNCHANGED images /\ (upload.permit = "consumed" => upload'.permit = "consumed")
        /\ uploaded' => uploaded \/ images = 1
    BY <1>5, UploadKeeps
  <2> QED
    BY <1>0, <2>1, <2>2, <2>3 DEF UploadSent, Single, UploadOut
<1> QED
  BY <1>2, <1>3, <1>4, <1>5

-----------------------------------------------------------------------------
(* The create goes out once, and the product it makes is only replaced.    *)

\* Which product calls are at a worker or still out after a step.
LEMMA WritesOut ==
  ASSUME SentInv, [MachineNext]_allVars
  PROVE  /\ (\A w \in WorkId : ~AuthorizesWrite(w)) =>
              Creating' \subseteq Creating /\ Updating' \subseteq Updating
         /\ (\A w \in WorkId : ~SyncWrite(w)) =>
              /\ CallsOut("create")' \subseteq CallsOut("create")
              /\ CallsOut("update")' \subseteq CallsOut("update")
              /\ \A v \in WorkId : pc'[v] = "written" => pc[v] = "written"
<1>1. ASSUME NEW v \in WorkId
      PROVE  /\ pc'[v] \in {"writing", "putting"} =>
                  /\ attempt'[v] = attempt[v]
                  /\ pc[v] \in {"writing", "putting"} \/ AuthorizesWrite(v)
             /\ pc'[v] = "writing" => pc[v] = "writing" \/ AuthorizesWrite(v)
             /\ pc'[v] = "written" => pc[v] = "written" \/ SyncWrite(v)
  BY Arrives DEF SentInv
<1>2. ASSUME \A w \in WorkId : ~SyncWrite(w), NEW c \in calls', c.op # "upload"
      PROVE  c \in calls
  BY <1>2, CallsMove
<1> QED
  BY <1>1, <1>2 DEF Creating, Updating, CallsOut

\* What the job says of a product.
LEMMA ProductTold ==
  ASSUME SentInv
  PROVE  /\ write.op = "update" => synced # 0 /\ products = 1
         /\ CreateOut => synced = 0 /\ writeUnconfirmed
         /\ \A w \in WorkId : pc[w] \in {"writing", "putting"} =>
              attempt[w].op \in {"create", "update"} /\ works[w].review \in 1..review
         /\ \A w \in Updating : write.op = "update"
         /\ \A c \in calls : /\ c.op # "upload" => c.review \in 1..review
                             /\ c.op = "update" => write.op = "update"
         /\ \A w \in WorkId : works[w].review \in Nat
         /\ review \in Nat /\ products \in Nat
<1>1. PermitsTell /\ CreateSent /\ CallsKnown /\ TypeOK
  BY DEF SentInv, CarryInv, TellingInv, Claims, JobInv
<1>2. \A w \in Updating : write.op = "update"
  BY DEF SentInv, CarryInv, Claims, Updating, AttemptKnown
<1> QED
  BY <1>1, <1>2, WritingKnown, BoundsAssumption
     DEF SentInv, PermitsTell, CreateSent, CallsKnown, TypeOK, WorkTyped, Work, ReviewTyped, Review

\* Steps other than getting the permit, using it, and a late effect.
LEMMA CreateKeeps ==
  ASSUME SentInv, [MachineNext]_allVars, ~LateEffect,
         \A w \in WorkId : ~AuthorizesWrite(w) /\ ~SyncWrite(w) /\ ~SyncClaimWrite(w)
  PROVE  /\ UNCHANGED <<products, payload>> /\ SameWrite
         /\ write.permit = "consumed" => write'.permit = "consumed"
         /\ synced' # 0 => synced # 0 \/ products = 1
<1> DEFINE Goal == /\ UNCHANGED <<products, payload>> /\ SameWrite
                   /\ write.permit = "consumed" => write'.permit = "consumed"
                   /\ synced' # 0 => synced # 0 \/ products = 1
<1> USE DEF NoProviderCall, providerVars, reviewVars, writeVars, SameWrite
<1>0. TellingInv
  BY DEF SentInv, CarryInv
<1>1. CASE Quiet
  BY <1>0, <1>1, PlainCalm DEF Quiet, Calm
<1>2. ASSUME NEW w \in WorkId, AuthorizesUpload(w) \/ LearnsUpload(w) \/ SyncUpload(w) PROVE Goal
  BY <1>2 DEF AuthorizesUpload, AuthorizeProviderUpload, LearnsUpload, SyncUpload, vars,
     RecordProviderUploadSuccess
<1>3. ASSUME NEW w \in WorkId, LearnsWrite(w) PROVE Goal
  BY <1>3 DEF LearnsWrite, RecordProductSyncSuccess, ProductSynchronized, SentInv, CreateSent
<1>4. ASSUME NEW w \in WorkId, WritesOff(w) PROVE Goal
  BY <1>4 DEF WritesOff, RecordPrior, WriteObservedPrior, EndReconciliation
<1>5. ASSUME NEW w \in WorkId, Observes(w) PROVE Goal
  <2>1. CASE UploadObservedTarget
    BY <1>5, <2>1 DEF Observes, UploadObservedTarget
  <2>2. CASE WriteObservedTarget
    BY <1>5, <2>2 DEF Observes, WriteObservedTarget, ReconcilingWrite, ProductSynchronized,
       SentInv, Knows
  <2> QED
    BY <1>5, <2>1, <2>2 DEF Observes
<1> QED
  BY <1>1, <1>2, <1>3, <1>4, <1>5, MachineKinds DEF Telling

\* Every step keeps track of where the create is.
LEMMA CreateSentStep ==
  ASSUME SentInv, [MachineNext]_allVars
  PROVE  CreateSent'
<1>0. /\ CreateSent /\ CarryInv /\ pc \in [WorkId -> Labels] /\ attempt \in [WorkId -> Carried]
      /\ write \in WriteAttempt
  BY DEF SentInv, CarryInv, MachineTyped, TellingInv, JobInv, TypeOK, AttemptsTyped
<1>r. review \in Nat /\ review' \in Nat /\ review <= review'
  BY <1>0, TellingStep, MachineCommands, WriteMoves
     DEF CarryInv, TellingInv, JobInv, TypeOK, ReviewTyped, Review
<1>k. \A w \in Creating : works'[w].review = works[w].review
  <2>1. ASSUME NEW w \in Creating PROVE works[w].status # "absent" /\ w \in WorkId
    BY <1>0 DEF CarryInv, Claims, Started, Creating
  <2> QED
    BY <1>0, <2>1, StatusMoves, MachineCommands DEF CarryInv
<1>1. CASE \E w \in WorkId : AuthorizesWrite(w)
  <2>1. PICK w \in WorkId : AuthorizesWrite(w)
    BY <1>1
  <2>2. /\ pc' = [pc EXCEPT ![w] = "writing"]
        /\ UNCHANGED <<calls, products, payload, synced, works, review, attempt>>
        /\ write.permit = "available" /\ write'.permit = "consumed"
        /\ write'.op = write.op /\ write'.review = write.review
        /\ attempt[w].work = write.work /\ pc[w] = "authorize"
    BY <1>0, <2>1 DEF AuthorizesWrite, AuthorizeProviderCall, CallAuthorized, Goto, CarriesCurrent,
       NoProviderCall, providerVars, callVars, WriteAttempt, workVars, reviewVars
  <2>3. attempt[w].op = write.op /\ works[w].review = write.review /\ write.op # "none"
    BY <1>0, <2>2 DEF CarryInv, Claims, AttemptKnown, Carrying
  <2>4. Creating = {} /\ CallsOut("create") = {} /\ (write.op = "create" => products = 0)
    BY <1>0, <2>2 DEF CreateSent, CreateOut
  <2>5. /\ CallsOut("create")' = {} /\ Creating' \subseteq {w}
        /\ Creating' # {} => write.op = "create"
    BY <1>0, <2>2, <2>3, <2>4 DEF Creating, CallsOut
  <2>6. \A v \in WorkId : pc'[v] = "written" => pc[v] = "written"
    BY <1>0, <2>2
  <2>7. CreateOut' => products = 0 /\ write.op = "create"
    BY <2>4, <2>5 DEF CreateOut
  <2>8. /\ Single(Creating, CallsOut("create"), [op |-> "create", review |-> write.review])'
        /\ \A v \in Creating' : works'[v].review = write'.review
    BY <2>2, <2>3, <2>5 DEF Single
  <2> QED
    BY <1>0, <2>2, <2>6, <2>7, <2>8 DEF CreateSent
<1>2. CASE \E w \in WorkId : SyncWrite(w)
  <2>1. PICK w \in WorkId : SyncWrite(w)
    BY <1>2
  <2> DEFINE op == attempt[w].op
             late == [op |-> op, review |-> works[w].review]
  <2>2. PICK l \in {"written", "writeLost"} :
          /\ pc' = [pc EXCEPT ![w] = l] /\ UNCHANGED <<vars, attempt>>
          /\ \/ Applied(op, works[w].review) /\ UNCHANGED calls
             \/ UNCHANGED <<calls, products, payload>> /\ l = "writeLost"
             \/ calls' = calls \cup {late} /\ UNCHANGED <<products, payload>> /\ l = "writeLost"
    BY <2>1 DEF SyncWrite, Goto
  <2>3. UNCHANGED <<works, review, write, synced>>
    BY <2>2 DEF vars, workVars, reviewVars, writeVars
  <2>4. op \in {"create", "update"} /\ works[w].review \in 1..review
    BY <2>1, ProductTold DEF SyncWrite
  <2>5. \A v \in WorkId : v # w => pc'[v] = pc[v]
    BY <1>0, <2>2
  <2>w. pc'[w] = l
    BY <1>0, <2>2
  <2>6. CASE op = "create"
    <3>1. w \in Creating
      BY <2>1, <2>6 DEF SyncWrite, Creating
    <3>2. /\ Creating = {w} /\ CallsOut("create") = {} /\ products = 0 /\ write.op = "create"
          /\ write.permit = "consumed" /\ works[w].review = write.review
      BY <1>0, <3>1 DEF CreateSent, CreateOut, Single
    <3>3. Creating' = {}
      <4>1. \A v \in WorkId : ~(pc'[v] = "writing" /\ attempt'[v].op = "create")
        BY <2>2, <2>5, <2>w, <3>2 DEF Creating
      <4> QED
        BY <4>1 DEF Creating
    <3>4. synced = 0 /\ \A v \in WorkId : v # w => pc'[v] # "written"
      BY <1>0, <2>5, <3>2 DEF CreateSent
    <3>5. CASE Applied(op, works[w].review) /\ UNCHANGED calls
      <4>1. products' = 1 /\ payload' = write.review /\ CallsOut("create")' = {}
        BY <2>6, <3>2, <3>5 DEF Applied, Created, CallsOut
      <4> QED
        BY <2>3, <2>4, <3>2, <3>3, <3>4, <4>1 DEF CreateSent, Single, CreateOut
    <3>6. CASE UNCHANGED <<calls, products, payload>> /\ l = "writeLost"
      <4>1. CallsOut("create")' = {} /\ \A v \in WorkId : pc'[v] # "written"
        BY <2>w, <3>2, <3>4, <3>6 DEF CallsOut
      <4> QED
        BY <1>0, <2>3, <3>2, <3>3, <3>4, <3>6, <4>1 DEF CreateSent, Single, CreateOut
    <3>7. CASE calls' = calls \cup {late} /\ UNCHANGED <<products, payload>> /\ l = "writeLost"
      <4>1. CallsOut("create")' \subseteq {[op |-> "create", review |-> write.review]}
        BY <2>6, <3>2, <3>7 DEF CallsOut
      <4>2. \A v \in WorkId : pc'[v] # "written"
        BY <2>w, <3>4, <3>7
      <4> QED
        BY <1>0, <2>3, <3>2, <3>3, <3>4, <3>7, <4>1, <4>2 DEF CreateSent, Single, CreateOut
    <3> QED
      BY <2>2, <3>5, <3>6, <3>7
  <2>7. CASE op = "update"
    <3>1. w \in Updating
      BY <2>1, <2>7 DEF SyncWrite, Updating
    <3>2. write.op = "update" /\ products = 1 /\ Creating = {} /\ CallsOut("create") = {}
      BY <1>0, <3>1, ProductTold DEF CreateSent, CreateOut
    <3>3. Creating' = {}
      <4>1. \A v \in WorkId : ~(pc'[v] = "writing" /\ attempt'[v].op = "create")
        BY <2>2, <2>5, <2>w, <3>2 DEF Creating
      <4> QED
        BY <4>1 DEF Creating
    <3>4. CallsOut("create")' = {}
      BY <2>2, <2>7, <3>2 DEF CallsOut
    <3>5. products' = 1 /\ payload' \in {payload, works[w].review}
      BY <2>2, <2>7, <3>2 DEF Applied, Replaced
    <3> QED
      BY <1>0, <1>r, <2>3, <2>4, <3>2, <3>3, <3>4, <3>5 DEF CreateSent, Single, CreateOut
  <2> QED
    BY <2>4, <2>6, <2>7
<1>3. CASE LateEffect
  <2>1. PICK c \in calls :
          /\ calls' = calls \ {c}
          /\ UNCHANGED <<pc, attempt, works, review, write, synced>>
          /\ IF c.op = "upload" THEN UNCHANGED <<products, payload>> ELSE Applied(c.op, c.review)
    BY <1>3 DEF LateEffect, vars, workVars, reviewVars, writeVars, machineVars
  <2>2. Creating' = Creating
    BY <2>1 DEF Creating
  <2>3. CASE c.op = "create"
    <3>1. c \in CallsOut("create") /\ CallsOut("create")' = CallsOut("create") \ {c}
      BY <2>1, <2>3 DEF CallsOut
    <3>2. /\ Creating = {} /\ products = 0 /\ CallsOut("create")' = {} /\ c.review = write.review
          /\ write.permit = "consumed" /\ write.op = "create"
      BY <1>0, <3>1 DEF CreateSent, Single, CreateOut
    <3>3. products' = 1 /\ payload' = write.review /\ write.review \in 1..review
      BY <2>1, <2>3, <3>2, ProductTold DEF Applied, Created
    <3> QED
      BY <1>0, <2>1, <2>2, <3>2, <3>3 DEF CreateSent, Single, CreateOut
  <2>4. CASE c.op # "create"
    <3>1. CallsOut("create")' = CallsOut("create")
      BY <2>1, <2>4 DEF CallsOut
    <3>2. CASE c.op = "upload"
      BY <1>0, <2>1, <2>2, <3>1, <3>2 DEF CreateSent, Single, CreateOut
    <3>3. CASE c.op = "update"
      <4>1. products = 1 /\ c.review \in 1..review /\ write.op = "update"
        BY <3>3, ProductTold
      <4>2. products' = 1 /\ payload' = c.review
        BY <2>1, <3>3, <4>1 DEF Applied, Replaced
      <4> QED
        BY <1>0, <1>r, <2>1, <2>2, <3>1, <4>1, <4>2 DEF CreateSent, Single, CreateOut
    <3> QED
      BY <1>0, <2>4, <3>2, <3>3 DEF CarryInv, MachineTyped, Call
  <2> QED
    BY <2>3, <2>4
<1>4. CASE \E w \in WorkId : SyncClaimWrite(w)
  <2>1. PICK w \in WorkId : SyncClaimWrite(w)
    BY <1>4
  <2>2. /\ UNCHANGED <<works, review, synced, products, payload, calls>>
        /\ pc' = [pc EXCEPT ![w] = "authorize"]
        /\ UNCHANGED write \/ (~writeUnconfirmed /\ \/ write'.op = "create" /\ write.op = "none" /\ synced = 0
                                                    \/ write'.op = "update" /\ synced # 0)
    BY <1>0, <2>1, ClaimMeans
       DEF SyncClaimWrite, NoProviderCall, providerVars, callVars, vars, writeVars
  <2>3. Creating' \subseteq Creating /\ CallsOut("create")' = CallsOut("create")
    <3>1. ASSUME NEW v \in WorkId, pc'[v] = "writing" PROVE pc[v] = "writing" /\ attempt'[v] = attempt[v]
      <4>1. v # w
        BY <1>0, <2>2, <3>1
      <4> QED
        BY <1>0, <2>1, <2>2, <3>1, <4>1 DEF SyncClaimWrite
    <3> QED
      BY <2>2, <3>1 DEF Creating, CallsOut
  <2>4. \A v \in WorkId : pc'[v] = "written" => pc[v] = "written"
    BY <1>0, <2>2
  <2>5. CASE UNCHANGED write
    BY <1>0, <2>2, <2>3, <2>4, <2>5 DEF CreateSent, Single, CreateOut
  <2>6. CASE ~writeUnconfirmed /\ \/ write'.op = "create" /\ write.op = "none" /\ synced = 0
                                  \/ write'.op = "update" /\ synced # 0
    <3>1. Creating = {} /\ CallsOut("create") = {}
      BY <2>6, ProductTold DEF CreateOut
    <3>2. products = 1 => write'.op = "update"
      BY <1>0, <2>6 DEF CreateSent
    <3> QED
      BY <1>0, <2>2, <2>3, <2>4, <3>1, <3>2 DEF CreateSent, Single, CreateOut
  <2> QED
    BY <2>2, <2>5, <2>6
<1>5. CASE /\ ~LateEffect
           /\ \A w \in WorkId : ~AuthorizesWrite(w) /\ ~SyncWrite(w) /\ ~SyncClaimWrite(w)
  <2>1. /\ Creating' \subseteq Creating /\ CallsOut("create")' \subseteq CallsOut("create")
        /\ \A v \in WorkId : pc'[v] = "written" => pc[v] = "written"
    BY <1>5, WritesOut
  <2>2. /\ UNCHANGED <<products, payload>> /\ SameWrite
        /\ write.permit = "consumed" => write'.permit = "consumed"
        /\ synced' # 0 => synced # 0 \/ products = 1
    BY <1>5, CreateKeeps
  <2>3. CreateOut' => CreateOut
    BY <2>1 DEF CreateOut
  <2> QED
    BY <1>0, <1>r, <1>k, <2>1, <2>2, <2>3 DEF CreateSent, Single, SameWrite
<1> QED
  BY <1>1, <1>2, <1>3, <1>4, <1>5

-----------------------------------------------------------------------------
(* Updates, as long as none was written off early.                         *)

\* The record of an update stays while it is on its way.
LEMMA UpdateKeeps ==
  ASSUME SentInv, [MachineNext]_allVars, ~LateEffect, ~overtaken',
         \A w \in WorkId : ~AuthorizesWrite(w) /\ ~SyncWrite(w) /\ ~SyncClaimWrite(w)
  PROVE  /\ ~overtaken
         /\ \/ UNCHANGED synced /\ (writeUnconfirmed /\ write.permit = "consumed" => writeUnconfirmed')
            \/ ~UpdateOnItsWay /\ synced' = payload
<1> DEFINE Goal ==
      /\ ~overtaken
      /\ \/ UNCHANGED synced /\ (writeUnconfirmed /\ write.permit = "consumed" => writeUnconfirmed')
         \/ ~UpdateOnItsWay /\ synced' = payload
<1> USE DEF NoProviderCall, callVars, reviewVars, writeVars
<1>0. /\ TellingInv /\ UpdateSent /\ PermitsTell /\ WriteOwed
      /\ writeUnconfirmed /\ write.permit = "consumed" => write.review = review /\ review # synced
  BY DEF SentInv, CarryInv, TellingInv, OwedInv, WriteOwed, PermitsTell
<1>1. CASE Quiet
  BY <1>0, <1>1, PlainCalm DEF Quiet, Calm
<1>2. ASSUME NEW w \in WorkId, AuthorizesUpload(w) \/ LearnsUpload(w) \/ SyncUpload(w) PROVE Goal
  BY <1>2 DEF AuthorizesUpload, AuthorizeProviderUpload, LearnsUpload, SyncUpload, vars,
     RecordProviderUploadSuccess
<1>3. ASSUME NEW w \in WorkId, LearnsWrite(w) PROVE Goal
  <2>1. /\ ~overtaken /\ synced' = review /\ write.review = review
        /\ pc[w] = "written" /\ active = w /\ active # 0 /\ ConsumedByActive(write)
    BY <1>3 DEF LearnsWrite, RecordProductSyncSuccess, ProductSynchronized, BindsWrite, Held
  <2>2. payload = write.review /\ writeUnconfirmed /\ write.permit = "consumed"
    BY <1>0, <2>1 DEF SentInv, Knows, PermitsTell, ConsumedByActive
  <2> QED
    BY <1>0, <2>1, <2>2 DEF UpdateSent
<1>4. ASSUME NEW w \in WorkId, WritesOff(w) PROVE Goal
  <2>1. /\ ~overtaken /\ ~UpdateOnItsWay /\ payload = write.prior /\ writeUnconfirmed
        /\ UNCHANGED synced
    BY <1>4 DEF WritesOff, RecordPrior, WriteObservedPrior, ReconcilingWrite, EndReconciliation
  <2> QED
    BY <1>0, <2>1 DEF PermitsTell
<1>5. ASSUME NEW w \in WorkId, Observes(w) PROVE Goal
  <2>1. CASE UploadObservedTarget
    BY <1>5, <2>1 DEF Observes, UploadObservedTarget
  <2>2. CASE WriteObservedTarget
    <3>1. /\ ~overtaken /\ synced' = review /\ write.review = review /\ writeUnconfirmed
          /\ pc[w] = "observed" /\ active = w /\ seen[w] = "target"
      BY <1>5, <2>2 DEF Observes, WriteObservedTarget, ReconcilingWrite, BindsWrite,
         ProductSynchronized
    <3>2. payload = write.review
      BY <3>1 DEF SentInv, Knows
    <3> QED
      BY <1>0, <3>1, <3>2 DEF UpdateSent
  <2> QED
    BY <1>5, <2>1, <2>2 DEF Observes
<1> QED
  BY <1>1, <1>2, <1>3, <1>4, <1>5, MachineKinds DEF Telling

\* Every step keeps track of where the update is, until one is written off early.
LEMMA UpdateSentStep ==
  ASSUME SentInv, [MachineNext]_allVars
  PROVE  UpdateSent'
<1> SUFFICES ASSUME ~overtaken' PROVE UpdateSent'
  BY DEF UpdateSent
<1> USE DEF Single
<1>0. /\ UpdateSent /\ CarryInv /\ pc \in [WorkId -> Labels] /\ attempt \in [WorkId -> Carried]
      /\ write \in WriteAttempt /\ CreateSent /\ UpdateSent /\ PermitsTell
  BY DEF SentInv, CarryInv, MachineTyped, TellingInv, JobInv, TypeOK, AttemptsTyped
<1>u. UpdateOnItsWay <=> Updating # {} \/ CallsOut("update") # {}
  BY DEF UpdateOnItsWay, Updating, CallsOut
<1>v. UpdateOnItsWay' <=> Updating' # {} \/ CallsOut("update")' # {}
  BY DEF UpdateOnItsWay, Updating, CallsOut
<1>k. \A w \in Updating : works'[w].review = works[w].review
  <2>1. ASSUME NEW w \in Updating PROVE works[w].status # "absent" /\ w \in WorkId
    BY <1>0 DEF CarryInv, Claims, Started, Updating
  <2> QED
    BY <1>0, <2>1, StatusMoves, MachineCommands DEF CarryInv
<1>1. CASE \E w \in WorkId : AuthorizesWrite(w)
  <2>1. PICK w \in WorkId : AuthorizesWrite(w)
    BY <1>1
  <2>2. /\ pc' = [pc EXCEPT ![w] = "writing"]
        /\ UNCHANGED <<calls, products, payload, synced, works, review, attempt, overtaken>>
        /\ write.permit = "available" /\ write'.permit = "consumed"
        /\ write'.op = write.op /\ write'.review = write.review
        /\ attempt[w].work = write.work /\ pc[w] = "authorize" /\ writeUnconfirmed'
    BY <1>0, <2>1 DEF AuthorizesWrite, AuthorizeProviderCall, CallAuthorized, Goto, CarriesCurrent,
       NoProviderCall, providerVars, callVars, WriteAttempt, workVars, reviewVars
  <2>3. attempt[w].op = write.op /\ works[w].review = write.review
    BY <1>0, <2>2 DEF CarryInv, Claims, AttemptKnown, Carrying
  <2>4. Updating = {} /\ CallsOut("update") = {} /\ (synced # 0 => payload = synced)
    BY <1>0, <1>u, <2>2 DEF UpdateSent
  <2>5. /\ CallsOut("update")' = {} /\ Updating' \subseteq {w}
        /\ Updating' # {} => write.op = "update" /\ synced # 0
    BY <1>0, <2>2, <2>3, <2>4 DEF Updating, CallsOut, PermitsTell
  <2> QED
    BY <1>v, <2>2, <2>3, <2>4, <2>5 DEF UpdateSent
<1>2. CASE \E w \in WorkId : SyncWrite(w)
  <2>1. PICK w \in WorkId : SyncWrite(w)
    BY <1>2
  <2> DEFINE op == attempt[w].op
             late == [op |-> op, review |-> works[w].review]
  <2>2. PICK l \in {"written", "writeLost"} :
          /\ pc' = [pc EXCEPT ![w] = l] /\ UNCHANGED <<vars, attempt, overtaken>>
          /\ \/ Applied(op, works[w].review) /\ UNCHANGED calls
             \/ UNCHANGED <<calls, products, payload>> /\ l = "writeLost"
             \/ calls' = calls \cup {late} /\ UNCHANGED <<products, payload>> /\ l = "writeLost"
    BY <2>1 DEF SyncWrite, Goto
  <2>3. UNCHANGED <<works, review, write, synced, writeUnconfirmed>>
    BY <2>2 DEF vars, workVars, reviewVars, writeVars
  <2>4. op \in {"create", "update"} /\ works[w].review \in 1..review
    BY <2>1, ProductTold DEF SyncWrite
  <2>5. \A v \in WorkId : v # w => pc'[v] = pc[v]
    BY <1>0, <2>2
  <2>w. pc'[w] = l
    BY <1>0, <2>2
  <2>6. CASE op = "create"
    <3>1. w \in Creating
      BY <2>1, <2>6 DEF SyncWrite, Creating
    <3>2. write.op = "create" /\ synced = 0
      BY <1>0, <3>1, ProductTold DEF CreateSent, CreateOut
    <3>3. Updating = {} /\ CallsOut("update") = {}
      BY <1>0, <1>u, <2>2, <3>2 DEF UpdateSent
    <3>4. CallsOut("update")' = {}
      BY <2>2, <2>6, <3>3 DEF CallsOut
    <3>5. Updating' = {}
      <4>1. \A v \in WorkId : ~(pc'[v] \in {"writing", "putting"} /\ attempt'[v].op = "update")
        BY <2>2, <2>5, <2>w, <3>3 DEF Updating
      <4> QED
        BY <4>1 DEF Updating
    <3> QED
      BY <1>v, <2>3, <3>2, <3>4, <3>5 DEF UpdateSent
  <2>7. CASE op = "update"
    <3>1. w \in Updating
      BY <2>1, <2>7 DEF SyncWrite, Updating
    <3>2. /\ Updating = {w} /\ CallsOut("update") = {} /\ works[w].review = write.review
          /\ writeUnconfirmed /\ write.op = "update" /\ write.permit = "consumed" /\ payload = synced
      BY <1>0, <1>u, <2>2, <3>1 DEF UpdateSent
    <3>3. Updating' = {}
      <4>1. \A v \in WorkId : ~(pc'[v] \in {"writing", "putting"} /\ attempt'[v].op = "update")
        BY <2>2, <2>5, <2>w, <3>2 DEF Updating
      <4> QED
        BY <4>1 DEF Updating
    <3>4. CASE Applied(op, works[w].review) /\ UNCHANGED calls
      <4>1. payload' = write.review /\ CallsOut("update")' = {}
        BY <2>7, <3>2, <3>4 DEF Applied, Replaced, CallsOut
      <4> QED
        BY <1>v, <2>3, <3>2, <3>3, <4>1 DEF UpdateSent
    <3>5. CASE UNCHANGED <<calls, products, payload>>
      <4>1. CallsOut("update")' = {}
        BY <3>2, <3>5 DEF CallsOut
      <4> QED
        BY <1>v, <2>3, <3>2, <3>3, <3>5, <4>1 DEF UpdateSent
    <3>6. CASE calls' = calls \cup {late} /\ UNCHANGED <<products, payload>>
      <4>1. CallsOut("update")' \subseteq {[op |-> "update", review |-> write.review]}
        BY <2>7, <3>2, <3>6 DEF CallsOut
      <4> QED
        BY <1>v, <2>3, <3>2, <3>3, <3>6, <4>1 DEF UpdateSent
    <3> QED
      BY <2>2, <3>4, <3>5, <3>6
  <2> QED
    BY <2>4, <2>6, <2>7
<1>3. CASE LateEffect
  <2>1. PICK c \in calls :
          /\ calls' = calls \ {c}
          /\ UNCHANGED <<pc, attempt, works, review, write, writeUnconfirmed, synced, overtaken>>
          /\ IF c.op = "upload" THEN UNCHANGED <<products, payload>> ELSE Applied(c.op, c.review)
    BY <1>3 DEF LateEffect, vars, workVars, reviewVars, writeVars, machineVars
  <2>2. Updating' = Updating
    BY <2>1 DEF Updating
  <2>3. CASE c.op = "update"
    <3>1. c \in CallsOut("update") /\ CallsOut("update")' = CallsOut("update") \ {c}
      BY <2>1, <2>3 DEF CallsOut
    <3>2. /\ Updating = {} /\ CallsOut("update")' = {} /\ c.review = write.review
          /\ writeUnconfirmed /\ write.op = "update" /\ write.permit = "consumed"
      BY <1>0, <1>u, <2>1, <3>1 DEF UpdateSent
    <3>3. payload' = write.review
      BY <2>1, <2>3, <3>2 DEF Applied, Replaced
    <3> QED
      BY <1>v, <2>1, <2>2, <3>2, <3>3 DEF UpdateSent
  <2>4. CASE c.op # "update"
    <3>1. CallsOut("update")' = CallsOut("update")
      BY <2>1, <2>4 DEF CallsOut
    <3>2. CASE c.op = "upload"
      BY <1>0, <1>u, <1>v, <2>1, <2>2, <3>1, <3>2 DEF UpdateSent
    <3>3. CASE c.op = "create"
      <4>1. CreateOut
        BY <3>3 DEF CreateOut, CallsOut
      <4>2. synced = 0 /\ write.op = "create"
        BY <1>0, <4>1, ProductTold DEF CreateSent
      <4>3. Updating = {} /\ CallsOut("update") = {}
        BY <1>0, <1>u, <2>1, <4>2 DEF UpdateSent
      <4> QED
        BY <1>v, <2>1, <2>2, <3>1, <4>2, <4>3 DEF UpdateSent
    <3> QED
      BY <1>0, <2>4, <3>2, <3>3 DEF CarryInv, MachineTyped, Call
  <2> QED
    BY <2>3, <2>4
<1>4. CASE \E w \in WorkId : SyncClaimWrite(w)
  <2>1. PICK w \in WorkId : SyncClaimWrite(w)
    BY <1>4
  <2>2. /\ UNCHANGED <<works, review, synced, products, payload, calls, overtaken>>
        /\ pc' = [pc EXCEPT ![w] = "authorize"]
        /\ UNCHANGED <<write, writeUnconfirmed>> \/ (~writeUnconfirmed /\ writeUnconfirmed')
    BY <1>0, <2>1, ClaimMeans
       DEF SyncClaimWrite, NoProviderCall, providerVars, callVars, vars, writeVars
  <2>3. Updating' \subseteq Updating /\ CallsOut("update")' = CallsOut("update")
    <3>1. ASSUME NEW v \in WorkId, pc'[v] \in {"writing", "putting"}
          PROVE  pc[v] = pc'[v] /\ attempt'[v] = attempt[v]
      <4>1. v # w
        BY <1>0, <2>2, <3>1
      <4> QED
        BY <1>0, <2>1, <2>2, <3>1, <4>1 DEF SyncClaimWrite
    <3> QED
      BY <2>2, <3>1 DEF Updating, CallsOut
  <2>4. CASE UNCHANGED <<write, writeUnconfirmed>>
    BY <1>0, <1>u, <1>v, <2>2, <2>3, <2>4 DEF UpdateSent
  <2>5. CASE ~writeUnconfirmed /\ writeUnconfirmed'
    <3>1. Updating = {} /\ CallsOut("update") = {} /\ (synced # 0 => payload = synced)
      BY <1>0, <1>u, <2>2, <2>5 DEF UpdateSent
    <3> QED
      BY <1>v, <2>2, <2>3, <3>1 DEF UpdateSent
  <2> QED
    BY <2>2, <2>4, <2>5
<1>5. CASE /\ ~LateEffect
           /\ \A w \in WorkId : ~AuthorizesWrite(w) /\ ~SyncWrite(w) /\ ~SyncClaimWrite(w)
  <2>1. Updating' \subseteq Updating /\ CallsOut("update")' \subseteq CallsOut("update")
    BY <1>5, WritesOut
  <2>2. /\ UNCHANGED payload /\ SameWrite
        /\ write.permit = "consumed" => write'.permit = "consumed"
    BY <1>5, CreateKeeps
  <2>3. /\ ~overtaken
        /\ \/ UNCHANGED synced /\ (writeUnconfirmed /\ write.permit = "consumed" => writeUnconfirmed')
           \/ ~UpdateOnItsWay /\ synced' = payload
    BY <1>5, UpdateKeeps
  <2>4. UpdateOnItsWay' => UpdateOnItsWay
    BY <1>u, <1>v, <2>1
  <2>5. CASE UNCHANGED synced /\ (writeUnconfirmed /\ write.permit = "consumed" => writeUnconfirmed')
    BY <1>0, <1>k, <2>1, <2>2, <2>3, <2>4, <2>5 DEF UpdateSent, SameWrite
  <2>6. CASE ~UpdateOnItsWay /\ synced' = payload
    BY <1>u, <1>v, <2>1, <2>2, <2>4, <2>6 DEF UpdateSent, SameWrite
  <2> QED
    BY <2>3, <2>5, <2>6
<1> QED
  BY <1>1, <1>2, <1>3, <1>4, <1>5

-----------------------------------------------------------------------------
(* What changes at the provider, and what is known of it.                  *)

\* The only ways in which anything at the provider changes.
LEMMA ProviderMoves ==
  ASSUME SentInv, [MachineNext]_allVars
  PROVE  /\ \/ UNCHANGED images
            \/ /\ images = 0 /\ images' = 1 /\ upload.permit = "consumed" /\ ~uploaded
               /\ UNCHANGED <<vars, products, payload, overtaken>>
         /\ \/ UNCHANGED <<products, payload>>
            \/ /\ products = 0 /\ products' = 1 /\ payload' = write.review /\ CreateOut
               /\ UNCHANGED <<vars, images, overtaken>>
            \/ /\ products = 1 /\ products' = 1 /\ UNCHANGED <<vars, images, overtaken>>
               /\ payload' \in 1..review
               /\ ~overtaken => /\ payload' = write.review /\ payload = synced
                                /\ writeUnconfirmed /\ write.permit = "consumed"
<1> USE DEF NoProviderCall, providerVars, callVars
<1>0. UploadSent /\ CreateSent /\ UpdateSent /\ calls \subseteq Call
  BY DEF SentInv, CarryInv, MachineTyped
<1> DEFINE Goal ==
         /\ \/ UNCHANGED images
            \/ /\ images = 0 /\ images' = 1 /\ upload.permit = "consumed" /\ ~uploaded
               /\ UNCHANGED <<vars, products, payload, overtaken>>
         /\ \/ UNCHANGED <<products, payload>>
            \/ /\ products = 0 /\ products' = 1 /\ payload' = write.review /\ CreateOut
               /\ UNCHANGED <<vars, images, overtaken>>
            \/ /\ products = 1 /\ products' = 1 /\ UNCHANGED <<vars, images, overtaken>>
               /\ payload' \in 1..review
               /\ ~overtaken => /\ payload' = write.review /\ payload = synced
                                /\ writeUnconfirmed /\ write.permit = "consumed"
<1>1. ASSUME UNCHANGED <<images, products, payload>> PROVE Goal
  BY <1>1
<1>2. ASSUME UploadOut, images' \in {images, images + 1}, UNCHANGED <<vars, products, payload, overtaken>>
      PROVE  Goal
  BY <1>0, <1>2 DEF UploadSent
<1>3. ASSUME CreateOut, products' = products + 1, payload' = write.review,
             UNCHANGED <<vars, images, overtaken>>
      PROVE  Goal
  BY <1>0, <1>3 DEF CreateSent
<1>4. ASSUME write.op = "update", UNCHANGED <<vars, products, images, overtaken>>,
             payload' \in 1..review,
             ~overtaken => /\ payload' = write.review /\ payload = synced
                                /\ writeUnconfirmed /\ write.permit = "consumed"
      PROVE  Goal
  BY <1>0, <1>4, ProductTold
<1> HIDE DEF Goal
<1> SUFFICES Goal
  BY DEF Goal
<1>5. ASSUME NEW w \in WorkId, SyncUpload(w) PROVE Goal
  <2>1. UploadOut
    BY <1>5 DEF SyncUpload, UploadOut, Uploading
  <2> QED
    BY <1>2, <1>5, <2>1 DEF SyncUpload
<1>6. ASSUME NEW w \in WorkId, SyncWrite(w) PROVE Goal
  <2>1. attempt[w].op \in {"create", "update"} /\ works[w].review \in 1..review
    BY <1>6, ProductTold DEF SyncWrite
  <2>2. UNCHANGED <<vars, images, overtaken>>
        /\ (Applied(attempt[w].op, works[w].review) \/ UNCHANGED <<products, payload>>)
    BY <1>6 DEF SyncWrite
  <2>3. CASE attempt[w].op = "create" /\ Applied(attempt[w].op, works[w].review)
    <3>1. w \in Creating
      BY <1>6, <2>3 DEF SyncWrite, Creating
    <3>2. CreateOut /\ works[w].review = write.review
      BY <1>0, <3>1 DEF CreateOut, CreateSent
    <3> QED
      BY <1>3, <2>2, <2>3, <3>2 DEF Applied, Created
  <2>4. CASE attempt[w].op = "update" /\ Applied(attempt[w].op, works[w].review)
    <3>1. w \in Updating
      BY <1>6, <2>4 DEF SyncWrite, Updating
    <3>2. write.op = "update" /\ UpdateOnItsWay
      BY <3>1, ProductTold DEF UpdateOnItsWay, Updating
    <3>3. ~overtaken => /\ works[w].review = write.review /\ payload = synced
                         /\ writeUnconfirmed /\ write.permit = "consumed"
      BY <1>0, <3>1, <3>2 DEF UpdateSent
    <3> QED
      BY <1>4, <2>1, <2>2, <2>4, <3>2, <3>3 DEF Applied, Replaced
  <2> QED
    BY <1>1, <2>1, <2>2, <2>3, <2>4
<1>7. CASE LateEffect
  <2>1. PICK c \in calls :
          /\ UNCHANGED <<vars, overtaken>>
          /\ IF c.op = "upload" THEN images' = images + 1 /\ UNCHANGED <<products, payload>>
             ELSE Applied(c.op, c.review) /\ UNCHANGED images
    BY <1>7 DEF LateEffect
  <2>2. c.op \in {"upload", "create", "update"}
    BY <1>0 DEF Call
  <2>3. CASE c.op = "upload"
    <3>1. UploadOut
      BY <2>3 DEF UploadOut, CallsOut
    <3> QED
      BY <1>2, <2>1, <2>3, <3>1
  <2>4. CASE c.op = "create"
    <3>1. c \in CallsOut("create") /\ CreateOut
      BY <2>4 DEF CreateOut, CallsOut
    <3>2. c.review = write.review
      BY <1>0, <3>1 DEF CreateSent, Single
    <3> QED
      BY <1>3, <2>1, <2>4, <3>1, <3>2 DEF Applied, Created
  <2>5. CASE c.op = "update"
    <3>1. c \in CallsOut("update") /\ write.op = "update" /\ c.review \in 1..review /\ UpdateOnItsWay
      BY <2>5, ProductTold DEF CallsOut, UpdateOnItsWay
    <3>2. ~overtaken => /\ c.review = write.review /\ payload = synced
                         /\ writeUnconfirmed /\ write.permit = "consumed"
      BY <1>0, <3>1 DEF UpdateSent, Single
    <3> QED
      BY <1>4, <2>1, <2>5, <3>1, <3>2 DEF Applied, Replaced
  <2> QED
    BY <2>2, <2>3, <2>4, <2>5
<1>8. CASE Quiet
  BY <1>1, <1>8 DEF Quiet
<1>9. ASSUME NEW w \in WorkId, Telling(w), ~SyncUpload(w), ~SyncWrite(w) PROVE Goal
  BY <1>1, <1>9 DEF Telling, AuthorizesUpload, LearnsUpload, AuthorizesWrite, LearnsWrite, Observes,
     WritesOff, SyncClaimWrite
<1> QED
  BY <1>5, <1>6, <1>7, <1>8, <1>9, MachineKinds

\* An update that was written off early is never forgotten.
LEMMA OvertakenStays ==
  ASSUME SentInv, [MachineNext]_allVars, overtaken
  PROVE  overtaken'
<1> USE DEF NoProviderCall, callVars
<1>1. ASSUME NEW w \in WorkId, Telling(w) PROVE overtaken'
  BY <1>1 DEF Telling, AuthorizesUpload, SyncUpload, LearnsUpload, SyncClaimWrite, AuthorizesWrite,
     SyncWrite, LearnsWrite, Observes, WritesOff, RecordPrior
<1> QED
  BY <1>1, MachineKinds DEF Quiet, LateEffect

\* Every step keeps what a worker has read or sent true until it records it.
LEMMA KnowsStep ==
  ASSUME SentInv, [MachineNext]_allVars, NEW v \in WorkId
  PROVE  Knows(v)'
<1>0. /\ CarryInv /\ UploadSent /\ CreateSent /\ UpdateSent /\ Knows(v) /\ Started(v) /\ AttemptKnown(v)
      /\ RecordCoherent /\ PermitsTell /\ pc \in [WorkId -> Labels] /\ seen \in [WorkId -> Reads]
      /\ CreateSent'
  BY CreateSentStep DEF SentInv, CarryInv, Claims, TellingInv, JobInv, MachineTyped
<1>1. pc[v] # "off" => /\ works'[v].type = works[v].type
                       /\ active' = v => active = v
  BY <1>0, StatusMoves, MachineCommands DEF CarryInv, Started
<1>2. SameWrite \/ \E w \in WorkId : SyncClaimWrite(w)
  BY WriteMoves DEF SentInv, CarryInv
<1>3. pc'[v] \in {"observe", "observed"} => works'[v].type = "reconcile_product"
  <2>1. pc'[v] \in {"observe", "observed"} => works[v].type = "reconcile_product" /\ pc[v] # "off"
    BY <1>0, Arrives DEF Knows
  <2> QED
    BY <1>1, <2>1
<1>4. ASSUME pc'[v] = "written", active' = v, ~overtaken' PROVE payload' = write'.review
  <2>0. ~overtaken /\ pc[v] # "off" /\ active = v
    BY <1>1, <1>4, Arrives, OvertakenStays DEF SentInv
  <2>1. CASE SyncWrite(v)
    <3>1. pc[v] \in Carrying /\ UNCHANGED write
      BY <2>1 DEF SyncWrite, Carrying, vars, writeVars
    <3>2. works[v].review = write.review
      BY <1>0, <2>0, <3>1 DEF AttemptKnown
    <3>3. Applied(attempt[v].op, works[v].review)
      BY <1>0, <1>4, <2>1 DEF SyncWrite, Goto
    <3> QED
      BY <3>1, <3>2, <3>3 DEF Applied, Created, Replaced
  <2>2. CASE pc[v] = "written"
    <3>1. payload = write.review /\ products = 1
      BY <1>0, <2>0, <2>2 DEF Knows, CreateSent
    <3>2. payload' = write.review
      BY <2>0, <3>1, ProviderMoves
    <3>3. ASSUME NEW w \in WorkId, SyncClaimWrite(w) PROVE write'.review = write.review
      <4>1. w # v
        BY <2>2, <3>3, ClaimMeans DEF SentInv, PreClaim
      <4>2. UNCHANGED vars
        BY <2>0, <3>3, <4>1, ClaimMeans DEF SentInv
      <4> QED
        BY <4>2 DEF vars, writeVars
    <3> QED
      BY <1>2, <3>2, <3>3 DEF SameWrite
  <2> QED
    BY <1>0, <1>4, <2>1, <2>2, Arrives
<1>5. ASSUME pc'[v] = "observed", active' = v, seen'[v] = "target"
      PROVE  /\ uploadUnconfirmed' => images' = 1
             /\ writeUnconfirmed' => products' = 1 /\ (~overtaken' => payload' = write'.review)
  <2>0. pc[v] # "off" /\ active = v
    BY <1>1, <1>5, Arrives DEF SentInv
  <2>1. CASE ReconcileObserve(v)
    <3>1. /\ UNCHANGED <<vars, images, products, payload, overtaken>> /\ Reading = "target"
      BY <1>0, <1>5, <2>1 DEF ReconcileObserve, providerVars
    <3>2. UNCHANGED <<uploadUnconfirmed, writeUnconfirmed, write>>
      BY <3>1 DEF vars, uploadVars, writeVars
    <3>3. uploadUnconfirmed => images = 1
      BY <3>1 DEF Reading, UploadRead
    <3>4. writeUnconfirmed => ~uploadUnconfirmed /\ write.op # "none"
      BY <1>0 DEF RecordCoherent, PermitsTell
    <3>5. writeUnconfirmed /\ write.op = "create" => products = 1 /\ payload = write.review
      BY <3>1, <3>4 DEF Reading, CreateRead
    <3>6. writeUnconfirmed /\ write.op # "create" => products = 1 /\ payload = write.review
      <4>1. write.op \in {"none", "create", "update"}
        BY <1>0 DEF CarryInv, TellingInv, JobInv, TypeOK, AttemptsTyped, WriteAttempt
      <4> QED
        BY <3>1, <3>4, <4>1, ProductTold DEF Reading, UpdateRead
    <3> QED
      BY <3>1, <3>2, <3>3, <3>5, <3>6
  <2>2. CASE pc[v] = "observed" /\ ~Worker(v) /\ seen'[v] = seen[v]
    <3>1. UNCHANGED <<uploadUnconfirmed, writeUnconfirmed>> /\ SameWrite
      BY <1>0, <1>5, <2>0, <2>2, Undisturbed DEF Knows
    <3>2. /\ uploadUnconfirmed => images = 1
          /\ writeUnconfirmed => products = 1 /\ (~overtaken => payload = write.review)
      BY <1>0, <1>5, <2>0, <2>2 DEF Knows
    <3> QED
      BY <3>1, <3>2, ProviderMoves, OvertakenStays DEF SameWrite
  <2> QED
    BY <1>0, <1>5, <2>1, <2>2, Arrives
<1> QED
  BY <1>3, <1>4, <1>5 DEF Knows

\* The invariant is inductive.
LEMMA SentStep == ASSUME SentInv, [MachineNext]_allVars PROVE SentInv'
BY CarryStep, UploadSentStep, CreateSentStep, UpdateSentStep, KnowsStep DEF SentInv

\* The inductive invariant holds in every state of every run of the machine: who holds which
\* permit, where each of the three calls is, and what each worker knows of it, whatever workers
\* were given up, settled early or overtaken (run_product_sync, phase6_worker.py:174).
THEOREM MachineInvariant == MachineSpec => []SentInv
<1>1. SentInv /\ UNCHANGED allVars => SentInv'
  BY SentStep
<1> QED
  BY <1>1, InitSent, SentStep, PTL DEF MachineSpec

-----------------------------------------------------------------------------
(* What holds of the machine at all times.                                 *)

\* The invariant bounds what late calls can do.
LEMMA SentSafe == SentInv => LateCallsSafe
<1> SUFFICES ASSUME SentInv PROVE LateCallsSafe
  OBVIOUS
<1>0. UploadSent /\ CreateSent /\ PermitsTell
  BY DEF SentInv, CarryInv, TellingInv
<1>1. ASSUME NEW e, NEW S, S \subseteq {e}
      PROVE  Cardinality(S) \in {0, 1} /\ (S = {} => Cardinality(S) = 0)
  <2>1. S = {} \/ S = {e}
    BY <1>1
  <2> QED
    BY <2>1, FS_EmptySet, FS_Singleton
<1>2. ASSUME NEW at, NEW out, NEW call, Single(at, out, call)
      PROVE  /\ Cardinality(at) \in {0, 1} /\ Cardinality(out) \in {0, 1}
             /\ Cardinality(at) = 0 \/ Cardinality(out) = 0
             /\ at = {} /\ out = {} => Cardinality(at) = 0 /\ Cardinality(out) = 0
  <2>1. \E e : at \subseteq {e}
    BY <1>2 DEF Single
  <2> QED
    BY <1>1, <1>2, <2>1 DEF Single
<1>3. images + Cardinality(CallsOut("upload")) + Cardinality(Uploading) <= 1
  BY <1>0, <1>2 DEF UploadSent, UploadOut
<1>4. products + Cardinality(CallsOut("create")) + Cardinality(Creating) <= 1
  BY <1>0, <1>2 DEF CreateSent, CreateOut
<1>5. images > 0 \/ UploadOut => uploadUnconfirmed \/ uploaded
  BY <1>0 DEF UploadSent, PermitsTell
<1>6. products > 0 \/ CreateOut => writeUnconfirmed \/ synced # 0
  BY <1>0, ProductTold DEF CreateSent, PermitsTell
<1> QED
  BY <1>3, <1>4, <1>5, <1>6
     DEF LateCallsSafe, OneProviderResource, LateCallAnnounced, UploadOut, CreateOut

\* No crash, lost reply, takeover or late call makes a second image or a second product of a
\* job, and no call can still reach the provider that nobody was told of, however long its
\* worker was given up (run_product_sync, phase6_worker.py:174).
THEOREM LateCallsAlwaysSafe == MachineSpec => []LateCallsSafe
BY MachineInvariant, SentSafe, PTL

\* The invariant makes the record true of the provider.
LEMMA SentSound == SentInv => MachineSound
<1> SUFFICES ASSUME SentInv PROVE MachineSound
  OBVIOUS
<1>0. MachineTyped /\ UploadSent /\ CreateSent /\ UpdateSent /\ review \in Nat
  BY DEF SentInv, CarryInv, TellingInv, JobInv, TypeOK, ReviewTyped, Review
<1>1. \A w \in WorkId : pc[w] \in {"authorize", "writing", "putting"} => attempt[w].op # "none"
  BY DEF SentInv, CarryInv, Claims, AttemptKnown, Carrying
<1>2. MachineTypeOK
  BY <1>0, <1>1 DEF MachineTyped, MachineTypeOK, CreateSent, UploadSent, Execs, Labels, Reads,
     Carried, Call
<1>3. EvidenceTrue
  BY <1>0 DEF EvidenceTrue, UploadSent, CreateSent, UpdateSent
<1> QED
  BY <1>2, <1>3 DEF MachineSound

\* What the record claims as known is what the provider holds, in every interleaving of
\* workers, given-up workers, settlements, crashes, sellers, late calls and reconciliations,
\* as long as no update was written off too early (record_product_write_observation,
\* worker_service.py:1191).
THEOREM MachineAlwaysSound == MachineSpec => []MachineSound
BY MachineInvariant, SentSound, PTL

\* An ended job's resources change only by a call whose outcome its record calls unknown for
\* ever, or by an update that was written off too early.
THEOREM QuietAlwaysAfterEnd == MachineSpec => QuietAfterEnd
<1>1. ASSUME SentInv, [MachineNext]_allVars
      PROVE  /\ images' # images => uploadUnconfirmed
             /\ products' # products => writeUnconfirmed
             /\ payload' # payload => writeUnconfirmed \/ overtaken
  <2>1. upload.permit = "consumed" => uploadUnconfirmed \/ uploaded
    BY <1>1 DEF SentInv, CarryInv, TellingInv, PermitsTell
  <2>2. CreateOut => writeUnconfirmed
    BY <1>1, ProductTold
  <2> QED
    BY <1>1, <2>1, <2>2, ProviderMoves
<1>2. SentInv /\ [MachineNext]_allVars =>
        (state \in TerminalStates => /\ images' # images => uploadUnconfirmed
                                     /\ products' # products => writeUnconfirmed
                                     /\ payload' # payload => writeUnconfirmed \/ overtaken)
  BY <1>1
<1> QED
  BY MachineInvariant, <1>2, PTL DEF MachineSpec, QuietAfterEnd

-----------------------------------------------------------------------------
(* The machine implements the promise about the draft.                     *)

Turn == IF state \in TerminalStates THEN "over" ELSE IF active = 0 THEN "seller" ELSE "machine"
Approval == IF state = "approved" THEN review ELSE 0
Told == state \in TerminalStates /\ Uncertain

\* What one command can do to whose turn it is, to the review and to the approval.
TurnMove ==
  \/ UNCHANGED <<Turn, review, Approval>>
  \/ /\ Turn = "machine" /\ review = 0 /\ review' = 1 /\ UNCHANGED <<Turn, Approval>>
  \/ /\ Turn = "machine" /\ Turn' \in {"seller", "over"} /\ UNCHANGED <<review, Approval>>
  \/ /\ Turn = "seller" /\ review < MaxReview /\ review' = review + 1
     /\ Turn' \in {"seller", "machine"} /\ UNCHANGED Approval
  \/ /\ Turn = "seller" /\ Turn' \in {"machine", "over"} /\ UNCHANGED <<review, Approval>>
  \/ /\ Turn = "seller" /\ Turn' = "over" /\ review > 0 /\ review = synced /\ ~writeUnconfirmed
     /\ Approval' = review /\ UNCHANGED review

\* Whose turn it is, read from the state of the job.
LEMMA TurnSeen ==
  ASSUME TellingInv
  PROVE  /\ active # 0 <=> Turn = "machine"
         /\ Turn = "machine" => state \in MachineStates \cup {"cancel_requested"}
         /\ state \in {"awaiting_approval", "needs_revision", "failed_retryable"} =>
              Turn = "seller"
         /\ Turn = "seller" =>
              state \in {"awaiting_approval", "needs_revision", "failed_retryable"}
         /\ Turn \in {"machine", "seller", "over"}
         /\ Turn # "over" => Approval = 0
  BY DEF TellingInv, JobInv, TypeOK, JobTyped, States, OneLiveWork, MachineStates,
     NewWorkByState, TerminalStates, Turn, Approval

\* Every step of the machine takes turns as DraftPromise does.
LEMMA TurnStep ==
  ASSUME TellingInv, TellingInv', [Next]_vars
  PROVE  TurnMove
<1> USE DEF jobVars, workVars, reviewVars
<1>0. /\ active # 0 <=> Turn = "machine"
      /\ active' # 0 <=> Turn' = "machine"
      /\ Turn \in {"machine", "seller", "over"} /\ Turn' \in {"machine", "seller", "over"}
      /\ Turn # "over" => Approval = 0
      /\ review \in Nat
  <2>1. active' # 0 <=> Turn' = "machine"
    BY DEF TellingInv, JobInv, OneLiveWork, MachineStates, NewWorkByState, TerminalStates, Turn
  <2>2. review \in Nat /\ Turn' \in {"machine", "seller", "over"}
    BY DEF TellingInv, JobInv, TypeOK, ReviewTyped, Review, Turn
  <2> QED
    BY <2>1, <2>2, TurnSeen
<1>1. ASSUME UNCHANGED <<state, active, review>> PROVE TurnMove
  BY <1>1 DEF TurnMove, Turn, Approval
<1>2. ASSUME active # 0, state' # "approved", UNCHANGED review PROVE TurnMove
  <2>1. Turn = "machine" /\ Approval = 0 /\ Approval' = 0
    BY <1>0, <1>2 DEF Approval
  <2> QED
    BY <1>0, <1>2, <2>1 DEF TurnMove
<1>3. CASE Dispatcher \/ Clock \/ UNCHANGED vars
  <2>1. UNCHANGED <<state, active, review>>
    BY <1>3, ClockKeeps DEF Dispatcher, ClaimWork, MarkWorkDispatched, vars, TellingInv, JobInv
  <2> QED
    BY <1>1, <2>1
<1>4. CASE Preparation
  <2>1. CASE \E passed \in BOOLEAN : RecordPreparedReview(passed)
    <3>1. /\ active # 0 /\ active' = active /\ state' = "listing_drafted"
          /\ review' = IF review = 0 THEN 1 ELSE review
      BY <2>1 DEF RecordPreparedReview, Held
    <3>2. Turn = "machine" /\ Turn' = Turn /\ Approval = 0 /\ Approval' = 0
      BY <1>0, <3>1 DEF Approval
    <3> QED
      BY <3>1, <3>2 DEF TurnMove
  <2> QED
    BY <1>2, <1>4, <2>1 DEF Preparation, BeginPreparation, CompletePreparation, Held
<1>5. CASE ArtworkUpload \/ RecordPricingSuccess
  <2>1. active # 0 /\ UNCHANGED review
    BY <1>5 DEF ArtworkUpload, BeginProviderUpload, AuthorizeProviderUpload, UploadAuthorized,
         RecordProviderUploadSuccess, UploadReadDeferred, RecordProviderUploadOutcomeUnknown,
         UploadObservedTarget, UploadReadEnded, ReconcilingUpload, Reconciling, Held,
         RecordPricingSuccess
  <2>2. state' # "approved"
    <3>1. state # "approved"
      BY <2>1 DEF TellingInv, JobInv, OneLiveWork, MachineStates, NewWorkByState
    <3> QED
      BY <1>5, <3>1 DEF ArtworkUpload, BeginProviderUpload, AuthorizeProviderUpload,
           UploadAuthorized, RecordProviderUploadSuccess, UploadReadDeferred,
           RecordProviderUploadOutcomeUnknown, UploadObservedTarget, UploadReadEnded,
           RecordPricingSuccess
  <2> QED
    BY <1>2, <2>1, <2>2
<1>6. CASE ProductWrite
  <2>1. active # 0 /\ UNCHANGED review
    BY <1>6 DEF ProductWrite, BeginProviderCreate, BeginProviderUpdate, BeginExactUpdateRetry,
         AuthorizeProviderCall, CallAuthorized, RecordProductSyncSuccess,
         RecordProductWriteOutcomeUnknown, WriteObservedTarget, WriteObservedPrior,
         WriteReadDeferred, WriteReadEnded, ClaimWrite, ProductSynchronized,
         EndReconciliation, ReconcilingWrite, Reconciling, ReadyToWrite, Held
  <2>2. state' # "approved"
    <3>1. state # "approved"
      BY <2>1 DEF TellingInv, JobInv, OneLiveWork, MachineStates, NewWorkByState
    <3> QED
      BY <1>6, <3>1 DEF ProductWrite, BeginProviderCreate, BeginProviderUpdate,
           BeginExactUpdateRetry, AuthorizeProviderCall, CallAuthorized,
           RecordProductSyncSuccess, RecordProductWriteOutcomeUnknown, WriteObservedTarget,
           WriteObservedPrior, WriteReadDeferred, WriteReadEnded, ClaimWrite,
           ProductSynchronized, EndReconciliation
  <2> QED
    BY <1>2, <2>1, <2>2
<1>7. CASE Settlement
  BY <1>2, <1>7 DEF Settlement, RecordWorkerFailure, SettleCancellation, CloseCancelled, Held
<1>8. CASE Seller
  <2>1. CASE CancelJob
    <3>1. /\ Turn # "over" /\ state' \in {"cancel_requested", "cancelled"} /\ UNCHANGED review
          /\ active' \in {active, 0} /\ Approval' = 0 /\ Approval = 0
      BY <1>0, <2>1 DEF CancelJob, CloseCancelled, Turn, Approval
    <3>2. CASE active # 0
      BY <1>2, <3>1, <3>2
    <3>3. CASE active = 0
      <4>1. Turn' = "over"
        BY <2>1, <3>3 DEF CancelJob, WorkMustSettle, CloseCancelled, Turn, TerminalStates
      <4> QED
        BY <1>0, <3>1, <3>3, <4>1 DEF TurnMove
    <3> QED
      BY <3>2, <3>3
  <2>2. CASE ApproveReview
    <3>1. Turn = "seller" /\ Turn' = "over" /\ Approval' = review /\ UNCHANGED review
      BY <2>2, TurnSeen DEF ApproveReview, Turn, Approval, TerminalStates
    <3> QED
      BY <2>2, <3>1 DEF ApproveReview, TurnMove
  <2>3. ASSUME NEW passed \in BOOLEAN, ReviseListing(passed) PROVE TurnMove
    <3>1. /\ Turn = "seller" /\ review < MaxReview /\ review' = review + 1
          /\ state' \in {"product_draft_syncing", "needs_revision"} /\ Approval = 0
      BY <1>0, <2>3, TurnSeen DEF ReviseListing
    <3>2. Turn' \in {"seller", "machine"} /\ Approval' = 0
      BY <3>1 DEF Turn, Approval, TerminalStates
    <3> QED
      BY <3>1, <3>2 DEF TurnMove
  <2>4. CASE RefreshEconomics \/ RetryJob
    <3>1. Turn = "seller" /\ UNCHANGED review /\ active' = lastWork + 1 /\ lastWork \in Nat
      BY <2>4, TurnSeen DEF RefreshEconomics, RetryJob, OpenWork, TellingInv, JobInv, TypeOK,
         WorkTyped, WorkId
    <3>2. Turn' = "machine" /\ Approval = 0 /\ Approval' = 0
      BY <1>0, <3>1 DEF Turn, Approval, TerminalStates
    <3> QED
      BY <3>1, <3>2 DEF TurnMove
  <2> QED
    BY <1>8, <2>1, <2>2, <2>3, <2>4 DEF Seller
<1> QED
  BY <1>3, <1>4, <1>5, <1>6, <1>7, <1>8 DEF Next

\* Without active work only the seller and the clock can move the job.
LEMMA OnlyHeld ==
  ASSUME active = 0, [Next]_vars
  PROVE  Seller \/ Clock \/ UNCHANGED vars
BY DEF Next, Dispatcher, ClaimWork, MarkWorkDispatched, Preparation, BeginPreparation,
   RecordPreparedReview, CompletePreparation, ArtworkUpload, BeginProviderUpload,
   AuthorizeProviderUpload, UploadAuthorized, RecordProviderUploadSuccess,
   RecordProviderUploadOutcomeUnknown, UploadObservedTarget, UploadReadDeferred, UploadReadEnded,
   ReconcilingUpload, Reconciling, ProductWrite, BeginProviderCreate, BeginProviderUpdate,
   BeginExactUpdateRetry, ReadyToWrite, AuthorizeProviderCall, CallAuthorized,
   RecordProductSyncSuccess, RecordProductWriteOutcomeUnknown, WriteObservedTarget,
   WriteObservedPrior, WriteReadDeferred, WriteReadEnded, ReconcilingWrite, RecordPricingSuccess,
   Settlement, RecordWorkerFailure, SettleCancellation, Held

\* The seller is told of an unknown outcome when the machine ends the job, and never after.
LEMMA ToldMove ==
  ASSUME TellingInv, TellingInv', [Next]_vars
  PROVE  /\ Told \in BOOLEAN /\ Told' \in BOOLEAN
         /\ Turn # "over" => ~Told
         /\ Turn' # "over" => ~Told'
         /\ Turn = "seller" => ~Told'
         /\ Turn = "over" => Told' = Told
<1>1. Told \in BOOLEAN /\ Told' \in BOOLEAN
  BY DEF Told
<1>2. (Turn # "over" => ~Told) /\ (Turn' # "over" => ~Told')
  BY DEF Turn, Told
<1>3. ASSUME Clock PROVE UNCHANGED <<state, uploadUnconfirmed, writeUnconfirmed>>
  BY <1>3, ClockKeeps DEF TellingInv, JobInv, jobVars
<1>4. ASSUME UNCHANGED vars PROVE UNCHANGED <<state, uploadUnconfirmed, writeUnconfirmed>>
  BY <1>4 DEF vars, jobVars, uploadVars, writeVars
<1>5. ASSUME UNCHANGED <<state, uploadUnconfirmed, writeUnconfirmed>> PROVE Told' = Told
  BY <1>5 DEF Told, Uncertain
<1>6. ASSUME Turn = "over" PROVE Told' = Told
  <2>1. state \in TerminalStates /\ active = 0
    BY <1>6, TurnSeen DEF Turn
  <2>2. ~Seller
    BY <2>1 DEF Seller, ReviseListing, ApproveReview, RefreshEconomics, CancelJob, RetryJob,
       TerminalStates
  <2> QED
    BY <1>3, <1>4, <1>5, <2>1, <2>2, OnlyHeld
<1>7. ASSUME Turn = "seller" PROVE ~Told'
  <2>1. active = 0 /\ ~Told
    BY <1>2, <1>7, TurnSeen
  <2>2. CASE Seller
    <3>1. CASE CancelJob
      BY <2>1, <3>1 DEF CancelJob, WorkMustSettle, CloseCancelled, Told, Uncertain
    <3>2. CASE ApproveReview
      BY <3>2 DEF ApproveReview, Told, Uncertain, uploadVars, writeVars
    <3>3. CASE RefreshEconomics \/ RetryJob \/ \E passed \in BOOLEAN : ReviseListing(passed)
      <4>1. state' \notin TerminalStates
        BY <3>3 DEF RefreshEconomics, RetryJob, ReviseListing, TerminalStates, TellingInv, JobInv,
           ResumeSound
      <4> QED
        BY <4>1 DEF Told
    <3> QED
      BY <2>2, <3>1, <3>2, <3>3 DEF Seller
  <2> QED
    BY <1>3, <1>4, <1>5, <2>1, <2>2, OnlyHeld
<1> QED
  BY <1>1, <1>2, <1>6, <1>7

\* Only the machine writes an update off, and only one over a product.
LEMMA StrayMove ==
  ASSUME SentInv, [MachineNext]_allVars, overtaken' # overtaken
  PROVE  /\ overtaken' = TRUE /\ active # 0 /\ payload > 0 /\ write.op = "update"
         /\ UNCHANGED <<review, images, payload>>
<1> USE DEF NoProviderCall, callVars, providerVars
<1>1. PICK w \in WorkId : WritesOff(w)
  <2>1. ASSUME NEW w \in WorkId, Telling(w), ~WritesOff(w) PROVE UNCHANGED overtaken
    BY <2>1 DEF Telling, AuthorizesUpload, SyncUpload, LearnsUpload, SyncClaimWrite,
       AuthorizesWrite, SyncWrite, LearnsWrite, Observes
  <2> QED
    BY <2>1, MachineKinds DEF Quiet, LateEffect, Telling
<1>2. /\ active = w /\ write.op = "update" /\ UNCHANGED <<review, images, payload>>
      /\ overtaken' = (overtaken \/ UpdateOnItsWay \/ payload # write.prior)
  BY <1>1 DEF WritesOff, RecordPrior, WriteObservedPrior, ReconcilingWrite, EndReconciliation,
     reviewVars
<1>3. overtaken \in BOOLEAN /\ active # 0
  BY <1>2 DEF SentInv, CarryInv, MachineTyped, WorkId
<1>4. overtaken' = TRUE
  <2>1. overtaken' \in BOOLEAN
    BY <1>2, <1>3, Zenon
  <2>2. CASE overtaken
    BY <2>1, <2>2, OvertakenStays, Zenon
  <2>3. CASE ~overtaken
    <3>1. overtaken = FALSE
      BY <1>3, <2>3, Zenon
    <3> QED
      BY <2>1, <3>1, Zenon
  <2> QED
    BY <2>2, <2>3
<1>5. payload > 0
  BY <1>2, ProductTold DEF SentInv, CreateSent
<1> QED
  BY <1>2, <1>3, <1>4, <1>5

\* What is uncertain after its permit is still the machine's to settle, or its end was told.
LEMMA StillWorking ==
  ASSUME SentInv,
         \/ uploadUnconfirmed /\ upload.permit = "consumed"
         \/ writeUnconfirmed /\ write.permit = "consumed"
  PROVE  Turn = "machine" \/ Told
<1>0. /\ TellingInv /\ RecordCoherent /\ PermitsTell /\ WriteOwed
  BY DEF SentInv, CarryInv, OwedInv, TellingInv, JobInv
<1>1. Uncertain /\ UncertainPermit = "consumed"
  BY <1>0 DEF Uncertain, UncertainPermit, RecordCoherent
<1>2. Turn # "seller"
  BY <1>0, <1>1, TurnSeen DEF PermitsTell, WriteOwed
<1>3. Turn = "over" => Told
  BY <1>1 DEF Turn, Told
<1> QED
  BY <1>0, <1>2, <1>3, TurnSeen

\* The initial states of the machine map to those of the promise.
LEMMA InitPromised == MachineInit => Promise!Init
  BY DEF MachineInit, Init, TerminalStates, Promise!Init

\* What the promise sees of a step of the machine is a step of its own.
LEMMA PromiseStep ==
  ASSUME SentInv, SentInv', [MachineNext]_allVars
  PROVE  [Promise!Next]_(Promise!promiseVars)
<1> USE DEF Promise!promiseVars, Promise!Next, Promise!FirstReview, Promise!UploadOnce,
        Promise!Write, Promise!HandBack, Promise!Revise, Promise!Resume, Promise!Approve,
        Promise!Abandon, Promise!Stray, Promise!StrayWrite, Promise!Working, Promise!MayStray
<1>0. /\ TellingInv /\ TellingInv' /\ [Next]_vars /\ OwedInv /\ RecordCoherent
      /\ UploadSent /\ CreateSent /\ UpdateSent
      /\ review \in Nat /\ synced \in Nat /\ payload \in 0..review
  BY MachineCommands DEF SentInv, CarryInv, TellingInv, JobInv, TypeOK, ReviewTyped, Review,
     CreateSent
<1>1. CASE UNCHANGED <<images, payload>>
  <2>1. TurnMove
    BY <1>0, TurnStep
  <2>2. /\ Told \in BOOLEAN /\ Told' \in BOOLEAN
        /\ Turn # "over" => ~Told
        /\ Turn' # "over" => ~Told'
        /\ Turn = "seller" => ~Told'
        /\ Turn = "over" => Told' = Told
    BY <1>0, ToldMove
  <2>3. review = synced /\ review > 0 /\ ~writeUnconfirmed => overtaken \/ payload = review
    BY <1>0 DEF UpdateSent
  <2>4. CASE UNCHANGED overtaken
    BY <1>0, <1>1, <2>1, <2>2, <2>3, <2>4 DEF TurnMove, Turn, Approval, Told, Uncertain
  <2>5. CASE overtaken' # overtaken
    <3>1. overtaken' = TRUE /\ payload > 0 /\ Turn = "machine" /\ UNCHANGED review
      BY <1>0, <2>5, StrayMove, TurnSeen
    <3> QED
      BY <1>0, <1>1, <2>1, <2>2, <3>1 DEF TurnMove, Turn, Approval, Told, Uncertain
  <2> QED
    BY <2>4, <2>5
<1>2. CASE images' # images
  <2>1. /\ images = 0 /\ images' = 1 /\ upload.permit = "consumed" /\ ~uploaded
        /\ UNCHANGED <<vars, payload, overtaken>>
    BY <1>2, ProviderMoves
  <2>2. uploadUnconfirmed /\ review > 0
    BY <1>0, <2>1 DEF TellingInv, PermitsTell, LedgerInv, UploadCounted, OwedInv, AttemptsGrounded
  <2>3. Turn = "machine" \/ Told
    BY <2>1, <2>2, StillWorking
  <2>4. UNCHANGED <<state, active, review, uploadUnconfirmed, writeUnconfirmed>>
    BY <2>1 DEF vars, jobVars, workVars, reviewVars, uploadVars, writeVars
  <2> QED
    BY <2>1, <2>2, <2>3, <2>4 DEF Turn, Told, Uncertain
<1>3. CASE UNCHANGED images /\ payload' # payload
  <2>1. UNCHANGED <<vars, images, overtaken>>
    BY <1>3, ProviderMoves
  <2>2. UNCHANGED <<state, active, review, uploadUnconfirmed, writeUnconfirmed>>
    BY <2>1 DEF vars, jobVars, workVars, reviewVars, uploadVars, writeVars
  <2>3. CASE overtaken /\ payload' \in 1..review
    BY <2>1, <2>2, <2>3
  <2>4. ASSUME writeUnconfirmed, write.permit = "consumed", payload' = write.review, write.op # "none",
               payload < write.review
        PROVE  [Promise!Next]_(Promise!promiseVars)
    <3>1. write.review = review
      BY <1>0, <2>4 DEF TellingInv, PermitsTell
    <3>2. images = 1
      BY <1>0, <2>4 DEF OwedInv, AttemptsGrounded, UploadSent
    <3>3. Turn = "machine" \/ Told
      BY <2>4, StillWorking
    <3> QED
      BY <2>1, <2>2, <2>4, <3>1, <3>2, <3>3 DEF Turn, Told, Uncertain
  <2>5. CASE products = 0 /\ payload' = write.review /\ CreateOut
    <3>1. /\ writeUnconfirmed /\ write.permit = "consumed" /\ write.op = "create" /\ payload = 0
          /\ write.review > 0
      BY <1>0, <2>5, ProductTold DEF CreateSent, OwedInv, AttemptsGrounded
    <3> QED
      BY <2>4, <2>5, <3>1
  <2>6. CASE /\ products = 1 /\ payload' = write.review /\ payload = synced
             /\ writeUnconfirmed /\ write.permit = "consumed"
    <3>1. write.review = review /\ write.op # "none" /\ synced # review /\ synced <= review
      BY <1>0, <2>6 DEF TellingInv, PermitsTell, OwedInv, WriteOwed, RecordCoherent
    <3>2. payload \in Nat /\ payload < write.review
      BY <1>0, <2>6, <3>1 DEF TellingInv, JobInv, TypeOK
    <3> QED
      BY <2>4, <2>6, <3>1, <3>2
  <2> QED
    BY <1>3, <2>3, <2>5, <2>6, ProviderMoves
<1> QED
  BY <1>1, <1>2, <1>3

\* Workers, settlements, crashes, late calls and reconciliations together implement the steps
\* DraftPromise allows: the safety part of PromiseKept.
THEOREM DraftAlwaysAsPromised ==
  MachineSpec => Promise!Init /\ [][Promise!Next]_(Promise!promiseVars)
<1>1. SentInv /\ SentInv' /\ [MachineNext]_allVars => [Promise!Next]_(Promise!promiseVars)
  BY PromiseStep
<1> QED
  BY MachineInvariant, InitPromised, <1>1, PTL DEF MachineSpec

=============================================================================
