-------------------------- MODULE ControlJobProofs --------------------------
(***************************************************************************)
(* Theorems about ControlJob for every number of reviews and work requests.*)
(***************************************************************************)
EXTENDS ControlJob, TLAPS

-----------------------------------------------------------------------------
(* Type correctness.                                                       *)

LEMMA InitType == Init => TypeOK
<1> SUFFICES ASSUME Init PROVE TypeOK
  OBVIOUS
<1>1. JobTyped
  BY DEF Init, JobTyped, States
<1>2. FlagsTyped
  BY Zenon DEF Init, FlagsTyped
<1>3. WorkTyped
  BY BoundsAssumption DEF Init, WorkTyped, WorkId, Work, WorkTypes, Review, NoWork
<1>4. ReviewTyped
  BY BoundsAssumption DEF Init, ReviewTyped, Review
<1>5. AttemptsTyped
  BY BoundsAssumption DEF Init, AttemptsTyped, UploadAttempt, NoUpload, WriteAttempt, NoWrite,
                          Permits, Review, MaxExactUpdateRetries
<1>6. LedgerTyped
  BY BoundsAssumption DEF Init, LedgerTyped
<1> QED
  BY <1>1, <1>2, <1>3, <1>4, <1>5, <1>6 DEF TypeOK

\* Settling one request and opening another keep the outbox a table of work requests.
LEMMA SettleTyped ==
  ASSUME NEW f \in [WorkId -> Work], NEW k,
         NEW s \in {"pending", "claimed", "dispatched", "completed", "cancelled"}
  PROVE  [f EXCEPT ![k].status = s] \in [WorkId -> Work]
  BY DEF Work

LEMMA OpenTyped ==
  ASSUME NEW f \in [WorkId -> Work], NEW k, NEW t \in WorkTypes, NEW r \in Review
  PROVE  [f EXCEPT ![k] = [type |-> t, status |-> "pending", review |-> r]]
           \in [WorkId -> Work]
<1>1. [type |-> t, status |-> "pending", review |-> r] \in Work
  BY DEF Work
<1> QED
  BY <1>1

\* What the outbox helpers do to the types of the work variables.
LEMMA WorkHelpersType ==
  ASSUME WorkTyped, review \in Review
  PROVE  /\ CompleteWork => WorkTyped'
         /\ \A t \in WorkTypes : ReplaceWork(t) => WorkTyped'
         /\ \A t \in WorkTypes, r \in Review : OpenWork(t, r) => WorkTyped'
<1>1. ASSUME CompleteWork PROVE WorkTyped'
  <2>1. works' \in [WorkId -> Work]
    BY <1>1, SettleTyped DEF CompleteWork, WorkTyped
  <2> QED
    BY <1>1, <2>1, BoundsAssumption DEF CompleteWork, WorkTyped
<1>2. ASSUME NEW t \in WorkTypes, ReplaceWork(t)
      PROVE  WorkTyped'
  <2> DEFINE settled == [works EXCEPT ![active].status = "completed"]
  <2>1. settled \in [WorkId -> Work]
    BY SettleTyped DEF WorkTyped
  <2>2. works' = [settled EXCEPT ![lastWork + 1] =
                    [type |-> t, status |-> "pending", review |-> review]]
    BY <1>2 DEF ReplaceWork
  <2>3. works' \in [WorkId -> Work]
    <3> HIDE DEF settled
    <3> QED BY <2>1, <2>2, OpenTyped
  <2> QED
    BY <1>2, <2>3, BoundsAssumption DEF ReplaceWork, WorkTyped, WorkId
<1>3. ASSUME NEW t \in WorkTypes, NEW r \in Review, OpenWork(t, r)
      PROVE  WorkTyped'
  <2>1. works' \in [WorkId -> Work]
    BY <1>3, OpenTyped DEF OpenWork, WorkTyped
  <2> QED
    BY <1>3, <2>1, BoundsAssumption DEF OpenWork, WorkTyped, WorkId
<1> QED
  BY <1>1, <1>2, <1>3

\* A failure the seller may retry names the state to resume (models.py, resume_state).
ResumeKnown == state = "failed_retryable" => resume # "none"

LEMMA DispatcherType == ASSUME TypeOK, Dispatcher PROVE TypeOK'
<1>1. ASSUME ClaimWork PROVE TypeOK'
  <2>1. JobTyped' /\ ReviewTyped' /\ AttemptsTyped' /\ LedgerTyped'
    BY <1>1 DEF TypeOK, JobTyped, ReviewTyped, AttemptsTyped, LedgerTyped, ClaimWork,
       jobVars, reviewVars, uploadVars, writeVars
  <2>2. FlagsTyped'
    BY <1>1, Zenon DEF TypeOK, FlagsTyped, ClaimWork, jobVars, reviewVars, uploadVars,
       writeVars
  <2>3. WorkTyped'
    BY <1>1, SettleTyped DEF TypeOK, WorkTyped, ClaimWork
  <2> QED
    BY <2>1, <2>2, <2>3 DEF TypeOK
<1>2. ASSUME MarkWorkDispatched PROVE TypeOK'
  <2>1. JobTyped' /\ ReviewTyped' /\ AttemptsTyped' /\ LedgerTyped'
    BY <1>2 DEF TypeOK, JobTyped, ReviewTyped, AttemptsTyped, LedgerTyped,
       MarkWorkDispatched, jobVars, reviewVars, uploadVars, writeVars
  <2>2. FlagsTyped'
    BY <1>2, Zenon DEF TypeOK, FlagsTyped, MarkWorkDispatched, jobVars, reviewVars,
       uploadVars, writeVars
  <2>3. WorkTyped'
    BY <1>2, SettleTyped DEF TypeOK, WorkTyped, MarkWorkDispatched
  <2> QED
    BY <2>1, <2>2, <2>3 DEF TypeOK
<1> QED
  BY <1>1, <1>2 DEF Dispatcher

LEMMA PreparationType == ASSUME TypeOK, Preparation PROVE TypeOK'
<1>1. ASSUME BeginPreparation PROVE TypeOK'
  <2>1. WorkTyped' /\ ReviewTyped' /\ AttemptsTyped' /\ LedgerTyped'
    BY <1>1 DEF TypeOK, WorkTyped, ReviewTyped, AttemptsTyped, LedgerTyped,
       BeginPreparation, reviewVars, uploadVars, workVars, writeVars
  <2>2. FlagsTyped'
    BY <1>1, Zenon DEF TypeOK, FlagsTyped, BeginPreparation, jobVars, reviewVars,
       uploadVars, writeVars
  <2>3. JobTyped'
    BY <1>1 DEF TypeOK, JobTyped, BeginPreparation, jobVars, States, MachineStates,
       NewWorkByState
  <2> QED
    BY <2>1, <2>2, <2>3 DEF TypeOK
<1>2. ASSUME NEW b \in BOOLEAN, RecordPreparedReview(b) PROVE TypeOK'
  <2>1. WorkTyped' /\ AttemptsTyped' /\ LedgerTyped'
    BY <1>2 DEF TypeOK, WorkTyped, AttemptsTyped, LedgerTyped, RecordPreparedReview,
       uploadVars, workVars, writeVars
  <2>2. FlagsTyped'
    BY <1>2, Zenon DEF TypeOK, FlagsTyped, RecordPreparedReview, jobVars, reviewVars,
       uploadVars, writeVars
  <2>3. JobTyped'
    BY <1>2 DEF TypeOK, JobTyped, RecordPreparedReview, jobVars, States, MachineStates,
       NewWorkByState
  <2>4. ReviewTyped'
    BY <1>2, BoundsAssumption DEF TypeOK, ReviewTyped, Review, RecordPreparedReview
  <2> QED
    BY <2>1, <2>2, <2>3, <2>4 DEF TypeOK
<1>3. ASSUME CompletePreparation PROVE TypeOK'
  <2>1. ReviewTyped' /\ AttemptsTyped' /\ LedgerTyped'
    BY <1>3 DEF TypeOK, ReviewTyped, AttemptsTyped, LedgerTyped, CompletePreparation,
       reviewVars, uploadVars, writeVars
  <2>2. FlagsTyped'
    BY <1>3, Zenon DEF TypeOK, FlagsTyped, CompletePreparation, jobVars, reviewVars,
       uploadVars, writeVars
  <2>3. JobTyped'
    BY <1>3 DEF TypeOK, JobTyped, CompletePreparation, jobVars, States, MachineStates,
       NewWorkByState
  <2>4. WorkTyped'
    BY <1>3, WorkHelpersType DEF TypeOK, ReviewTyped, CompletePreparation, WorkTypes
  <2> QED
    BY <2>1, <2>2, <2>3, <2>4 DEF TypeOK
<1> QED
  BY <1>1, <1>2, <1>3 DEF Preparation

LEMMA ArtworkUploadType == ASSUME TypeOK, ArtworkUpload PROVE TypeOK'
<1>1. ASSUME BeginProviderUpload PROVE TypeOK'
  <2>1. JobTyped' /\ WorkTyped' /\ ReviewTyped' /\ LedgerTyped'
    BY <1>1 DEF TypeOK, JobTyped, WorkTyped, ReviewTyped, LedgerTyped, BeginProviderUpload,
       jobVars, reviewVars, workVars
  <2>2. FlagsTyped'
    BY <1>1, Zenon DEF TypeOK, FlagsTyped, BeginProviderUpload, jobVars, reviewVars,
       uploadVars, writeVars
  <2>3. AttemptsTyped'
    BY <1>1 DEF TypeOK, AttemptsTyped, WorkTyped, ReviewTyped, BeginProviderUpload,
       UploadAttempt, WriteAttempt, Permits, IsExactRetry, MaxExactUpdateRetries,
       uploadVars, writeVars
  <2> QED
    BY <2>1, <2>2, <2>3 DEF TypeOK
<1>2. ASSUME AuthorizeProviderUpload PROVE TypeOK'
  <2>1. JobTyped' /\ WorkTyped' /\ ReviewTyped'
    BY <1>2 DEF TypeOK, JobTyped, WorkTyped, ReviewTyped, AuthorizeProviderUpload,
         UploadAuthorized, jobVars, reviewVars, workVars
  <2>2. FlagsTyped'
    BY <1>2, Zenon DEF TypeOK, FlagsTyped, AuthorizeProviderUpload, UploadAuthorized, jobVars,
         reviewVars, uploadVars, writeVars
  <2>3. AttemptsTyped'
    BY <1>2 DEF TypeOK, AttemptsTyped, WorkTyped, ReviewTyped, AuthorizeProviderUpload,
         UploadAuthorized, UploadAttempt, WriteAttempt, Permits, IsExactRetry,
         MaxExactUpdateRetries, uploadVars, writeVars
  <2>4. LedgerTyped'
    <3> DEFINE uploads == ledger.uploads + 1
    <3>1. ledger' = [ledger EXCEPT !.uploads = uploads, !.uploadOpen = TRUE]
      BY <1>2 DEF AuthorizeProviderUpload, UploadAuthorized
    <3>2. uploads \in Nat
      BY DEF TypeOK, LedgerTyped
    <3> HIDE DEF uploads
    <3> QED
      BY <3>1, <3>2 DEF TypeOK, LedgerTyped
  <2> QED
    BY <2>1, <2>2, <2>3, <2>4 DEF TypeOK
<1>3. ASSUME RecordProviderUploadSuccess PROVE TypeOK'
  <2>1. JobTyped' /\ WorkTyped' /\ ReviewTyped' /\ AttemptsTyped'
    BY <1>3 DEF TypeOK, JobTyped, WorkTyped, ReviewTyped, AttemptsTyped,
       RecordProviderUploadSuccess, jobVars, reviewVars, uploadVars, workVars, writeVars
  <2>2. FlagsTyped'
    BY <1>3, Zenon DEF TypeOK, FlagsTyped, RecordProviderUploadSuccess, jobVars, reviewVars,
       uploadVars, writeVars
  <2>3. LedgerTyped'
    BY <1>3 DEF TypeOK, LedgerTyped, ReviewTyped, RecordProviderUploadSuccess
  <2> QED
    BY <2>1, <2>2, <2>3 DEF TypeOK
<1>4. ASSUME RecordProviderUploadOutcomeUnknown PROVE TypeOK'
  <2>1. ReviewTyped' /\ AttemptsTyped' /\ LedgerTyped'
    BY <1>4 DEF TypeOK, ReviewTyped, AttemptsTyped, LedgerTyped,
       RecordProviderUploadOutcomeUnknown, reviewVars, uploadVars, writeVars
  <2>2. FlagsTyped'
    BY <1>4, Zenon DEF TypeOK, FlagsTyped, RecordProviderUploadOutcomeUnknown, jobVars,
       reviewVars, uploadVars, writeVars
  <2>3. JobTyped'
    BY <1>4 DEF TypeOK, JobTyped, RecordProviderUploadOutcomeUnknown, jobVars, States,
       MachineStates, NewWorkByState
  <2>4. WorkTyped'
    BY <1>4, WorkHelpersType DEF TypeOK, ReviewTyped, RecordProviderUploadOutcomeUnknown,
       WorkTypes
  <2> QED
    BY <2>1, <2>2, <2>3, <2>4 DEF TypeOK
<1>5. ASSUME UploadObservedTarget PROVE TypeOK'
  <2>1. ReviewTyped' /\ AttemptsTyped'
    BY <1>5 DEF TypeOK, ReviewTyped, AttemptsTyped, UploadObservedTarget, reviewVars,
       uploadVars, writeVars
  <2>2. FlagsTyped'
    BY <1>5, Zenon DEF TypeOK, FlagsTyped, UploadObservedTarget, jobVars, reviewVars,
       uploadVars, writeVars
  <2>3. JobTyped'
    BY <1>5 DEF TypeOK, JobTyped, UploadObservedTarget, jobVars, States, MachineStates,
       NewWorkByState
  <2>4. WorkTyped'
    BY <1>5, WorkHelpersType DEF TypeOK, ReviewTyped, UploadObservedTarget, WorkTypes
  <2>5. LedgerTyped'
    BY <1>5 DEF TypeOK, LedgerTyped, ReviewTyped, UploadObservedTarget
  <2> QED
    BY <2>1, <2>2, <2>3, <2>4, <2>5 DEF TypeOK
<1>6. ASSUME UploadReadDeferred PROVE TypeOK'
  <2>1. ReviewTyped' /\ AttemptsTyped' /\ LedgerTyped'
    BY <1>6 DEF TypeOK, ReviewTyped, AttemptsTyped, LedgerTyped, UploadReadDeferred,
       reviewVars, uploadVars, writeVars
  <2>2. FlagsTyped'
    BY <1>6, Zenon DEF TypeOK, FlagsTyped, UploadReadDeferred, jobVars, reviewVars,
       uploadVars, writeVars
  <2>3. JobTyped'
    BY <1>6 DEF TypeOK, JobTyped, UploadReadDeferred, jobVars, States, MachineStates,
       NewWorkByState
  <2>4. WorkTyped'
    BY <1>6, WorkHelpersType DEF TypeOK, ReviewTyped, UploadReadDeferred, WorkTypes
  <2> QED
    BY <2>1, <2>2, <2>3, <2>4 DEF TypeOK
<1>7. ASSUME NEW b \in BOOLEAN, UploadReadEnded(b) PROVE TypeOK'
  <2>1. ReviewTyped' /\ AttemptsTyped' /\ LedgerTyped'
    BY <1>7 DEF TypeOK, ReviewTyped, AttemptsTyped, LedgerTyped, UploadReadEnded,
       reviewVars, uploadVars, writeVars
  <2>2. FlagsTyped'
    BY <1>7, Zenon DEF TypeOK, FlagsTyped, UploadReadEnded, jobVars, reviewVars, uploadVars,
       writeVars
  <2>3. JobTyped'
    BY <1>7 DEF TypeOK, JobTyped, UploadReadEnded, jobVars, States, MachineStates,
       NewWorkByState
  <2>4. WorkTyped'
    BY <1>7, WorkHelpersType DEF TypeOK, ReviewTyped, UploadReadEnded, WorkTypes
  <2> QED
    BY <2>1, <2>2, <2>3, <2>4 DEF TypeOK
<1> QED
  BY <1>1, <1>2, <1>3, <1>4, <1>5, <1>6, <1>7 DEF ArtworkUpload

LEMMA ProductWriteType == ASSUME TypeOK, ProductWrite PROVE TypeOK'
<1>1. ASSUME BeginProviderCreate PROVE TypeOK'
  <2>1. JobTyped' /\ WorkTyped' /\ ReviewTyped' /\ LedgerTyped'
    BY <1>1 DEF TypeOK, JobTyped, WorkTyped, ReviewTyped, LedgerTyped, BeginProviderCreate,
       ClaimWrite, jobVars, reviewVars, workVars
  <2>2. FlagsTyped'
    BY <1>1, Zenon DEF TypeOK, FlagsTyped, BeginProviderCreate, ClaimWrite, jobVars,
       reviewVars, uploadVars, writeVars
  <2>3. AttemptsTyped'
    <3>1. /\ active \in 0..MaxWork /\ review \in Review /\ synced \in Review
          /\ 0 \in 0..MaxExactUpdateRetries
      BY <1>1 DEF TypeOK, WorkTyped, ReviewTyped, AttemptsTyped, WriteAttempt, BeginProviderCreate,
         MaxExactUpdateRetries
    <3>2. /\ upload' = upload
          /\ write' = [work |-> active, permit |-> "available", consumer |-> 0,
                       expired |-> FALSE, op |-> "create", review |-> review,
                       prior |-> synced, retries |-> 0]
      BY <1>1 DEF BeginProviderCreate, ClaimWrite, uploadVars
    <3> QED
      BY <3>1, <3>2, BoundsAssumption DEF TypeOK, AttemptsTyped, WriteAttempt, Permits
  <2> QED
    BY <2>1, <2>2, <2>3 DEF TypeOK
<1>2. ASSUME BeginProviderUpdate PROVE TypeOK'
  <2>1. JobTyped' /\ WorkTyped' /\ ReviewTyped' /\ LedgerTyped'
    BY <1>2 DEF TypeOK, JobTyped, WorkTyped, ReviewTyped, LedgerTyped, BeginProviderUpdate,
       ClaimWrite, jobVars, reviewVars, workVars
  <2>2. FlagsTyped'
    BY <1>2, Zenon DEF TypeOK, FlagsTyped, BeginProviderUpdate, ClaimWrite, jobVars,
       reviewVars, uploadVars, writeVars
  <2>3. AttemptsTyped'
    <3>1. /\ active \in 0..MaxWork /\ review \in Review /\ synced \in Review
          /\ 0 \in 0..MaxExactUpdateRetries
      BY <1>2 DEF TypeOK, WorkTyped, ReviewTyped, AttemptsTyped, WriteAttempt, BeginProviderUpdate,
         MaxExactUpdateRetries
    <3>2. /\ upload' = upload
          /\ write' = [work |-> active, permit |-> "available", consumer |-> 0,
                       expired |-> FALSE, op |-> "update", review |-> review,
                       prior |-> synced, retries |-> 0]
      BY <1>2 DEF BeginProviderUpdate, ClaimWrite, uploadVars
    <3> QED
      BY <3>1, <3>2, BoundsAssumption DEF TypeOK, AttemptsTyped, WriteAttempt, Permits
  <2> QED
    BY <2>1, <2>2, <2>3 DEF TypeOK
<1>3. ASSUME BeginExactUpdateRetry PROVE TypeOK'
  <2>1. JobTyped' /\ WorkTyped' /\ ReviewTyped' /\ LedgerTyped'
    BY <1>3 DEF TypeOK, JobTyped, WorkTyped, ReviewTyped, LedgerTyped,
       BeginExactUpdateRetry, ClaimWrite, jobVars, reviewVars, workVars
  <2>2. FlagsTyped'
    BY <1>3, Zenon DEF TypeOK, FlagsTyped, BeginExactUpdateRetry, ClaimWrite, jobVars,
       reviewVars, uploadVars, writeVars
  <2>3. AttemptsTyped'
    <3>1. /\ active \in 0..MaxWork /\ review \in Review /\ synced \in Review
          /\ write.retries + 1 \in 0..MaxExactUpdateRetries
      BY <1>3 DEF TypeOK, WorkTyped, ReviewTyped, AttemptsTyped, WriteAttempt,
         BeginExactUpdateRetry,
         MaxExactUpdateRetries
    <3>2. /\ upload' = upload
          /\ write' = [work |-> active, permit |-> "available", consumer |-> 0,
                       expired |-> FALSE, op |-> "update", review |-> review,
                       prior |-> synced, retries |-> write.retries + 1]
      BY <1>3 DEF BeginExactUpdateRetry, ClaimWrite, uploadVars
    <3> QED
      BY <3>1, <3>2, BoundsAssumption DEF TypeOK, AttemptsTyped, WriteAttempt, Permits
  <2> QED
    BY <2>1, <2>2, <2>3 DEF TypeOK
<1>4. ASSUME AuthorizeProviderCall PROVE TypeOK'
  <2>1. JobTyped' /\ WorkTyped' /\ ReviewTyped'
    BY <1>4 DEF TypeOK, JobTyped, WorkTyped, ReviewTyped, AuthorizeProviderCall,
         CallAuthorized, jobVars, reviewVars, workVars
  <2>2. FlagsTyped'
    BY <1>4, Zenon DEF TypeOK, FlagsTyped, AuthorizeProviderCall, CallAuthorized, jobVars,
         reviewVars, uploadVars, writeVars
  <2>3. AttemptsTyped'
    BY <1>4 DEF TypeOK, AttemptsTyped, WorkTyped, ReviewTyped, AuthorizeProviderCall,
         CallAuthorized, UploadAttempt, WriteAttempt, Permits, IsExactRetry,
         MaxExactUpdateRetries, uploadVars, writeVars
  <2>4. LedgerTyped'
    <3>1. CASE write.op = "create"
      <4> DEFINE creates == ledger.creates + 1
      <4>1. ledger' = [ledger EXCEPT !.creates = creates, !.writeOpen = TRUE]
        BY <1>4, <3>1 DEF AuthorizeProviderCall, CallAuthorized
      <4>2. creates \in Nat
        BY DEF TypeOK, LedgerTyped
      <4> HIDE DEF creates
      <4> QED
        BY <4>1, <4>2 DEF TypeOK, LedgerTyped
    <3>2. CASE write.op # "create"
      <4> DEFINE puts == [ledger.puts EXCEPT ![review] = ledger.puts[review] + 1]
      <4>1. ledger' = [ledger EXCEPT !.puts = puts, !.writeOpen = TRUE]
        BY <1>4, <3>2 DEF AuthorizeProviderCall, CallAuthorized
      <4>2. puts \in [Review -> Nat]
        BY DEF TypeOK, LedgerTyped, ReviewTyped
      <4> HIDE DEF puts
      <4> QED
        BY <4>1, <4>2 DEF TypeOK, LedgerTyped
    <3> QED
      BY <3>1, <3>2
  <2> QED
    BY <2>1, <2>2, <2>3, <2>4 DEF TypeOK
<1>5. ASSUME ProductSynchronized PROVE TypeOK'
  <2>1. AttemptsTyped'
    BY <1>5 DEF TypeOK, AttemptsTyped, ProductSynchronized, uploadVars, writeVars
  <2>2. FlagsTyped'
    BY <1>5, Zenon DEF TypeOK, FlagsTyped, ProductSynchronized, jobVars, reviewVars,
       uploadVars, writeVars
  <2>3. JobTyped'
    BY <1>5 DEF TypeOK, JobTyped, ProductSynchronized, jobVars, States, MachineStates,
       NewWorkByState
  <2>4. WorkTyped'
    BY <1>5, WorkHelpersType DEF TypeOK, ReviewTyped, ProductSynchronized, WorkTypes
  <2>5. ReviewTyped'
    BY <1>5 DEF TypeOK, ReviewTyped, ProductSynchronized, reviewVars
  <2>6. LedgerTyped'
    BY <1>5 DEF TypeOK, LedgerTyped, ReviewTyped, ProductSynchronized
  <2> QED
    BY <2>1, <2>2, <2>3, <2>4, <2>5, <2>6 DEF TypeOK
<1>6. ASSUME RecordProductWriteOutcomeUnknown PROVE TypeOK'
  <2>1. ReviewTyped' /\ AttemptsTyped' /\ LedgerTyped'
    BY <1>6 DEF TypeOK, ReviewTyped, AttemptsTyped, LedgerTyped,
       RecordProductWriteOutcomeUnknown, reviewVars, uploadVars, writeVars
  <2>2. FlagsTyped'
    BY <1>6, Zenon DEF TypeOK, FlagsTyped, RecordProductWriteOutcomeUnknown, jobVars,
       reviewVars, uploadVars, writeVars
  <2>3. JobTyped'
    BY <1>6 DEF TypeOK, JobTyped, RecordProductWriteOutcomeUnknown, jobVars, States,
       MachineStates, NewWorkByState
  <2>4. WorkTyped'
    BY <1>6, WorkHelpersType DEF TypeOK, ReviewTyped, RecordProductWriteOutcomeUnknown,
       WorkTypes
  <2> QED
    BY <2>1, <2>2, <2>3, <2>4 DEF TypeOK
<1>7. ASSUME WriteObservedPrior PROVE TypeOK'
  <2>1. ReviewTyped' /\ AttemptsTyped'
    BY <1>7 DEF TypeOK, ReviewTyped, AttemptsTyped, WriteObservedPrior, EndReconciliation,
       reviewVars, uploadVars, writeVars
  <2>2. FlagsTyped'
    BY <1>7, Zenon DEF TypeOK, FlagsTyped, WriteObservedPrior, EndReconciliation, jobVars,
       reviewVars, uploadVars, writeVars
  <2>3. JobTyped'
    BY <1>7 DEF TypeOK, JobTyped, WriteObservedPrior, EndReconciliation, jobVars, States,
       MachineStates, NewWorkByState
  <2>4. WorkTyped'
    BY <1>7, WorkHelpersType DEF TypeOK, ReviewTyped, WriteObservedPrior, EndReconciliation,
       WorkTypes
  <2>5. LedgerTyped'
    BY <1>7 DEF TypeOK, LedgerTyped, ReviewTyped, WriteObservedPrior, EndReconciliation
  <2> QED
    BY <2>1, <2>2, <2>3, <2>4, <2>5 DEF TypeOK
<1>8. ASSUME WriteReadDeferred PROVE TypeOK'
  <2>1. ReviewTyped' /\ AttemptsTyped' /\ LedgerTyped'
    BY <1>8 DEF TypeOK, ReviewTyped, AttemptsTyped, LedgerTyped, WriteReadDeferred,
       reviewVars, uploadVars, writeVars
  <2>2. FlagsTyped'
    BY <1>8, Zenon DEF TypeOK, FlagsTyped, WriteReadDeferred, jobVars, reviewVars,
       uploadVars, writeVars
  <2>3. JobTyped'
    BY <1>8 DEF TypeOK, JobTyped, WriteReadDeferred, jobVars, States, MachineStates,
       NewWorkByState
  <2>4. WorkTyped'
    BY <1>8, WorkHelpersType DEF TypeOK, ReviewTyped, WriteReadDeferred, WorkTypes
  <2> QED
    BY <2>1, <2>2, <2>3, <2>4 DEF TypeOK
<1>9. ASSUME NEW b \in BOOLEAN, WriteReadEnded(b) PROVE TypeOK'
  <2>1. ReviewTyped' /\ AttemptsTyped'
    BY <1>9 DEF TypeOK, ReviewTyped, AttemptsTyped, WriteReadEnded, EndReconciliation,
       reviewVars, uploadVars, writeVars
  <2>2. FlagsTyped'
    BY <1>9, Zenon DEF TypeOK, FlagsTyped, WriteReadEnded, EndReconciliation, jobVars,
       reviewVars, uploadVars, writeVars
  <2>3. JobTyped'
    BY <1>9 DEF TypeOK, JobTyped, WriteReadEnded, EndReconciliation, jobVars, States,
       MachineStates, NewWorkByState
  <2>4. WorkTyped'
    BY <1>9, WorkHelpersType DEF TypeOK, ReviewTyped, WriteReadEnded, EndReconciliation,
       WorkTypes
  <2>5. LedgerTyped'
    BY <1>9 DEF TypeOK, LedgerTyped, ReviewTyped, WriteReadEnded, EndReconciliation
  <2> QED
    BY <2>1, <2>2, <2>3, <2>4, <2>5 DEF TypeOK
<1> QED
  BY <1>1, <1>2, <1>3, <1>4, <1>5, <1>6, <1>7, <1>8, <1>9 DEF ProductWrite,
     RecordProductSyncSuccess, WriteObservedTarget

LEMMA SellerType == ASSUME TypeOK, ResumeKnown, Seller PROVE TypeOK'
<1>1. ASSUME NEW b \in BOOLEAN, ReviseListing(b) PROVE TypeOK'
  <2>1. AttemptsTyped' /\ LedgerTyped'
    BY <1>1 DEF TypeOK, AttemptsTyped, LedgerTyped, ReviseListing, uploadVars, writeVars
  <2>2. FlagsTyped'
    BY <1>1, Zenon DEF TypeOK, FlagsTyped, ReviseListing, jobVars, reviewVars, uploadVars,
       writeVars
  <2>3. JobTyped'
    BY <1>1 DEF TypeOK, JobTyped, ReviseListing, jobVars, States, MachineStates,
       NewWorkByState
  <2>4. WorkTyped'
    BY <1>1, WorkHelpersType, BoundsAssumption DEF TypeOK, ReviseListing, ReviewTyped,
       Review, WorkTypes, WorkTyped, workVars
  <2>5. ReviewTyped'
    BY <1>1, BoundsAssumption DEF TypeOK, ReviewTyped, Review, ReviseListing
  <2> QED
    BY <2>1, <2>2, <2>3, <2>4, <2>5 DEF TypeOK
<1>2. ASSUME ApproveReview PROVE TypeOK'
  <2>1. WorkTyped' /\ ReviewTyped' /\ AttemptsTyped' /\ LedgerTyped'
    BY <1>2 DEF TypeOK, WorkTyped, ReviewTyped, AttemptsTyped, LedgerTyped, ApproveReview,
       reviewVars, uploadVars, workVars, writeVars
  <2>2. FlagsTyped'
    BY <1>2, Zenon DEF TypeOK, FlagsTyped, ApproveReview, jobVars, reviewVars, uploadVars,
       writeVars
  <2>3. JobTyped'
    BY <1>2 DEF TypeOK, JobTyped, ApproveReview, jobVars, States, MachineStates,
       NewWorkByState
  <2> QED
    BY <2>1, <2>2, <2>3 DEF TypeOK
<1>3. ASSUME RefreshEconomics PROVE TypeOK'
  <2>1. AttemptsTyped' /\ LedgerTyped'
    BY <1>3 DEF TypeOK, AttemptsTyped, LedgerTyped, RefreshEconomics, uploadVars, writeVars
  <2>2. FlagsTyped'
    BY <1>3, Zenon DEF TypeOK, FlagsTyped, RefreshEconomics, jobVars, reviewVars,
       uploadVars, writeVars
  <2>3. JobTyped'
    BY <1>3 DEF TypeOK, JobTyped, RefreshEconomics, jobVars, States, MachineStates,
       NewWorkByState
  <2>4. WorkTyped'
    BY <1>3, WorkHelpersType DEF TypeOK, ReviewTyped, RefreshEconomics, WorkTypes
  <2>5. ReviewTyped'
    BY <1>3 DEF TypeOK, ReviewTyped, RefreshEconomics, reviewVars
  <2> QED
    BY <2>1, <2>2, <2>3, <2>4, <2>5 DEF TypeOK
<1>4. ASSUME CancelJob PROVE TypeOK'
  <2>1. ReviewTyped' /\ LedgerTyped'
    BY <1>4 DEF TypeOK, ReviewTyped, LedgerTyped, CancelJob, CloseCancelled, reviewVars
  <2>2. FlagsTyped'
    BY <1>4, Zenon DEF TypeOK, FlagsTyped, CancelJob, CloseCancelled, jobVars, reviewVars,
       uploadVars, writeVars
  <2>3. JobTyped'
    BY <1>4 DEF TypeOK, JobTyped, CancelJob, CloseCancelled, jobVars, States, MachineStates,
       NewWorkByState
  <2>4. WorkTyped'
    <3>1. /\ active' = active \/ active' = 0
          /\ lastWork' = lastWork
          /\ works' = works \/ works' = [works EXCEPT ![active].status = "cancelled"]
      BY <1>4 DEF CancelJob, workVars
    <3>2. [works EXCEPT ![active].status = "cancelled"] \in [WorkId -> Work]
      BY SettleTyped DEF TypeOK, WorkTyped
    <3> QED
      BY <3>1, <3>2, BoundsAssumption DEF TypeOK, WorkTyped
  <2>5. AttemptsTyped'
    BY <1>4 DEF TypeOK, AttemptsTyped, WorkTyped, ReviewTyped, CancelJob, CloseCancelled,
       UploadAttempt, WriteAttempt, Permits, IsExactRetry, MaxExactUpdateRetries,
       uploadVars, writeVars
  <2> QED
    BY <2>1, <2>2, <2>3, <2>4, <2>5 DEF TypeOK
<1>5. ASSUME RetryJob PROVE TypeOK'
  <2>1. ReviewTyped' /\ AttemptsTyped' /\ LedgerTyped'
    BY <1>5 DEF TypeOK, ReviewTyped, AttemptsTyped, LedgerTyped, RetryJob, reviewVars,
       uploadVars, writeVars
  <2>2. FlagsTyped'
    BY <1>5, Zenon DEF TypeOK, FlagsTyped, RetryJob, jobVars, reviewVars, uploadVars,
       writeVars
  <2>3. JobTyped'
    BY <1>5 DEF TypeOK, JobTyped, ResumeKnown, RetryJob, States, MachineStates,
       NewWorkByState
  <2>4. WorkTyped'
    <3> DEFINE type == NewWorkByState[resume]
    <3>1. type \in WorkTypes
      BY <1>5 DEF TypeOK, ResumeKnown, JobTyped, RetryJob, MachineStates, NewWorkByState, WorkTypes
    <3>2. OpenWork(type, review)
      BY <1>5 DEF RetryJob
    <3> HIDE DEF type
    <3> QED
      BY <3>1, <3>2, WorkHelpersType DEF TypeOK, ReviewTyped
  <2> QED
    BY <2>1, <2>2, <2>3, <2>4 DEF TypeOK
<1> QED
  BY <1>1, <1>2, <1>3, <1>4, <1>5 DEF Seller

LEMMA SettlementType == ASSUME TypeOK, Settlement PROVE TypeOK'
<1>1. ASSUME NEW c \in {"unavailable", "other"}, RecordWorkerFailure(c) PROVE TypeOK'
  <2>1. ReviewTyped' /\ LedgerTyped'
    BY <1>1 DEF TypeOK, ReviewTyped, LedgerTyped, RecordWorkerFailure, CloseCancelled,
       reviewVars
  <2>2. FlagsTyped'
    BY <1>1, Zenon DEF TypeOK, FlagsTyped, RecordWorkerFailure, CloseCancelled, jobVars,
       reviewVars, uploadVars, writeVars
  <2>3. JobTyped'
    BY <1>1 DEF TypeOK, JobTyped, RecordWorkerFailure, CloseCancelled, jobVars, States,
       MachineStates, NewWorkByState
  <2>4. WorkTyped'
    BY <1>1, WorkHelpersType DEF TypeOK, ReviewTyped, RecordWorkerFailure, CloseCancelled,
       WorkTypes
  <2>5. AttemptsTyped'
    BY <1>1 DEF TypeOK, AttemptsTyped, WorkTyped, ReviewTyped, RecordWorkerFailure,
       CloseCancelled, UploadAttempt, WriteAttempt, Permits, IsExactRetry,
       MaxExactUpdateRetries, uploadVars, writeVars
  <2> QED
    BY <2>1, <2>2, <2>3, <2>4, <2>5 DEF TypeOK
<1>2. ASSUME SettleCancellation PROVE TypeOK'
  <2>1. ReviewTyped' /\ LedgerTyped'
    BY <1>2 DEF TypeOK, ReviewTyped, LedgerTyped, SettleCancellation, CloseCancelled,
       reviewVars
  <2>2. FlagsTyped'
    BY <1>2, Zenon DEF TypeOK, FlagsTyped, SettleCancellation, CloseCancelled, jobVars,
       reviewVars, uploadVars, writeVars
  <2>3. JobTyped'
    BY <1>2 DEF TypeOK, JobTyped, SettleCancellation, CloseCancelled, jobVars, States,
       MachineStates, NewWorkByState
  <2>4. WorkTyped'
    BY <1>2, WorkHelpersType DEF TypeOK, ReviewTyped, SettleCancellation, CloseCancelled,
       WorkTypes
  <2>5. AttemptsTyped'
    BY <1>2 DEF TypeOK, AttemptsTyped, WorkTyped, ReviewTyped, SettleCancellation,
       CloseCancelled, UploadAttempt, WriteAttempt, Permits, IsExactRetry,
       MaxExactUpdateRetries, uploadVars, writeVars
  <2> QED
    BY <2>1, <2>2, <2>3, <2>4, <2>5 DEF TypeOK
<1> QED
  BY <1>1, <1>2 DEF Settlement

LEMMA ClockType == ASSUME TypeOK, Clock PROVE TypeOK'
<1>1. ASSUME PricingExpires PROVE TypeOK'
  <2>1. JobTyped' /\ WorkTyped' /\ AttemptsTyped' /\ LedgerTyped'
    BY <1>1 DEF TypeOK, JobTyped, WorkTyped, AttemptsTyped, LedgerTyped, PricingExpires,
       jobVars, uploadVars, workVars, writeVars
  <2>2. FlagsTyped'
    BY <1>1, Zenon DEF TypeOK, FlagsTyped, PricingExpires, jobVars, reviewVars, uploadVars,
       writeVars
  <2>3. ReviewTyped'
    BY <1>1 DEF TypeOK, ReviewTyped, PricingExpires, reviewVars
  <2> QED
    BY <2>1, <2>2, <2>3 DEF TypeOK
<1>2. ASSUME UploadDeadlinePasses PROVE TypeOK'
  <2>1. JobTyped' /\ WorkTyped' /\ ReviewTyped' /\ LedgerTyped'
    BY <1>2 DEF TypeOK, JobTyped, WorkTyped, ReviewTyped, LedgerTyped, UploadDeadlinePasses,
       jobVars, reviewVars, workVars
  <2>2. FlagsTyped'
    BY <1>2, Zenon DEF TypeOK, FlagsTyped, UploadDeadlinePasses, jobVars, reviewVars,
       uploadVars, writeVars
  <2>3. AttemptsTyped'
    BY <1>2 DEF TypeOK, AttemptsTyped, WorkTyped, ReviewTyped, UploadDeadlinePasses,
       UploadAttempt, WriteAttempt, Permits, IsExactRetry, MaxExactUpdateRetries,
       uploadVars, writeVars
  <2> QED
    BY <2>1, <2>2, <2>3 DEF TypeOK
<1>3. ASSUME WriteDeadlinePasses PROVE TypeOK'
  <2>1. JobTyped' /\ WorkTyped' /\ ReviewTyped' /\ LedgerTyped'
    BY <1>3 DEF TypeOK, JobTyped, WorkTyped, ReviewTyped, LedgerTyped, WriteDeadlinePasses,
       jobVars, reviewVars, workVars
  <2>2. FlagsTyped'
    BY <1>3, Zenon DEF TypeOK, FlagsTyped, WriteDeadlinePasses, jobVars, reviewVars,
       uploadVars, writeVars
  <2>3. AttemptsTyped'
    BY <1>3 DEF TypeOK, AttemptsTyped, WorkTyped, ReviewTyped, WriteDeadlinePasses,
       UploadAttempt, WriteAttempt, Permits, IsExactRetry, MaxExactUpdateRetries,
       uploadVars, writeVars
  <2> QED
    BY <2>1, <2>2, <2>3 DEF TypeOK
<1> QED
  BY <1>1, <1>2, <1>3 DEF Clock

LEMMA PricingSuccessType == ASSUME TypeOK, RecordPricingSuccess PROVE TypeOK'
<1>1. AttemptsTyped' /\ LedgerTyped' /\ ReviewTyped'
  BY DEF TypeOK, AttemptsTyped, LedgerTyped, ReviewTyped, RecordPricingSuccess, uploadVars,
     writeVars
<1>2. FlagsTyped'
  BY Zenon DEF TypeOK, FlagsTyped, RecordPricingSuccess, uploadVars, writeVars
<1>3. JobTyped'
  BY DEF TypeOK, JobTyped, RecordPricingSuccess, States
<1>4. WorkTyped'
  BY WorkHelpersType DEF TypeOK, ReviewTyped, RecordPricingSuccess
<1> QED
  BY <1>1, <1>2, <1>3, <1>4 DEF TypeOK

LEMMA UnchangedType == ASSUME TypeOK, UNCHANGED vars PROVE TypeOK'
<1>1. FlagsTyped'
  BY Zenon DEF TypeOK, FlagsTyped, vars, jobVars, reviewVars, uploadVars, writeVars
<1>2. JobTyped' /\ WorkTyped' /\ ReviewTyped' /\ AttemptsTyped' /\ LedgerTyped'
  BY DEF TypeOK, JobTyped, WorkTyped, ReviewTyped, AttemptsTyped, LedgerTyped, vars, jobVars,
     workVars, reviewVars, uploadVars, writeVars
<1> QED
  BY <1>1, <1>2 DEF TypeOK

\* The type invariant alone is not inductive: Retry resumes into a state, so an advertised
\* failure must name one.
LEMMA ResumeStep == ASSUME TypeOK, ResumeKnown, [Next]_vars PROVE ResumeKnown'
<1> USE DEF ResumeKnown
<1>1. CASE Dispatcher
  BY <1>1 DEF Dispatcher, ClaimWork, MarkWorkDispatched, jobVars
<1>2. CASE Preparation
  BY <1>2 DEF Preparation, BeginPreparation, RecordPreparedReview, CompletePreparation
<1>3. CASE ArtworkUpload
  BY <1>3 DEF ArtworkUpload, BeginProviderUpload, AuthorizeProviderUpload, UploadAuthorized,
       RecordProviderUploadSuccess, RecordProviderUploadOutcomeUnknown, UploadObservedTarget,
       UploadReadDeferred, UploadReadEnded, jobVars
<1>4. CASE ProductWrite
  BY <1>4 DEF ProductWrite, BeginProviderCreate, BeginProviderUpdate, BeginExactUpdateRetry,
       AuthorizeProviderCall, CallAuthorized, RecordProductSyncSuccess,
       RecordProductWriteOutcomeUnknown, WriteObservedTarget, WriteObservedPrior,
       WriteReadDeferred, WriteReadEnded, ClaimWrite, ProductSynchronized, EndReconciliation,
       jobVars
<1>5. CASE RecordPricingSuccess
  BY <1>5 DEF RecordPricingSuccess
<1>6. CASE Seller
  BY <1>6 DEF Seller, ReviseListing, ApproveReview, RefreshEconomics, CancelJob, RetryJob,
     CloseCancelled, TypeOK, JobTyped, MachineStates, NewWorkByState
<1>7. CASE Settlement
  BY <1>7 DEF Settlement, RecordWorkerFailure, SettleCancellation, CloseCancelled
<1>8. CASE Clock
  BY <1>8 DEF Clock, PricingExpires, UploadDeadlinePasses, WriteDeadlinePasses, jobVars
<1>9. CASE UNCHANGED vars
  BY <1>9 DEF vars, jobVars
<1> QED
  BY <1>1, <1>2, <1>3, <1>4, <1>5, <1>6, <1>7, <1>8, <1>9 DEF Next

LEMMA TypeStep == ASSUME TypeOK, ResumeKnown, [Next]_vars PROVE TypeOK'
<1>1. CASE Dispatcher
  BY <1>1, DispatcherType
<1>2. CASE Preparation
  BY <1>2, PreparationType
<1>3. CASE ArtworkUpload
  BY <1>3, ArtworkUploadType
<1>4. CASE ProductWrite
  BY <1>4, ProductWriteType
<1>5. CASE RecordPricingSuccess
  BY <1>5, PricingSuccessType
<1>6. CASE Seller
  BY <1>6, SellerType
<1>7. CASE Settlement
  BY <1>7, SettlementType
<1>8. CASE Clock
  BY <1>8, ClockType
<1>9. CASE UNCHANGED vars
  BY <1>9, UnchangedType
<1> QED
  BY <1>1, <1>2, <1>3, <1>4, <1>5, <1>6, <1>7, <1>8, <1>9 DEF Next

\* Every reachable job is well typed: no sequence of commands, takeovers, deadlines and
\* settlements takes a field of the record, a work request or a permit out of its domain,
\* and a failure the seller may retry always names the state to resume.
THEOREM TypeCorrect == Spec => [](TypeOK /\ ResumeKnown)
<1>1. Init => ResumeKnown
  BY DEF Init, ResumeKnown
<1> QED
  BY <1>1, InitType, TypeStep, ResumeStep, PTL DEF Spec

-----------------------------------------------------------------------------
(* One-shot authority.                                                     *)

\* Every permitted upload left its permit consumed, so a second one has none to consume.
UploadCounted ==
  /\ upload.work = 0 => upload.permit # "consumed"
  /\ ledger.uploads <= IF upload.permit = "consumed" THEN 1 ELSE 0

\* The claim on the create is made before its permit and outlives it; there is no product
\* and no update without it.
CreateCounted ==
  /\ synced # 0 \/ write.op # "none" => createClaimed
  /\ write.op = "none" => write.work = 0
  /\ ledger.creates <= IF createClaimed /\ (write.op = "create" => write.permit = "consumed")
                         THEN 1 ELSE 0

\* Updates go to one review at a time, never to an earlier one, and what was permitted for
\* the current one is bounded by its repetitions.
PutsCounted ==
  /\ write.review <= review
  /\ \A r \in Review : ledger.puts[r] <= 1 + MaxExactUpdateRetries
  /\ \A r \in Review : write.op # "update" \/ r > write.review => ledger.puts[r] = 0
  /\ write.op = "update" =>
       ledger.puts[write.review] <= write.retries + (IF write.permit = "consumed" THEN 1 ELSE 0)

\* The inductive strengthening of OneShot.
LedgerInv == UploadCounted /\ CreateCounted /\ PutsCounted

\* What the counts depend on stays as it is; only the review may advance.
UploadKept == /\ upload'.work = upload.work /\ upload'.permit = upload.permit
              /\ ledger'.uploads = ledger.uploads
WriteKept == /\ write'.work = write.work /\ write'.permit = write.permit
             /\ write'.op = write.op /\ write'.review = write.review
             /\ write'.retries = write.retries
             /\ createClaimed' = createClaimed
             /\ ledger'.creates = ledger.creates /\ ledger'.puts = ledger.puts
             /\ review <= review'
             /\ synced' = synced \/ createClaimed

LEMMA KeptUpload == ASSUME UploadCounted, UploadKept PROVE UploadCounted'
  BY DEF UploadCounted, UploadKept

LEMMA KeptWrite ==
  ASSUME TypeOK, TypeOK', CreateCounted, PutsCounted, WriteKept
  PROVE  CreateCounted' /\ PutsCounted'
<1>1. CreateCounted'
  BY DEF CreateCounted, WriteKept
<1>2. write'.review <= review'
  BY DEF PutsCounted, WriteKept, TypeOK, ReviewTyped, AttemptsTyped, WriteAttempt, Review
<1> QED
  BY <1>1, <1>2 DEF PutsCounted, WriteKept

\* Closing as cancelled retires a permit only while it is unused.
LEMMA CloseCounted ==
  ASSUME TypeOK, TypeOK', LedgerInv, CloseCancelled, ledger' = ledger, review' = review,
         synced' = synced, createClaimed' = createClaimed
  PROVE  LedgerInv'
<1>1. UploadCounted'
  <2>1. CASE upload' = upload
    BY <2>1 DEF LedgerInv, UploadCounted
  <2>2. CASE upload' = [upload EXCEPT !.permit = "retired"] /\ upload.permit # "consumed"
            /\ uploadUnconfirmed /\ ProductWriteWork
    <3>1. upload'.work = upload.work /\ upload'.permit # "consumed"
      BY <2>2 DEF TypeOK, AttemptsTyped, UploadAttempt, LedgerInv, UploadCounted
    <3> QED
      BY <2>2, <3>1 DEF LedgerInv, UploadCounted
  <2> QED
    BY <2>1, <2>2 DEF CloseCancelled, MustReconcile, UncertainPermit
<1>2. CreateCounted' /\ PutsCounted'
  <2>1. CASE write' = write
    BY <2>1, KeptWrite DEF LedgerInv, WriteKept, TypeOK, ReviewTyped, Review
  <2>2. CASE write' = [write EXCEPT !.permit = "retired"] /\ write.permit # "consumed"
    <3>1. /\ write'.work = write.work /\ write'.permit # "consumed" /\ write'.op = write.op
          /\ write'.review = write.review /\ write'.retries = write.retries
      BY <2>2 DEF TypeOK, AttemptsTyped, WriteAttempt
    <3> QED
      BY <3>1, <2>2 DEF LedgerInv, CreateCounted, PutsCounted
  <2> QED
    BY <2>1, <2>2 DEF CloseCancelled, MustReconcile, UncertainPermit
<1> QED
  BY <1>1, <1>2 DEF LedgerInv

LEMMA InitLedger == Init => LedgerInv
<1> SUFFICES ASSUME Init PROVE LedgerInv
  OBVIOUS
<1>1. UploadCounted
  BY DEF Init, UploadCounted, NoUpload
<1>2. CreateCounted
  BY DEF Init, CreateCounted, NoWrite
<1>3. PutsCounted
  BY DEF Init, PutsCounted, NoWrite, MaxExactUpdateRetries, Review
<1> QED
  BY <1>1, <1>2, <1>3 DEF LedgerInv

\* The actions that claim, consume or retire no permit.
LEMMA OthersKeep ==
  ASSUME TypeOK, TypeOK', LedgerInv,
         \/ Dispatcher \/ Preparation \/ RecordPricingSuccess
         \/ RecordProviderUploadSuccess \/ RecordProviderUploadOutcomeUnknown
         \/ UploadObservedTarget \/ UploadReadDeferred
         \/ \E conflict \in BOOLEAN : UploadReadEnded(conflict)
         \/ RecordProductSyncSuccess \/ RecordProductWriteOutcomeUnknown
         \/ WriteObservedTarget \/ WriteObservedPrior \/ WriteReadDeferred
         \/ \E conflict \in BOOLEAN : WriteReadEnded(conflict)
         \/ \E passed \in BOOLEAN : ReviseListing(passed)
         \/ ApproveReview \/ RefreshEconomics \/ RetryJob
         \/ Clock \/ UNCHANGED vars
  PROVE  UploadKept /\ WriteKept
<1> DEFINE Same == UNCHANGED <<upload, write, createClaimed>>
           SameLedger == \/ ledger' = ledger
                         \/ \E b : ledger' = [ledger EXCEPT !.uploadOpen = b]
                         \/ \E b : ledger' = [ledger EXCEPT !.writeOpen = b]
           Onward == review' = review \/ review' = review + 1 \/ review = 0
           Claimed == synced' = synced \/ createClaimed
<1>1. ASSUME Same, SameLedger, Onward, Claimed PROVE UploadKept /\ WriteKept
  <2>1. /\ ledger'.uploads = ledger.uploads /\ ledger'.creates = ledger.creates
        /\ ledger'.puts = ledger.puts
    BY <1>1 DEF TypeOK, LedgerTyped
  <2>2. review <= review'
    BY <1>1 DEF TypeOK, ReviewTyped, Review
  <2> QED
    BY <1>1, <2>1, <2>2 DEF UploadKept, WriteKept
<1>2. ASSUME Clock PROVE UploadKept /\ WriteKept
  <2>1. ledger' = ledger /\ createClaimed' = createClaimed /\ review' = review
        /\ synced' = synced
    BY <1>2 DEF Clock, PricingExpires, UploadDeadlinePasses, WriteDeadlinePasses, reviewVars,
       writeVars
  <2>2. /\ upload' = upload \/ upload' = [upload EXCEPT !.expired = TRUE]
        /\ write' = write \/ write' = [write EXCEPT !.expired = TRUE]
    BY <1>2 DEF Clock, PricingExpires, UploadDeadlinePasses, WriteDeadlinePasses, uploadVars,
       writeVars
  <2>3. review <= review'
    BY <2>1 DEF TypeOK, ReviewTyped, Review
  <2> QED
    BY <2>1, <2>2, <2>3 DEF UploadKept, WriteKept, TypeOK, AttemptsTyped, UploadAttempt,
       WriteAttempt
<1> USE DEF jobVars, reviewVars, uploadVars, writeVars
<1>3. CASE Dispatcher
  BY <1>1, <1>3 DEF Dispatcher, ClaimWork, MarkWorkDispatched
<1>4. CASE Preparation
  BY <1>1, <1>4 DEF Preparation, BeginPreparation, RecordPreparedReview, CompletePreparation
<1>5. CASE RecordPricingSuccess \/ UNCHANGED vars
  BY <1>1, <1>5 DEF RecordPricingSuccess, vars
<1>6. CASE RecordProviderUploadSuccess \/ RecordProviderUploadOutcomeUnknown
  BY <1>1, <1>6 DEF RecordProviderUploadSuccess, RecordProviderUploadOutcomeUnknown
<1>7. CASE UploadObservedTarget \/ UploadReadDeferred
           \/ \E conflict \in BOOLEAN : UploadReadEnded(conflict)
  BY <1>1, <1>7 DEF UploadObservedTarget, UploadReadDeferred, UploadReadEnded
<1>8. CASE RecordProductSyncSuccess \/ WriteObservedTarget
  <2>1. createClaimed
    BY <1>8 DEF RecordProductSyncSuccess, WriteObservedTarget, ReconcilingWrite, BindsWrite,
       Binds, LedgerInv, CreateCounted
  <2> QED
    BY <1>1, <1>8, <2>1 DEF RecordProductSyncSuccess, WriteObservedTarget, ProductSynchronized
<1>9. CASE RecordProductWriteOutcomeUnknown \/ WriteReadDeferred
  BY <1>1, <1>9 DEF RecordProductWriteOutcomeUnknown, WriteReadDeferred
<1>10. CASE WriteObservedPrior \/ \E conflict \in BOOLEAN : WriteReadEnded(conflict)
  BY <1>1, <1>10 DEF WriteObservedPrior, WriteReadEnded, EndReconciliation
<1>11. CASE (\E passed \in BOOLEAN : ReviseListing(passed)) \/ ApproveReview
            \/ RefreshEconomics \/ RetryJob
  BY <1>1, <1>11 DEF ReviseListing, ApproveReview, RefreshEconomics, RetryJob
<1> QED
  BY <1>2, <1>3, <1>4, <1>5, <1>6, <1>7, <1>8, <1>9, <1>10, <1>11

LEMMA LedgerStep ==
  ASSUME TypeOK, TypeOK', LedgerInv, [Next]_vars
  PROVE  LedgerInv'
<1>1. ASSUME UploadKept, WriteKept PROVE LedgerInv'
  BY <1>1, KeptUpload, KeptWrite DEF LedgerInv
<1>2. CASE BeginProviderUpload
  <2>1. UploadCounted'
    BY <1>2 DEF BeginProviderUpload, LedgerInv, UploadCounted, TypeOK, WorkTyped, Held
  <2>2. WriteKept
    BY <1>2 DEF BeginProviderUpload, WriteKept, writeVars, reviewVars, TypeOK, ReviewTyped,
       Review
  <2> QED
    BY <2>1, <2>2, KeptWrite DEF LedgerInv
<1>3. CASE AuthorizeProviderUpload
  <2>1. /\ upload'.permit = "consumed" /\ upload'.work = upload.work /\ upload.work # 0
        /\ ledger'.uploads = ledger.uploads + 1 /\ upload.permit = "available"
    BY <1>3 DEF AuthorizeProviderUpload, UploadAuthorized, TypeOK, AttemptsTyped,
         UploadAttempt, LedgerTyped
  <2>2. UploadCounted'
    BY <2>1 DEF LedgerInv, UploadCounted, TypeOK, LedgerTyped
  <2>3. WriteKept
    BY <1>3 DEF AuthorizeProviderUpload, UploadAuthorized, WriteKept, writeVars, reviewVars,
         TypeOK, ReviewTyped, Review, LedgerTyped
  <2> QED
    BY <2>2, <2>3, KeptWrite DEF LedgerInv
<1>4. CASE BeginProviderCreate
  <2>1. UploadKept
    BY <1>4 DEF BeginProviderCreate, ClaimWrite, UploadKept, uploadVars
  <2>2. /\ write'.op = "create" /\ write'.work # 0 /\ write'.permit = "available"
        /\ write'.review = review /\ ~createClaimed /\ createClaimed' = TRUE
        /\ review' = review /\ ledger' = ledger
    BY <1>4 DEF BeginProviderCreate, ClaimWrite, ReadyToWrite, Held, reviewVars
  <2>3. CreateCounted'
    BY <2>2 DEF LedgerInv, CreateCounted
  <2>4. \A r \in Review : ledger.puts[r] = 0
    BY <2>2 DEF LedgerInv, CreateCounted, PutsCounted, BeginProviderCreate
  <2>5. PutsCounted'
    BY <2>2, <2>4 DEF PutsCounted, TypeOK, ReviewTyped, Review, MaxExactUpdateRetries
  <2> QED
    BY <2>1, <2>3, <2>5, KeptUpload DEF LedgerInv
<1>5. ASSUME NEW retries \in 0..MaxExactUpdateRetries, ReadyToWrite, synced # 0,
             ClaimWrite("update", retries), createClaimed' = createClaimed,
             IF IsExactRetry THEN retries = write.retries + 1 ELSE retries = 0
      PROVE  LedgerInv'
  <2>1. UploadKept
    BY <1>5 DEF ClaimWrite, UploadKept, uploadVars
  <2>2. /\ write'.op = "update" /\ write'.work # 0 /\ write'.permit = "available"
        /\ write'.review = review /\ write'.retries = retries
        /\ review' = review /\ ledger' = ledger
    BY <1>5 DEF ClaimWrite, ReadyToWrite, Held, reviewVars
  <2>3. CreateCounted'
    BY <1>5, <2>2 DEF LedgerInv, CreateCounted, TypeOK, LedgerTyped
  <2>4. ledger.puts[review] <= retries
    <3>1. CASE IsExactRetry
      BY <1>5, <3>1 DEF IsExactRetry, LedgerInv, PutsCounted, TypeOK, LedgerTyped, ReviewTyped,
         AttemptsTyped, WriteAttempt
    <3>2. CASE ~IsExactRetry
      <4>1. write.op # "update" \/ review > write.review
        BY <3>2 DEF IsExactRetry, LedgerInv, PutsCounted, TypeOK, ReviewTyped, Review,
           AttemptsTyped, WriteAttempt
      <4> QED
        BY <1>5, <3>2, <4>1 DEF LedgerInv, PutsCounted, TypeOK, ReviewTyped
    <3> QED
      BY <3>1, <3>2
  <2>5. \A r \in Review : r > review => ledger.puts[r] = 0
    BY DEF LedgerInv, PutsCounted, TypeOK, ReviewTyped, Review, AttemptsTyped, WriteAttempt
  <2>6. PutsCounted'
    BY <2>2, <2>4, <2>5 DEF LedgerInv, PutsCounted, TypeOK, ReviewTyped, Review
  <2> QED
    BY <2>1, <2>3, <2>6, KeptUpload DEF LedgerInv
<1>6. CASE BeginProviderUpdate
  BY <1>5, <1>6 DEF BeginProviderUpdate, MaxExactUpdateRetries
<1>7. CASE BeginExactUpdateRetry
  <2>1. write.retries + 1 \in 0..MaxExactUpdateRetries
    BY <1>7 DEF BeginExactUpdateRetry, TypeOK, AttemptsTyped, WriteAttempt,
       MaxExactUpdateRetries
  <2> QED
    BY <1>5, <1>7, <2>1 DEF BeginExactUpdateRetry
<1>8. CASE AuthorizeProviderCall
  <2>1. /\ write'.op = write.op /\ write'.work = write.work /\ write'.review = write.review
        /\ write'.retries = write.retries /\ write.work # 0
        /\ write.permit = "available" /\ write'.permit = "consumed"
        /\ write.review = review /\ review' = review /\ synced' = synced
        /\ createClaimed' = createClaimed
    BY <1>8 DEF AuthorizeProviderCall, CallAuthorized, reviewVars, TypeOK, AttemptsTyped,
         WriteAttempt
  <2>2. UploadKept
    BY <1>8 DEF AuthorizeProviderCall, CallAuthorized, UploadKept, uploadVars, TypeOK,
         LedgerTyped
  <2>3. CASE write.op = "create"
    <3>1. ledger'.creates = ledger.creates + 1 /\ ledger'.puts = ledger.puts
      BY <1>8, <2>3 DEF AuthorizeProviderCall, CallAuthorized, TypeOK, LedgerTyped
    <3>2. CreateCounted'
      BY <2>1, <2>3, <3>1 DEF LedgerInv, CreateCounted, TypeOK, LedgerTyped
    <3>3. PutsCounted'
      BY <2>1, <2>3, <3>1 DEF LedgerInv, PutsCounted
    <3> QED
      BY <2>2, <3>2, <3>3, KeptUpload DEF LedgerInv
  <2>4. CASE write.op # "create"
    <3>1. ledger'.creates = ledger.creates
          /\ ledger'.puts = [ledger.puts EXCEPT ![review] = ledger.puts[review] + 1]
      BY <1>8, <2>4 DEF AuthorizeProviderCall, CallAuthorized, TypeOK, LedgerTyped
    <3>2. write.op = "update"
      BY <2>1, <2>4 DEF LedgerInv, CreateCounted, TypeOK, AttemptsTyped, WriteAttempt
    <3>3. CreateCounted'
      BY <2>1, <2>4, <3>1 DEF LedgerInv, CreateCounted
    <3>4. ledger.puts[review] <= write.retries
      BY <2>1, <3>2 DEF LedgerInv, PutsCounted, TypeOK, AttemptsTyped, WriteAttempt
    <3>5. ledger'.puts[review] = ledger.puts[review] + 1
      BY <3>1 DEF TypeOK, LedgerTyped, ReviewTyped
    <3>6. \A r \in Review : r # review => ledger'.puts[r] = ledger.puts[r]
      BY <3>1 DEF TypeOK, LedgerTyped
    <3>7. ledger'.puts[review] <= write.retries + 1
      BY <3>4, <3>5 DEF TypeOK, LedgerTyped, ReviewTyped, AttemptsTyped, WriteAttempt
    <3>8. \A r \in Review : ledger'.puts[r] <= 1 + MaxExactUpdateRetries
      <4>1. write.retries + 1 <= 1 + MaxExactUpdateRetries
        BY DEF TypeOK, AttemptsTyped, WriteAttempt, MaxExactUpdateRetries
      <4>2. ledger'.puts[review] <= 1 + MaxExactUpdateRetries
        BY <3>7, <4>1 DEF TypeOK, LedgerTyped, ReviewTyped, AttemptsTyped, WriteAttempt,
           MaxExactUpdateRetries
      <4> QED
        BY <3>6, <4>2 DEF LedgerInv, PutsCounted
    <3>9. \A r \in Review : r > review => ledger'.puts[r] = 0
      BY <2>1, <3>6 DEF LedgerInv, PutsCounted, TypeOK, ReviewTyped, Review
    <3>10. PutsCounted'
      BY <2>1, <3>2, <3>7, <3>8, <3>9 DEF LedgerInv, PutsCounted
    <3> QED
      BY <2>2, <3>3, <3>10, KeptUpload DEF LedgerInv
  <2> QED
    BY <2>3, <2>4
<1>9. CASE CancelJob
  <2>1. CASE UNCHANGED <<uploadVars, writeVars>>
    <3>1. UploadKept /\ WriteKept
      BY <1>9, <2>1 DEF CancelJob, UploadKept, WriteKept, uploadVars, writeVars, reviewVars,
         TypeOK, ReviewTyped, Review
    <3> QED
      BY <1>1, <3>1
  <2>2. CASE CloseCancelled /\ createClaimed' = createClaimed
    BY <1>9, <2>2, CloseCounted DEF CancelJob, reviewVars
  <2> QED
    BY <1>9, <2>1, <2>2 DEF CancelJob
<1>10. CASE Settlement
  <2>1. ledger' = ledger /\ UNCHANGED reviewVars
    BY <1>10 DEF Settlement, RecordWorkerFailure, SettleCancellation
  <2>2. CASE UNCHANGED <<uploadVars, writeVars>>
    <3>1. UploadKept /\ WriteKept
      BY <2>1, <2>2 DEF UploadKept, WriteKept, uploadVars, writeVars, reviewVars, TypeOK,
         ReviewTyped, Review
    <3> QED
      BY <1>1, <3>1
  <2>3. CASE CloseCancelled /\ createClaimed' = createClaimed
    BY <2>1, <2>3, CloseCounted DEF reviewVars
  <2> QED
    BY <1>10, <2>2, <2>3 DEF Settlement, RecordWorkerFailure, SettleCancellation
<1> QED
  <2>1. CASE Dispatcher \/ Preparation \/ RecordPricingSuccess \/ Clock \/ UNCHANGED vars
    BY <1>1, <2>1, OthersKeep
  <2>2. CASE ArtworkUpload
    BY <1>1, <1>2, <1>3, <2>2, OthersKeep DEF ArtworkUpload
  <2>3. CASE ProductWrite
    BY <1>1, <1>4, <1>6, <1>7, <1>8, <2>3, OthersKeep DEF ProductWrite
  <2>4. CASE Seller
    BY <1>1, <1>9, <2>4, OthersKeep DEF Seller
  <2> QED
    BY <1>10, <2>1, <2>2, <2>3, <2>4 DEF Next

\* For every number of reviews and work requests: whatever the order of commands, takeovers,
\* cancellations, retries and reconciliations, a job is permitted at most one artwork upload,
\* at most one product create, and at most two updates for one review.
THEOREM OneShotAlways == Spec => []OneShot
<1>1. TypeOK /\ LedgerInv => OneShot
  BY DEF TypeOK, LedgerTyped, LedgerInv, UploadCounted, CreateCounted, PutsCounted, OneShot
<1>2. Init => TypeOK /\ ResumeKnown /\ LedgerInv
  BY InitType, InitLedger DEF Init, ResumeKnown
<1>3. TypeOK /\ ResumeKnown /\ LedgerInv /\ [Next]_vars
        => (TypeOK /\ ResumeKnown /\ LedgerInv)'
  BY TypeStep, ResumeStep, LedgerStep
<1> QED
  BY <1>1, <1>2, <1>3, PTL DEF Spec


-----------------------------------------------------------------------------
(* Coherence of the record, its work and its permits.                      *)

\* Work ids are allocated in order, so a new request is nobody's consumer yet.
Allocated == /\ active <= lastWork /\ upload.consumer <= lastWork /\ write.consumer <= lastWork
             /\ active # 0 => WorkType \in WorkTypes

\* A product write is only claimed once the artwork is uploaded for good.
UploadFirst == write.work # 0 => uploaded /\ ~uploadUnconfirmed

\* A permit is unused only under the flag of its own attempt, and every call whose outcome
\* is open went out on a consumed one.
PermitsFlagged ==
  /\ upload.permit = "available" => uploadUnconfirmed
  /\ write.permit = "available" => writeUnconfirmed
  /\ ledger.uploadOpen => uploadUnconfirmed /\ upload.permit = "consumed"
  /\ ledger.writeOpen => writeUnconfirmed /\ write.permit = "consumed"

Uncertain == uploadUnconfirmed \/ writeUnconfirmed

\* Which uncertainty each kind of active work can meet.
FlagsByWork ==
  /\ active # 0 /\ WorkType \in {"prepare", "refresh_economics"} => ~Uncertain
  /\ active # 0 /\ WorkType = "reconcile_product" => UncertainPermit = "consumed"
  /\ active # 0 /\ (ConsumedByActive(upload) \/ ConsumedByActive(write))
       => WorkType = "synchronize_product"

\* An advertised failure resumes into a state that Retry may enter, and a failure outside
\* synchronization left no uncertainty behind.
ResumeSound ==
  /\ resume \in {"none", "analyzing_artwork", "listing_drafted", "product_draft_syncing",
                 "pricing_refreshing"}
  /\ state = "failed_retryable" /\ resume # "product_draft_syncing" => ~Uncertain

\* The inductive strengthening of JobCoherent and PermitsAccounted.
JobInv == /\ TypeOK /\ RecordCoherent /\ OneLiveWork /\ AmbiguityKept /\ NoPermitAfterClose
          /\ Allocated /\ UploadFirst /\ PermitsFlagged /\ FlagsByWork /\ ResumeSound

\* What settling and opening leave in the outbox.
LEMMA WorkReplaced ==
  ASSUME TypeOK, Allocated, Held, NEW t \in WorkTypes, ReplaceWork(t)
  PROVE  /\ active' = lastWork + 1 /\ active' # 0 /\ active' # active /\ active' \in WorkId
         /\ works'[active'] = [type |-> t, status |-> "pending", review |-> review]
         /\ works'[active].status = "completed"
         /\ \A w \in WorkId : w \notin {active, active'} => works'[w] = works[w]
  BY BoundsAssumption DEF TypeOK, WorkTyped, WorkId, Work, Allocated, Held, ReplaceWork

LEMMA WorkCompleted ==
  ASSUME TypeOK, Held, CompleteWork
  PROVE  /\ active' = 0
         /\ works'[active].status = "completed"
         /\ \A w \in WorkId : w # active => works'[w] = works[w]
  BY BoundsAssumption DEF TypeOK, WorkTyped, WorkId, Work, Held, CompleteWork

LEMMA WorkOpened ==
  ASSUME TypeOK, NEW t \in WorkTypes, NEW r \in Review, OpenWork(t, r)
  PROVE  /\ active' = lastWork + 1 /\ active' # 0 /\ active' \in WorkId
         /\ works'[active'] = [type |-> t, status |-> "pending", review |-> r]
         /\ \A w \in WorkId : w # active' => works'[w] = works[w]
  BY BoundsAssumption DEF TypeOK, WorkTyped, WorkId, Work, OpenWork

LEMMA ReplacedLive ==
  ASSUME TypeOK, OneLiveWork, Allocated, Held, NEW t \in WorkTypes, ReplaceWork(t),
         review' = review, state' \in MachineStates, NewWorkByState[state'] = t
  PROVE  OneLiveWork' /\ active' <= lastWork'
<1>0. /\ active' # 0
      /\ works'[active'] = [type |-> t, status |-> "pending", review |-> review]
  BY WorkReplaced
<1>1. active' <= lastWork'
  BY DEF ReplaceWork, TypeOK, WorkTyped, WorkId
<1>2. \A w \in WorkId :
        works'[w].status \in {"pending", "claimed", "dispatched"} => w = active'
  BY WorkReplaced DEF OneLiveWork, TypeOK, WorkTyped, Held
<1>3. /\ works'[active'].status = "pending" /\ works'[active'].review = review'
      /\ works'[active'].type = NewWorkByState[state']
  BY <1>0
<1> QED
  BY <1>0, <1>1, <1>2, <1>3 DEF OneLiveWork, WorkType

LEMMA CompletedLive ==
  ASSUME TypeOK, OneLiveWork, Held, CompleteWork,
         state' \notin MachineStates \cup {"cancel_requested"}
  PROVE  OneLiveWork' /\ active' <= lastWork'
<1>1. \A w \in WorkId : works'[w].status \notin {"pending", "claimed", "dispatched"}
  BY WorkCompleted DEF OneLiveWork, TypeOK, WorkTyped, Held
<1> QED
  BY <1>1, WorkCompleted DEF OneLiveWork, CompleteWork, TypeOK, WorkTyped, WorkId

LEMMA OpenedLive ==
  ASSUME TypeOK, OneLiveWork, active = 0, NEW t \in WorkTypes, NEW r \in Review,
         OpenWork(t, r), review' = r, state' \in MachineStates, NewWorkByState[state'] = t
  PROVE  OneLiveWork' /\ active' <= lastWork'
<1>0. /\ active' # 0
      /\ works'[active'] = [type |-> t, status |-> "pending", review |-> r]
      /\ \A w \in WorkId : w # active' => works'[w] = works[w]
  BY WorkOpened
<1>1. active' <= lastWork'
  BY DEF OpenWork, TypeOK, WorkTyped, WorkId
<1>2. \A w \in WorkId :
        works'[w].status \in {"pending", "claimed", "dispatched"} => w = active'
  BY <1>0 DEF OneLiveWork, WorkId
<1>3. /\ works'[active'].status = "pending" /\ works'[active'].review = review'
      /\ works'[active'].type = NewWorkByState[state']
  BY <1>0
<1> QED
  BY <1>0, <1>1, <1>2, <1>3 DEF OneLiveWork, WorkType

LEMMA KeptLive ==
  ASSUME OneLiveWork, UNCHANGED workVars,
         \/ state' = state
         \/ {state, state'} \subseteq MachineStates
               /\ NewWorkByState[state'] = NewWorkByState[state]
         \/ active # 0 /\ state' = "cancel_requested"
         \/ active = 0 /\ state' \notin MachineStates \cup {"cancel_requested"},
         review' = review \/ active = 0 \/ WorkType = "prepare"
  PROVE  OneLiveWork'
  BY DEF OneLiveWork, workVars, WorkType, MachineStates, NewWorkByState

\* The one live work keeps its status and kind in step with the job.
LEMMA OneLiveStep ==
  ASSUME JobInv, [Next]_vars
  PROVE  OneLiveWork' /\ active' <= lastWork'
<1> USE DEF JobInv
<1>1. ASSUME UNCHANGED <<workVars, state, review>> PROVE OneLiveWork' /\ active' <= lastWork'
  BY <1>1, KeptLive DEF workVars, Allocated
<1>2. CASE Dispatcher
  <2>1. active # 0 /\ UNCHANGED <<active, lastWork, state, review>>
        /\ \E s \in {"claimed", "dispatched"} :
             works' = [works EXCEPT ![active].status = s]
    BY <1>2 DEF Dispatcher, ClaimWork, MarkWorkDispatched, jobVars, reviewVars
  <2>2. PICK s \in {"claimed", "dispatched"} : works' = [works EXCEPT ![active].status = s]
    BY <2>1
  <2>3. /\ works'[active].status = s /\ works'[active].type = works[active].type
        /\ works'[active].review = works[active].review
        /\ \A w \in WorkId : w # active => works'[w] = works[w]
    BY <2>1, <2>2 DEF TypeOK, WorkTyped, WorkId, Work
  <2> QED
    BY <2>1, <2>3 DEF OneLiveWork, Allocated, WorkType
<1>3. CASE Preparation
  <2>1. CASE BeginPreparation
    BY <1>1, <2>1, KeptLive DEF BeginPreparation, reviewVars, MachineStates, NewWorkByState,
       workVars, Allocated
  <2>2. CASE \E passed \in BOOLEAN : RecordPreparedReview(passed)
    <3>1. active # 0 /\ WorkType = "prepare"
      BY <2>2 DEF RecordPreparedReview, Held, OneLiveWork, MachineStates, NewWorkByState
    <3> QED
      BY <2>2, <3>1, KeptLive DEF RecordPreparedReview, MachineStates, NewWorkByState,
         workVars, Allocated
  <2>3. CASE CompletePreparation
    <3>1. CASE state' = "product_draft_syncing" /\ ReplaceWork("synchronize_product")
      BY <2>3, <3>1, ReplacedLive DEF CompletePreparation, reviewVars, MachineStates,
         NewWorkByState, WorkTypes
    <3>2. CASE state' = "needs_revision" /\ CompleteWork
      BY <2>3, <3>2, CompletedLive DEF CompletePreparation, MachineStates, NewWorkByState
    <3> QED
      BY <2>3, <3>1, <3>2 DEF CompletePreparation
  <2> QED
    BY <1>3, <2>1, <2>2, <2>3 DEF Preparation
<1>4. ASSUME Held, NEW t \in WorkTypes, ReplaceWork(t), review' = review,
             state' \in MachineStates, NewWorkByState[state'] = t
      PROVE  OneLiveWork' /\ active' <= lastWork'
  BY <1>4, ReplacedLive
<1>5. ASSUME Held, CompleteWork, state' \in {"cancelled", "failed_terminal", "awaiting_approval"}
      PROVE  OneLiveWork' /\ active' <= lastWork'
  BY <1>5, CompletedLive DEF MachineStates, NewWorkByState
<1>6. CASE ArtworkUpload
  <2>1. CASE BeginProviderUpload \/ AuthorizeProviderUpload \/ RecordProviderUploadSuccess
    BY <1>1, <2>1 DEF BeginProviderUpload, AuthorizeProviderUpload, UploadAuthorized,
         RecordProviderUploadSuccess, jobVars, reviewVars
  <2>2. CASE RecordProviderUploadOutcomeUnknown \/ UploadReadDeferred
    BY <1>4, <2>2 DEF RecordProviderUploadOutcomeUnknown, UploadReadDeferred,
       ReconcilingUpload, Reconciling, reviewVars, MachineStates, NewWorkByState, WorkTypes
  <2>3. CASE UploadObservedTarget
    BY <1>4, <1>5, <2>3 DEF UploadObservedTarget, ReconcilingUpload, Reconciling, reviewVars,
       MachineStates, NewWorkByState, WorkTypes
  <2>4. CASE \E conflict \in BOOLEAN : UploadReadEnded(conflict)
    BY <1>5, <2>4 DEF UploadReadEnded, ReconcilingUpload, Reconciling
  <2> QED
    BY <1>6, <2>1, <2>2, <2>3, <2>4 DEF ArtworkUpload
<1>7. CASE ProductWrite
  <2>1. CASE BeginProviderCreate \/ BeginProviderUpdate \/ BeginExactUpdateRetry
             \/ AuthorizeProviderCall
    BY <1>1, <2>1 DEF BeginProviderCreate, BeginProviderUpdate, BeginExactUpdateRetry,
         AuthorizeProviderCall, CallAuthorized, ClaimWrite, jobVars, reviewVars
  <2>2. CASE RecordProductSyncSuccess \/ WriteObservedTarget
    BY <1>4, <1>5, <2>2 DEF RecordProductSyncSuccess, WriteObservedTarget,
       ProductSynchronized, ReconcilingWrite, Reconciling, MachineStates, NewWorkByState,
       WorkTypes
  <2>3. CASE RecordProductWriteOutcomeUnknown \/ WriteReadDeferred
    BY <1>4, <2>3 DEF RecordProductWriteOutcomeUnknown, WriteReadDeferred, ReconcilingWrite,
       Reconciling, reviewVars, MachineStates, NewWorkByState, WorkTypes
  <2>4. CASE WriteObservedPrior
    BY <1>4, <1>5, <2>4 DEF WriteObservedPrior, EndReconciliation, ReconcilingWrite,
       Reconciling, reviewVars, MachineStates, NewWorkByState, WorkTypes
  <2>5. CASE \E conflict \in BOOLEAN : WriteReadEnded(conflict)
    BY <1>5, <2>5 DEF WriteReadEnded, EndReconciliation, ReconcilingWrite, Reconciling
  <2> QED
    BY <1>7, <2>1, <2>2, <2>3, <2>4, <2>5 DEF ProductWrite
<1>8. CASE RecordPricingSuccess
  BY <1>5, <1>8 DEF RecordPricingSuccess
<1>9. CASE Seller
  <2>1. CASE \E passed \in BOOLEAN : ReviseListing(passed)
    <3>1. active = 0
      BY <2>1 DEF ReviseListing, OneLiveWork, MachineStates, NewWorkByState
    <3>2. review + 1 \in Review
      BY <2>1, BoundsAssumption DEF ReviseListing, TypeOK, ReviewTyped, Review
    <3>3. CASE state' = "needs_revision" /\ UNCHANGED workVars
      BY <2>1, <3>1, <3>3, KeptLive DEF ReviseListing, MachineStates, NewWorkByState,
         workVars, Allocated
    <3>4. CASE state' = "product_draft_syncing" /\ OpenWork("synchronize_product", review + 1)
      <4>1. review' = review + 1
        BY <2>1 DEF ReviseListing
      <4>2. /\ "synchronize_product" \in WorkTypes /\ state' \in MachineStates
            /\ NewWorkByState[state'] = "synchronize_product"
        BY <3>4 DEF MachineStates, NewWorkByState, WorkTypes
      <4> QED
        BY <3>1, <3>2, <3>4, <4>1, <4>2, OpenedLive
    <3> QED
      BY <2>1, <3>3, <3>4 DEF ReviseListing
  <2>2. CASE ApproveReview
    <3>1. active = 0
      BY <2>2 DEF ApproveReview, OneLiveWork, MachineStates, NewWorkByState
    <3> QED
      BY <2>2, <3>1, KeptLive DEF ApproveReview, reviewVars, MachineStates, NewWorkByState,
         workVars, Allocated
  <2>3. CASE RefreshEconomics
    <3>1. active = 0
      BY <2>3 DEF RefreshEconomics, OneLiveWork, MachineStates, NewWorkByState
    <3> QED
      BY <2>3, <3>1, OpenedLive DEF RefreshEconomics, MachineStates, NewWorkByState,
         WorkTypes, TypeOK, ReviewTyped
  <2>4. CASE CancelJob
    <3>1. CASE WorkMustSettle /\ state' = "cancel_requested" /\ UNCHANGED workVars
      BY <2>4, <3>1, KeptLive DEF CancelJob, WorkMustSettle, reviewVars, workVars, Allocated
    <3>2. CASE active' = 0 /\ state' = "cancelled" /\ lastWork' = lastWork
               /\ works' = IF active = 0 THEN works
                           ELSE [works EXCEPT ![active].status = "cancelled"]
      <4>1. \A w \in WorkId : works'[w].status \notin {"pending", "claimed", "dispatched"}
        BY <3>2 DEF OneLiveWork, TypeOK, WorkTyped, WorkId, Work
      <4> QED
        BY <3>2, <4>1 DEF OneLiveWork, MachineStates, NewWorkByState, TypeOK, WorkTyped, WorkId
    <3> QED
      BY <2>4, <3>1, <3>2 DEF CancelJob, CloseCancelled
  <2>5. CASE RetryJob
    <3>1. active = 0 /\ resume \in MachineStates
      BY <2>5 DEF RetryJob, OneLiveWork, RecordCoherent, TypeOK, JobTyped, MachineStates,
         NewWorkByState
    <3>2. NewWorkByState[resume] \in WorkTypes
      BY <3>1 DEF MachineStates, NewWorkByState, WorkTypes
    <3> QED
      BY <2>5, <3>1, <3>2, OpenedLive DEF RetryJob, reviewVars, TypeOK, ReviewTyped
  <2> QED
    BY <1>9, <2>1, <2>2, <2>3, <2>4, <2>5 DEF Seller
<1>10. CASE Settlement
  <2>1. CASE state' = "failed_retryable" /\ Held /\ CompleteWork
    BY <2>1, CompletedLive DEF MachineStates, NewWorkByState
  <2> QED
    BY <1>4, <1>5, <1>10, <2>1 DEF Settlement, RecordWorkerFailure, SettleCancellation,
       CloseCancelled, reviewVars, MachineStates, NewWorkByState, WorkTypes
<1>11. CASE Clock \/ UNCHANGED vars
  BY <1>1, <1>11 DEF Clock, PricingExpires, UploadDeadlinePasses, WriteDeadlinePasses, vars,
     jobVars, reviewVars
<1> QED
  BY <1>2, <1>3, <1>6, <1>7, <1>8, <1>9, <1>10, <1>11 DEF Next

LEMMA HeldWork ==
  ASSUME OneLiveWork, Held
  PROVE  /\ active # 0
         /\ \/ state = "cancel_requested"
            \/ state \in {"intake_validated", "analyzing_artwork", "listing_drafted"}
                 /\ WorkType = "prepare"
            \/ state = "product_draft_syncing" /\ WorkType = "synchronize_product"
            \/ state = "reconciliation_required" /\ WorkType = "reconcile_product"
            \/ state = "pricing_refreshing" /\ WorkType = "refresh_economics"
  BY DEF OneLiveWork, Held, MachineStates, NewWorkByState

\* The attempts' deadlines are all the clock moves in them.
LEMMA ClockKeeps ==
  ASSUME TypeOK, Clock
  PROVE  /\ upload'.work = upload.work /\ upload'.permit = upload.permit
         /\ upload'.consumer = upload.consumer
         /\ write'.work = write.work /\ write'.permit = write.permit
         /\ write'.consumer = write.consumer
         /\ UNCHANGED <<jobVars, workVars, review, valid, synced, uploaded, uploadUnconfirmed,
                       createClaimed, writeUnconfirmed, ledger>>
         /\ pricing' = pricing \/ pricing' = "stale"
  BY DEF Clock, PricingExpires, UploadDeadlinePasses, WriteDeadlinePasses, jobVars, workVars,
     reviewVars, uploadVars, writeVars, TypeOK, AttemptsTyped, UploadAttempt, WriteAttempt

LEMMA RecordStep ==
  ASSUME JobInv, TypeOK', [Next]_vars
  PROVE  RecordCoherent' /\ UploadFirst'
<1> USE DEF JobInv, RecordCoherent, UploadFirst, jobVars, reviewVars, uploadVars, writeVars
<1>1. CASE Dispatcher \/ UNCHANGED vars
  BY <1>1 DEF Dispatcher, ClaimWork, MarkWorkDispatched, vars
<1>2. CASE Preparation
  BY <1>2, HeldWork DEF Preparation, BeginPreparation, RecordPreparedReview, CompletePreparation,
     TypeOK, ReviewTyped, Review
<1>3. CASE ArtworkUpload
  <2>2. CASE BeginProviderUpload
    BY <2>2, HeldWork DEF BeginProviderUpload
  <2>3. CASE AuthorizeProviderUpload
    BY <2>3, HeldWork DEF AuthorizeProviderUpload, UploadAuthorized, TypeOK, AttemptsTyped,
         UploadAttempt
  <2>4. CASE RecordProviderUploadSuccess \/ UploadObservedTarget
    BY <2>4, HeldWork DEF RecordProviderUploadSuccess, UploadObservedTarget, ReconcilingUpload,
       Reconciling, Binds
  <2>5. CASE RecordProviderUploadOutcomeUnknown \/ UploadReadDeferred
             \/ \E conflict \in BOOLEAN : UploadReadEnded(conflict)
    BY <2>5, HeldWork DEF RecordProviderUploadOutcomeUnknown, UploadReadDeferred,
       UploadReadEnded, ReconcilingUpload, Reconciling
  <2> QED
    BY <1>3, <2>2, <2>3, <2>4, <2>5 DEF ArtworkUpload
<1>4. CASE ProductWrite
  <2>1. CASE BeginProviderCreate \/ BeginProviderUpdate \/ BeginExactUpdateRetry
    BY <2>1 DEF BeginProviderCreate, BeginProviderUpdate, BeginExactUpdateRetry, ClaimWrite,
       ReadyToWrite
  <2>2. CASE AuthorizeProviderCall
    BY <2>2 DEF AuthorizeProviderCall, CallAuthorized, TypeOK, AttemptsTyped, WriteAttempt
  <2>3. CASE RecordProductSyncSuccess \/ WriteObservedTarget
    BY <2>3, HeldWork DEF RecordProductSyncSuccess, WriteObservedTarget, ProductSynchronized,
       ReconcilingWrite, Reconciling, BindsWrite, Binds, TypeOK, ReviewTyped, Review
  <2>4. CASE RecordProductWriteOutcomeUnknown \/ WriteReadDeferred
    BY <2>4, HeldWork DEF RecordProductWriteOutcomeUnknown, WriteReadDeferred, BindsWrite,
       Binds, ReconcilingWrite, Reconciling
  <2>5. CASE WriteObservedPrior \/ \E conflict \in BOOLEAN : WriteReadEnded(conflict)
    BY <2>5, HeldWork DEF WriteObservedPrior, WriteReadEnded, EndReconciliation,
       ReconcilingWrite, Reconciling
  <2> QED
    BY <1>4, <2>1, <2>2, <2>3, <2>4, <2>5 DEF ProductWrite
<1>5. CASE RecordPricingSuccess
  BY <1>5, HeldWork DEF RecordPricingSuccess
<1>6. CASE Seller
  BY <1>6 DEF Seller, ReviseListing, ApproveReview, RefreshEconomics, CancelJob, RetryJob,
     CloseCancelled, TypeOK, JobTyped, ReviewTyped, Review, AttemptsTyped, UploadAttempt, 
     WriteAttempt, TerminalStates, MachineStates, NewWorkByState
<1>7. CASE Settlement
  BY <1>7, HeldWork DEF Settlement, RecordWorkerFailure, SettleCancellation, CloseCancelled,
     TypeOK, AttemptsTyped, UploadAttempt, WriteAttempt
<1>8. CASE Clock
  BY <1>8, ClockKeeps
<1> QED
  BY <1>1, <1>2, <1>3, <1>4, <1>5, <1>6, <1>7, <1>8 DEF Next

\* An unused permit stays under the flag of its attempt, an open call on a consumed one.
LEMMA PermitsStep ==
  ASSUME JobInv, TypeOK', [Next]_vars
  PROVE  PermitsFlagged'
<1> USE DEF JobInv, PermitsFlagged, jobVars, reviewVars, uploadVars, writeVars
<1>1. CASE Dispatcher \/ UNCHANGED vars
  BY <1>1 DEF Dispatcher, ClaimWork, MarkWorkDispatched, vars
<1>2. CASE Preparation \/ RecordPricingSuccess
  BY <1>2 DEF Preparation, BeginPreparation, RecordPreparedReview, CompletePreparation,
     RecordPricingSuccess
<1>3. CASE ArtworkUpload
  <2>1. CASE BeginProviderUpload
    BY <2>1 DEF BeginProviderUpload, RecordCoherent
  <2>2. CASE AuthorizeProviderUpload
    BY <2>2 DEF AuthorizeProviderUpload, UploadAuthorized, TypeOK, AttemptsTyped,
         UploadAttempt, LedgerTyped
  <2>3. CASE RecordProviderUploadSuccess
    BY <2>3 DEF RecordProviderUploadSuccess, ConsumedByActive, TypeOK, LedgerTyped
  <2>4. CASE UploadObservedTarget
    BY <2>4, HeldWork DEF UploadObservedTarget, ReconcilingUpload, Reconciling, FlagsByWork,
       UncertainPermit, TypeOK, LedgerTyped
  <2>5. CASE RecordProviderUploadOutcomeUnknown \/ UploadReadDeferred
             \/ \E conflict \in BOOLEAN : UploadReadEnded(conflict)
    BY <2>5 DEF RecordProviderUploadOutcomeUnknown, UploadReadDeferred, UploadReadEnded
  <2> QED
    BY <1>3, <2>1, <2>2, <2>3, <2>4, <2>5 DEF ArtworkUpload
<1>4. CASE ProductWrite
  <2>1. CASE BeginProviderCreate \/ BeginProviderUpdate \/ BeginExactUpdateRetry
    BY <2>1 DEF BeginProviderCreate, BeginProviderUpdate, BeginExactUpdateRetry, ClaimWrite,
       ReadyToWrite
  <2>2. CASE AuthorizeProviderCall
    <3>1. /\ write'.permit = "consumed" /\ ledger'.uploadOpen = ledger.uploadOpen
      BY <2>2 DEF AuthorizeProviderCall, CallAuthorized, TypeOK, AttemptsTyped, WriteAttempt,
           LedgerTyped
    <3> QED
      BY <2>2, <3>1 DEF AuthorizeProviderCall, CallAuthorized
  <2>3. CASE RecordProductSyncSuccess \/ WriteObservedTarget
    <3>1. write.permit # "available" /\ ledger'.uploadOpen = ledger.uploadOpen
          /\ ledger'.writeOpen = FALSE
      BY <2>3, HeldWork DEF RecordProductSyncSuccess, WriteObservedTarget, ProductSynchronized,
         ConsumedByActive, ReconcilingWrite, Reconciling, FlagsByWork, UncertainPermit, TypeOK,
         LedgerTyped
    <3> QED
      BY <2>3, <3>1 DEF RecordProductSyncSuccess, WriteObservedTarget, ProductSynchronized
  <2>4. CASE RecordProductWriteOutcomeUnknown \/ WriteReadDeferred
    BY <2>4 DEF RecordProductWriteOutcomeUnknown, WriteReadDeferred
  <2>5. CASE WriteObservedPrior \/ \E conflict \in BOOLEAN : WriteReadEnded(conflict)
    <3>1. write.permit # "available" /\ UNCHANGED <<write, upload, uploadUnconfirmed>>
      BY <2>5, HeldWork DEF WriteObservedPrior, WriteReadEnded, EndReconciliation,
         ReconcilingWrite, Reconciling, FlagsByWork, UncertainPermit
    <3>2. /\ ledger'.uploadOpen = ledger.uploadOpen
          /\ ledger'.writeOpen => ledger.writeOpen /\ writeUnconfirmed'
      BY <2>5 DEF WriteObservedPrior, WriteReadEnded, EndReconciliation, TypeOK, LedgerTyped
    <3> QED
      BY <3>1, <3>2
  <2> QED
    BY <1>4, <2>1, <2>2, <2>3, <2>4, <2>5 DEF ProductWrite
<1>5. ASSUME CloseCancelled, ledger' = ledger,
             active # 0 /\ ~ProductWriteWork => ~Uncertain
      PROVE  PermitsFlagged'
  BY <1>5 DEF CloseCancelled, ProductWriteWork, MustReconcile, UncertainPermit, Uncertain,
     TypeOK, AttemptsTyped, UploadAttempt, WriteAttempt, RecordCoherent, UploadFirst
<1>6. active # 0 /\ ~ProductWriteWork => ~Uncertain
  BY DEF FlagsByWork, ProductWriteWork, Allocated, WorkTypes
<1>7. CASE Seller
  BY <1>5, <1>6, <1>7 DEF Seller, ReviseListing, ApproveReview, RefreshEconomics, CancelJob,
     RetryJob
<1>8. CASE Settlement
  BY <1>5, <1>6, <1>8 DEF Settlement, RecordWorkerFailure, SettleCancellation
<1>9. CASE Clock
  BY <1>9, ClockKeeps
<1> QED
  BY <1>1, <1>2, <1>3, <1>4, <1>7, <1>8, <1>9 DEF Next

\* What a command does to the active work: nothing but its status, or it settles it, or it
\* opens a new one.
LEMMA WorkSteps ==
  ASSUME JobInv, [Next]_vars
  PROVE  \/ /\ UNCHANGED <<active, lastWork>>
            /\ active # 0 => WorkType' = WorkType
         \/ active' = 0 /\ lastWork' = lastWork
         \/ \E t \in WorkTypes : (Held /\ ReplaceWork(t)) \/ (active = 0 /\ OpenWork(t, review'))
<1> USE DEF JobInv
<1>1. CASE Dispatcher
  <2>1. UNCHANGED <<active, lastWork>>
    BY <1>1 DEF Dispatcher, ClaimWork, MarkWorkDispatched
  <2>2. active # 0 => works'[active].type = works[active].type
    BY <1>1 DEF Dispatcher, ClaimWork, MarkWorkDispatched, TypeOK, WorkTyped, WorkId, Work
  <2> QED
    BY <2>1, <2>2 DEF WorkType
<1>2. CASE Preparation \/ RecordPricingSuccess
  BY <1>2 DEF Preparation, BeginPreparation, RecordPreparedReview, CompletePreparation,
     RecordPricingSuccess, CompleteWork, workVars, WorkType, WorkTypes
<1>3. CASE ArtworkUpload
  BY <1>3 DEF ArtworkUpload, BeginProviderUpload, AuthorizeProviderUpload, UploadAuthorized,
       RecordProviderUploadSuccess, RecordProviderUploadOutcomeUnknown, UploadObservedTarget,
       UploadReadDeferred, UploadReadEnded, ReconcilingUpload, Reconciling, CompleteWork,
       workVars, WorkType, WorkTypes
<1>4. CASE ProductWrite
  BY <1>4 DEF ProductWrite, BeginProviderCreate, BeginProviderUpdate, BeginExactUpdateRetry,
       AuthorizeProviderCall, CallAuthorized, RecordProductSyncSuccess,
       RecordProductWriteOutcomeUnknown, WriteObservedTarget, WriteObservedPrior,
       WriteReadDeferred, WriteReadEnded, ClaimWrite, ProductSynchronized, EndReconciliation,
       ReconcilingWrite, Reconciling, CompleteWork, workVars, WorkType, WorkTypes
<1>5. CASE Seller
  <2>1. CASE RetryJob
    <3>1. active = 0 /\ resume \in MachineStates
      BY <2>1 DEF RetryJob, OneLiveWork, RecordCoherent, TypeOK, JobTyped, MachineStates,
         NewWorkByState
    <3>2. NewWorkByState[resume] \in WorkTypes
      BY <3>1 DEF MachineStates, NewWorkByState, WorkTypes
    <3> QED
      BY <2>1, <3>1, <3>2 DEF RetryJob, reviewVars
  <2>2. CASE (\E passed \in BOOLEAN : ReviseListing(passed)) \/ RefreshEconomics
    <3>1. active = 0
      BY <2>2 DEF ReviseListing, RefreshEconomics, OneLiveWork, MachineStates, NewWorkByState
    <3> QED
      BY <2>2, <3>1 DEF ReviseListing, RefreshEconomics, workVars, WorkTypes
  <2> QED
    BY <1>5, <2>1, <2>2 DEF Seller, ApproveReview, CancelJob, workVars, WorkType
<1>6. CASE Settlement
  BY <1>6 DEF Settlement, RecordWorkerFailure, SettleCancellation, CompleteWork, workVars,
     WorkType, WorkTypes
<1>7. CASE Clock \/ UNCHANGED vars
  BY <1>7, ClockKeeps DEF vars, workVars, WorkType
<1> QED
  BY <1>1, <1>2, <1>3, <1>4, <1>5, <1>6, <1>7 DEF Next

LEMMA WorkMoves ==
  ASSUME JobInv, [Next]_vars
  PROVE  \/ /\ UNCHANGED <<active, lastWork>>
            /\ active # 0 => WorkType' = WorkType
         \/ active' = 0 /\ lastWork' = lastWork
         \/ active' = lastWork + 1 /\ lastWork' = lastWork + 1 /\ WorkType' \in WorkTypes
<1>1. ASSUME NEW t \in WorkTypes, ReplaceWork(t) \/ OpenWork(t, review')
      PROVE  active' = lastWork + 1 /\ lastWork' = lastWork + 1 /\ WorkType' = t
  <2>1. active' = lastWork + 1 /\ lastWork' = lastWork + 1 /\ lastWork + 1 \in WorkId
    BY <1>1, BoundsAssumption DEF ReplaceWork, OpenWork, JobInv, TypeOK, WorkTyped, WorkId
  <2>2. works'[lastWork + 1].type = t
    BY <1>1, <2>1 DEF ReplaceWork, OpenWork, JobInv, TypeOK, WorkTyped
  <2> QED
    BY <2>1, <2>2 DEF WorkType
<1> QED
  BY <1>1, WorkSteps

\* A permit is consumed by the active synchronization, which stays active, and by no other
\* work later.
ConsumedBy(old, new) ==
  \/ new.consumer = old.consumer /\ (new.permit = "consumed" => old.permit = "consumed")
  \/ new.consumer = 0 /\ new.permit = "available"
  \/ new.consumer = active /\ WorkType = "synchronize_product" /\ UNCHANGED workVars

LEMMA ConsumerMoves ==
  ASSUME JobInv, [Next]_vars
  PROVE  ConsumedBy(upload, upload') /\ ConsumedBy(write, write')
<1> USE DEF JobInv, ConsumedBy, uploadVars, writeVars
<1>1. CASE Dispatcher \/ Preparation \/ RecordPricingSuccess \/ UNCHANGED vars
  BY <1>1 DEF Dispatcher, ClaimWork, MarkWorkDispatched, Preparation, BeginPreparation,
     RecordPreparedReview, CompletePreparation, RecordPricingSuccess, vars
<1>2. CASE ArtworkUpload
  <2>1. CASE BeginProviderUpload
    BY <2>1 DEF BeginProviderUpload
  <2>2. CASE AuthorizeProviderUpload
    BY <2>2 DEF AuthorizeProviderUpload, UploadAuthorized, TypeOK, AttemptsTyped,
         UploadAttempt
  <2> QED
    BY <1>2, <2>1, <2>2 DEF ArtworkUpload, RecordProviderUploadSuccess, UploadReadDeferred,
       RecordProviderUploadOutcomeUnknown, UploadObservedTarget, UploadReadEnded
<1>3. CASE ProductWrite
  <2>1. CASE BeginProviderCreate \/ BeginProviderUpdate \/ BeginExactUpdateRetry
    BY <2>1 DEF BeginProviderCreate, BeginProviderUpdate, BeginExactUpdateRetry, ClaimWrite
  <2>2. CASE AuthorizeProviderCall
    BY <2>2 DEF AuthorizeProviderCall, CallAuthorized, TypeOK, AttemptsTyped, WriteAttempt
  <2> QED
    BY <1>3, <2>1, <2>2 DEF ProductWrite, RecordProductSyncSuccess, WriteObservedTarget,
       RecordProductWriteOutcomeUnknown, WriteObservedPrior, WriteReadDeferred,
       WriteReadEnded, ProductSynchronized, EndReconciliation
<1>4. ASSUME CloseCancelled PROVE ConsumedBy(upload, upload') /\ ConsumedBy(write, write')
  BY <1>4 DEF CloseCancelled, TypeOK, AttemptsTyped, UploadAttempt, WriteAttempt
<1>5. CASE Seller
  BY <1>4, <1>5 DEF Seller, ReviseListing, ApproveReview, RefreshEconomics, CancelJob, RetryJob
<1>6. CASE Settlement
  BY <1>4, <1>6 DEF Settlement, RecordWorkerFailure, SettleCancellation
<1>7. CASE Clock
  BY <1>7, ClockKeeps
<1> QED
  BY <1>1, <1>2, <1>3, <1>5, <1>6, <1>7 DEF Next

LEMMA AllocatedStep ==
  ASSUME JobInv, TypeOK', [Next]_vars
  PROVE  Allocated'
<1> USE DEF JobInv
<1>1. active' <= lastWork'
  BY OneLiveStep
<1>2. lastWork <= lastWork'
  BY WorkMoves DEF TypeOK, WorkTyped, WorkId
<1>3. upload'.consumer <= lastWork' /\ write'.consumer <= lastWork'
  <2>1. /\ upload'.consumer \in {0, upload.consumer, active}
        /\ write'.consumer \in {0, write.consumer, active}
    BY ConsumerMoves DEF ConsumedBy
  <2> QED
    BY <1>2, <2>1 DEF Allocated, TypeOK, WorkTyped, WorkId, AttemptsTyped, UploadAttempt,
       WriteAttempt
<1>4. active' # 0 => WorkType' \in WorkTypes
  BY WorkMoves DEF Allocated
<1> QED
  BY <1>1, <1>3, <1>4 DEF Allocated

\* A consumed permit never passes to work of another kind.
LEMMA ConsumerStep ==
  ASSUME JobInv, TypeOK', [Next]_vars
  PROVE  active' # 0 /\ (ConsumedByActive(upload)' \/ ConsumedByActive(write)')
           => WorkType' = "synchronize_product"
<1> SUFFICES ASSUME active' # 0, ConsumedByActive(upload)' \/ ConsumedByActive(write)'
             PROVE  WorkType' = "synchronize_product"
  OBVIOUS
<1> USE DEF JobInv
<1>1. CASE UNCHANGED workVars
  BY <1>1, ConsumerMoves DEF ConsumedBy, ConsumedByActive, FlagsByWork, workVars, WorkType
<1>2. CASE ~UNCHANGED workVars
  <2>1. /\ upload'.permit = "consumed" => upload.permit = "consumed"
        /\ write'.permit = "consumed" => write.permit = "consumed"
    BY <1>2, ConsumerMoves DEF ConsumedBy
  <2>2. /\ upload'.permit = "consumed" => upload'.consumer = upload.consumer
        /\ write'.permit = "consumed" => write'.consumer = write.consumer
    BY <1>2, ConsumerMoves DEF ConsumedBy
  <2>3. active' = active /\ WorkType' = WorkType
    BY <2>1, <2>2, WorkMoves DEF ConsumedByActive, Allocated, TypeOK, WorkTyped, WorkId,
       AttemptsTyped, UploadAttempt, WriteAttempt
  <2> QED
    BY <2>1, <2>2, <2>3 DEF ConsumedByActive, FlagsByWork
<1> QED
  BY <1>1, <1>2

LEMMA NewType ==
  ASSUME JobInv, NEW t \in WorkTypes, ReplaceWork(t) \/ OpenWork(t, review')
  PROVE  WorkType' = t
<1>1. active' = lastWork + 1 /\ lastWork + 1 \in WorkId
  BY BoundsAssumption DEF ReplaceWork, OpenWork, JobInv, TypeOK, WorkTyped, WorkId
<1>2. works'[lastWork + 1].type = t
  BY <1>1 DEF ReplaceWork, OpenWork, JobInv, TypeOK, WorkTyped
<1> QED
  BY <1>1, <1>2 DEF WorkType

\* What is uncertain while each kind of work is active, and after a failure.
UncertaintyPlaced ==
  /\ active # 0 /\ WorkType \in {"prepare", "refresh_economics"} => ~Uncertain
  /\ active # 0 /\ WorkType = "reconcile_product" => UncertainPermit = "consumed"
  /\ state = "failed_retryable" /\ resume # "product_draft_syncing" => ~Uncertain

LEMMA UncertaintyStep ==
  ASSUME JobInv, TypeOK', [Next]_vars
  PROVE  UncertaintyPlaced'
<1> USE DEF JobInv, FlagsByWork, ResumeSound, UncertaintyPlaced, Uncertain, UncertainPermit,
            WorkTypes, jobVars, workVars, reviewVars, uploadVars, writeVars
<1>1. ASSUME CompleteWork, state' \in {"needs_revision", "cancelled", "failed_terminal",
                                      "awaiting_approval"}
      PROVE  UncertaintyPlaced'
  BY <1>1 DEF CompleteWork
<1>2. ASSUME UNCHANGED <<active, state, resume, upload, uploadUnconfirmed, write,
                         writeUnconfirmed>>,
             active # 0 => WorkType' = WorkType
      PROVE  UncertaintyPlaced'
  BY <1>2
<1>3. CASE Dispatcher \/ UNCHANGED vars
  <2>1. active # 0 => works'[active].type = works[active].type
    BY <1>3 DEF Dispatcher, ClaimWork, MarkWorkDispatched, TypeOK, WorkTyped, WorkId, Work, vars
  <2> QED
    BY <1>2, <1>3, <2>1 DEF Dispatcher, ClaimWork, MarkWorkDispatched, WorkType, vars
<1>4. CASE Preparation
  <2>1. CASE BeginPreparation \/ \E passed \in BOOLEAN : RecordPreparedReview(passed)
    BY <2>1 DEF BeginPreparation, RecordPreparedReview, WorkType
  <2>2. CASE CompletePreparation
    BY <1>1, <2>2, NewType DEF CompletePreparation
  <2> QED
    BY <1>4, <2>1, <2>2 DEF Preparation
<1>5. CASE ArtworkUpload
  <2>1. CASE BeginProviderUpload \/ AuthorizeProviderUpload \/ RecordProviderUploadSuccess
    <3>1. WorkType = "synchronize_product" /\ WorkType' = WorkType
      BY <2>1, HeldWork DEF BeginProviderUpload, AuthorizeProviderUpload, UploadAuthorized,
           RecordProviderUploadSuccess, WorkType
    <3> QED
      BY <2>1, <3>1 DEF BeginProviderUpload, AuthorizeProviderUpload, UploadAuthorized,
           RecordProviderUploadSuccess
  <2>2. CASE UploadObservedTarget
    BY <1>1, <2>2, NewType DEF UploadObservedTarget
  <2>3. CASE RecordProviderUploadOutcomeUnknown
    BY <2>3, NewType DEF RecordProviderUploadOutcomeUnknown, ConsumedByActive
  <2>4. CASE UploadReadDeferred
    BY <2>4, NewType, HeldWork DEF UploadReadDeferred, ReconcilingUpload, Reconciling
  <2>5. CASE \E conflict \in BOOLEAN : UploadReadEnded(conflict)
    BY <1>1, <2>5 DEF UploadReadEnded
  <2> QED
    BY <1>5, <2>1, <2>2, <2>3, <2>4, <2>5 DEF ArtworkUpload
<1>6. CASE ProductWrite
  <2>1. CASE BeginProviderCreate \/ BeginProviderUpdate \/ BeginExactUpdateRetry
             \/ AuthorizeProviderCall
    <3>1. WorkType = "synchronize_product" /\ WorkType' = WorkType
      BY <2>1, HeldWork DEF BeginProviderCreate, BeginProviderUpdate, BeginExactUpdateRetry,
           AuthorizeProviderCall, CallAuthorized, ReadyToWrite, ClaimWrite, WorkType
    <3> QED
      BY <2>1, <3>1 DEF BeginProviderCreate, BeginProviderUpdate, BeginExactUpdateRetry,
           AuthorizeProviderCall, CallAuthorized, ReadyToWrite, ClaimWrite
  <2>2. CASE RecordProductSyncSuccess \/ WriteObservedTarget
    <3>1. ~uploadUnconfirmed
      BY <2>2 DEF RecordProductSyncSuccess, WriteObservedTarget, ReconcilingWrite, BindsWrite,
         Binds, UploadFirst
    <3> QED
      BY <1>1, <2>2, <3>1, NewType DEF RecordProductSyncSuccess, WriteObservedTarget,
         ProductSynchronized
  <2>3. CASE RecordProductWriteOutcomeUnknown
    BY <2>3, NewType DEF RecordProductWriteOutcomeUnknown, BindsWrite, Binds, UploadFirst,
       ConsumedByActive
  <2>4. CASE WriteReadDeferred
    BY <2>4, NewType, HeldWork DEF WriteReadDeferred, ReconcilingWrite, Reconciling
  <2>5. CASE WriteObservedPrior \/ \E conflict \in BOOLEAN : WriteReadEnded(conflict)
    BY <1>1, <2>5, NewType DEF WriteObservedPrior, WriteReadEnded, EndReconciliation
  <2> QED
    BY <1>6, <2>1, <2>2, <2>3, <2>4, <2>5 DEF ProductWrite
<1>7. CASE RecordPricingSuccess
  BY <1>1, <1>7 DEF RecordPricingSuccess
<1>8. CASE Seller
  <2>1. CASE \E passed \in BOOLEAN : ReviseListing(passed)
    <3>1. active = 0
      BY <2>1 DEF ReviseListing, OneLiveWork, MachineStates, NewWorkByState
    <3> QED
      BY <2>1, <3>1, NewType DEF ReviseListing
  <2>2. CASE ApproveReview
    BY <2>2 DEF ApproveReview, OneLiveWork, MachineStates, NewWorkByState
  <2>3. CASE RefreshEconomics
    BY <2>3, NewType DEF RefreshEconomics
  <2>4. CASE CancelJob
    BY <2>4 DEF CancelJob, WorkType, CloseCancelled
  <2>5. CASE RetryJob
    <3>1. active = 0 /\ resume \in MachineStates \ {"reconciliation_required"}
      BY <2>5 DEF RetryJob, OneLiveWork, RecordCoherent, TypeOK, JobTyped, MachineStates,
         NewWorkByState
    <3>2. NewWorkByState[resume] \in WorkTypes /\ NewWorkByState[resume] # "reconcile_product"
          /\ (resume # "product_draft_syncing" => ~Uncertain)
          /\ (resume = "product_draft_syncing" => NewWorkByState[resume] = "synchronize_product")
      BY <2>5, <3>1 DEF MachineStates, NewWorkByState, RetryJob
    <3>3. WorkType' = NewWorkByState[resume]
      BY <2>5, <3>2, NewType DEF RetryJob
    <3> QED
      BY <2>5, <3>2, <3>3 DEF RetryJob
  <2> QED
    BY <1>8, <2>1, <2>2, <2>3, <2>4, <2>5 DEF Seller
<1>9. CASE Settlement
  <2>1. CASE SettleCancellation
    BY <1>1, <2>1, NewType DEF SettleCancellation, CloseCancelled, MustReconcile
  <2>2. ASSUME NEW code \in {"unavailable", "other"}, RecordWorkerFailure(code)
        PROVE  UncertaintyPlaced'
    <3> Held /\ active # 0
      BY <2>2 DEF RecordWorkerFailure, Held
    <3>1. CASE ReplaceWork("reconcile_product") /\ UNCHANGED <<resume, uploadVars, writeVars>>
               /\ state' = "reconciliation_required"
               /\ (WorkType = "reconcile_product" \/ UncertainPermit = "consumed")
      BY <3>1, NewType
    <3>2. CASE CompleteWork /\ state' = "failed_retryable"
      <4>1. /\ WorkType # "reconcile_product" /\ UNCHANGED <<uploadVars, writeVars>>
            /\ WorkType = "synchronize_product" => resume' = "product_draft_syncing"
        BY <2>2, <3>2 DEF RecordWorkerFailure, Retryable, CloseCancelled
      <4>2. WorkType # "synchronize_product" => ~Uncertain
        BY <4>1 DEF Allocated
      <4> QED
        BY <3>2, <4>1, <4>2 DEF CompleteWork
    <3>3. CASE CompleteWork /\ state' \in {"cancelled", "failed_terminal"}
      BY <1>1, <3>3
    <3> QED
      BY <2>2, <3>1, <3>2, <3>3 DEF RecordWorkerFailure, CloseCancelled, Transient,
         OutcomeUnknown
  <2> QED
    BY <1>9, <2>1, <2>2 DEF Settlement
<1>10. CASE Clock
  BY <1>10, ClockKeeps DEF WorkType
<1> QED
  BY <1>3, <1>4, <1>5, <1>6, <1>7, <1>8, <1>9, <1>10 DEF Next

LEMMA AmbiguityStep ==
  ASSUME JobInv, TypeOK', [Next]_vars
  PROVE  AmbiguityKept'
<1> DEFINE Ended == state \in {"failed_terminal", "cancelled"}
           Tended(attempt) == active # 0 /\ (WorkType = "reconcile_product"
                                              \/ attempt.consumer = active)
<1> SUFFICES ASSUME ~Ended'
             PROVE  /\ ledger'.uploadOpen => Tended(upload)'
                    /\ ledger'.writeOpen => Tended(write)'
  BY PermitsStep DEF AmbiguityKept, PermitsFlagged
<1> USE DEF JobInv, WorkTypes, jobVars, workVars, reviewVars, uploadVars, writeVars
<1>1. /\ ledger.uploadOpen => /\ uploadUnconfirmed /\ upload.permit = "consumed"
                              /\ ~Ended => Tended(upload)
      /\ ledger.writeOpen => /\ writeUnconfirmed /\ write.permit = "consumed"
                             /\ ~Ended => Tended(write)
      /\ ledger.uploadOpen => ~ledger.writeOpen
  BY DEF AmbiguityKept, PermitsFlagged, RecordCoherent
<1>2. ASSUME ~Ended, UNCHANGED <<active, ledger>>, active # 0 => WorkType' = WorkType,
             upload'.consumer = upload.consumer, write'.consumer = write.consumer
      PROVE  (ledger'.uploadOpen => Tended(upload)') /\ (ledger'.writeOpen => Tended(write)')
  BY <1>1, <1>2
<1>3. ASSUME ReplaceWork("reconcile_product")
      PROVE  Tended(upload)' /\ Tended(write)'
  BY <1>3, NewType DEF ReplaceWork, TypeOK, WorkTyped, WorkId
<1>4. CASE Dispatcher
  <2>1. active # 0 /\ works'[active].type = works[active].type
    BY <1>4 DEF Dispatcher, ClaimWork, MarkWorkDispatched, TypeOK, WorkTyped, WorkId, Work
  <2> QED
    BY <1>2, <1>4, <2>1 DEF Dispatcher, ClaimWork, MarkWorkDispatched, WorkType
<1>5. CASE Preparation
  <2>1. active # 0 /\ WorkType = "prepare" /\ ~Ended
    BY <1>5, HeldWork DEF Preparation, BeginPreparation, RecordPreparedReview,
       CompletePreparation
  <2>2. ~ledger.uploadOpen /\ ~ledger.writeOpen
    BY <1>1, <2>1 DEF FlagsByWork, Uncertain
  <2> QED
    BY <1>5, <2>2 DEF Preparation, BeginPreparation, RecordPreparedReview, CompletePreparation
<1>6. CASE ArtworkUpload
  <2>1. CASE BeginProviderUpload
    <3>1. ~ledger.uploadOpen /\ ~ledger.writeOpen
      BY <1>1, <2>1 DEF BeginProviderUpload, RecordCoherent
    <3> QED
      BY <2>1, <3>1 DEF BeginProviderUpload
  <2>2. CASE AuthorizeProviderUpload
    <3>1. ~ledger.writeOpen /\ active # 0
      BY <1>1, <2>2, HeldWork DEF AuthorizeProviderUpload, UploadAuthorized
    <3>2. upload'.consumer = active /\ ledger'.writeOpen = ledger.writeOpen
      BY <2>2 DEF AuthorizeProviderUpload, UploadAuthorized, TypeOK, AttemptsTyped,
           UploadAttempt, LedgerTyped
    <3> QED
      BY <2>2, <3>1, <3>2 DEF AuthorizeProviderUpload, UploadAuthorized
  <2>3. CASE RecordProviderUploadSuccess \/ UploadObservedTarget
    <3>1. ledger'.uploadOpen = FALSE /\ ledger'.writeOpen = ledger.writeOpen
      BY <2>3 DEF RecordProviderUploadSuccess, UploadObservedTarget, TypeOK, LedgerTyped
    <3>2. CASE RecordProviderUploadSuccess
      BY <1>1, <3>1, <3>2 DEF RecordProviderUploadSuccess, WorkType
    <3>3. CASE UploadObservedTarget
      BY <1>1, <3>1, <3>3 DEF UploadObservedTarget, ReconcilingUpload
    <3> QED
      BY <2>3, <3>2, <3>3
  <2>4. CASE RecordProviderUploadOutcomeUnknown \/ UploadReadDeferred
    BY <1>3, <2>4 DEF RecordProviderUploadOutcomeUnknown, UploadReadDeferred
  <2>5. CASE \E conflict \in BOOLEAN : UploadReadEnded(conflict)
    BY <2>5 DEF UploadReadEnded
  <2> QED
    BY <1>6, <2>1, <2>2, <2>3, <2>4, <2>5 DEF ArtworkUpload
<1>7. CASE ProductWrite
  <2>1. CASE BeginProviderCreate \/ BeginProviderUpdate \/ BeginExactUpdateRetry
    <3>1. ~ledger.uploadOpen /\ ~ledger.writeOpen
      BY <1>1, <2>1 DEF BeginProviderCreate, BeginProviderUpdate, BeginExactUpdateRetry,
         ReadyToWrite
    <3> QED
      BY <2>1, <3>1 DEF BeginProviderCreate, BeginProviderUpdate, BeginExactUpdateRetry,
         ClaimWrite
  <2>2. CASE AuthorizeProviderCall
    <3>1. ~ledger.uploadOpen /\ active # 0
      BY <1>1, <2>2, HeldWork DEF AuthorizeProviderCall, CallAuthorized
    <3>2. write'.consumer = active /\ ledger'.uploadOpen = ledger.uploadOpen
      BY <2>2 DEF AuthorizeProviderCall, CallAuthorized, TypeOK, AttemptsTyped, WriteAttempt,
           LedgerTyped
    <3> QED
      BY <2>2, <3>1, <3>2 DEF AuthorizeProviderCall, CallAuthorized
  <2>3. CASE RecordProductSyncSuccess \/ WriteObservedTarget
    <3>1. ledger'.writeOpen = FALSE /\ ledger'.uploadOpen = ledger.uploadOpen
      BY <2>3 DEF RecordProductSyncSuccess, WriteObservedTarget, ProductSynchronized, TypeOK,
         LedgerTyped
    <3>2. ~ledger.uploadOpen
      BY <1>1, <2>3 DEF RecordProductSyncSuccess, WriteObservedTarget, ReconcilingWrite,
         BindsWrite, Binds, UploadFirst
    <3> QED
      BY <3>1, <3>2
  <2>4. CASE RecordProductWriteOutcomeUnknown \/ WriteReadDeferred
    BY <1>3, <2>4 DEF RecordProductWriteOutcomeUnknown, WriteReadDeferred
  <2>5. CASE WriteObservedPrior
    <3>1. ~ledger.uploadOpen
      BY <1>1, <2>5 DEF WriteObservedPrior, ReconcilingWrite
    <3>2. CASE state' \in {"cancelled", "failed_terminal"}
      BY <3>2
    <3>3. CASE ledger' = [ledger EXCEPT !.writeOpen = FALSE]
      BY <3>1, <3>3 DEF TypeOK, LedgerTyped
    <3> QED
      BY <2>5, <3>2, <3>3 DEF WriteObservedPrior, EndReconciliation
  <2>6. CASE \E conflict \in BOOLEAN : WriteReadEnded(conflict)
    BY <2>6 DEF WriteReadEnded, EndReconciliation
  <2> QED
    BY <1>7, <2>1, <2>2, <2>3, <2>4, <2>5, <2>6 DEF ProductWrite
<1>8. CASE RecordPricingSuccess
  <2>1. active # 0 /\ WorkType = "refresh_economics" /\ ~Ended
    BY <1>8, HeldWork DEF RecordPricingSuccess
  <2>2. ~ledger.uploadOpen /\ ~ledger.writeOpen
    BY <1>1, <2>1 DEF FlagsByWork, Uncertain
  <2> QED
    BY <1>8, <2>2 DEF RecordPricingSuccess
<1>9. CASE Seller
  <2>1. CASE ~CancelJob
    <3>1. active = 0 /\ ~Ended /\ ledger' = ledger
      BY <1>9, <2>1 DEF Seller, ReviseListing, ApproveReview, RefreshEconomics, RetryJob,
         OneLiveWork, MachineStates, NewWorkByState
    <3> QED
      BY <1>1, <3>1
  <2>2. CASE CancelJob
    <3>1. ~Ended /\ UNCHANGED <<active, works, upload, write, ledger>>
      BY <2>2 DEF CancelJob, CloseCancelled, TerminalStates
    <3> QED
      BY <1>2, <3>1 DEF WorkType
  <2> QED
    BY <2>1, <2>2
<1>10. CASE Settlement
  <2>1. CASE SettleCancellation
    BY <1>3, <2>1 DEF SettleCancellation, CloseCancelled
  <2>2. ASSUME NEW code \in {"unavailable", "other"}, RecordWorkerFailure(code)
        PROVE  (ledger'.uploadOpen => Tended(upload)') /\ (ledger'.writeOpen => Tended(write)')
    <3>1. CASE ReplaceWork("reconcile_product")
      BY <1>3, <3>1
    <3>2. CASE state' = "failed_retryable" /\ ~OutcomeUnknown
      <4>1. Held /\ active # 0 /\ WorkType # "reconcile_product" /\ ledger' = ledger /\ ~Ended
        BY <2>2, <3>2, HeldWork DEF RecordWorkerFailure, Retryable, CloseCancelled
      <4>2. WorkType # "synchronize_product" => ~Uncertain
        BY <4>1 DEF FlagsByWork, Allocated
      <4>3. ~ledger.uploadOpen /\ ~ledger.writeOpen
        BY <1>1, <3>2, <4>1, <4>2 DEF Uncertain, OutcomeUnknown, UncertainPermit, RecordCoherent
      <4> QED
        BY <4>1, <4>3
    <3> QED
      BY <2>2, <3>1, <3>2 DEF RecordWorkerFailure, CloseCancelled
  <2> QED
    BY <1>10, <2>1, <2>2 DEF Settlement
<1>11. CASE Clock
  BY <1>2, <1>11, ClockKeeps DEF WorkType
<1>12. CASE UNCHANGED vars
  BY <1>2, <1>12 DEF vars, WorkType
<1> QED
  BY <1>4, <1>5, <1>6, <1>7, <1>8, <1>9, <1>10, <1>11, <1>12 DEF Next

LEMMA ClosedStep ==
  ASSUME JobInv, TypeOK', [Next]_vars
  PROVE  NoPermitAfterClose'
<1> USE DEF JobInv, NoPermitAfterClose, PermitsFlagged, jobVars, reviewVars, uploadVars, writeVars
<1>1. ASSUME ~Uncertain, UNCHANGED <<upload, write>> PROVE NoPermitAfterClose'
  BY <1>1 DEF Uncertain
<1>2. ASSUME UNCHANGED <<upload, write>>, upload.permit # "available", write.permit # "available"
      PROVE NoPermitAfterClose'
  BY <1>2
<1>3. ASSUME Reconciling, UNCHANGED <<upload, write>> PROVE NoPermitAfterClose'
  <2>1. UncertainPermit = "consumed"
    BY <1>3, HeldWork DEF Reconciling, FlagsByWork
  <2>2. upload.permit # "available" /\ write.permit # "available"
    BY <2>1 DEF UncertainPermit, RecordCoherent
  <2> QED
    BY <1>2, <1>3, <2>2
<1>4. ASSUME CloseCancelled, UNCHANGED ledger PROVE NoPermitAfterClose'
  BY <1>4, PermitsStep DEF CloseCancelled
<1>5. CASE Dispatcher \/ UNCHANGED vars
  BY <1>5 DEF Dispatcher, ClaimWork, MarkWorkDispatched, vars
<1>6. CASE Preparation
  BY <1>6 DEF Preparation, BeginPreparation, RecordPreparedReview, CompletePreparation
<1>7. CASE ArtworkUpload
  BY <1>3, <1>7 DEF ArtworkUpload, BeginProviderUpload, AuthorizeProviderUpload,
       UploadAuthorized, RecordProviderUploadSuccess, RecordProviderUploadOutcomeUnknown,
       UploadObservedTarget, UploadReadDeferred, UploadReadEnded, ReconcilingUpload,
       Reconciling, OneLiveWork, Held, MachineStates, NewWorkByState
<1>8. CASE ProductWrite
  <2>1. CASE RecordProductSyncSuccess
    <3>1. upload.permit # "available" /\ write.permit # "available"
      BY <2>1 DEF RecordProductSyncSuccess, ConsumedByActive, BindsWrite, Binds, UploadFirst
    <3> QED
      BY <1>2, <2>1, <3>1 DEF RecordProductSyncSuccess, ProductSynchronized
  <2> QED
    BY <1>3, <1>8, <2>1 DEF ProductWrite, BeginProviderCreate, BeginProviderUpdate,
         BeginExactUpdateRetry, AuthorizeProviderCall, CallAuthorized,
         RecordProductWriteOutcomeUnknown, WriteObservedTarget, WriteObservedPrior,
         WriteReadDeferred, WriteReadEnded, ReadyToWrite, ClaimWrite, ProductSynchronized,
         EndReconciliation, ReconcilingWrite
<1>9. CASE RecordPricingSuccess
  <2>1. ~Uncertain
    BY <1>9, HeldWork DEF RecordPricingSuccess, FlagsByWork
  <2> QED
    BY <1>1, <1>9, <2>1 DEF RecordPricingSuccess
<1>10. CASE Seller
  BY <1>1, <1>4, <1>10 DEF Seller, ReviseListing, ApproveReview, RefreshEconomics, CancelJob,
     RetryJob, ResumeSound, Uncertain
<1>11. CASE Settlement
  BY <1>4, <1>11 DEF Settlement, RecordWorkerFailure, SettleCancellation
<1>12. CASE Clock
  BY <1>12, ClockKeeps
<1> QED
  BY <1>5, <1>6, <1>7, <1>8, <1>9, <1>10, <1>11, <1>12 DEF Next

LEMMA ResumeSoundStep ==
  ASSUME JobInv, TypeOK', [Next]_vars
  PROVE  ResumeSound'
<1>1. resume' \in {resume, "none", "analyzing_artwork", "listing_drafted",
                   "product_draft_syncing", "pricing_refreshing"}
  <2> USE DEF jobVars
  <2>1. CASE Dispatcher \/ Preparation \/ RecordPricingSuccess \/ UNCHANGED vars
    BY <2>1 DEF Dispatcher, ClaimWork, MarkWorkDispatched, Preparation, BeginPreparation,
       RecordPreparedReview, CompletePreparation, RecordPricingSuccess, vars
  <2>2. CASE ArtworkUpload
    BY <2>2 DEF ArtworkUpload, BeginProviderUpload, AuthorizeProviderUpload, UploadAuthorized,
         RecordProviderUploadSuccess, RecordProviderUploadOutcomeUnknown,
         UploadObservedTarget, UploadReadDeferred, UploadReadEnded
  <2>3. CASE ProductWrite
    BY <2>3 DEF ProductWrite, BeginProviderCreate, BeginProviderUpdate, BeginExactUpdateRetry,
         AuthorizeProviderCall, CallAuthorized, RecordProductSyncSuccess,
         RecordProductWriteOutcomeUnknown, WriteObservedTarget, WriteObservedPrior,
         WriteReadDeferred, WriteReadEnded, ClaimWrite, ProductSynchronized, EndReconciliation
  <2>4. CASE Seller
    BY <2>4 DEF Seller, ReviseListing, ApproveReview, RefreshEconomics, CancelJob, RetryJob
  <2>5. CASE Settlement
    BY <2>5 DEF Settlement, RecordWorkerFailure, SettleCancellation
  <2>6. CASE Clock
    BY <2>6, ClockKeeps DEF JobInv
  <2> QED
    BY <2>1, <2>2, <2>3, <2>4, <2>5, <2>6 DEF Next
<1> QED
  BY <1>1, UncertaintyStep DEF JobInv, ResumeSound, UncertaintyPlaced

LEMMA InitJob == Init => JobInv
<1> SUFFICES ASSUME Init PROVE JobInv
  OBVIOUS
<1>1. RecordCoherent /\ AmbiguityKept /\ NoPermitAfterClose /\ UploadFirst /\ PermitsFlagged
  BY DEF Init, NoUpload, NoWrite, RecordCoherent, AmbiguityKept, NoPermitAfterClose,
     UploadFirst, PermitsFlagged
<1>2. works[1] = [type |-> "prepare", status |-> "pending", review |-> 0]
      /\ \A w \in WorkId : w # 1 => works[w] = NoWork
  BY BoundsAssumption DEF Init, WorkId
<1>3. OneLiveWork /\ Allocated /\ FlagsByWork /\ ResumeSound
  BY <1>2 DEF Init, NoWork, NoUpload, NoWrite, OneLiveWork, Allocated, WorkType, WorkTypes,
     FlagsByWork, ResumeSound, Uncertain, MachineStates, NewWorkByState, ConsumedByActive
<1> QED
  BY <1>1, <1>3, InitType DEF JobInv

LEMMA JobStep == ASSUME JobInv, [Next]_vars PROVE JobInv'
<1>1. TypeOK'
  BY TypeStep DEF JobInv, RecordCoherent, ResumeKnown
<1>2. FlagsByWork'
  BY <1>1, UncertaintyStep, ConsumerStep DEF FlagsByWork, UncertaintyPlaced
<1> QED
  BY <1>1, <1>2, OneLiveStep, RecordStep, AllocatedStep, PermitsStep, AmbiguityStep, ClosedStep,
     ResumeSoundStep DEF JobInv

\* In every reachable job the record is one its own validator accepts and its one live work
\* is the kind its state calls for, opened for the current review: no command, takeover,
\* cancellation or failure computes a record the store would have to refuse (models.py:345).
THEOREM JobCoherentAlways == Spec => []JobCoherent
<1>1. JobInv => JobCoherent
  BY DEF JobInv, JobCoherent
<1> QED
  BY <1>1, InitJob, JobStep, PTL DEF Spec

\* A permitted provider call whose outcome is unknown stays flagged and tended by its consumer
\* or by a reconciliation until it is evidenced or the job ends, and a job that closed as
\* cancelled or approved leaves no permit a late worker could consume (worker_service.py).
THEOREM PermitsAlwaysAccounted == Spec => []PermitsAccounted
<1>1. JobInv => PermitsAccounted
  BY DEF JobInv, PermitsAccounted
<1> QED
  BY <1>1, InitJob, JobStep, PTL DEF Spec

-----------------------------------------------------------------------------
(* What a step may never do.                                               *)

\* A new attempt never replaces an open one.
LEMMA ReplacementStep ==
  ASSUME JobInv, [Next]_vars
  PROVE  /\ write.work # write'.work => ~ledger.writeOpen
         /\ upload.work # upload'.work => upload.work = 0
<1> USE DEF JobInv, uploadVars, writeVars
<1>1. CASE Dispatcher \/ Preparation \/ RecordPricingSuccess \/ UNCHANGED vars
  BY <1>1 DEF Dispatcher, ClaimWork, MarkWorkDispatched, Preparation, BeginPreparation,
     RecordPreparedReview, CompletePreparation, RecordPricingSuccess, vars
<1>2. CASE ArtworkUpload
  <2>1. CASE AuthorizeProviderUpload
    BY <2>1 DEF AuthorizeProviderUpload, UploadAuthorized, TypeOK, AttemptsTyped,
         UploadAttempt
  <2> QED
    BY <1>2, <2>1 DEF ArtworkUpload, BeginProviderUpload, RecordProviderUploadSuccess,
       RecordProviderUploadOutcomeUnknown, UploadObservedTarget, UploadReadDeferred,
       UploadReadEnded
<1>3. CASE ProductWrite
  <2>1. CASE BeginProviderCreate \/ BeginProviderUpdate \/ BeginExactUpdateRetry
    BY <2>1 DEF BeginProviderCreate, BeginProviderUpdate, BeginExactUpdateRetry, ReadyToWrite,
       ClaimWrite, PermitsFlagged
  <2>2. CASE AuthorizeProviderCall
    BY <2>2 DEF AuthorizeProviderCall, CallAuthorized, TypeOK, AttemptsTyped, WriteAttempt
  <2> QED
    BY <1>3, <2>1, <2>2 DEF ProductWrite, RecordProductSyncSuccess, WriteObservedTarget,
       RecordProductWriteOutcomeUnknown, WriteObservedPrior, WriteReadDeferred,
       WriteReadEnded, ProductSynchronized, EndReconciliation
<1>4. ASSUME CloseCancelled PROVE upload'.work = upload.work /\ write'.work = write.work
  BY <1>4 DEF CloseCancelled, TypeOK, AttemptsTyped, UploadAttempt, WriteAttempt
<1>5. CASE Seller
  BY <1>4, <1>5 DEF Seller, ReviseListing, ApproveReview, RefreshEconomics, CancelJob, RetryJob
<1>6. CASE Settlement
  BY <1>4, <1>6 DEF Settlement, RecordWorkerFailure, SettleCancellation
<1>7. CASE Clock
  BY <1>7, ClockKeeps
<1> QED
  BY <1>1, <1>2, <1>3, <1>5, <1>6, <1>7 DEF Next

\* Only the two authorizations count a call, and a cancellation bars both.
LEMMA CancelledCallStep ==
  ASSUME JobInv, [Next]_vars, cancelRequested
  PROVE  /\ ledger'.uploads = ledger.uploads /\ ledger'.creates = ledger.creates
         /\ ledger'.puts = ledger.puts
<1>1. ~AuthorizeProviderUpload /\ ~AuthorizeProviderCall
  BY DEF AuthorizeProviderUpload, UploadAuthorized, AuthorizeProviderCall, CallAuthorized,
       JobInv, RecordCoherent
<1>2. \/ ledger' = ledger
      \/ \E b : ledger' = [ledger EXCEPT !.uploadOpen = b]
      \/ \E b : ledger' = [ledger EXCEPT !.writeOpen = b]
  <2>1. CASE Dispatcher \/ Preparation \/ RecordPricingSuccess \/ UNCHANGED vars
    BY <2>1 DEF Dispatcher, ClaimWork, MarkWorkDispatched, Preparation, BeginPreparation,
       RecordPreparedReview, CompletePreparation, RecordPricingSuccess, vars
  <2>2. CASE ArtworkUpload
    BY <1>1, <2>2 DEF ArtworkUpload, BeginProviderUpload, RecordProviderUploadSuccess,
       RecordProviderUploadOutcomeUnknown, UploadObservedTarget, UploadReadDeferred,
       UploadReadEnded
  <2>3. CASE ProductWrite
    BY <1>1, <2>3 DEF ProductWrite, BeginProviderCreate, BeginProviderUpdate,
       BeginExactUpdateRetry, RecordProductSyncSuccess, RecordProductWriteOutcomeUnknown,
       WriteObservedTarget, WriteObservedPrior, WriteReadDeferred, WriteReadEnded, ClaimWrite,
       ProductSynchronized, EndReconciliation
  <2>4. CASE Seller \/ Settlement
    BY <2>4 DEF Seller, ReviseListing, ApproveReview, RefreshEconomics, CancelJob, RetryJob,
       Settlement, RecordWorkerFailure, SettleCancellation
  <2>5. CASE Clock
    BY <2>5, ClockKeeps DEF JobInv
  <2> QED
    BY <2>1, <2>2, <2>3, <2>4, <2>5 DEF Next
<1> QED
  BY <1>2 DEF JobInv, TypeOK, LedgerTyped

\* No step claims a write over an unresolved one or a second upload, and once the seller's
\* cancellation is recorded no permit is consumed any more (authorize_provider_call and its
\* siblings in worker_service.py).
THEOREM CallsAlwaysKept == Spec => CallsKept
<1>1. JobInv /\ [Next]_vars
        => [ /\ write.work # write'.work => ~ledger.writeOpen
             /\ upload.work # upload'.work => upload.work = 0 ]_vars
  BY ReplacementStep
<1>2. JobInv /\ [Next]_vars
        => [cancelRequested => /\ ledger'.uploads = ledger.uploads
                               /\ ledger'.creates = ledger.creates
                               /\ ledger'.puts = ledger.puts]_vars
  BY CancelledCallStep
<1> QED
  BY <1>1, <1>2, InitJob, JobStep, PTL
     DEF Spec, CallsKept, NoReplacementWhileOpen, NoCallAfterCancel

\* The transition table of the store.
LEMMA TransitionStep ==
  ASSUME JobInv, [Next]_vars
  PROVE  state' # state => state' \in AllowedTransitions[state]
<1> USE DEF JobInv, AllowedTransitions, jobVars
<1>1. CASE Dispatcher \/ Clock \/ UNCHANGED vars
  BY <1>1, ClockKeeps DEF Dispatcher, ClaimWork, MarkWorkDispatched, vars
<1>2. CASE Preparation
  BY <1>2 DEF Preparation, BeginPreparation, RecordPreparedReview, CompletePreparation
<1>3. CASE ArtworkUpload
  BY <1>3 DEF ArtworkUpload, BeginProviderUpload, AuthorizeProviderUpload, UploadAuthorized,
       RecordProviderUploadSuccess, RecordProviderUploadOutcomeUnknown, UploadObservedTarget,
       UploadReadDeferred, UploadReadEnded, ReconcilingUpload, Reconciling, RecordCoherent
<1>4. CASE ProductWrite
  <2>1. CASE RecordProductSyncSuccess
    <3>1. WorkType = "synchronize_product" /\ Held
      BY <2>1, HeldWork DEF RecordProductSyncSuccess, FlagsByWork
    <3>2. state \in {"product_draft_syncing", "cancel_requested"}
      BY <3>1, HeldWork
    <3> QED
      BY <2>1, <3>2 DEF RecordProductSyncSuccess, ProductSynchronized, RecordCoherent
  <2> QED
    BY <1>4, <2>1 DEF ProductWrite, BeginProviderCreate, BeginProviderUpdate,
         BeginExactUpdateRetry, AuthorizeProviderCall, CallAuthorized,
         RecordProductWriteOutcomeUnknown, WriteObservedTarget, WriteObservedPrior,
         WriteReadDeferred, WriteReadEnded, ClaimWrite, ProductSynchronized,
         EndReconciliation, ReconcilingWrite, Reconciling, RecordCoherent
<1>5. CASE RecordPricingSuccess
  BY <1>5 DEF RecordPricingSuccess, RecordCoherent
<1>6. CASE Seller
  <2>1. CASE CancelJob
    BY <2>1 DEF CancelJob, CloseCancelled, WorkMustSettle, TerminalStates, TypeOK, JobTyped,
       States, OneLiveWork, MachineStates, NewWorkByState
  <2>2. CASE RetryJob
    BY <2>2 DEF RetryJob, ResumeSound, RecordCoherent
  <2> QED
    BY <1>6, <2>1, <2>2 DEF Seller, ReviseListing, ApproveReview, RefreshEconomics
<1>7. CASE Settlement
  <2>1. CASE SettleCancellation
    BY <2>1 DEF SettleCancellation, CloseCancelled, RecordCoherent, Held, OneLiveWork,
       MachineStates, NewWorkByState
  <2>2. ASSUME NEW code \in {"unavailable", "other"}, RecordWorkerFailure(code)
        PROVE  state' # state => state' \in AllowedTransitions[state]
    <3>1. Held
      BY <2>2 DEF RecordWorkerFailure
    <3>2. CASE state' = "reconciliation_required"
               /\ WorkType \in {"reconcile_product", "synchronize_product"}
      BY <3>1, <3>2, HeldWork
    <3>3. CASE state' = "cancelled"
      BY <3>1, <3>3, HeldWork
    <3>4. CASE state' = "failed_retryable" /\ WorkType # "reconcile_product"
               /\ ~cancelRequested
      BY <3>1, <3>4, HeldWork DEF RecordCoherent
    <3>5. CASE state' = "failed_terminal" /\ ~cancelRequested
      BY <3>1, <3>5, HeldWork DEF RecordCoherent
    <3> QED
      BY <2>2, <3>2, <3>3, <3>4, <3>5 DEF RecordWorkerFailure, Transient, Retryable,
         OutcomeUnknown, CloseCancelled
  <2> QED
    BY <1>7, <2>1, <2>2 DEF Settlement
<1> QED
  BY <1>1, <1>2, <1>3, <1>4, <1>5, <1>6, <1>7 DEF Next

LEMMA EvidenceStep == ASSUME JobInv, [Next]_vars PROVE EvidenceKept
<1> USE DEF JobInv, EvidenceKept, jobVars, uploadVars, writeVars
<1>1. CASE Dispatcher \/ Preparation \/ RecordPricingSuccess \/ UNCHANGED vars
  BY <1>1 DEF Dispatcher, ClaimWork, MarkWorkDispatched, Preparation, BeginPreparation,
     RecordPreparedReview, CompletePreparation, RecordPricingSuccess, vars
<1>2. CASE ArtworkUpload
  <2>1. CASE BeginProviderUpload
    BY <2>1 DEF BeginProviderUpload, Held
  <2> QED
    BY <1>2, <2>1 DEF ArtworkUpload, AuthorizeProviderUpload, UploadAuthorized,
         RecordProviderUploadSuccess, RecordProviderUploadOutcomeUnknown,
         UploadObservedTarget, UploadReadDeferred, UploadReadEnded, RecordCoherent
<1>3. CASE ProductWrite
  BY <1>3 DEF ProductWrite, BeginProviderCreate, BeginProviderUpdate, BeginExactUpdateRetry,
       AuthorizeProviderCall, CallAuthorized, RecordProductSyncSuccess,
       RecordProductWriteOutcomeUnknown, WriteObservedTarget, WriteObservedPrior,
       WriteReadDeferred, WriteReadEnded, ReadyToWrite, ClaimWrite, ProductSynchronized,
       EndReconciliation, ReconcilingWrite, Reconciling
<1>4. active # 0 /\ ~ProductWriteWork => ~Uncertain
  BY DEF FlagsByWork, ProductWriteWork, Allocated, WorkTypes
<1>5. ASSUME CloseCancelled, UNCHANGED cancelRequested \/ cancelRequested' = TRUE
      PROVE  EvidenceKept
  <2>1. uploadUnconfirmed => upload'.permit = "retired" /\ ~writeUnconfirmed
    BY <1>4, <1>5 DEF CloseCancelled, ProductWriteWork, Uncertain, TypeOK, AttemptsTyped,
       UploadAttempt, RecordCoherent
  <2>2. writeUnconfirmed => write'.permit = "retired" /\ ~uploadUnconfirmed
    BY <1>4, <1>5 DEF CloseCancelled, ProductWriteWork, Uncertain, TypeOK, AttemptsTyped,
       WriteAttempt, RecordCoherent
  <2> QED
    BY <1>5, <2>1, <2>2 DEF CloseCancelled
<1>6. CASE Seller
  <2>1. CASE CancelJob
    <3>1. cancelRequested' = TRUE
      BY <2>1 DEF CancelJob
    <3>2. CASE CloseCancelled
      BY <1>5, <3>1, <3>2
    <3>3. CASE UNCHANGED <<uploadVars, writeVars>>
      BY <3>1, <3>3
    <3> QED
      BY <2>1, <3>2, <3>3 DEF CancelJob
  <2> QED
    BY <1>6, <2>1 DEF Seller, ReviseListing, ApproveReview, RefreshEconomics, RetryJob
<1>7. CASE Settlement
  <2>1. UNCHANGED cancelRequested
    BY <1>7 DEF Settlement, RecordWorkerFailure, SettleCancellation
  <2>2. CASE CloseCancelled
    BY <1>5, <2>1, <2>2
  <2>3. CASE UNCHANGED <<uploadVars, writeVars>>
    BY <2>1, <2>3
  <2> QED
    BY <1>7, <2>2, <2>3 DEF Settlement, RecordWorkerFailure, SettleCancellation
<1>8. CASE Clock
  BY <1>8, ClockKeeps
<1> QED
  BY <1>1, <1>2, <1>3, <1>6, <1>7, <1>8 DEF Next

LEMMA PairingStep == ASSUME JobInv, [Next]_vars PROVE WorkPaired
<1> USE DEF JobInv, jobVars, workVars
<1>1. ASSUME UNCHANGED <<active, state>> PROVE WorkPaired
  BY <1>1 DEF WorkPaired
<1>2. ASSUME Held, CompleteWork PROVE WorkPaired
  BY <1>2, WorkCompleted DEF WorkPaired, Held
<1>3. ASSUME Held, NEW t \in WorkTypes, ReplaceWork(t) PROVE WorkPaired
  BY <1>3, WorkReplaced DEF WorkPaired
<1>4. ASSUME active = 0, active' = lastWork + 1 \/ active' = 0 PROVE WorkPaired
  BY <1>4 DEF WorkPaired
<1>5. CASE Dispatcher \/ Clock \/ UNCHANGED vars
  BY <1>1, <1>5, ClockKeeps DEF Dispatcher, ClaimWork, MarkWorkDispatched, vars
<1>6. CASE Preparation
  <2>1. CASE BeginPreparation \/ \E passed \in BOOLEAN : RecordPreparedReview(passed)
    BY <2>1 DEF BeginPreparation, RecordPreparedReview, WorkPaired, MachineStates,
       NewWorkByState
  <2> QED
    BY <1>2, <1>3, <1>6, <2>1 DEF Preparation, CompletePreparation, WorkTypes
<1>7. CASE ArtworkUpload
  BY <1>1, <1>2, <1>3, <1>7 DEF ArtworkUpload, BeginProviderUpload, AuthorizeProviderUpload,
       UploadAuthorized, RecordProviderUploadSuccess, RecordProviderUploadOutcomeUnknown,
       UploadObservedTarget, UploadReadDeferred, UploadReadEnded, ReconcilingUpload,
       Reconciling, WorkTypes
<1>8. CASE ProductWrite
  BY <1>1, <1>2, <1>3, <1>8 DEF ProductWrite, BeginProviderCreate, BeginProviderUpdate,
       BeginExactUpdateRetry, AuthorizeProviderCall, CallAuthorized, RecordProductSyncSuccess,
       RecordProductWriteOutcomeUnknown, WriteObservedTarget, WriteObservedPrior,
       WriteReadDeferred, WriteReadEnded, ClaimWrite, ProductSynchronized, EndReconciliation,
       ReconcilingWrite, Reconciling, WorkTypes
<1>9. CASE RecordPricingSuccess
  BY <1>2, <1>9 DEF RecordPricingSuccess
<1>10. CASE Seller
  <2>1. CASE CancelJob
    <3>1. CASE UNCHANGED workVars /\ state' = "cancel_requested"
      BY <3>1 DEF WorkPaired
    <3>2. CASE active' = 0 /\ works' = IF active = 0 THEN works
                                       ELSE [works EXCEPT ![active].status = "cancelled"]
      BY <3>2 DEF WorkPaired, TypeOK, WorkTyped, WorkId, Work
    <3> QED
      BY <2>1, <3>1, <3>2 DEF CancelJob
  <2>2. CASE ~CancelJob
    <3>1. active = 0
      BY <1>10, <2>2 DEF Seller, ReviseListing, ApproveReview, RefreshEconomics, RetryJob,
         OneLiveWork, MachineStates, NewWorkByState
    <3> QED
      BY <1>4, <1>10, <2>2, <3>1 DEF Seller, ReviseListing, ApproveReview, RefreshEconomics,
         RetryJob, OpenWork
  <2> QED
    BY <2>1, <2>2
<1>11. CASE Settlement
  BY <1>2, <1>3, <1>11 DEF Settlement, RecordWorkerFailure, SettleCancellation, WorkTypes
<1> QED
  BY <1>5, <1>6, <1>7, <1>8, <1>9, <1>10, <1>11 DEF Next

\* Every step any command takes is one validate_command_commit accepts (store.py:281): the
\* state moves along the transition table, a cancellation stays, a flag is lowered on evidence
\* or with its permit retired, and settled work pairs with new work.
THEOREM CommitAlwaysAccepted == Spec => CommitAccepted
<1>1. JobInv /\ [Next]_vars => [CommitStep]_vars
  BY TransitionStep, EvidenceStep, PairingStep DEF CommitStep
<1> QED
  BY <1>1, InitJob, JobStep, PTL DEF Spec, CommitAccepted

=============================================================================
