--------------------------- MODULE ListingWorkflow ---------------------------
(***************************************************************************)
(* The first-phase workflow of one job: workflow/service.py over the       *)
(* single table of workflow/dynamodb.py, as its API, its agent and the     *)
(* Lambdas of durable/handlers.py call it.  A call of the service is a     *)
(* sequence of reads, transitions, claims and calls of the production      *)
(* adapter, and any number of them overlap: Step Functions invokes a       *)
(* command again while the invocation it gave up goes on.                  *)
(*                                                                         *)
(* A transition reads the job itself and replaces it by compare-and-set,   *)
(* so it is atomic.  What it writes may come from earlier reads, which are *)
(* steps of their own.  A listing is a model value, its analysis included. *)
(***************************************************************************)
EXTENDS Naturals, Sequences

CONSTANTS
  Calls,       \* calls of the service that may be under way at a time
  Listings,    \* contents of a listing
  ValidOnes,   \* those that validate_listing passes
  NoListing,
  LastVersion  \* bound: the last review version

ASSUME WorkflowAssumption ==
  /\ ValidOnes \subseteq Listings /\ NoListing \notin Listings
  /\ LastVersion \in Nat \ {0}

VARIABLES
  record,       \* the row META: the JobRecord
  generated,    \* the rows ANALYSIS and LISTING_CHECKPOINT
  snapshot,     \* the rows REVIEW#: listing and product of each version
  claim,        \* the rows WRITE#
  wait,         \* the row APPROVAL_WAIT
  call,         \* where each call stands, and what it has read
  artworks,     \* at the provider: how many images it was given
  drafts,       \* at the provider: the version and listing each product was made from
  listed,       \* at the provider: the products published, and for which version
  consents,     \* history: the listings the seller has approved
  late          \* history: a generation has failed although a review was recorded

provider == <<artworks, drafts, listed>>
history == <<consents, late>>

workflowVars == <<record, generated, snapshot, claim, wait, call, provider, history>>

-----------------------------------------------------------------------------
(* The rows.                                                               *)

\* By JobState; an absent job has no transition.
AllowedJobTransitions == [
  uploaded               |-> {"intake_validated", "failed_terminal"},
  intake_validated       |-> {"analyzing_artwork", "failed_retryable", "failed_terminal"},
  analyzing_artwork      |-> {"listing_drafted", "failed_retryable", "failed_terminal"},
  listing_drafted        |-> {"listing_validated", "needs_revision", "failed_terminal"},
  listing_validated      |-> {"ready_for_production", "needs_revision"},
  ready_for_production   |-> {"printify_draft_created", "failed_retryable", "failed_terminal"},
  printify_draft_created |-> {"awaiting_approval"},
  awaiting_approval      |-> {"approved", "needs_revision", "cancelled"},
  approved               |-> {"publishing", "needs_revision", "cancelled"},
  publishing             |-> {"published", "failed_retryable", "failed_terminal"},
  published              |-> {"verified", "failed_retryable", "failed_terminal"},
  needs_revision         |-> {"listing_drafted", "cancelled"},
  failed_retryable       |-> {"intake_validated", "analyzing_artwork", "ready_for_production",
                              "approved", "published", "failed_terminal", "cancelled"},
  verified               |-> {},
  failed_terminal        |-> {},
  cancelled              |-> {},
  absent                 |-> {}]

ApprovalBound == {"approved", "publishing", "published", "verified"}

\* States in which prepare returns the job as it is.
Prepared == ApprovalBound \union {"awaiting_approval", "needs_revision"}

NoJob == [state |-> "absent", version |-> 0, approved |-> 0, product |-> 0, listing |-> 0]
NoReview == [listing |-> NoListing, product |-> 0]
NoWait == [version |-> 0, status |-> "none"]

\* Idempotency keys: one upload of the job, a draft and a publication of each version.
Keys == {<<"upload", 0>>} \union ({"draft", "publish"} \X (1..LastVersion))

Unclaimed == [status |-> "none", result |-> 0]

Idle == [op |-> "none", at |-> "idle", state |-> "absent", version |-> 0, listing |-> NoListing,
         product |-> 0, write |-> "none"]

WorkflowInit ==
  /\ record = NoJob /\ generated = NoListing
  /\ snapshot = [v \in 1..LastVersion |-> NoReview]
  /\ claim = [k \in Keys |-> Unclaimed] /\ wait = NoWait
  /\ call = [c \in Calls |-> Idle]
  /\ artworks = 0 /\ drafts = <<>> /\ listed = <<>> /\ consents = {} /\ late = FALSE

-----------------------------------------------------------------------------
(* What every call is made of.                                             *)

At(c, label) == call[c].at = label
Goes(c, changed) == call' = [call EXCEPT ![c] = changed]
Ends(c) == Goes(c, Idle)

\* _transition with validate_transition_commit and the validator of JobRecord.
Moves(new) ==
  /\ new.state \in AllowedJobTransitions[record.state]
  /\ new.state \in ApprovalBound => new.approved = new.version
  /\ record' = new

MovesTo(target) == Moves([record EXCEPT !.state = target])

\* The review in the same transaction: of the job's version, absent or of the same
\* fingerprint, which leaves the product out.
Stores(version, listing, product) ==
  /\ version = record'.version
  /\ snapshot[version].listing \in {NoListing, listing}
  /\ snapshot' = [snapshot EXCEPT ![version] = [listing |-> listing, product |-> product]]

\* get_review: the row of the version the job has now.
Current == snapshot[record.version]

\* An error, a lost comparison, or the end of the process: at any point.
Abandon(c) ==
  /\ ~At(c, "idle") /\ Ends(c)
  /\ UNCHANGED <<record, generated, snapshot, claim, wait, provider, history>>

-----------------------------------------------------------------------------
(* Intake.                                                                 *)

\* One transaction claims the key and creates the job; a second intake finds it.
CreateIntake(c) ==
  /\ At(c, "idle") /\ record = NoJob
  /\ record' = [NoJob EXCEPT !.state = "uploaded"]
  /\ Goes(c, [Idle EXCEPT !.op = "intake", !.at = "validate_intake"])
  /\ UNCHANGED <<generated, snapshot, claim, wait, provider, history>>

ValidateIntake(c) ==
  /\ At(c, "validate_intake") /\ MovesTo("intake_validated") /\ Ends(c)
  /\ UNCHANGED <<generated, snapshot, claim, wait, provider, history>>

-----------------------------------------------------------------------------
(* prepare: from the state it has read or reached, the next transition.    *)

BeginPrepare(c) ==
  /\ At(c, "idle") /\ record # NoJob /\ record.state \notin Prepared
  /\ Goes(c, [Idle EXCEPT !.op = "prepare", !.at = "route", !.state = record.state])
  /\ UNCHANGED <<record, generated, snapshot, claim, wait, provider, history>>

\* The job is in this state, by its own transition or by what it has read.
Reaches(c, state) == Goes(c, [Idle EXCEPT !.op = call[c].op, !.at = "route", !.state = state])

Routes(c, states) == At(c, "route") /\ call[c].state \in states

StartAnalysis(c) ==
  /\ Routes(c, {"intake_validated", "failed_retryable"})
  /\ MovesTo("analyzing_artwork")
  /\ Reaches(c, "analyzing_artwork")
  /\ UNCHANGED <<generated, snapshot, claim, wait, provider, history>>

\* Review 1 is to be made from this listing.
Drafts(c, listing) ==
  Goes(c, [Idle EXCEPT !.op = "prepare", !.at = "record", !.listing = listing, !.version = 1])

\* The checkpoint, or a call of the intelligence.
ReadCheckpoint(c) ==
  /\ Routes(c, {"analyzing_artwork"})
  /\ IF generated = NoListing
       THEN Goes(c, [Idle EXCEPT !.op = "prepare", !.at = "generate"])
       ELSE Drafts(c, generated)
  /\ UNCHANGED <<record, generated, snapshot, claim, wait, provider, history>>

\* Checkpoints are put where there is none, or the same.
SaveCheckpoint(c) ==
  /\ At(c, "generate")
  /\ \E l \in Listings :
       /\ generated \in {NoListing, l}
       /\ generated' = l
       /\ Drafts(c, l)
  /\ UNCHANGED <<record, snapshot, claim, wait, provider, history>>

\* The intelligence is unavailable, or its output is rejected.
GenerationFails(c) ==
  /\ At(c, "generate")
  /\ \E target \in {"failed_retryable", "failed_terminal"} : MovesTo(target)
  /\ late' = (late \/ record.version > 0)
  /\ Ends(c)
  /\ UNCHANGED <<generated, snapshot, claim, wait, provider, consents>>

\* The first review of prepare, or the next one of revise_listing.
RecordReview(c) ==
  /\ At(c, "record")
  /\ Moves([record EXCEPT !.state = "listing_drafted", !.version = call[c].version])
  /\ Stores(call[c].version, call[c].listing, call[c].product)
  /\ IF call[c].op = "prepare"
       THEN Goes(c, [Idle EXCEPT !.op = "prepare", !.at = "reread"])
       ELSE Goes(c, [Idle EXCEPT !.op = "revise", !.at = "validate", !.listing = call[c].listing])
  /\ UNCHANGED <<generated, claim, wait, provider, history>>

Reread(c) ==
  /\ At(c, "reread")
  /\ Reaches(c, record.state)
  /\ UNCHANGED <<record, generated, snapshot, claim, wait, provider, history>>

ReadReview(c) ==
  /\ Routes(c, {"listing_drafted"})
  /\ Goes(c, [Idle EXCEPT !.op = call[c].op, !.at = "validate", !.listing = Current.listing])
  /\ UNCHANGED <<record, generated, snapshot, claim, wait, provider, history>>

ValidateListing(c) ==
  /\ At(c, "validate")
  /\ IF call[c].listing \in ValidOnes
       THEN /\ MovesTo("listing_validated")
            /\ Reaches(c, "listing_validated")
       ELSE MovesTo("needs_revision") /\ Ends(c)
  /\ UNCHANGED <<generated, snapshot, claim, wait, provider, history>>

MakeReady(c) ==
  /\ Routes(c, {"listing_validated"})
  /\ MovesTo("ready_for_production")
  /\ Reaches(c, "ready_for_production")
  /\ UNCHANGED <<generated, snapshot, claim, wait, provider, history>>

PresentForApproval(c) ==
  /\ Routes(c, {"printify_draft_created"})
  /\ MovesTo("awaiting_approval") /\ Ends(c)
  /\ UNCHANGED <<generated, snapshot, claim, wait, provider, history>>

-----------------------------------------------------------------------------
(* External writes: claim the key, call the adapter, complete the claim.   *)

\* _prepare_product_draft reads the review it will send.
BeginProductDraft(c) ==
  /\ Routes(c, {"ready_for_production"})
  /\ Goes(c, [Idle EXCEPT !.op = call[c].op, !.at = "claim", !.write = "upload",
                           !.version = record.version, !.listing = Current.listing])
  /\ UNCHANGED <<record, generated, snapshot, claim, wait, provider, history>>

KeyOf(c) ==
  IF call[c].write = "upload" THEN <<"upload", 0>> ELSE <<call[c].write, call[c].version>>

\* On to what follows the write with this result.
Continues(c, result) ==
  CASE call[c].write = "upload"  -> Goes(c, [call[c] EXCEPT !.at = "claim", !.write = "draft"])
    [] call[c].write = "draft"   -> Goes(c, [call[c] EXCEPT !.at = "attach", !.product = result])
    [] call[c].write = "publish" -> Goes(c, [call[c] EXCEPT !.at = "list", !.product = result])

\* Mutant: whoever finds a claim without a result takes it up.
ClaimOrTakeUp(c) ==
  /\ At(c, "claim")
  /\ \/ /\ claim[KeyOf(c)].status \in {"none", "claimed"}
        /\ claim' = [claim EXCEPT ![KeyOf(c)].status = "claimed"]
        /\ Goes(c, [call[c] EXCEPT !.at = "send"])
     \/ /\ claim[KeyOf(c)].status = "completed"
        /\ Continues(c, claim[KeyOf(c)].result) /\ UNCHANGED claim
  /\ UNCHANGED <<record, generated, snapshot, wait, provider, history>>

\* A completed claim is resumed, one of somebody else refused: ExternalWritePendingError.
ClaimExternalWrite(c) ==
  /\ At(c, "claim")
  /\ \/ /\ claim[KeyOf(c)] = Unclaimed
        /\ claim' = [claim EXCEPT ![KeyOf(c)].status = "claimed"]
        /\ Goes(c, [call[c] EXCEPT !.at = "send"])
     \/ /\ claim[KeyOf(c)].status = "completed"
        /\ Continues(c, claim[KeyOf(c)].result) /\ UNCHANGED claim
  /\ UNCHANGED <<record, generated, snapshot, wait, provider, history>>

\* The request takes effect.
TakesEffect(c) ==
  CASE call[c].write = "upload"  -> artworks' = artworks + 1 /\ UNCHANGED <<drafts, listed>>
    [] call[c].write = "draft"   ->
         /\ drafts' = Append(drafts, [version |-> call[c].version, listing |-> call[c].listing])
         /\ UNCHANGED <<artworks, listed>>
    [] call[c].write = "publish" ->
         /\ listed' = Append(listed, [version |-> call[c].version, product |-> call[c].product])
         /\ UNCHANGED <<artworks, drafts>>

\* The adapter answers, or raises after the request may have been applied.
CallProduction(c) ==
  /\ At(c, "send")
  /\ \E applied, answered \in BOOLEAN :
       /\ answered => applied
       /\ IF applied THEN TakesEffect(c) ELSE UNCHANGED provider
       /\ IF answered
            THEN Goes(c, [call[c] EXCEPT !.at = "complete",
                   !.product = IF call[c].write = "draft" THEN Len(drafts') ELSE @])
            ELSE Goes(c, [call[c] EXCEPT !.at = "unsure"])
  /\ UNCHANGED <<record, generated, snapshot, claim, wait, history>>

CompleteExternalWrite(c) ==
  /\ At(c, "complete") /\ claim[KeyOf(c)].status = "claimed"
  /\ claim' = [claim EXCEPT ![KeyOf(c)] = [status |-> "completed", result |-> call[c].product]]
  /\ Continues(c, call[c].product)
  /\ UNCHANGED <<record, generated, snapshot, wait, provider, history>>

RequireReconciliation(c) ==
  /\ At(c, "unsure") /\ claim[KeyOf(c)].status = "claimed"
  /\ claim' = [claim EXCEPT ![KeyOf(c)].status = "reconciliation_required"]
  /\ Ends(c)
  /\ UNCHANGED <<record, generated, snapshot, wait, provider, history>>

\* The product into the job and into the review that was read.
AttachProduct(c) ==
  /\ At(c, "attach")
  /\ Moves([record EXCEPT !.state = "printify_draft_created", !.product = call[c].product])
  /\ Stores(call[c].version, call[c].listing, call[c].product)
  /\ IF call[c].op = "prepare"
       THEN Goes(c, [Idle EXCEPT !.op = "prepare", !.at = "reread"])
       ELSE Reaches(c, "printify_draft_created")
  /\ UNCHANGED <<generated, claim, wait, provider, history>>

-----------------------------------------------------------------------------
(* The seller: revise and approve.                                         *)

BeginRevise(c) ==
  /\ At(c, "idle") /\ record.state \in {"awaiting_approval", "approved", "needs_revision"}
  /\ \E l \in Listings :
       Goes(c, [Idle EXCEPT !.op = "revise", !.at = "next", !.state = record.state, !.listing = l])
  /\ UNCHANGED <<record, generated, snapshot, claim, wait, provider, history>>

\* The current review gives the number of the next one, and its product.
NumberRevision(c) ==
  /\ At(c, "next") /\ record.version < LastVersion
  /\ Goes(c, [Idle EXCEPT !.op = "revise", !.listing = call[c].listing,
                           !.at = IF call[c].state = "needs_revision" THEN "record" ELSE "reopen",
                           !.version = record.version + 1, !.product = Current.product])
  /\ UNCHANGED <<record, generated, snapshot, claim, wait, provider, history>>

\* The earlier approval goes.
Reopen(c) ==
  /\ At(c, "reopen")
  /\ Moves([record EXCEPT !.state = "needs_revision", !.approved = 0])
  /\ Goes(c, [call[c] EXCEPT !.at = "record"])
  /\ UNCHANGED <<generated, snapshot, claim, wait, provider, history>>

\* A seller approves a version and the listing it shows: directly, or for a waiting execution.
BeginApprove(c) ==
  /\ At(c, "idle") /\ record.state = "awaiting_approval"
  /\ \E v \in 1..LastVersion, op \in {"approve", "approve_waiting"} :
       /\ snapshot[v] # NoReview
       /\ Goes(c, [Idle EXCEPT !.op = op, !.at = "review", !.version = v,
                               !.listing = snapshot[v].listing])
  /\ UNCHANGED <<record, generated, snapshot, claim, wait, provider, history>>

WaitHolds(version) == wait.version = version /\ wait.status = "pending"

CheckApproval(c) ==
  /\ At(c, "review")
  /\ call[c].version = record.version /\ Current.listing \in ValidOnes
  /\ call[c].op = "approve_waiting" => WaitHolds(call[c].version)
  /\ Goes(c, [call[c] EXCEPT !.at = "consent", !.product = Current.product])
  /\ UNCHANGED <<record, generated, snapshot, claim, wait, provider, history>>

\* Job, review and wait in one transaction.  The wait's expiry is compared with the
\* clock that the check has read.
CommitApproval(c) ==
  /\ At(c, "consent")
  /\ Moves([record EXCEPT !.state = "approved", !.approved = call[c].version])
  /\ Stores(call[c].version, snapshot[call[c].version].listing, call[c].product)
  /\ IF call[c].op = "approve_waiting"
       THEN /\ wait.version = call[c].version /\ wait.status \in {"pending", "expired"}
            /\ wait' = [wait EXCEPT !.status = "consumed"]
       ELSE UNCHANGED wait
  /\ consents' = consents \union {call[c].listing}
  /\ Ends(c)
  /\ UNCHANGED <<generated, claim, provider, late>>

-----------------------------------------------------------------------------
(* The wait of an execution for its approval.                              *)

BeginWait(c) ==
  /\ At(c, "idle") /\ record.state = "awaiting_approval"
  /\ Goes(c, [Idle EXCEPT !.op = "wait", !.at = "register", !.version = record.version])
  /\ UNCHANGED <<record, generated, snapshot, claim, wait, provider, history>>

RegisterApprovalWait(c) ==
  /\ At(c, "register") /\ wait = NoWait
  /\ wait' = [version |-> call[c].version, status |-> "pending"]
  /\ Ends(c)
  /\ UNCHANGED <<record, generated, snapshot, claim, provider, history>>

\* The clock passes expires_at; later the time to live of the table removes the row.
WaitExpires ==
  /\ wait # NoWait
  /\ wait' = IF wait.status = "pending" THEN [wait EXCEPT !.status = "expired"] ELSE NoWait
  /\ UNCHANGED <<record, generated, snapshot, claim, call, provider, history>>

-----------------------------------------------------------------------------
(* publish_draft and verify_publication.                                   *)

Holds(c, job) ==
  Goes(c, [Idle EXCEPT !.op = "publish", !.at = "claim", !.write = "publish",
                       !.version = job.version, !.product = job.product])

BeginPublish(c) ==
  /\ At(c, "idle") /\ record.state \in {"approved", "publishing"}
  /\ record.approved = record.version /\ record.product # 0
  /\ IF record.state = "publishing" THEN Holds(c, record)
       ELSE Goes(c, [Idle EXCEPT !.op = "publish", !.at = "start"])
  /\ UNCHANGED <<record, generated, snapshot, claim, wait, provider, history>>

\* The transition returns the job as it is now, and that is published.
StartPublishing(c) ==
  /\ At(c, "start") /\ MovesTo("publishing") /\ Holds(c, record)
  /\ UNCHANGED <<generated, snapshot, claim, wait, provider, history>>

MarkPublished(c) ==
  /\ At(c, "list")
  /\ Moves([record EXCEPT !.state = "published", !.listing = call[c].product])
  /\ Ends(c)
  /\ UNCHANGED <<generated, snapshot, claim, wait, provider, history>>

VerifyPublication ==
  /\ record.state = "published" /\ record.listing # 0 /\ MovesTo("verified")
  /\ UNCHANGED <<generated, snapshot, claim, wait, call, provider, history>>

-----------------------------------------------------------------------------

WorkflowNext ==
  \/ \E c \in Calls :
       \/ Abandon(c)
       \/ CreateIntake(c) \/ ValidateIntake(c)
       \/ BeginPrepare(c) \/ StartAnalysis(c) \/ ReadCheckpoint(c) \/ SaveCheckpoint(c)
       \/ GenerationFails(c) \/ RecordReview(c) \/ Reread(c) \/ ReadReview(c)
       \/ ValidateListing(c) \/ MakeReady(c) \/ PresentForApproval(c)
       \/ BeginProductDraft(c) \/ ClaimExternalWrite(c) \/ CallProduction(c)
       \/ CompleteExternalWrite(c) \/ RequireReconciliation(c) \/ AttachProduct(c)
       \/ BeginRevise(c) \/ NumberRevision(c) \/ Reopen(c)
       \/ BeginApprove(c) \/ CheckApproval(c) \/ CommitApproval(c)
       \/ BeginWait(c) \/ RegisterApprovalWait(c)
       \/ BeginPublish(c) \/ StartPublishing(c) \/ MarkPublished(c)
  \/ WaitExpires \/ VerifyPublication

WorkflowSpec == WorkflowInit /\ [][WorkflowNext]_workflowVars

-----------------------------------------------------------------------------
(* Properties.                                                             *)

\* However calls overlap, die and are repeated, one image is given to the provider, one
\* product made from each review, and each review published once: the claim of a key
\* outlives the call that made it.
WritesOnce ==
  /\ artworks <= 1
  /\ \A i, j \in 1..Len(drafts) : drafts[i].version = drafts[j].version => i = j
  /\ \A i, j \in 1..Len(listed) : listed[i].version = listed[j].version => i = j

\* The review of an approved job passed the validation, and the seller has approved what it
\* shows, although an invalid one may come to be shown for approval, validated as its
\* predecessor, and the review may be replaced while an approval is on its way.
ApprovedValid ==
  record.state \in ApprovalBound => Current.listing \in ValidOnes \intersect consents

\* What is published was made from a listing the seller has approved, and is the product of
\* its review, whatever revisions, preparations and approvals came between.
PublishedAsApproved ==
  \A i \in 1..Len(listed) : LET d == drafts[listed[i].product] IN
    d.listing \in consents /\ d.version = listed[i].version

\* From the time it is shown for approval, the product of the job was made from the
\* listing of its review, although both were read long before they were written.
DraftMatches ==
  record.state \in ApprovalBound \union {"awaiting_approval"} =>
    drafts[record.product].listing = Current.listing

\* A generation that fails late takes a job out of production with the product of another
\* review, and an approval of that review that is under way puts it on sale.
WorkflowSound ==
  WritesOnce /\ ApprovedValid /\ (~late => PublishedAsApproved /\ DraftMatches)

(* What a preparation that goes on after its retry has done its work can break:  *)
(* these fail.                                                                   *)

\* "FakeVerify independently advances a persisted publication through VERIFIED"
\* (docs/aws-durable-workflow-phase4.md).  A generation that fails late ends the job as
\* failed even when it is published: the table allows it, for other reasons.
PublishedStays ==
  [][record.state = "published" => record'.state \in {"published", "verified"}]_workflowVars

\* A job is published once.  After such a failure it is prepared again from review 1, and
\* the publication of review 1 has a key of its own.
OnePublication == Len(listed) <= 1

\* "Editing an approved snapshot creates a new version" (ADR 0002).  A late preparation
\* records review 1 over a later one that waits for another revision.
VersionsGrow == [][record'.version >= record.version]_workflowVars

\* The approved snapshot names the job's product.  An approval that has read the review
\* before its product was attached puts the older product back.
SnapshotNamesProduct == record.state \in ApprovalBound => Current.product = record.product
=============================================================================
