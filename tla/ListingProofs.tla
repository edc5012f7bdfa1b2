---------------------------- MODULE ListingProofs ----------------------------
(***************************************************************************)
(* What the first-phase workflow always keeps, for any number of calls,    *)
(* listings and reviews.                                                   *)
(*                                                                         *)
(* A call writes what it has read long before, so the invariant says, at   *)
(* each point of a call, what it may still rely on (Relies); that lasts,   *)
(* because no step takes back a review, a product, a consent or a claim    *)
(* (Grows).  That a write happens once rests on its claim: a call with a   *)
(* request on its way is the only one under that claim (WritesAlone).      *)
(***************************************************************************)
EXTENDS ListingWorkflow, TLAPS

-----------------------------------------------------------------------------
(* The invariant.                                                           *)

JobStates == {"uploaded", "intake_validated", "analyzing_artwork", "listing_drafted",
              "listing_validated", "ready_for_production", "printify_draft_created",
              "awaiting_approval", "approved", "publishing", "published", "needs_revision",
              "failed_retryable", "verified", "failed_terminal", "cancelled", "absent"}
Labels == {"idle", "validate_intake", "route", "generate", "record", "reread", "validate", "claim",
           "send", "complete", "unsure", "attach", "next", "reopen", "review", "consent",
           "register", "start", "list"}
Writes == {"upload", "draft", "publish"}
Reviews == 1..LastVersion

Jobs == [state : JobStates, version : 0..LastVersion, approved : 0..LastVersion,
         product : Nat, listing : Nat]
Ops == {"none", "intake", "prepare", "revise", "approve", "approve_waiting", "wait", "publish"}
CallRecords == [op : Ops, at : Labels, state : JobStates, version : 0..LastVersion,
                listing : Listings \union {NoListing}, product : Nat, write : Writes \union {"none"}]
Products == [version : Reviews, listing : Listings]
Publications == [version : Reviews, product : Nat]

WorkflowTyped ==
  /\ record \in Jobs /\ generated \in Listings \union {NoListing}
  /\ snapshot \in [Reviews -> [listing : Listings \union {NoListing}, product : Nat]]
  /\ claim \in [Keys -> [status : {"none", "claimed", "completed", "reconciliation_required"},
                         result : Nat]]
  /\ call \in [Calls -> CallRecords]
  /\ artworks \in Nat /\ drafts \in Seq(Products)
  /\ listed \in Seq(Publications)
  /\ consents \subseteq Listings /\ late \in BOOLEAN

\* States that only a job with a review has.
Reviewed == ApprovalBound \union
  {"listing_drafted", "listing_validated", "ready_for_production", "printify_draft_created",
   "awaiting_approval", "needs_revision"}

\* The job's review is on record, and an absent row has no product.
ReviewRecorded ==
  /\ record.state \in Reviewed => record.version > 0
  /\ record.version > 0 => snapshot[record.version].listing \in Listings
  /\ \A v \in Reviews : snapshot[v].listing = NoListing => snapshot[v] = NoReview

\* An approval was of a review that passed, and to which the seller has consented.
ApprovalTrue ==
  /\ record.state \in ApprovalBound => record.approved = record.version
  /\ record.approved # 0 => snapshot[record.approved].listing \in ValidOnes \intersect consents

\* This product was made from this review.
MadeFrom(product, version) ==
  product \in 1..Len(drafts) /\ drafts[product].version = version

\* Every product was made from what its review shows.
DraftsMade == \A i \in 1..Len(drafts) : drafts[i].listing = snapshot[drafts[i].version].listing

HasProduct == ApprovalBound \union {"printify_draft_created", "awaiting_approval"}

\* Until a generation has failed late a job past its draft has the product of its review, and
\* a failed one has no review that could still be approved.
OwnProduct ==
  ~late => /\ record.state = "failed_retryable" => record.version = 0
           /\ record.state \in HasProduct => MadeFrom(record.product, record.version)

Writing == {"claim", "send", "complete", "unsure"}
InFlight == {"send", "complete", "unsure"}

\* Labels at which the job has a review.
Past == Writing \union {"validate", "attach", "next", "reopen", "review", "consent", "register",
                        "start", "list"}

\* What a call that has read this may rely on when it writes.
Relies(r) ==
  /\ r.state \in Reviewed \/ r.at \in Past => record.version > 0
  /\ r.at \in {"record", "next", "reopen"} => r.listing \in Listings
  /\ r.at \in Writing => r.write \in Writes
  /\ r.at \in Writing \union {"record", "attach", "reopen", "review", "consent"} =>
       r.version \in Reviews
  /\ r.at \in {"attach", "review", "consent"} \/ (r.at \in Writing /\ r.write # "publish") =>
       r.listing \in Listings /\ r.listing = snapshot[r.version].listing
  /\ r.at = "consent" => r.listing \in ValidOnes
  /\ r.at = "attach" \/ (r.at = "complete" /\ r.write = "draft") => MadeFrom(r.product, r.version)
  /\ r.at \in Writing /\ r.write = "publish" =>
       /\ snapshot[r.version].listing \in consents
       /\ ~late => MadeFrom(r.product, r.version)

CallsRely == \A c \in Calls : Relies(call[c])

\* A claim that was made stays, and names what came of it; a write is in flight once, under its
\* claim, and has had no effect before it is sent.
ClaimsKept ==
  /\ artworks > 0 => claim[<<"upload", 0>>].status # "none"
  /\ \A i \in 1..Len(drafts) : claim[<<"draft", drafts[i].version>>].status # "none"
  /\ \A i \in 1..Len(listed) : claim[<<"publish", listed[i].version>>].status # "none"
  /\ \A v \in Reviews : claim[<<"draft", v>>].status = "completed" =>
                          MadeFrom(claim[<<"draft", v>>].result, v)

Unsent(c) ==
  CASE call[c].write = "upload"  -> artworks = 0
    [] call[c].write = "draft"   -> \A i \in 1..Len(drafts) : drafts[i].version # call[c].version
    [] call[c].write = "publish" -> \A i \in 1..Len(listed) : listed[i].version # call[c].version

WritesAlone ==
  \A c \in Calls :
    /\ call[c].at \in InFlight => claim[KeyOf(c)].status = "claimed"
    /\ call[c].at = "send" => Unsent(c)
    /\ \A d \in Calls \ {c} :
         call[c].at \in InFlight /\ call[d].at \in InFlight => KeyOf(c) # KeyOf(d)

\* What a published product is, until a generation has failed late.
ListedTrue ==
  ~late => \A i \in 1..Len(listed) :
             /\ MadeFrom(listed[i].product, listed[i].version)
             /\ snapshot[listed[i].version].listing \in consents

ListingInv ==
  /\ WorkflowTyped /\ ReviewRecorded /\ ApprovalTrue /\ DraftsMade /\ OwnProduct /\ CallsRely
  /\ ClaimsKept /\ WritesAlone /\ WritesOnce /\ ListedTrue

-----------------------------------------------------------------------------
(* What the table of transitions and the rows allow.                        *)

\* From where a job comes into the states in which it has something to show for.
LEMMA Table ==
  ASSUME NEW s \in JobStates, NEW t \in AllowedJobTransitions[s]
  PROVE  /\ t \in JobStates /\ t # "absent"
         /\ t = "listing_validated" => s = "listing_drafted"
         /\ t = "needs_revision" => s \in Reviewed
         /\ t = "printify_draft_created" => s = "ready_for_production"
         /\ t = "awaiting_approval" => s = "printify_draft_created"
         /\ t = "approved" => s \in {"awaiting_approval", "failed_retryable"}
         /\ t = "publishing" => s = "approved"
         /\ t = "published" => s \in {"publishing", "failed_retryable"}
         /\ t = "verified" => s = "published"
<1> USE DEF AllowedJobTransitions, Reviewed, ApprovalBound, JobStates
<1>1. CASE s \in {"uploaded", "intake_validated", "analyzing_artwork", "listing_drafted"}
  BY <1>1
<1>2. CASE s \in {"listing_validated", "ready_for_production", "printify_draft_created",
                  "awaiting_approval"}
  BY <1>2
<1>3. CASE s \in {"approved", "publishing", "published", "needs_revision"}
  BY <1>3
<1>4. CASE s \in {"failed_retryable", "verified", "failed_terminal", "cancelled", "absent"}
  BY <1>4
<1> QED
  BY <1>1, <1>2, <1>3, <1>4

\* What the provider has was made from reviews.
LEMMA Provided ==
  ASSUME WorkflowTyped
  PROVE  /\ Len(drafts) \in Nat /\ Len(listed) \in Nat
         /\ \A i \in 1..Len(drafts) :
              drafts[i].version \in Reviews /\ drafts[i].listing \in Listings
         /\ \A i \in 1..Len(listed) : listed[i].version \in Reviews /\ listed[i].product \in Nat
<1>1. drafts \in Seq(Products) /\ listed \in Seq(Publications)
  BY DEF WorkflowTyped
<1>2. \A i \in 1..Len(drafts) : drafts[i] \in Products
  BY <1>1
<1>3. \A i \in 1..Len(listed) : listed[i] \in Publications
  BY <1>1
<1> QED
  BY <1>1, <1>2, <1>3 DEF Products, Publications

\* What no step takes back: a job keeps having a review, a review what it shows, a product what
\* it was made from, a consent, a failure.
Grows ==
  /\ record.version > 0 => record'.version > 0
  /\ \A v \in Reviews :
       snapshot[v].listing \in Listings => snapshot'[v].listing = snapshot[v].listing
  /\ Len(drafts) <= Len(drafts') /\ \A i \in 1..Len(drafts) : drafts'[i] = drafts[i]
  /\ consents \subseteq consents' /\ (late => late')

LEMMA MadeKept ==
  ASSUME WorkflowTyped, WorkflowTyped', Grows, NEW p, NEW v, MadeFrom(p, v)
  PROVE  MadeFrom(p, v)'
<1>1. Len(drafts) \in Nat /\ Len(drafts') \in Nat
  BY DEF WorkflowTyped
<1> QED
  BY <1>1 DEF MadeFrom, Grows

\* What a call relies on stays so.
LEMMA RelyKept ==
  ASSUME WorkflowTyped, WorkflowTyped', Grows, NEW r, Relies(r)
  PROVE  Relies(r)'
<1>1. MadeFrom(r.product, r.version) => MadeFrom(r.product, r.version)'
  BY MadeKept
<1>2. r.version \in Reviews /\ snapshot[r.version].listing \in consents =>
        snapshot'[r.version].listing \in consents'
  BY DEF Grows, WorkflowTyped
<1>3. r.version \in Reviews /\ r.listing \in Listings /\ r.listing = snapshot[r.version].listing =>
        r.listing = snapshot'[r.version].listing
  BY DEF Grows
<1>4. record.version > 0 => record'.version > 0
  BY DEF Grows
<1>5. ~late' => ~late
  BY DEF Grows
<1>6. r.at \in Writing => r.version \in Reviews
  BY DEF Relies
<1>7. r.at \in {"attach", "review", "consent"} => r.version \in Reviews
  BY DEF Relies
<1> HIDE DEF MadeFrom, Writing, Past, Reviewed
<1> QED
  BY <1>1, <1>2, <1>3, <1>4, <1>5, <1>6, <1>7 DEF Relies

\* One call has come to r, on which it may rely; the others rely on what they did.
LEMMA CallsKept ==
  ASSUME WorkflowTyped, WorkflowTyped', CallsRely, Grows, NEW c \in Calls, NEW r, Goes(c, r),
         Relies(r)'
  PROVE  CallsRely'
<1> SUFFICES ASSUME NEW d \in Calls PROVE Relies(call[d])'
  BY DEF CallsRely
<1>1. PICK q : q = call'[d]
  OBVIOUS
<1>2. CASE d = c
  <2>1. q = r
    BY <1>1, <1>2 DEF Goes, WorkflowTyped
  <2> QED
    BY <1>1, <2>1
<1>3. CASE d # c
  <2>1. q = call[d]
    BY <1>1, <1>3 DEF Goes, WorkflowTyped
  <2>2. Relies(q)
    BY <2>1 DEF CallsRely
  <2>3. Relies(q)'
    BY <2>2, RelyKept
  <2> QED
    BY <1>1, <2>3
<1> QED
  BY <1>2, <1>3

\* A step of a call that is not about a write leaves claims and products as they are.
LEMMA WritesKept ==
  ASSUME ListingInv, UNCHANGED <<claim, provider>>,
         \A c \in Calls : call'[c].at \in InFlight => call'[c] = call[c]
  PROVE  ClaimsKept' /\ WritesAlone' /\ WritesOnce'
<1>1. ClaimsKept' /\ WritesOnce'
  BY DEF ListingInv, ClaimsKept, WritesOnce, provider, MadeFrom
<1>2. \A c \in Calls : call'[c].at \in InFlight =>
        /\ call[c].at = call'[c].at /\ KeyOf(c)' = KeyOf(c) /\ Unsent(c)' = Unsent(c)
  BY DEF KeyOf, Unsent, provider
<1>3. WritesAlone'
  BY <1>2 DEF ListingInv, WritesAlone, InFlight
<1> QED
  BY <1>1, <1>3

\* What was published stays what it was.
LEMMA ListedKept ==
  ASSUME ListingInv, WorkflowTyped', Grows, listed' = listed
  PROVE  ListedTrue'
<1> SUFFICES ASSUME ~late', NEW i \in 1..Len(listed)
             PROVE  /\ MadeFrom(listed[i].product, listed[i].version)'
                    /\ snapshot'[listed[i].version].listing \in consents'
  BY DEF ListedTrue
<1>1. listed[i].version \in Reviews
  BY Provided DEF ListingInv
<1>2. PICK p, v : p = listed[i].product /\ v = listed[i].version
  OBVIOUS
<1>3. MadeFrom(p, v) /\ snapshot[v].listing \in consents
  BY <1>2 DEF ListingInv, ListedTrue, Grows
<1>4. MadeFrom(p, v)'
  BY <1>3, MadeKept DEF ListingInv
<1>5. snapshot'[v].listing \in consents'
  BY <1>1, <1>2, <1>3 DEF Grows, ListingInv, WorkflowTyped
<1> QED
  BY <1>2, <1>4, <1>5

\* Products are what their reviews show, while no product is made.
LEMMA DraftsKept ==
  ASSUME ListingInv, Grows, drafts' = drafts
  PROVE  DraftsMade'
<1> SUFFICES ASSUME NEW i \in 1..Len(drafts)
             PROVE  drafts[i].listing = snapshot'[drafts[i].version].listing
  BY DEF DraftsMade
<1>1. drafts[i].version \in Reviews /\ drafts[i].listing \in Listings
  BY Provided DEF ListingInv
<1> QED
  BY <1>1 DEF ListingInv, DraftsMade, Grows

-----------------------------------------------------------------------------
(* Steps that only look.                                                    *)

LEMMA LookStep ==
  ASSUME ListingInv, UNCHANGED <<record, snapshot, claim, provider, history>>,
         generated' \in Listings \union {NoListing},
         NEW c \in Calls, NEW r \in CallRecords, Goes(c, r), Relies(r), r.at \notin InFlight
  PROVE  ListingInv'
<1>1. WorkflowTyped'
  BY DEF ListingInv, WorkflowTyped, Goes, provider, history
<1>2. Grows
  BY DEF ListingInv, WorkflowTyped, Grows, provider, history
<1>3. Relies(r)'
  BY <1>1, <1>2, RelyKept DEF ListingInv
<1>4. CallsRely'
  BY <1>1, <1>2, <1>3, CallsKept DEF ListingInv
<1>5. \A d \in Calls : call'[d].at \in InFlight => call'[d] = call[d]
  BY DEF Goes, ListingInv, WorkflowTyped
<1>6. ClaimsKept' /\ WritesAlone' /\ WritesOnce'
  BY <1>5, WritesKept
<1>7. ListedTrue' /\ DraftsMade'
  BY <1>1, <1>2, ListedKept, DraftsKept DEF provider
<1>8. ReviewRecorded' /\ ApprovalTrue' /\ OwnProduct'
  BY DEF ListingInv, ReviewRecorded, ApprovalTrue, OwnProduct, MadeFrom, provider, history
<1> QED
  BY <1>1, <1>4, <1>6, <1>7, <1>8 DEF ListingInv

\* The review of a job that has one.
LEMMA CurrentReview ==
  ASSUME ListingInv, record.version > 0
  PROVE  /\ record.version \in Reviews /\ Current = snapshot[record.version]
         /\ Current.listing \in Listings /\ Current.product \in Nat
  BY DEF ListingInv, WorkflowTyped, Jobs, Reviews, Current, ReviewRecorded

LEMMA IdleRelies == Idle \in CallRecords /\ Relies(Idle) /\ Idle.at \notin InFlight
  BY WorkflowAssumption DEF Idle, CallRecords, Ops, Labels, JobStates, Relies, Reviewed,
     ApprovalBound,
     Past, Writing, InFlight, Writes

LEMMA AbandonStep ==
  ASSUME ListingInv, NEW c \in Calls, Abandon(c) \/ RegisterApprovalWait(c)
  PROVE  ListingInv'
<1>1. PICK r : r = Idle
  OBVIOUS
<1>2. r \in CallRecords /\ Relies(r) /\ r.at \notin InFlight /\ Goes(c, r)
  BY <1>1, IdleRelies DEF Abandon, RegisterApprovalWait, Ends
<1> QED
  BY <1>2, LookStep DEF Abandon, RegisterApprovalWait, ListingInv, WorkflowTyped

LEMMA LookOnly ==
  ASSUME ListingInv, UNCHANGED <<record, generated, snapshot, claim, provider, history>>,
         NEW c \in Calls, NEW r \in CallRecords, Goes(c, r), Relies(r), r.at \notin InFlight
  PROVE  ListingInv'
  BY LookStep DEF ListingInv, WorkflowTyped

\* A call that stands here, with what it has read.
Standing(op, at, state, version, listing, product, write) ==
  [op |-> op, at |-> at, state |-> state, version |-> version, listing |-> listing,
   product |-> product, write |-> write]

LEMMA Stand ==
  ASSUME NEW op \in Ops, NEW at \in Labels, NEW s \in JobStates, NEW v \in 0..LastVersion,
         NEW l \in Listings \union {NoListing}, NEW p \in Nat, NEW w \in Writes \union {"none"},
         NEW r, r = Standing(op, at, s, v, l, p, w)
  PROVE  r \in CallRecords
  BY DEF Standing, CallRecords

\* What may be said of a call and of the job at any time.
LEMMA Here ==
  ASSUME ListingInv, NEW c \in Calls
  PROVE  /\ call[c] \in CallRecords /\ Relies(call[c]) /\ record \in Jobs
         /\ generated \in Listings \union {NoListing}
         /\ record.state \in Reviewed => record.version > 0
  BY DEF ListingInv, WorkflowTyped, CallsRely, ReviewRecorded

LEMMA Shown ==
  ASSUME ListingInv PROVE record.state \in Reviewed => record.version > 0
  BY DEF ListingInv, ReviewRecorded

LEMMA Plain ==
  /\ 0 \in 0..LastVersion /\ 1 \in Reviews /\ Reviews \subseteq 0..LastVersion
  /\ \A v \in Reviews : v > 0
  /\ "absent" \in JobStates /\ NoListing \notin Listings /\ 0 \in Nat
  BY WorkflowAssumption DEF JobStates, Reviews

LEMMA PrepareLooks ==
  ASSUME ListingInv, NEW c \in Calls,
         \/ BeginPrepare(c) \/ ReadCheckpoint(c) \/ SaveCheckpoint(c) \/ Reread(c) \/ ReadReview(c)
         \/ BeginProductDraft(c)
  PROVE  ListingInv'
<1>1. /\ call[c] \in CallRecords /\ call[c].op \in Ops
      /\ call[c].listing \in Listings \union {NoListing}
      /\ call[c].version \in 0..LastVersion /\ call[c].product \in Nat /\ call[c].state \in JobStates
      /\ record.state \in JobStates /\ record.version \in 0..LastVersion
      /\ record.approved \in 0..LastVersion /\ record.product \in Nat
      /\ generated \in Listings \union {NoListing}
      /\ record.state \in Reviewed => record.version > 0
      /\ Relies(call[c])
  BY Here DEF CallRecords, Jobs
<1>2. CASE BeginPrepare(c)
  <2>0. UNCHANGED <<record, generated, snapshot, claim, provider, history>>
    BY <1>2 DEF BeginPrepare
  <2>1. PICK r : r = [Idle EXCEPT !.op = "prepare", !.at = "route", !.state = record.state]
    OBVIOUS
  <2>2. /\ r.at = "route" /\ r.state = record.state /\ r.version = 0 /\ r.listing = NoListing
        /\ r.product = 0 /\ r.write = "none"
    BY <2>1 DEF Idle
  <2>3. r = Standing("prepare", "route", record.state, 0, NoListing, 0, "none")
    BY <2>1 DEF Idle, Standing
  <2>4. Goes(c, r)
    BY <1>2, <2>1 DEF BeginPrepare
  <2>5. r \in CallRecords
    BY <1>1, Plain, <2>3, Stand DEF Ops, Labels
  <2>6. Relies(r) /\ r.at \notin InFlight
    BY Shown, <2>2 DEF Relies, Past, Writing, InFlight
  <2> QED
    BY <2>0, <2>4, <2>5, <2>6, LookOnly
<1>3. CASE Reread(c)
  <2>0. UNCHANGED <<record, generated, snapshot, claim, provider, history>>
    BY <1>3 DEF Reread
  <2>1. PICK r : r = [Idle EXCEPT !.op = call[c].op, !.at = "route", !.state = record.state]
    OBVIOUS
  <2>2. /\ r.at = "route" /\ r.state = record.state /\ r.version = 0 /\ r.listing = NoListing
        /\ r.product = 0 /\ r.write = "none"
    BY <2>1 DEF Idle
  <2>3. r = Standing(call[c].op, "route", record.state, 0, NoListing, 0, "none")
    BY <2>1 DEF Idle, Standing
  <2>4. Goes(c, r)
    BY <1>3, <2>1 DEF Reread, Reaches
  <2>5. r \in CallRecords
    BY <1>1, Plain, <2>3, Stand DEF Ops, Labels
  <2>6. Relies(r) /\ r.at \notin InFlight
    BY Shown, <2>2 DEF Relies, Past, Writing, InFlight
  <2> QED
    BY <2>0, <2>4, <2>5, <2>6, LookOnly
<1>4. ASSUME NEW l \in Listings, Drafts(c, l), generated' \in Listings \union {NoListing},
             UNCHANGED <<record, snapshot, claim, provider, history>>
      PROVE  ListingInv'
  <2>1. PICK r : r = [Idle EXCEPT !.op = "prepare", !.at = "record", !.version = 1, !.listing = l]
    OBVIOUS
  <2>2. /\ r.at = "record" /\ r.state = "absent" /\ r.version = 1 /\ r.listing = l
        /\ r.product = 0 /\ r.write = "none"
    BY <2>1 DEF Idle
  <2>3. r = Standing("prepare", "record", "absent", 1, l, 0, "none")
    BY <2>1 DEF Idle, Standing
  <2>4. Goes(c, r)
    BY <1>4, <2>1 DEF Drafts
  <2>5. r \in CallRecords
    BY <1>4, Plain, <2>3, Stand DEF Ops, Labels
  <2>6. Relies(r) /\ r.at \notin InFlight
    BY Plain, <2>2 DEF Relies, Past, Writing, InFlight, Reviewed, ApprovalBound
  <2> QED
    BY <1>4, <2>4, <2>5, <2>6, LookStep
<1>5. CASE ReadCheckpoint(c)
  <2>0. UNCHANGED <<record, generated, snapshot, claim, provider, history>>
    BY <1>5 DEF ReadCheckpoint
  <2>1. CASE generated # NoListing
    <3>1. generated \in Listings
      BY <1>1, <2>1
    <3>2. Drafts(c, generated)
      BY <1>5, <2>1 DEF ReadCheckpoint
    <3>3. UNCHANGED <<record, snapshot, claim, provider, history>> /\ generated' = generated
      BY <2>0
    <3>4. generated' \in Listings \union {NoListing}
      BY <1>1, <3>3
    <3> QED
      BY <1>4, <3>1, <3>2, <3>3, <3>4
  <2>2. CASE generated = NoListing
    <3>1. PICK r : r = [Idle EXCEPT !.op = "prepare", !.at = "generate"]
      OBVIOUS
    <3>2. /\ r.at = "generate" /\ r.state = "absent" /\ r.version = 0 /\ r.listing = NoListing
          /\ r.product = 0 /\ r.write = "none"
      BY <3>1 DEF Idle
    <3>3. r = Standing("prepare", "generate", "absent", 0, NoListing, 0, "none")
      BY <3>1 DEF Idle, Standing
    <3>4. Goes(c, r)
      BY <1>5, <2>2, <3>1 DEF ReadCheckpoint
    <3>5. r \in CallRecords
      BY Plain, <3>3, Stand DEF Ops, Labels
    <3>6. Relies(r) /\ r.at \notin InFlight
      BY <3>2 DEF Relies, Past, Writing, InFlight, Reviewed, ApprovalBound
    <3> QED
      BY <2>0, <3>4, <3>5, <3>6, LookOnly
  <2> QED
    BY <2>1, <2>2
<1>6. CASE SaveCheckpoint(c)
  BY <1>4, <1>6 DEF SaveCheckpoint
<1>7. CASE ReadReview(c)
  <2>0. /\ UNCHANGED <<record, generated, snapshot, claim, provider, history>>
        /\ record.version > 0
    BY <1>1, <1>7 DEF ReadReview, Routes, At, Relies, Reviewed
  <2>1. Current.listing \in Listings
    BY <2>0, CurrentReview
  <2>2. PICK r : r = [Idle EXCEPT !.op = call[c].op, !.at = "validate",
                                  !.listing = Current.listing]
    OBVIOUS
  <2>3. /\ r.at = "validate" /\ r.state = "absent" /\ r.version = 0 /\ r.listing = Current.listing
        /\ r.product = 0 /\ r.write = "none"
    BY <2>2 DEF Idle
  <2>4. r = Standing(call[c].op, "validate", "absent", 0, Current.listing, 0, "none")
    BY <2>2 DEF Idle, Standing
  <2>5. Goes(c, r)
    BY <1>7, <2>2 DEF ReadReview
  <2>6. r \in CallRecords
    BY <1>1, <2>1, Plain, <2>4, Stand DEF Ops, Labels
  <2>7. Relies(r) /\ r.at \notin InFlight
    BY <2>0, <2>1, <2>3 DEF Relies, Past, Writing, InFlight, Reviewed, ApprovalBound
  <2> QED
    BY <2>0, <2>5, <2>6, <2>7, LookOnly
<1>8. CASE BeginProductDraft(c)
  <2>0. /\ UNCHANGED <<record, generated, snapshot, claim, provider, history>>
        /\ record.version > 0
    BY <1>1, <1>8 DEF BeginProductDraft, Routes, At, Relies, Reviewed
  <2>1. /\ Current.listing \in Listings /\ record.version \in Reviews
        /\ Current.listing = snapshot[record.version].listing
    BY <2>0, CurrentReview
  <2>2. PICK r : r = [Idle EXCEPT !.op = call[c].op, !.at = "claim", !.version = record.version,
                                  !.listing = Current.listing, !.write = "upload"]
    OBVIOUS
  <2>3. /\ r.at = "claim" /\ r.state = "absent" /\ r.version = record.version
        /\ r.listing = Current.listing
        /\ r.product = 0 /\ r.write = "upload"
    BY <2>2 DEF Idle
  <2>4. r = Standing(call[c].op, "claim", "absent", record.version, Current.listing, 0, "upload")
    BY <2>2 DEF Idle, Standing
  <2>5. Goes(c, r)
    BY <1>8, <2>2 DEF BeginProductDraft
  <2>6. r \in CallRecords
    BY <1>1, <2>1, Plain, <2>4, Stand DEF Ops, Labels, Writes
  <2>7. Relies(r) /\ r.at \notin InFlight
    BY <2>0, <2>1, <2>3 DEF Relies, Past, Writing, InFlight, Reviewed, ApprovalBound, Writes
  <2> QED
    BY <2>0, <2>5, <2>6, <2>7, LookOnly
<1> QED
  BY <1>2, <1>3, <1>5, <1>6, <1>7, <1>8

LEMMA SellerLooks ==
  ASSUME ListingInv, NEW c \in Calls,
         \/ BeginRevise(c) \/ NumberRevision(c) \/ BeginApprove(c) \/ CheckApproval(c)
         \/ BeginWait(c) \/ BeginPublish(c)
  PROVE  ListingInv'
<1>1. /\ call[c] \in CallRecords /\ call[c].op \in Ops
      /\ call[c].listing \in Listings \union {NoListing}
      /\ call[c].version \in 0..LastVersion /\ call[c].product \in Nat /\ call[c].state \in JobStates
      /\ record.state \in JobStates /\ record.version \in 0..LastVersion
      /\ record.approved \in 0..LastVersion /\ record.product \in Nat
      /\ generated \in Listings \union {NoListing}
      /\ record.state \in Reviewed => record.version > 0
      /\ Relies(call[c])
  BY Here DEF CallRecords, Jobs
<1>2. CASE BeginRevise(c)
  <2>0. /\ UNCHANGED <<record, generated, snapshot, claim, provider, history>>
        /\ record.version > 0
    <3>1. UNCHANGED <<record, generated, snapshot, claim, provider, history>>
      BY <1>2 DEF BeginRevise
    <3>2. record.state \in {"awaiting_approval", "approved", "needs_revision"}
      BY <1>2 DEF BeginRevise
    <3> QED
      BY <3>1, <3>2, Shown DEF Reviewed, ApprovalBound
  <2>1. PICK l \in Listings :
          Goes(c, [Idle EXCEPT !.op = "revise", !.at = "next", !.state = record.state, !.listing = l])
    BY <1>2 DEF BeginRevise
  <2>2. PICK r : r = [Idle EXCEPT !.op = "revise", !.at = "next", !.state = record.state,
                                  !.listing = l]
    OBVIOUS
  <2>3. /\ r.at = "next" /\ r.state = record.state /\ r.version = 0 /\ r.listing = l
        /\ r.product = 0 /\ r.write = "none"
    BY <2>2 DEF Idle
  <2>4. r = Standing("revise", "next", record.state, 0, l, 0, "none")
    BY <2>2 DEF Idle, Standing
  <2>5. Goes(c, r)
    BY <2>1, <2>2
  <2>6. r \in CallRecords
    BY <1>1, Plain, <2>4, Stand DEF Ops, Labels
  <2>7. Relies(r) /\ r.at \notin InFlight
    BY <2>0, <2>3 DEF Relies, Past, Writing, InFlight
  <2> QED
    BY <2>0, <2>5, <2>6, <2>7, LookOnly
<1>3. CASE NumberRevision(c)
  <2>0. /\ UNCHANGED <<record, generated, snapshot, claim, provider, history>>
        /\ record.version > 0 /\ call[c].listing \in Listings /\ record.version < LastVersion
    BY <1>1, <1>3 DEF NumberRevision, At, Relies, Past
  <2>1. record.version + 1 \in Reviews /\ Current.product \in Nat
    BY <1>1, <2>0, CurrentReview, WorkflowAssumption DEF Reviews
  <2>2. PICK at \in {"record", "reopen"} :
          Goes(c, [Idle EXCEPT !.op = "revise", !.listing = call[c].listing, !.at = at,
                               !.version = record.version + 1, !.product = Current.product])
    BY <1>3 DEF NumberRevision
  <2>3. PICK r : r = [Idle EXCEPT !.op = "revise", !.at = at, !.version = record.version + 1,
                                  !.listing = call[c].listing, !.product = Current.product]
    OBVIOUS
  <2>4. /\ r.at = at /\ r.state = "absent" /\ r.version = record.version + 1
        /\ r.listing = call[c].listing
        /\ r.product = Current.product /\ r.write = "none"
    BY <2>3 DEF Idle
  <2>5. r = Standing("revise", at, "absent", record.version + 1, call[c].listing,
                     Current.product, "none")
    BY <2>3 DEF Idle, Standing
  <2>6. Goes(c, r)
    BY <2>2, <2>3
  <2>7. r \in CallRecords
    BY <1>1, <2>1, Plain, <2>5, Stand DEF Ops, Labels
  <2>8. Relies(r) /\ r.at \notin InFlight
    BY <2>0, <2>1, <2>4 DEF Relies, Past, Writing, InFlight, Reviewed, ApprovalBound
  <2> QED
    BY <2>0, <2>6, <2>7, <2>8, LookOnly
<1>4. CASE BeginApprove(c)
  <2>0. /\ UNCHANGED <<record, generated, snapshot, claim, provider, history>>
        /\ record.version > 0
    <3>1. UNCHANGED <<record, generated, snapshot, claim, provider, history>>
      BY <1>4 DEF BeginApprove
    <3>2. record.state \in {"awaiting_approval"}
      BY <1>4 DEF BeginApprove
    <3> QED
      BY <3>1, <3>2, Shown DEF Reviewed, ApprovalBound
  <2>1. PICK v \in Reviews, op \in {"approve", "approve_waiting"} :
          /\ snapshot[v] # NoReview
          /\ Goes(c, [Idle EXCEPT !.op = op, !.at = "review", !.version = v,
                                  !.listing = snapshot[v].listing])
    BY <1>4 DEF BeginApprove, Reviews
  <2>2. snapshot[v].listing \in Listings
    BY <2>1 DEF ListingInv, ReviewRecorded, WorkflowTyped
  <2>3. PICK r : r = [Idle EXCEPT !.op = op, !.at = "review", !.version = v,
                                  !.listing = snapshot[v].listing]
    OBVIOUS
  <2>4. /\ r.at = "review" /\ r.state = "absent" /\ r.version = v
        /\ r.listing = snapshot[v].listing
        /\ r.product = 0 /\ r.write = "none"
    BY <2>3 DEF Idle
  <2>5. r = Standing(op, "review", "absent", v, snapshot[v].listing, 0, "none")
    BY <2>3 DEF Idle, Standing
  <2>6. Goes(c, r)
    BY <2>1, <2>3
  <2>7. r \in CallRecords
    BY <2>2, Plain, <2>5, Stand DEF Ops, Labels
  <2>8. Relies(r) /\ r.at \notin InFlight
    BY <2>0, <2>2, <2>4 DEF Relies, Past, Writing, InFlight, Reviewed, ApprovalBound
  <2> QED
    BY <2>0, <2>6, <2>7, <2>8, LookOnly
<1>5. CASE CheckApproval(c)
  <2>0. UNCHANGED <<record, generated, snapshot, claim, provider, history>>
    BY <1>5 DEF CheckApproval
  <2>1. PICK r : r = [call[c] EXCEPT !.at = "consent", !.product = Current.product]
    OBVIOUS
  <2>2. call[c].at = "review" /\ call[c].version = record.version /\ Current.listing \in ValidOnes
        /\ Goes(c, r)
    BY <1>5, <2>1 DEF CheckApproval, At
  <2>3. record.version > 0
    BY <1>1, <2>2 DEF Relies, Past
  <2>4. /\ Current.product \in Nat /\ record.version \in Reviews
        /\ Current.listing = snapshot[record.version].listing
    BY <2>3, CurrentReview
  <2>5. r \in CallRecords
    BY <1>1, <2>1, <2>4 DEF CallRecords, Labels
  <2>6. r.at = "consent" /\ r.version = call[c].version /\ r.listing = call[c].listing
    BY <1>1, <2>1 DEF CallRecords
  <2>7. Relies(r) /\ r.at \notin InFlight
    BY <1>1, <2>2, <2>3, <2>4, <2>6 DEF Relies, Past, Writing, InFlight
  <2> QED
    BY <2>0, <2>2, <2>5, <2>7, LookOnly
<1>6. CASE BeginWait(c)
  <2>0. /\ UNCHANGED <<record, generated, snapshot, claim, provider, history>>
        /\ record.version > 0
    <3>1. UNCHANGED <<record, generated, snapshot, claim, provider, history>>
      BY <1>6 DEF BeginWait
    <3>2. record.state \in {"awaiting_approval"}
      BY <1>6 DEF BeginWait
    <3> QED
      BY <3>1, <3>2, Shown DEF Reviewed, ApprovalBound
  <2>1. PICK r : r = [Idle EXCEPT !.op = "wait", !.at = "register", !.version = record.version]
    OBVIOUS
  <2>2. /\ r.at = "register" /\ r.state = "absent" /\ r.version = record.version
        /\ r.listing = NoListing
        /\ r.product = 0 /\ r.write = "none"
    BY <2>1 DEF Idle
  <2>3. r = Standing("wait", "register", "absent", record.version, NoListing, 0, "none")
    BY <2>1 DEF Idle, Standing
  <2>4. Goes(c, r)
    BY <1>6, <2>1 DEF BeginWait
  <2>5. r \in CallRecords
    BY <1>1, Plain, <2>3, Stand DEF Ops, Labels
  <2>6. Relies(r) /\ r.at \notin InFlight
    BY <2>0, <2>2 DEF Relies, Past, Writing, InFlight, Reviewed, ApprovalBound
  <2> QED
    BY <2>0, <2>4, <2>5, <2>6, LookOnly
<1>7. CASE BeginPublish(c)
  <2>0. /\ UNCHANGED <<record, generated, snapshot, claim, provider, history>>
        /\ record.version > 0 /\ record.approved = record.version
    <3>1. UNCHANGED <<record, generated, snapshot, claim, provider, history>>
      BY <1>7 DEF BeginPublish
    <3>2. record.state \in {"approved", "publishing"}
      BY <1>7 DEF BeginPublish
    <3> QED
      BY <3>1, <3>2, Shown DEF ListingInv, ApprovalTrue, Reviewed, ApprovalBound
  <2>1. CASE record.state = "publishing"
    <3>0. snapshot[record.version].listing \in consents
          /\ (~late => MadeFrom(record.product, record.version))
      BY <2>0, <2>1 DEF ListingInv, ApprovalTrue, OwnProduct, HasProduct, ApprovalBound
    <3>1. PICK r : r = [Idle EXCEPT !.op = "publish", !.at = "claim", !.version = record.version,
                                    !.product = record.product, !.write = "publish"]
      OBVIOUS
    <3>2. /\ r.at = "claim" /\ r.state = "absent" /\ r.version = record.version
          /\ r.listing = NoListing
          /\ r.product = record.product /\ r.write = "publish"
      BY <3>1 DEF Idle
    <3>3. r = Standing("publish", "claim", "absent", record.version, NoListing, record.product,
                       "publish")
      BY <3>1 DEF Idle, Standing
    <3>4. Goes(c, r)
      BY <1>7, <2>1, <3>1 DEF BeginPublish, Holds
    <3>5. r \in CallRecords
      BY <1>1, Plain, <3>3, Stand DEF Ops, Labels, Writes
    <3>6. Relies(r) /\ r.at \notin InFlight
      BY <2>0, <3>0, CurrentReview, <3>2 DEF Relies, Past, Writing, InFlight, Reviewed,
         ApprovalBound, Writes
    <3> QED
      BY <2>0, <3>4, <3>5, <3>6, LookOnly
  <2>2. CASE record.state # "publishing"
    <3>1. PICK r : r = [Idle EXCEPT !.op = "publish", !.at = "start"]
      OBVIOUS
    <3>2. /\ r.at = "start" /\ r.state = "absent" /\ r.version = 0 /\ r.listing = NoListing
          /\ r.product = 0 /\ r.write = "none"
      BY <3>1 DEF Idle
    <3>3. r = Standing("publish", "start", "absent", 0, NoListing, 0, "none")
      BY <3>1 DEF Idle, Standing
    <3>4. Goes(c, r)
      BY <1>7, <2>2, <3>1 DEF BeginPublish
    <3>5. r \in CallRecords
      BY Plain, <3>3, Stand DEF Ops, Labels
    <3>6. Relies(r) /\ r.at \notin InFlight
      BY <2>0, <3>2 DEF Relies, Past, Writing, InFlight, Reviewed, ApprovalBound
    <3> QED
      BY <2>0, <3>4, <3>5, <3>6, LookOnly
  <2> QED
    BY <2>1, <2>2
<1> QED
  BY <1>2, <1>3, <1>4, <1>5, <1>6, <1>7

-----------------------------------------------------------------------------
(* Transitions of the job.                                                  *)

LEMMA MoveRest ==
  ASSUME ListingInv, UNCHANGED <<generated, claim, provider>>, Grows, record' \in Jobs,
         snapshot' \in [Reviews -> [listing : Listings \union {NoListing}, product : Nat]],
         consents' \subseteq Listings, late' \in BOOLEAN,
         ReviewRecorded', ApprovalTrue', OwnProduct', call' \in [Calls -> CallRecords],
         CallsRely', \A d \in Calls : call'[d].at \in InFlight => call'[d] = call[d]
  PROVE  ListingInv'
<1>1. WorkflowTyped'
  BY DEF ListingInv, WorkflowTyped, provider
<1>2. ClaimsKept' /\ WritesAlone' /\ WritesOnce'
  BY WritesKept
<1>3. ListedTrue' /\ DraftsMade'
  BY <1>1, ListedKept, DraftsKept DEF provider
<1> QED
  BY <1>1, <1>2, <1>3 DEF ListingInv

LEMMA MoveStep ==
  ASSUME ListingInv, UNCHANGED <<generated, claim, provider>>, Grows, record' \in Jobs,
         snapshot' \in [Reviews -> [listing : Listings \union {NoListing}, product : Nat]],
         consents' \subseteq Listings, late' \in BOOLEAN,
         ReviewRecorded', ApprovalTrue', OwnProduct',
         NEW c \in Calls, NEW r \in CallRecords, Goes(c, r), Relies(r)', r.at \notin InFlight
  PROVE  ListingInv'
<1>1. call' \in [Calls -> CallRecords]
  BY DEF ListingInv, WorkflowTyped, Goes
<1>2. WorkflowTyped'
  BY <1>1 DEF ListingInv, WorkflowTyped, provider
<1>3. CallsRely'
  BY <1>2, CallsKept DEF ListingInv
<1>4. \A d \in Calls : call'[d].at \in InFlight => call'[d] = call[d]
  BY DEF Goes, ListingInv, WorkflowTyped
<1> QED
  BY <1>1, <1>3, <1>4, MoveRest

\* A transition that changes no version leaves what is true of the job true, if the state it
\* enters says no more than the job has.
LEMMA Moved ==
  ASSUME ListingInv, UNCHANGED <<snapshot, provider, consents>>, late => late',
         record' \in Jobs, record'.version = record.version,
         record'.approved \in {record.approved, 0}, record'.product = record.product,
         record'.state \in ApprovalBound => record'.approved = record'.version,
         record'.state \in Reviewed => record.version > 0,
         ~late' /\ record'.state = "failed_retryable" => record.version = 0,
         ~late' /\ record'.state \in HasProduct => MadeFrom(record.product, record.version)
  PROVE  Grows /\ ReviewRecorded' /\ ApprovalTrue' /\ OwnProduct'
<1>1. Grows
  BY DEF ListingInv, WorkflowTyped, Grows, provider
<1>2. ReviewRecorded'
  BY DEF ListingInv, ReviewRecorded
<1>3. ApprovalTrue'
  BY DEF ListingInv, ApprovalTrue
<1>4. OwnProduct'
  BY DEF OwnProduct, MadeFrom, provider
<1> QED
  BY <1>1, <1>2, <1>3, <1>4

LEMMA MovesToTarget ==
  ASSUME ListingInv, NEW target, MovesTo(target)
  PROVE  /\ target \in AllowedJobTransitions[record.state] /\ record.state \in JobStates
         /\ record' \in Jobs /\ record'.state = target /\ record'.version = record.version
         /\ record'.approved = record.approved /\ record'.product = record.product
         /\ target \in ApprovalBound => record'.approved = record'.version
<1>1. /\ record \in Jobs /\ target \in AllowedJobTransitions[record.state]
      /\ record' = [record EXCEPT !.state = target]
      /\ target \in ApprovalBound => record.approved = record.version
  BY DEF ListingInv, WorkflowTyped, MovesTo, Moves, Jobs
<1>2. record.state \in JobStates
  BY <1>1 DEF Jobs
<1>3. target \in JobStates
  BY <1>1, <1>2, Table
<1> QED
  BY <1>1, <1>2, <1>3 DEF Jobs

\* A call that has read nothing, or a state the job has a review in.
LEMMA RouteRelies ==
  ASSUME ListingInv, NEW c \in Calls, NEW s \in JobStates, NEW r,
         s \in Reviewed => record'.version > 0,
         r = [Idle EXCEPT !.op = call[c].op, !.at = "route", !.state = s]
  PROVE  r \in CallRecords /\ Relies(r)' /\ r.at \notin InFlight
<1>1. call[c].op \in Ops
  BY Here DEF CallRecords
<1>2. r.at = "route" /\ r.state = s /\ r.write = "none"
  BY DEF Idle
<1>3. r = Standing(call[c].op, "route", s, 0, NoListing, 0, "none")
  BY DEF Idle, Standing
<1>4. r \in CallRecords
  BY <1>1, <1>3, Stand, Plain DEF Labels
<1> QED
  BY <1>2, <1>4 DEF Relies, Past, Writing, InFlight

LEMMA RereadRelies ==
  ASSUME NEW r, r = [Idle EXCEPT !.op = "prepare", !.at = "reread"]
  PROVE  r \in CallRecords /\ Relies(r)' /\ r.at \notin InFlight
<1>1. r.at = "reread" /\ r.state = "absent"
  BY DEF Idle
<1>2. r = Standing("prepare", "reread", "absent", 0, NoListing, 0, "none")
  BY DEF Idle, Standing
<1>3. r \in CallRecords
  BY <1>2, Stand, Plain DEF Ops, Labels
<1> QED
  BY <1>1, <1>3 DEF Relies, Past, Writing, InFlight, Reviewed, ApprovalBound

LEMMA ValidateRelies ==
  ASSUME NEW r, NEW l \in Listings, record'.version > 0,
         r = [Idle EXCEPT !.op = "revise", !.at = "validate", !.listing = l]
  PROVE  r \in CallRecords /\ Relies(r)' /\ r.at \notin InFlight
<1>1. r.at = "validate" /\ r.state = "absent"
  BY DEF Idle
<1>2. r = Standing("revise", "validate", "absent", 0, l, 0, "none")
  BY DEF Idle, Standing
<1>3. r \in CallRecords
  BY <1>2, Stand, Plain DEF Ops, Labels
<1> QED
  BY <1>1, <1>3 DEF Relies, Past, Writing, InFlight

LEMMA IdleReliesThen == Relies(Idle)'
  BY DEF Idle, Relies, Reviewed, ApprovalBound, Past, Writing

LEMMA PrepareMoves ==
  ASSUME ListingInv, NEW c \in Calls,
         \/ ValidateIntake(c) \/ StartAnalysis(c) \/ ValidateListing(c) \/ MakeReady(c)
         \/ PresentForApproval(c)
  PROVE  ListingInv'
<1>0. /\ call[c] \in CallRecords /\ Relies(call[c]) /\ late \in BOOLEAN
      /\ snapshot \in [Reviews -> [listing : Listings \union {NoListing}, product : Nat]]
      /\ consents \subseteq Listings
  BY DEF ListingInv, WorkflowTyped, CallsRely
<1>1. record.state \in Reviewed => record.version > 0
  BY DEF ListingInv, ReviewRecorded
<1>2. ASSUME NEW target, MovesTo(target), UNCHANGED <<generated, snapshot, claim, provider, history>>,
             Ends(c) \/ Reaches(c, target), target \in Reviewed => record.version > 0,
             target # "failed_retryable",
             ~late /\ target \in HasProduct => MadeFrom(record.product, record.version)
      PROVE  ListingInv'
  <2>1. UNCHANGED <<consents, late>>
    BY <1>2 DEF history
  <2>2. /\ target \in JobStates /\ record' \in Jobs /\ record'.version = record.version
        /\ record'.approved = record.approved /\ record'.product = record.product
        /\ record'.state = target
        /\ target \in ApprovalBound => record'.approved = record'.version
    BY <1>2, MovesToTarget, Table
  <2>3. Grows /\ ReviewRecorded' /\ ApprovalTrue' /\ OwnProduct'
    <3>1. UNCHANGED <<snapshot, provider, consents>> /\ (late => late')
      BY <1>2, <2>1
    <3>2. /\ record'.approved \in {record.approved, 0}
          /\ record'.state \in ApprovalBound => record'.approved = record'.version
          /\ record'.state \in Reviewed => record.version > 0
          /\ record'.state # "failed_retryable"
      BY <1>2, <2>2
    <3>3. ~late' /\ record'.state \in HasProduct => MadeFrom(record.product, record.version)
      BY <1>2, <2>1, <2>2
    <3> QED
      BY <2>2, <3>1, <3>2, <3>3, Moved
  <2>4. PICK r : /\ r = Idle \/ r = [Idle EXCEPT !.op = call[c].op, !.at = "route", !.state = target]
                 /\ Goes(c, r)
    BY <1>2 DEF Ends, Reaches
  <2>5. r \in CallRecords /\ Relies(r)' /\ r.at \notin InFlight
    <3>1. CASE r = Idle
      BY <3>1, IdleRelies, IdleReliesThen
    <3>2. CASE r = [Idle EXCEPT !.op = call[c].op, !.at = "route", !.state = target]
      BY <1>2, <2>2, <3>2, RouteRelies
    <3> QED
      BY <2>4, <3>1, <3>2
  <2> QED
    BY <1>0, <1>2, <2>1, <2>2, <2>3, <2>4, <2>5, MoveStep
<1>3. CASE ValidateIntake(c)
  BY <1>2, <1>3 DEF ValidateIntake, Reviewed, ApprovalBound, HasProduct
<1>4. CASE StartAnalysis(c)
  BY <1>2, <1>4 DEF StartAnalysis, Reviewed, ApprovalBound, HasProduct
<1>5. CASE ValidateListing(c)
  <2>1. record.version > 0
    BY <1>0, <1>5 DEF ValidateListing, At, Relies, Past
  <2> QED
    BY <1>2, <1>5, <2>1 DEF ValidateListing, Reviewed, ApprovalBound, HasProduct
<1>6. CASE MakeReady(c)
  <2>1. record.version > 0
    BY <1>0, <1>6 DEF MakeReady, Routes, Relies, Reviewed
  <2> QED
    BY <1>2, <1>6, <2>1 DEF MakeReady, Reviewed, ApprovalBound, HasProduct
<1>7. CASE PresentForApproval(c)
  <2>1. MovesTo("awaiting_approval")
    BY <1>7 DEF PresentForApproval
  <2>2. record.state = "printify_draft_created"
    BY <2>1, MovesToTarget, Table
  <2>3. record.version > 0 /\ (~late => MadeFrom(record.product, record.version))
    BY <1>1, <2>2 DEF Reviewed, ListingInv, OwnProduct, HasProduct
  <2> QED
    BY <1>2, <1>7, <2>1, <2>3 DEF PresentForApproval
<1> QED
  BY <1>3, <1>4, <1>5, <1>6, <1>7

LEMMA CreateStep ==
  ASSUME ListingInv, NEW c \in Calls, CreateIntake(c) PROVE ListingInv'
<1>0. /\ late \in BOOLEAN /\ consents \subseteq Listings /\ 0 \in 0..LastVersion /\ 0 \in Nat
      /\ snapshot \in [Reviews -> [listing : Listings \union {NoListing}, product : Nat]]
      /\ UNCHANGED <<snapshot, provider, consents, late>>
  BY WorkflowAssumption DEF ListingInv, WorkflowTyped, CreateIntake, history
<1>1. record = NoJob /\ record' = [NoJob EXCEPT !.state = "uploaded"]
  BY DEF CreateIntake
<1>2. /\ record' \in Jobs /\ record'.version = record.version /\ record'.approved = record.approved
      /\ record'.product = record.product /\ record'.state = "uploaded"
  BY <1>0, <1>1 DEF NoJob, Jobs, JobStates
<1>3. Grows /\ ReviewRecorded' /\ ApprovalTrue' /\ OwnProduct'
  BY <1>0, <1>2, Moved DEF Reviewed, ApprovalBound, HasProduct
<1>4. PICK r : r = [Idle EXCEPT !.op = "intake", !.at = "validate_intake"]
  OBVIOUS
<1>5. r \in CallRecords /\ Relies(r)' /\ r.at \notin InFlight /\ Goes(c, r)
  BY <1>0, <1>4 DEF CreateIntake, Idle, CallRecords, Ops, Labels, JobStates, Relies, Reviewed,
     ApprovalBound, Past, Writing, InFlight, Writes
<1> QED
  BY <1>0, <1>2, <1>3, <1>5, MoveStep DEF CreateIntake

LEMMA FailStep ==
  ASSUME ListingInv, NEW c \in Calls, GenerationFails(c) PROVE ListingInv'
<1>0. /\ late \in BOOLEAN /\ consents \subseteq Listings /\ UNCHANGED <<snapshot, provider, consents>>
      /\ snapshot \in [Reviews -> [listing : Listings \union {NoListing}, product : Nat]]
      /\ record.version \in Nat
  BY DEF ListingInv, WorkflowTyped, Jobs, GenerationFails
<1>1. PICK target \in {"failed_retryable", "failed_terminal"} : MovesTo(target)
  BY DEF GenerationFails
<1>2. late' = (late \/ record.version > 0)
  BY DEF GenerationFails
<1>3. late' \in BOOLEAN /\ (late => late') /\ (~late' => ~(record.version > 0))
  BY Zenon, <1>2
<1>4. ~late' => record.version = 0
  BY <1>0, <1>3
<1>5. Grows /\ ReviewRecorded' /\ ApprovalTrue' /\ OwnProduct' /\ record' \in Jobs
  BY <1>0, <1>1, <1>3, <1>4, MovesToTarget, Moved DEF Reviewed, ApprovalBound, HasProduct
<1>6. PICK r : r = Idle
  OBVIOUS
<1>7. r \in CallRecords /\ Relies(r)' /\ r.at \notin InFlight /\ Goes(c, r)
  BY <1>6, IdleRelies, IdleReliesThen DEF GenerationFails, Ends
<1> QED
  BY <1>0, <1>3, <1>5, <1>7, MoveStep DEF GenerationFails

LEMMA Stored ==
  ASSUME ListingInv, NEW v \in Reviews, NEW l \in Listings, NEW p \in Nat, Stores(v, l, p)
  PROVE  /\ snapshot' \in [Reviews -> [listing : Listings \union {NoListing}, product : Nat]]
         /\ \A w \in Reviews :
              snapshot[w].listing \in Listings => snapshot'[w].listing = snapshot[w].listing
         /\ \A w \in Reviews : snapshot'[w].listing = NoListing => snapshot'[w] = NoReview
         /\ snapshot'[v].listing = l /\ record'.version = v
<1>1. snapshot' = [snapshot EXCEPT ![v] = [listing |-> l, product |-> p]]
      /\ snapshot[v].listing \in {NoListing, l} /\ record'.version = v
  BY DEF Stores
<1>2. l # NoListing
  BY WorkflowAssumption
<1> QED
  BY <1>1, <1>2, WorkflowAssumption DEF ListingInv, WorkflowTyped, ReviewRecorded

\* An approval stays true when another review is stored.
LEMMA ApprovalKept ==
  ASSUME ListingInv, record.approved # 0, consents \subseteq consents',
         \A w \in Reviews :
           snapshot[w].listing \in Listings => snapshot'[w].listing = snapshot[w].listing
  PROVE  snapshot'[record.approved].listing \in ValidOnes \intersect consents'
<1>1. record.approved \in Reviews
  BY DEF ListingInv, WorkflowTyped, Jobs, Reviews
<1> QED
  BY <1>1, WorkflowAssumption DEF ListingInv, ApprovalTrue

LEMMA RecordStep ==
  ASSUME ListingInv, NEW c \in Calls, RecordReview(c) PROVE ListingInv'
<1> PICK v, l, p : v = call[c].version /\ l = call[c].listing /\ p = call[c].product
  OBVIOUS
<1>0. /\ late \in BOOLEAN /\ consents \subseteq Listings /\ UNCHANGED <<provider, consents, late>>
      /\ call[c] \in CallRecords /\ record \in Jobs /\ v \in Reviews /\ l \in Listings
      /\ p \in Nat /\ Reviews \subseteq 0..LastVersion
  BY WorkflowAssumption DEF ListingInv, WorkflowTyped, CallsRely, Relies, RecordReview, At,
     history,
     CallRecords, Reviews
<1>1. record' = [record EXCEPT !.state = "listing_drafted", !.version = v] /\ Stores(v, l, p)
  BY DEF RecordReview, Moves
<1>2. /\ record' \in Jobs /\ record'.version = v /\ v > 0 /\ record'.approved = record.approved
      /\ record'.state = "listing_drafted"
  <2>1. v \in 0..LastVersion /\ v > 0 /\ "listing_drafted" \in JobStates
    BY <1>0, Plain DEF JobStates
  <2> QED
    BY <1>0, <1>1, <2>1 DEF Jobs
<1>3. Grows
  BY <1>0, <1>1, <1>2, Stored DEF Grows, provider, ListingInv, WorkflowTyped
<1>4. ReviewRecorded'
  BY <1>0, <1>1, <1>2, Stored DEF ReviewRecorded
<1>5. ApprovalTrue'
  BY <1>0, <1>1, <1>2, Stored, ApprovalKept DEF ApprovalTrue, ApprovalBound
<1>6. OwnProduct'
  BY <1>2 DEF OwnProduct, HasProduct, ApprovalBound
<1>7. PICK r : /\ \/ r = [Idle EXCEPT !.op = "prepare", !.at = "reread"]
                  \/ r = [Idle EXCEPT !.op = "revise", !.at = "validate", !.listing = l]
               /\ Goes(c, r)
  BY DEF RecordReview
<1>8. r \in CallRecords /\ Relies(r)' /\ r.at \notin InFlight
  BY <1>0, <1>2, <1>7, RereadRelies, ValidateRelies
<1> QED
  BY <1>0, <1>1, <1>2, <1>3, <1>4, <1>5, <1>6, <1>7, <1>8, Stored, MoveStep DEF RecordReview

LEMMA AttachStep ==
  ASSUME ListingInv, NEW c \in Calls, AttachProduct(c) PROVE ListingInv'
<1> PICK v, l, p : v = call[c].version /\ l = call[c].listing /\ p = call[c].product
  OBVIOUS
<1>0. /\ late \in BOOLEAN /\ consents \subseteq Listings /\ UNCHANGED <<provider, consents, late>>
      /\ call[c] \in CallRecords /\ record \in Jobs /\ v \in Reviews /\ l \in Listings
      /\ p \in Nat /\ Reviews \subseteq 0..LastVersion /\ MadeFrom(p, v)
  BY WorkflowAssumption DEF ListingInv, WorkflowTyped, CallsRely, Relies, AttachProduct, At,
     history,
     CallRecords, Reviews
<1>1. /\ record' = [record EXCEPT !.state = "printify_draft_created", !.product = p]
      /\ Stores(v, l, p)
  BY DEF AttachProduct, Moves
<1>2. /\ record' \in Jobs /\ record'.version = record.version /\ record'.approved = record.approved
      /\ record'.state = "printify_draft_created" /\ record'.product = p /\ record'.version = v
      /\ v > 0
  <2>1. v > 0 /\ "printify_draft_created" \in JobStates /\ record'.version = v
    BY <1>0, <1>1, Plain DEF JobStates, Stores
  <2> QED
    BY <1>0, <1>1, <2>1 DEF Jobs
<1>3. Grows
  BY <1>0, <1>1, <1>2, Stored DEF Grows, provider, ListingInv, WorkflowTyped
<1>4. ReviewRecorded'
  BY <1>0, <1>1, <1>2, Stored DEF ReviewRecorded
<1>5. ApprovalTrue'
  BY <1>0, <1>1, <1>2, Stored, ApprovalKept DEF ApprovalTrue, ApprovalBound
<1>6. OwnProduct'
  BY <1>0, <1>2 DEF OwnProduct, MadeFrom, provider
<1>7. PICK r : /\ \/ r = [Idle EXCEPT !.op = "prepare", !.at = "reread"]
                  \/ r = [Idle EXCEPT !.op = call[c].op, !.at = "route",
                                      !.state = "printify_draft_created"]
               /\ Goes(c, r)
  BY DEF AttachProduct, Reaches
<1>8. r \in CallRecords /\ Relies(r)' /\ r.at \notin InFlight
  <2>1. "printify_draft_created" \in JobStates
    BY DEF JobStates
  <2> QED
    BY <1>0, <1>2, <1>7, <2>1, RereadRelies, RouteRelies
<1> QED
  BY <1>0, <1>1, <1>2, <1>3, <1>4, <1>5, <1>6, <1>7, <1>8, Stored, MoveStep DEF AttachProduct

LEMMA ReopenStep ==
  ASSUME ListingInv, NEW c \in Calls, Reopen(c) PROVE ListingInv'
<1>0. /\ late \in BOOLEAN /\ consents \subseteq Listings
      /\ UNCHANGED <<snapshot, provider, consents, late>>
      /\ snapshot \in [Reviews -> [listing : Listings \union {NoListing}, product : Nat]]
      /\ call[c] \in CallRecords /\ record \in Jobs /\ record.version > 0 /\ 0 \in 0..LastVersion
      /\ call[c].version \in Reviews /\ call[c].listing \in Listings
  BY WorkflowAssumption DEF ListingInv, WorkflowTyped, CallsRely, Relies, Reopen, At, history,
     Past
<1>1. record' = [record EXCEPT !.state = "needs_revision", !.approved = 0]
  BY DEF Reopen, Moves
<1>2. /\ record' \in Jobs /\ record'.version = record.version /\ record'.approved = 0
      /\ record'.state = "needs_revision" /\ record'.product = record.product
  BY <1>0, <1>1 DEF Jobs, JobStates
<1>3. Grows /\ ReviewRecorded' /\ ApprovalTrue' /\ OwnProduct'
  BY <1>0, <1>2, Moved DEF HasProduct, ApprovalBound
<1>4. PICK r : r = [call[c] EXCEPT !.at = "record"]
  OBVIOUS
<1>5. r \in CallRecords /\ Relies(r)' /\ r.at \notin InFlight /\ Goes(c, r)
  BY <1>0, <1>2, <1>4 DEF Reopen, CallRecords, Labels, Relies, Past, Writing, InFlight
<1> QED
  BY <1>0, <1>2, <1>3, <1>5, MoveStep DEF Reopen

LEMMA ApproveStep ==
  ASSUME ListingInv, NEW c \in Calls, CommitApproval(c) PROVE ListingInv'
<1> PICK v, l, p : v = call[c].version /\ l = call[c].listing /\ p = call[c].product
  OBVIOUS
<1>0. /\ late \in BOOLEAN /\ consents \subseteq Listings /\ UNCHANGED <<provider, late>>
      /\ call[c] \in CallRecords /\ record \in Jobs /\ v \in Reviews /\ l \in Listings
      /\ l \in ValidOnes /\ l = snapshot[v].listing /\ p \in Nat
      /\ Reviews \subseteq 0..LastVersion /\ consents' = consents \union {l}
  BY WorkflowAssumption DEF ListingInv, WorkflowTyped, CallsRely, Relies, CommitApproval, At,
     CallRecords, Reviews
<1>1. /\ record' = [record EXCEPT !.state = "approved", !.approved = v]
      /\ record'.state \in AllowedJobTransitions[record.state]
      /\ Stores(v, l, p) /\ Ends(c)
  BY <1>0 DEF CommitApproval, Moves
<1>2. /\ record' \in Jobs /\ record'.version = record.version /\ record'.approved = v
      /\ record'.state = "approved" /\ record'.product = record.product /\ record.version = v
      /\ v > 0 /\ record.state \in JobStates
  <2>1. v > 0 /\ v \in 0..LastVersion /\ "approved" \in JobStates
    BY <1>0, Plain DEF JobStates
  <2>2. record'.version = v
    BY <1>1 DEF Stores
  <2> QED
    BY <1>0, <1>1, <2>1, <2>2 DEF Jobs
<1>3. record.state \in {"awaiting_approval", "failed_retryable"}
  BY <1>1, <1>2, Table
<1>4. Grows
  BY <1>0, <1>1, <1>2, Stored DEF Grows, provider, ListingInv, WorkflowTyped
<1>5. ReviewRecorded'
  BY <1>0, <1>1, <1>2, Stored DEF ReviewRecorded
<1>6. ApprovalTrue'
  BY <1>0, <1>1, <1>2, Stored DEF ApprovalTrue
<1>7. OwnProduct'
  BY <1>0, <1>2, <1>3 DEF ListingInv, OwnProduct, HasProduct, MadeFrom, provider
<1>8. PICK r : r = Idle
  OBVIOUS
<1>9. r \in CallRecords /\ Relies(r)' /\ r.at \notin InFlight /\ Goes(c, r)
  BY <1>1, <1>8, IdleRelies, IdleReliesThen DEF Ends
<1> QED
  BY <1>0, <1>1, <1>2, <1>4, <1>5, <1>6, <1>7, <1>9, Stored, MoveStep DEF CommitApproval

LEMMA PublishStep ==
  ASSUME ListingInv, NEW c \in Calls, StartPublishing(c) \/ MarkPublished(c) PROVE ListingInv'
<1>0. /\ late \in BOOLEAN /\ consents \subseteq Listings
      /\ UNCHANGED <<generated, claim, snapshot, provider, consents, late>>
      /\ snapshot \in [Reviews -> [listing : Listings \union {NoListing}, product : Nat]]
      /\ call[c] \in CallRecords /\ record \in Jobs /\ record.version > 0
      /\ record.state \in JobStates /\ call[c].product \in Nat
  BY WorkflowAssumption DEF ListingInv, WorkflowTyped, CallsRely, Relies, StartPublishing,
     MarkPublished, At, history, Past, Jobs, CallRecords
<1>1. CASE StartPublishing(c)
  <2>1. MovesTo("publishing") /\ Holds(c, record)
    BY <1>1 DEF StartPublishing
  <2>2. record.state = "approved"
    BY <2>1, MovesToTarget, Table
  <2>3. /\ snapshot[record.version].listing \in consents
        /\ ~late => MadeFrom(record.product, record.version)
    BY <1>0, <2>2 DEF ListingInv, ApprovalTrue, OwnProduct, HasProduct, ApprovalBound
  <2>4. /\ record' \in Jobs /\ record'.version = record.version
        /\ record'.approved = record.approved /\ record'.product = record.product
        /\ record'.state = "publishing" /\ record'.approved = record'.version
    BY <2>1, MovesToTarget DEF ApprovalBound
  <2>5. Grows /\ ReviewRecorded' /\ ApprovalTrue' /\ OwnProduct'
    BY <1>0, <2>3, <2>4, Moved
  <2>6. PICK r : r = [Idle EXCEPT !.op = "publish", !.at = "claim", !.write = "publish",
                                  !.version = record.version, !.product = record.product]
    OBVIOUS
  <2>7. r \in CallRecords /\ r.at \notin InFlight /\ Goes(c, r)
    <3>1. r = Standing("publish", "claim", "absent", record.version, NoListing, record.product,
                       "publish")
      BY <2>6 DEF Idle, Standing
    <3>2. record.version \in 0..LastVersion /\ record.product \in Nat
      BY <1>0 DEF Jobs
    <3>3. r \in CallRecords
      BY <3>1, <3>2, Stand, Plain DEF Ops, Labels, Writes
    <3>4. r.at = "claim"
      BY <2>6 DEF Idle
    <3> QED
      BY <2>1, <2>6, <3>3, <3>4 DEF Holds, InFlight
  <2>8. record.version \in Reviews
    BY <1>0 DEF Jobs, Reviews
  <2>9. Relies(r)'
    BY <1>0, <2>3, <2>4, <2>6, <2>8 DEF Idle, Relies, Past, Writing, Writes, MadeFrom, provider
  <2> QED
    BY <1>0, <2>4, <2>5, <2>7, <2>9, MoveStep
<1>2. CASE MarkPublished(c)
  <2>1. /\ record' = [record EXCEPT !.state = "published", !.listing = call[c].product]
        /\ record'.state \in AllowedJobTransitions[record.state] /\ Ends(c)
        /\ record'.state \in ApprovalBound => record'.approved = record'.version
    BY <1>2 DEF MarkPublished, Moves
  <2>2. /\ record' \in Jobs /\ record'.version = record.version
        /\ record'.approved = record.approved /\ record'.product = record.product
        /\ record'.state = "published"
    BY <1>0, <2>1 DEF Jobs, JobStates
  <2>3. record.state \in {"publishing", "failed_retryable"}
    BY <1>0, <2>1, <2>2, Table
  <2>4. ~late => MadeFrom(record.product, record.version)
    BY <1>0, <2>3 DEF ListingInv, OwnProduct, HasProduct, ApprovalBound
  <2>5. Grows /\ ReviewRecorded' /\ ApprovalTrue' /\ OwnProduct'
    BY <1>0, <2>1, <2>2, <2>4, Moved
  <2>6. PICK r : r = Idle
    OBVIOUS
  <2>7. r \in CallRecords /\ Relies(r)' /\ r.at \notin InFlight /\ Goes(c, r)
    BY <2>1, <2>6, IdleRelies, IdleReliesThen DEF Ends
  <2> QED
    BY <1>0, <2>2, <2>5, <2>7, MoveStep
<1> QED
  BY <1>1, <1>2

LEMMA OwnSteps ==
  ASSUME ListingInv, VerifyPublication \/ WaitExpires \/ UNCHANGED workflowVars
  PROVE  ListingInv'
<1>0. /\ UNCHANGED <<generated, claim, snapshot, call, provider, consents, late>>
      /\ late \in BOOLEAN /\ consents \subseteq Listings /\ call \in [Calls -> CallRecords]
      /\ snapshot \in [Reviews -> [listing : Listings \union {NoListing}, product : Nat]]
      /\ record \in Jobs
  BY DEF ListingInv, WorkflowTyped, VerifyPublication, WaitExpires, workflowVars, history
<1>1. /\ record' \in Jobs /\ Grows /\ ReviewRecorded' /\ ApprovalTrue' /\ OwnProduct'
  <2>1. CASE VerifyPublication
    <3>1. MovesTo("verified") /\ record.state = "published"
      BY <2>1 DEF VerifyPublication
    <3>2. ~late => MadeFrom(record.product, record.version)
      BY <3>1 DEF ListingInv, OwnProduct, HasProduct, ApprovalBound
    <3>3. record.version > 0
      BY <3>1 DEF ListingInv, ReviewRecorded, Reviewed, ApprovalBound
    <3>4. /\ record' \in Jobs /\ record'.version = record.version
          /\ record'.approved = record.approved /\ record'.product = record.product
          /\ record'.state = "verified" /\ record'.approved = record'.version
      BY <3>1, MovesToTarget DEF ApprovalBound
    <3> QED
      BY <1>0, <3>2, <3>3, <3>4, Moved
  <2>2. CASE WaitExpires \/ UNCHANGED workflowVars
    <3>1. UNCHANGED record
      BY <2>2 DEF WaitExpires, workflowVars
    <3> QED
      BY <1>0, <3>1 DEF ListingInv, WorkflowTyped, Grows, ReviewRecorded, ApprovalTrue,
         OwnProduct,
         MadeFrom, provider
  <2> QED
    BY <2>1, <2>2
<1>2. WorkflowTyped'
  BY <1>0, <1>1 DEF ListingInv, WorkflowTyped, provider
<1>3. CallsRely'
  <2> SUFFICES ASSUME NEW d \in Calls PROVE Relies(call[d])'
    BY DEF CallsRely
  <2>1. PICK q : q = call[d]
    OBVIOUS
  <2>2. Relies(q)'
    BY <1>1, <1>2, <2>1, RelyKept DEF ListingInv, CallsRely
  <2> QED
    BY <1>0, <2>1, <2>2
<1> QED
  BY <1>0, <1>1, <1>3, MoveRest

-----------------------------------------------------------------------------
(* The claims, and what they are for.                                       *)

\* A call at a write has a key.
LEMMA KeyKnown ==
  ASSUME ListingInv, NEW c \in Calls, call[c].at \in Writing
  PROVE  /\ call[c] \in CallRecords /\ Relies(call[c]) /\ call[c].write \in Writes
         /\ call[c].version \in Reviews /\ KeyOf(c) \in Keys
         /\ call[c].write = "upload" => KeyOf(c) = <<"upload", 0>>
         /\ call[c].write = "draft" => KeyOf(c) = <<"draft", call[c].version>>
         /\ call[c].write = "publish" => KeyOf(c) = <<"publish", call[c].version>>
<1>1. /\ call[c] \in CallRecords /\ Relies(call[c])
  BY DEF ListingInv, WorkflowTyped, CallsRely
<1>2. call[c].write \in Writes /\ call[c].version \in Reviews
  BY <1>1 DEF Relies
<1> QED
  BY <1>1, <1>2 DEF KeyOf, Keys, Writes, Reviews

LEMMA ClaimRest ==
  ASSUME ListingInv, UNCHANGED <<record, generated, snapshot, provider, history>>,
         claim' \in [Keys -> [status : {"none", "claimed", "completed", "reconciliation_required"},
                              result : Nat]],
         NEW c \in Calls, NEW r \in CallRecords, Goes(c, r), Relies(r), ClaimsKept', WritesAlone'
  PROVE  ListingInv'
<1>1. WorkflowTyped'
  BY DEF ListingInv, WorkflowTyped, Goes, provider, history
<1>2. Grows
  BY DEF ListingInv, WorkflowTyped, Grows, provider, history
<1>3. Relies(r)'
  BY <1>1, <1>2, RelyKept DEF ListingInv
<1>4. CallsRely'
  BY <1>1, <1>2, <1>3, CallsKept DEF ListingInv
<1>5. ListedTrue' /\ DraftsMade'
  BY <1>1, <1>2, ListedKept, DraftsKept DEF provider
<1>6. ReviewRecorded' /\ ApprovalTrue' /\ OwnProduct' /\ WritesOnce'
  BY DEF ListingInv, ReviewRecorded, ApprovalTrue, OwnProduct, MadeFrom, WritesOnce, provider,
     history
<1> QED
  BY <1>1, <1>4, <1>5, <1>6 DEF ListingInv

\* The keys are those of what they are for.
LEMMA KeysDiffer ==
  ASSUME NEW v, NEW w
  PROVE  /\ <<"upload", 0>> # <<"draft", v>> /\ <<"upload", 0>> # <<"publish", v>>
         /\ <<"draft", v>> # <<"publish", w>>
         /\ (<<"draft", v>> = <<"draft", w>>) = (v = w)
         /\ (<<"publish", v>> = <<"publish", w>>) = (v = w)
OBVIOUS

LEMMA KeysIn ==
  /\ <<"upload", 0>> \in Keys
  /\ \A v \in Reviews : <<"draft", v>> \in Keys /\ <<"publish", v>> \in Keys
  BY DEF Keys, Reviews

\* One claim changes, of a write that others are not at.
LEMMA ClaimMoved ==
  ASSUME ListingInv, UNCHANGED <<record, generated, snapshot, provider, history>>,
         NEW c \in Calls, call[c].at \in Writing, NEW r \in CallRecords, Goes(c, r), Relies(r),
         NEW e \in [status : {"claimed", "completed", "reconciliation_required"}, result : Nat],
         claim' = [claim EXCEPT ![KeyOf(c)] = e],
         \A d \in Calls \ {c} : call[d].at \in InFlight => KeyOf(d) # KeyOf(c),
         call[c].write = "draft" /\ e.status = "completed" => MadeFrom(e.result, call[c].version),
         r.at \in InFlight =>
           /\ r.write = call[c].write /\ r.version = call[c].version
           /\ e.status = "claimed"
           /\ r.at = "send" => Unsent(c)
  PROVE  ListingInv'
<1> DEFINE k == KeyOf(c)
<1>0. /\ k \in Keys
      /\ claim \in [Keys -> [status : {"none", "claimed", "completed", "reconciliation_required"},
                              result : Nat]]
      /\ call \in [Calls -> CallRecords]
      /\ \A i \in 1..Len(drafts) : drafts[i].version \in Reviews
      /\ \A i \in 1..Len(listed) : listed[i].version \in Reviews
  <2>1. WorkflowTyped /\ k \in Keys
    BY KeyKnown DEF ListingInv
  <2> QED
    BY <2>1, Provided DEF WorkflowTyped
<1>1. claim'[k] = e /\ \A q \in Keys : q # k => claim'[q] = claim[q]
  BY <1>0
<1>2. \A q \in Keys : claim[q].status # "none" => claim'[q].status # "none"
  BY <1>0, <1>1
<1>3. claim' \in [Keys -> [status : {"none", "claimed", "completed", "reconciliation_required"},
                           result : Nat]]
  BY <1>0
<1>4. ClaimsKept'
  <2>1. \A v \in Reviews : claim'[<<"draft", v>>].status = "completed" =>
                             MadeFrom(claim'[<<"draft", v>>].result, v)
    <3> SUFFICES ASSUME NEW v \in Reviews, claim'[<<"draft", v>>].status = "completed"
                 PROVE  MadeFrom(claim'[<<"draft", v>>].result, v)
      OBVIOUS
    <3>1. CASE <<"draft", v>> = k
      <4>1. call[c].write = "draft" /\ v = call[c].version
        BY <3>1, KeyKnown, KeysDiffer DEF Writes
      <4> QED
        BY <1>1, <3>1, <4>1
    <3>2. CASE <<"draft", v>> # k
      BY <1>1, <3>2, KeysIn DEF ListingInv, ClaimsKept
    <3> QED
      BY <3>1, <3>2
  <2> QED
    BY <1>0, <1>2, <2>1, KeysIn DEF ListingInv, ClaimsKept, MadeFrom, provider
<1>5. /\ call'[c] = r
      /\ \A d \in Calls \ {c} :
           call'[d] = call[d] /\ KeyOf(d)' = KeyOf(d) /\ Unsent(d)' = Unsent(d)
  BY <1>0 DEF Goes, KeyOf, Unsent, provider
<1>6. r.at \in InFlight => KeyOf(c)' = k /\ (r.at = "send" => Unsent(c)')
  <2> SUFFICES ASSUME r.at \in InFlight PROVE KeyOf(c)' = k /\ (r.at = "send" => Unsent(c)')
    OBVIOUS
  <2>1. /\ call'[c].write = call[c].write /\ call'[c].version = call[c].version
        /\ call[c].write \in Writes
    BY <1>5, KeyKnown
  <2>2. KeyOf(c)' = k
    BY <2>1 DEF KeyOf
  <2>3. Unsent(c) => Unsent(c)'
    BY <2>1 DEF Unsent, provider, Writes
  <2> QED
    BY <2>2, <2>3
<1>7. \A d \in Calls \ {c} : call[d].at \in InFlight => claim'[KeyOf(d)] = claim[KeyOf(d)]
  BY <1>1, KeyKnown DEF InFlight, Writing
<1>8. WritesAlone'
  <2> SUFFICES ASSUME NEW x \in Calls
               PROVE  /\ call'[x].at \in InFlight => claim'[KeyOf(x)'].status = "claimed"
                      /\ call'[x].at = "send" => Unsent(x)'
                      /\ \A d \in Calls \ {x} : call'[x].at \in InFlight /\ call'[d].at \in InFlight
                                                  => KeyOf(x)' # KeyOf(d)'
    BY DEF WritesAlone
  <2>1. CASE x = c
    BY <1>1, <1>5, <1>6, <2>1 DEF ListingInv, WritesAlone, InFlight
  <2>2. CASE x # c
    BY <1>5, <1>6, <1>7, <2>2 DEF ListingInv, WritesAlone
  <2> QED
    BY <2>1, <2>2
<1> QED
  BY <1>3, <1>4, <1>8, ClaimRest

\* What follows a write relies on what came of it.
LEMMA ContinuesRelies ==
  ASSUME ListingInv, NEW c \in Calls, call[c].at \in Writing, NEW n \in Nat,
         call[c].write = "draft" => MadeFrom(n, call[c].version), Continues(c, n)
  PROVE  \E r \in CallRecords : Goes(c, r) /\ Relies(r) /\ r.at \notin InFlight
<1>0. call[c] \in CallRecords /\ Relies(call[c]) /\ call[c].write \in Writes
  BY KeyKnown
<1>1. CASE call[c].write = "upload"
  <2>1. PICK r : r = [call[c] EXCEPT !.at = "claim", !.write = "draft"]
    OBVIOUS
  <2>2. r \in CallRecords /\ Relies(r) /\ r.at \notin InFlight /\ Goes(c, r)
    BY <1>0, <1>1, <2>1 DEF Continues, CallRecords, Labels, Relies, Past, Writing, InFlight,
       Writes
  <2> QED
    BY <2>2
<1>2. CASE call[c].write = "draft"
  <2>1. PICK r : r = [call[c] EXCEPT !.at = "attach", !.product = n]
    OBVIOUS
  <2>2. r \in CallRecords /\ Relies(r) /\ r.at \notin InFlight /\ Goes(c, r)
    BY <1>0, <1>2, <2>1 DEF Continues, CallRecords, Labels, Relies, Past, Writing, InFlight,
       Writes
  <2> QED
    BY <2>2
<1>3. CASE call[c].write = "publish"
  <2>1. PICK r : r = [call[c] EXCEPT !.at = "list", !.product = n]
    OBVIOUS
  <2>2. r \in CallRecords /\ Relies(r) /\ r.at \notin InFlight /\ Goes(c, r)
    BY <1>0, <1>3, <2>1 DEF Continues, CallRecords, Labels, Relies, Past, Writing, InFlight,
       Writes
  <2> QED
    BY <2>2
<1> QED
  BY <1>0, <1>1, <1>2, <1>3 DEF Writes

LEMMA ClaimStep ==
  ASSUME ListingInv, NEW c \in Calls, ClaimExternalWrite(c) PROVE ListingInv'
<1>0. /\ call[c].at = "claim" /\ UNCHANGED <<record, generated, snapshot, provider, history>>
      /\ call[c] \in CallRecords /\ Relies(call[c]) /\ call[c].write \in Writes
      /\ call[c].version \in Reviews /\ KeyOf(c) \in Keys
      /\ claim[KeyOf(c)].status \in {"none", "claimed", "completed", "reconciliation_required"}
      /\ claim[KeyOf(c)].result \in Nat
      /\ claim[KeyOf(c)] = [status |-> claim[KeyOf(c)].status, result |-> claim[KeyOf(c)].result]
  <2>1. call[c].at = "claim" /\ UNCHANGED <<record, generated, snapshot, provider, history>>
    BY DEF ClaimExternalWrite, At
  <2>2. KeyOf(c) \in Keys
    BY <2>1, KeyKnown DEF Writing
  <2> QED
    BY <2>1, <2>2, KeyKnown DEF Writing, ListingInv, WorkflowTyped
<1>1. CASE /\ claim[KeyOf(c)] = Unclaimed
           /\ claim' = [claim EXCEPT ![KeyOf(c)].status = "claimed"]
           /\ Goes(c, [call[c] EXCEPT !.at = "send"])
  <2>1. PICK r : r = [call[c] EXCEPT !.at = "send"]
    OBVIOUS
  <2>2. PICK e : e = [claim[KeyOf(c)] EXCEPT !.status = "claimed"]
    OBVIOUS
  <2>3. e \in [status : {"claimed", "completed", "reconciliation_required"}, result : Nat]
        /\ e.status = "claimed" /\ claim' = [claim EXCEPT ![KeyOf(c)] = e]
    BY <1>0, <1>1, <2>2
  <2>4. r \in CallRecords /\ Relies(r) /\ Goes(c, r) /\ r.at = "send" /\ r.write = call[c].write
        /\ r.version = call[c].version
    BY <1>0, <1>1, <2>1 DEF CallRecords, Labels, Relies, Past, Writing
  <2>5. claim[KeyOf(c)].status = "none"
    BY <1>1 DEF Unclaimed
  <2>6. \A d \in Calls \ {c} : call[d].at \in InFlight => KeyOf(d) # KeyOf(c)
    BY <2>5 DEF ListingInv, WritesAlone
  <2>7. Unsent(c)
    <3>1. /\ call[c].write = "upload" => KeyOf(c) = <<"upload", 0>>
          /\ call[c].write = "draft" => KeyOf(c) = <<"draft", call[c].version>>
          /\ call[c].write = "publish" => KeyOf(c) = <<"publish", call[c].version>>
      BY <1>0, KeyKnown DEF Writing
    <3>2. CASE call[c].write = "upload"
      <4>1. artworks \in Nat
        BY DEF ListingInv, WorkflowTyped
      <4>2. artworks > 0 => claim[<<"upload", 0>>].status # "none"
        BY DEF ListingInv, ClaimsKept
      <4>3. artworks = 0
        BY <2>5, <3>1, <3>2, <4>1, <4>2
      <4> QED
        BY <3>2, <4>3 DEF Unsent
    <3>3. CASE call[c].write = "draft"
      BY <2>5, <3>1, <3>3 DEF Unsent, ListingInv, ClaimsKept
    <3>4. CASE call[c].write = "publish"
      BY <2>5, <3>1, <3>4 DEF Unsent, ListingInv, ClaimsKept
    <3> QED
      BY <1>0, <3>2, <3>3, <3>4 DEF Writes
  <2> QED
    BY <1>0, <2>3, <2>4, <2>6, <2>7, ClaimMoved DEF Writing
<1>2. CASE /\ claim[KeyOf(c)].status = "completed"
           /\ Continues(c, claim[KeyOf(c)].result) /\ UNCHANGED claim
  <2>1. PICK n \in Nat : n = claim[KeyOf(c)].result
    BY <1>0
  <2>2. call[c].write = "draft" => MadeFrom(n, call[c].version)
    BY <1>0, <1>2, <2>1, KeyKnown DEF Writing, ListingInv, ClaimsKept
  <2>3. PICK r \in CallRecords : Goes(c, r) /\ Relies(r) /\ r.at \notin InFlight
    BY <1>0, <1>2, <2>1, <2>2, ContinuesRelies DEF Writing
  <2> QED
    BY <1>0, <1>2, <2>3, LookStep DEF ListingInv, WorkflowTyped
<1> QED
  BY <1>1, <1>2 DEF ClaimExternalWrite

LEMMA AnswerStep ==
  ASSUME ListingInv, NEW c \in Calls, CompleteExternalWrite(c) \/ RequireReconciliation(c)
  PROVE  ListingInv'
<1>0. /\ call[c].at \in {"complete", "unsure"}
      /\ UNCHANGED <<record, generated, snapshot, provider, history>>
      /\ call[c] \in CallRecords /\ Relies(call[c]) /\ call[c].write \in Writes
      /\ KeyOf(c) \in Keys /\ call[c].product \in Nat
      /\ claim[KeyOf(c)].status = "claimed" /\ claim[KeyOf(c)].result \in Nat
      /\ claim[KeyOf(c)] = [status |-> "claimed", result |-> claim[KeyOf(c)].result]
      /\ \A d \in Calls \ {c} : call[d].at \in InFlight => KeyOf(d) # KeyOf(c)
  <2>1. /\ call[c].at \in {"complete", "unsure"} /\ claim[KeyOf(c)].status = "claimed"
        /\ UNCHANGED <<record, generated, snapshot, provider, history>>
    BY DEF CompleteExternalWrite, RequireReconciliation, At
  <2>2. KeyOf(c) \in Keys /\ call[c] \in CallRecords /\ Relies(call[c]) /\ call[c].write \in Writes
    BY <2>1, KeyKnown DEF Writing
  <2>3. \A d \in Calls \ {c} : call[d].at \in InFlight => KeyOf(d) # KeyOf(c)
    BY <2>1 DEF ListingInv, WritesAlone, InFlight
  <2> QED
    BY <2>1, <2>2, <2>3 DEF ListingInv, WorkflowTyped, CallRecords
<1>1. CASE CompleteExternalWrite(c)
  <2>1. PICK e : e = [status |-> "completed", result |-> call[c].product]
    OBVIOUS
  <2>2. call[c].write = "draft" => MadeFrom(call[c].product, call[c].version)
    BY <1>0, <1>1 DEF CompleteExternalWrite, At, Relies
  <2>3. PICK r \in CallRecords : Goes(c, r) /\ Relies(r) /\ r.at \notin InFlight
    BY <1>0, <1>1, <2>2, ContinuesRelies DEF Writing, CompleteExternalWrite
  <2>4. e \in [status : {"claimed", "completed", "reconciliation_required"}, result : Nat]
        /\ claim' = [claim EXCEPT ![KeyOf(c)] = e] /\ e.result = call[c].product
    BY <1>0, <1>1, <2>1 DEF CompleteExternalWrite
  <2> QED
    BY <1>0, <2>2, <2>3, <2>4, ClaimMoved DEF Writing
<1>2. CASE RequireReconciliation(c)
  <2>1. PICK e : e = [claim[KeyOf(c)] EXCEPT !.status = "reconciliation_required"]
    OBVIOUS
  <2>2. e \in [status : {"claimed", "completed", "reconciliation_required"}, result : Nat]
        /\ claim' = [claim EXCEPT ![KeyOf(c)] = e] /\ e.status = "reconciliation_required"
    BY <1>0, <1>2, <2>1 DEF RequireReconciliation
  <2>3. PICK r : r = Idle
    OBVIOUS
  <2>4. r \in CallRecords /\ Relies(r) /\ r.at \notin InFlight /\ Goes(c, r)
    BY <1>2, <2>3, IdleRelies DEF RequireReconciliation, Ends
  <2> QED
    BY <1>0, <2>2, <2>4, ClaimMoved DEF Writing
<1> QED
  BY <1>1, <1>2

\* What an answer of the provider changes, apart from what it has done.
LEMMA ProviderRest ==
  ASSUME ListingInv, UNCHANGED <<record, generated, snapshot, claim, history>>,
         NEW c \in Calls, call[c].at = "send", NEW r \in CallRecords, Goes(c, r), Relies(r)',
         r.at \in {"complete", "unsure"}, r.write = call[c].write, r.version = call[c].version,
         artworks' \in Nat, drafts' \in Seq(Products),
         listed' \in Seq(Publications), Grows,
         DraftsMade', ListedTrue', WritesOnce', ClaimsKept',
         \A d \in Calls \ {c} : call[d].at = "send" => Unsent(d)'
  PROVE  ListingInv'
<1>1. WorkflowTyped'
  BY DEF ListingInv, WorkflowTyped, Goes, history
<1>2. CallsRely'
  BY <1>1, CallsKept DEF ListingInv
<1>3. OwnProduct'
  <2> SUFFICES ASSUME ~late'
               PROVE  /\ record'.state = "failed_retryable" => record'.version = 0
                      /\ record'.state \in HasProduct => MadeFrom(record.product, record.version)'
    BY DEF OwnProduct
  <2>1. PICK p, v : p = record.product /\ v = record.version
    OBVIOUS
  <2>2. MadeFrom(p, v) => MadeFrom(p, v)'
    BY <1>1, MadeKept DEF ListingInv
  <2> QED
    BY <2>1, <2>2 DEF ListingInv, OwnProduct, history
<1>4. /\ \A d \in Calls \ {c} : call'[d] = call[d] /\ KeyOf(d)' = KeyOf(d)
      /\ call'[c] = r /\ KeyOf(c)' = KeyOf(c)
  BY DEF ListingInv, WorkflowTyped, Goes, KeyOf
<1>5. WritesAlone'
  <2> SUFFICES ASSUME NEW x \in Calls
               PROVE  /\ call'[x].at \in InFlight => claim'[KeyOf(x)'].status = "claimed"
                      /\ call'[x].at = "send" => Unsent(x)'
                      /\ \A d \in Calls \ {x} : call'[x].at \in InFlight /\ call'[d].at \in InFlight
                                                  => KeyOf(x)' # KeyOf(d)'
    BY DEF WritesAlone
  <2>1. call[c].at \in InFlight
    BY DEF InFlight
  <2>2. CASE x = c
    BY <1>4, <2>1, <2>2 DEF ListingInv, WritesAlone
  <2>3. CASE x # c
    BY <1>4, <2>1, <2>3 DEF ListingInv, WritesAlone
  <2> QED
    BY <2>2, <2>3
<1>6. ReviewRecorded' /\ ApprovalTrue'
  BY DEF ListingInv, ReviewRecorded, ApprovalTrue, history
<1> QED
  BY <1>1, <1>2, <1>3, <1>5, <1>6 DEF ListingInv

\* Nothing new at the provider.
LEMMA ProviderSame ==
  ASSUME ListingInv, UNCHANGED <<record, generated, snapshot, claim, provider, history>>
  PROVE  /\ artworks' \in Nat /\ drafts' \in Seq(Products)
         /\ listed' \in Seq(Publications)
         /\ Grows /\ DraftsMade' /\ ListedTrue' /\ WritesOnce' /\ ClaimsKept'
         /\ \A d \in Calls : call[d].at = "send" /\ call'[d] = call[d] => Unsent(d)'
<1>1. Grows
  BY DEF ListingInv, WorkflowTyped, Grows, provider, history
<1>2. DraftsMade' /\ ListedTrue' /\ WritesOnce' /\ ClaimsKept'
  BY DEF ListingInv, DraftsMade, ListedTrue, WritesOnce, ClaimsKept, MadeFrom, provider, history
<1>3. \A d \in Calls : call[d].at = "send" /\ call'[d] = call[d] => Unsent(d)'
  BY DEF ListingInv, WritesAlone, Unsent, provider
<1> QED
  BY <1>1, <1>2, <1>3 DEF ListingInv, WorkflowTyped, provider

\* A first image.
LEMMA UploadApplied ==
  ASSUME ListingInv, UNCHANGED <<record, generated, snapshot, claim, history>>,
         NEW c \in Calls, call[c].at = "send", call[c].write = "upload", TakesEffect(c)
  PROVE  /\ artworks' \in Nat /\ drafts' \in Seq(Products)
         /\ listed' \in Seq(Publications)
         /\ Grows /\ DraftsMade' /\ ListedTrue' /\ WritesOnce' /\ ClaimsKept'
         /\ \A d \in Calls \ {c} : call[d].at = "send" /\ call'[d] = call[d] => Unsent(d)'
<1>1. /\ artworks' = artworks + 1 /\ UNCHANGED <<drafts, listed>> /\ artworks = 0
      /\ claim[<<"upload", 0>>].status = "claimed"
  BY DEF TakesEffect, ListingInv, WritesAlone, Unsent, InFlight, KeyOf
<1>2. Grows
  BY <1>1 DEF ListingInv, WorkflowTyped, Grows, history
<1>3. DraftsMade' /\ ListedTrue' /\ WritesOnce' /\ ClaimsKept'
  BY <1>1 DEF ListingInv, DraftsMade, ListedTrue, WritesOnce, ClaimsKept, MadeFrom, history
<1>4. ASSUME NEW d \in Calls \ {c}, call[d].at = "send", call'[d] = call[d]
      PROVE  Unsent(d)'
  <2>1. KeyOf(d) # KeyOf(c) /\ call[d].write \in Writes
    BY <1>4, KeyKnown DEF ListingInv, WritesAlone, InFlight, Writing
  <2>2. call[d].write # "upload"
    BY <2>1 DEF KeyOf
  <2>3. Unsent(d)
    BY <1>4 DEF ListingInv, WritesAlone
  <2> QED
    BY <1>1, <1>4, <2>1, <2>2, <2>3 DEF Unsent, Writes
<1> QED
  BY <1>1, <1>2, <1>3, <1>4 DEF ListingInv, WorkflowTyped

\* The first product of a review.
LEMMA DraftApplied ==
  ASSUME ListingInv, UNCHANGED <<record, generated, snapshot, claim, history>>,
         NEW c \in Calls, call[c].at = "send", call[c].write = "draft", TakesEffect(c),
         NEW v, v = call[c].version, NEW l, l = call[c].listing
  PROVE  /\ artworks' \in Nat /\ drafts' \in Seq(Products)
         /\ listed' \in Seq(Publications)
         /\ Grows /\ DraftsMade' /\ ListedTrue' /\ WritesOnce' /\ ClaimsKept'
         /\ MadeFrom(Len(drafts), v)'
         /\ \A d \in Calls \ {c} : call[d].at = "send" /\ call'[d] = call[d] => Unsent(d)'
<1>0. /\ v \in Reviews /\ l \in Listings /\ l = snapshot[v].listing
      /\ drafts \in Seq(Products) /\ artworks \in Nat
      /\ listed \in Seq(Publications) /\ Len(drafts) \in Nat
      /\ consents \subseteq Listings /\ late \in BOOLEAN
  BY KeyKnown DEF Writing, Relies, ListingInv, WorkflowTyped
<1>1. /\ drafts' = Append(drafts, [version |-> v, listing |-> l]) /\ UNCHANGED <<artworks, listed>>
      /\ \A i \in 1..Len(drafts) : drafts[i].version # v
      /\ claim[<<"draft", v>>].status = "claimed"
  BY DEF TakesEffect, ListingInv, WritesAlone, Unsent, InFlight, KeyOf
<1>2. /\ drafts' \in Seq(Products) /\ Len(drafts') = Len(drafts) + 1
      /\ \A i \in 1..Len(drafts) : drafts'[i] = drafts[i]
      /\ drafts'[Len(drafts) + 1] = [version |-> v, listing |-> l]
  BY <1>0, <1>1 DEF Products
<1>3. Grows
  BY <1>0, <1>2 DEF Grows, history
<1>4. MadeFrom(Len(drafts), v)'
  BY <1>0, <1>2 DEF MadeFrom
<1>5. \A i \in 1..Len(drafts') : i = Len(drafts') \/ i \in 1..Len(drafts)
  BY <1>0, <1>2
<1>6. DraftsMade'
  BY <1>0, <1>2, <1>5 DEF DraftsMade, ListingInv
<1>7. ListedTrue'
  <2>1. WorkflowTyped /\ listed' = listed
    BY <1>1 DEF ListingInv
  <2> SUFFICES ASSUME ~late', NEW i \in 1..Len(listed)
               PROVE  /\ MadeFrom(listed[i].product, listed[i].version)'
                      /\ snapshot'[listed[i].version].listing \in consents'
    BY <2>1 DEF ListedTrue
  <2>2. /\ MadeFrom(listed[i].product, listed[i].version)
        /\ snapshot[listed[i].version].listing \in consents
    BY DEF ListingInv, ListedTrue, history
  <2> QED
    BY <1>0, <1>2, <2>1, <2>2 DEF MadeFrom, history
<1>8. WritesOnce'
  BY <1>0, <1>1, <1>2, <1>5 DEF ListingInv, WritesOnce
<1>9. ClaimsKept'
  <2>1. ASSUME NEW i \in 1..Len(drafts')
        PROVE  claim[<<"draft", drafts'[i].version>>].status # "none"
    <3>1. CASE i = Len(drafts')
      <4>1. drafts'[i].version = v
        BY <1>0, <1>2, <3>1
      <4> QED
        BY <1>1, <4>1
    <3>2. CASE i \in 1..Len(drafts)
      BY <1>2, <3>2 DEF ListingInv, ClaimsKept
    <3> QED
      BY <1>5, <3>1, <3>2
  <2>2. \A w \in Reviews : claim[<<"draft", w>>].status = "completed" =>
          MadeFrom(claim[<<"draft", w>>].result, w)'
    BY <1>0, <1>2 DEF ListingInv, ClaimsKept, MadeFrom
  <2> QED
    BY <1>1, <2>1, <2>2 DEF ListingInv, ClaimsKept
<1>10. ASSUME NEW d \in Calls \ {c}, call[d].at = "send", call'[d] = call[d]
       PROVE  Unsent(d)'
  <2>1. KeyOf(d) # KeyOf(c) /\ call[d].write \in Writes
    BY <1>10, KeyKnown DEF ListingInv, WritesAlone, InFlight, Writing
  <2>2. call[d].write = "draft" => call[d].version # v
    BY <2>1 DEF KeyOf
  <2>3. Unsent(d)
    BY <1>10 DEF ListingInv, WritesAlone
  <2> QED
    <3>1. CASE call[d].write = "draft"
      <4>1. \A i \in 1..Len(drafts) : drafts[i].version # call[d].version
        BY <2>3, <3>1 DEF Unsent
      <4>2. \A i \in 1..Len(drafts') : drafts'[i].version # call[d].version
        BY <1>2, <1>5, <2>2, <3>1, <4>1
      <4> QED
        BY <1>10, <3>1, <4>2 DEF Unsent
    <3>2. CASE call[d].write \in {"upload", "publish"}
      BY <1>1, <1>10, <2>3, <3>2 DEF Unsent
    <3> QED
      BY <2>1, <3>1, <3>2 DEF Writes
<1> QED
  BY <1>0, <1>1, <1>2, <1>3, <1>4, <1>6, <1>7, <1>8, <1>9, <1>10

\* The first publication of a review.
LEMMA PublishApplied ==
  ASSUME ListingInv, UNCHANGED <<record, generated, snapshot, claim, history>>,
         NEW c \in Calls, call[c].at = "send", call[c].write = "publish", TakesEffect(c),
         NEW v, v = call[c].version, NEW p, p = call[c].product
  PROVE  /\ artworks' \in Nat /\ drafts' \in Seq(Products)
         /\ listed' \in Seq(Publications)
         /\ Grows /\ DraftsMade' /\ ListedTrue' /\ WritesOnce' /\ ClaimsKept'
         /\ \A d \in Calls \ {c} : call[d].at = "send" /\ call'[d] = call[d] => Unsent(d)'
<1>0. /\ v \in Reviews /\ p \in Nat /\ snapshot[v].listing \in consents
      /\ drafts \in Seq(Products) /\ artworks \in Nat
      /\ listed \in Seq(Publications) /\ Len(listed) \in Nat
      /\ consents \subseteq Listings /\ late \in BOOLEAN /\ (~late => MadeFrom(p, v))
  BY KeyKnown DEF Writing, Relies, ListingInv, WorkflowTyped, CallRecords
<1>1. /\ listed' = Append(listed, [version |-> v, product |-> p]) /\ UNCHANGED <<artworks, drafts>>
      /\ \A i \in 1..Len(listed) : listed[i].version # v
      /\ claim[<<"publish", v>>].status = "claimed"
  BY DEF TakesEffect, ListingInv, WritesAlone, Unsent, InFlight, KeyOf
<1>2. /\ listed' \in Seq(Publications) /\ Len(listed') = Len(listed) + 1
      /\ \A i \in 1..Len(listed) : listed'[i] = listed[i]
      /\ listed'[Len(listed) + 1] = [version |-> v, product |-> p]
  BY <1>0, <1>1 DEF Publications
<1>3. Grows
  BY <1>0, <1>1 DEF Grows, ListingInv, WorkflowTyped, history
<1>4. \A i \in 1..Len(listed') : i = Len(listed') \/ i \in 1..Len(listed)
  BY <1>0, <1>2
<1>5. DraftsMade'
  BY <1>1, <1>3, DraftsKept
<1>6. ListedTrue'
  <2> SUFFICES ASSUME ~late', NEW i \in 1..Len(listed')
               PROVE  /\ MadeFrom(listed[i].product, listed[i].version)'
                      /\ snapshot'[listed'[i].version].listing \in consents'
    BY DEF ListedTrue
  <2>1. MadeFrom(listed'[i].product, listed'[i].version)
        /\ snapshot[listed'[i].version].listing \in consents
    BY <1>0, <1>2, <1>4 DEF ListingInv, ListedTrue, history
  <2> QED
    BY <1>1, <2>1 DEF MadeFrom, history
<1>7. WritesOnce'
  BY <1>0, <1>1, <1>2, <1>4 DEF ListingInv, WritesOnce
<1>8. ClaimsKept'
  <2>1. ASSUME NEW i \in 1..Len(listed')
        PROVE  claim[<<"publish", listed'[i].version>>].status # "none"
    <3>1. CASE i = Len(listed')
      <4>1. listed'[i].version = v
        BY <1>0, <1>2, <3>1
      <4> QED
        BY <1>1, <4>1
    <3>2. CASE i \in 1..Len(listed)
      BY <1>2, <3>2 DEF ListingInv, ClaimsKept
    <3> QED
      BY <1>4, <3>1, <3>2
  <2> QED
    BY <1>1, <2>1 DEF ListingInv, ClaimsKept, MadeFrom
<1>9. ASSUME NEW d \in Calls \ {c}, call[d].at = "send", call'[d] = call[d]
      PROVE  Unsent(d)'
  <2>1. KeyOf(d) # KeyOf(c) /\ call[d].write \in Writes
    BY <1>9, KeyKnown DEF ListingInv, WritesAlone, InFlight, Writing
  <2>2. call[d].write = "publish" => call[d].version # v
    BY <2>1 DEF KeyOf
  <2>3. Unsent(d)
    BY <1>9 DEF ListingInv, WritesAlone
  <2> QED
    <3>1. CASE call[d].write = "publish"
      <4>1. \A i \in 1..Len(listed) : listed[i].version # call[d].version
        BY <2>3, <3>1 DEF Unsent
      <4>2. \A i \in 1..Len(listed') : listed'[i].version # call[d].version
        BY <1>2, <1>4, <2>2, <3>1, <4>1
      <4> QED
        BY <1>9, <3>1, <4>2 DEF Unsent
    <3>2. CASE call[d].write \in {"upload", "draft"}
      BY <1>1, <1>9, <2>3, <3>2 DEF Unsent
    <3> QED
      BY <2>1, <3>1, <3>2 DEF Writes
<1> QED
  BY <1>0, <1>1, <1>2, <1>3, <1>5, <1>6, <1>7, <1>8, <1>9

LEMMA CallStep ==
  ASSUME ListingInv, NEW c \in Calls, CallProduction(c) PROVE ListingInv'
<1>0. /\ call[c].at = "send" /\ UNCHANGED <<record, generated, snapshot, claim, history>>
      /\ call[c] \in CallRecords /\ Relies(call[c]) /\ call[c].write \in Writes
      /\ call \in [Calls -> CallRecords]
  BY KeyKnown DEF CallProduction, At, Writing, ListingInv, WorkflowTyped
<1>1. PICK applied \in BOOLEAN, answered \in BOOLEAN :
        /\ answered => applied
        /\ IF applied THEN TakesEffect(c) ELSE UNCHANGED provider
        /\ IF answered
             THEN Goes(c, [call[c] EXCEPT !.at = "complete",
                    !.product = IF call[c].write = "draft" THEN Len(drafts') ELSE @])
             ELSE Goes(c, [call[c] EXCEPT !.at = "unsure"])
  BY DEF CallProduction
<1> PICK v, l, p : v = call[c].version /\ l = call[c].listing /\ p = call[c].product
  OBVIOUS
<1>2. \A d \in Calls \ {c} : call'[d] = call[d]
  BY <1>0, <1>1 DEF Goes
<1>3. /\ artworks' \in Nat /\ drafts' \in Seq(Products)
      /\ listed' \in Seq(Publications)
      /\ Grows /\ DraftsMade' /\ ListedTrue' /\ WritesOnce' /\ ClaimsKept'
      /\ applied /\ call[c].write = "draft" => MadeFrom(Len(drafts), v)'
      /\ \A d \in Calls \ {c} : call[d].at = "send" => Unsent(d)'
  <2>1. CASE applied /\ call[c].write = "upload"
    BY <1>0, <1>1, <1>2, <2>1, UploadApplied
  <2>2. CASE applied /\ call[c].write = "draft"
    BY <1>0, <1>1, <1>2, <2>2, DraftApplied
  <2>3. CASE applied /\ call[c].write = "publish"
    BY <1>0, <1>1, <1>2, <2>3, PublishApplied
  <2>4. CASE ~applied
    BY <1>0, <1>1, <1>2, <2>4, ProviderSame
  <2> QED
    BY <1>0, <2>1, <2>2, <2>3, <2>4 DEF Writes
<1>4. PICK r : /\ Goes(c, r) /\ r.write = call[c].write /\ r.version = v
               /\ r.listing = call[c].listing /\ r.state = call[c].state
               /\ \/ r.at = "unsure" /\ r = [call[c] EXCEPT !.at = "unsure"]
                  \/ /\ r.at = "complete" /\ r.write = "draft" /\ r.product = Len(drafts') /\ applied
                     /\ r = [call[c] EXCEPT !.at = "complete", !.product = Len(drafts')]
                  \/ /\ r.at = "complete" /\ r.write # "draft" /\ r.product = call[c].product
                     /\ r = [call[c] EXCEPT !.at = "complete"]
  <2>1. CASE ~answered
    <3>1. PICK r : r = [call[c] EXCEPT !.at = "unsure"]
      OBVIOUS
    <3> QED
      BY <1>0, <1>1, <2>1, <3>1 DEF CallRecords
  <2>2. CASE answered /\ call[c].write = "draft"
    <3>1. PICK r : r = [call[c] EXCEPT !.at = "complete", !.product = Len(drafts')]
      OBVIOUS
    <3> QED
      BY <1>0, <1>1, <2>2, <3>1 DEF CallRecords
  <2>3. CASE answered /\ call[c].write # "draft"
    <3>1. PICK r : r = [call[c] EXCEPT !.at = "complete"]
      OBVIOUS
    <3>2. r = [call[c] EXCEPT !.at = "complete", !.product = call[c].product]
      BY <1>0, <3>1 DEF CallRecords
    <3> QED
      BY <1>0, <1>1, <2>3, <3>1, <3>2 DEF CallRecords
  <2> QED
    BY <2>1, <2>2, <2>3
<1>5. r \in CallRecords
  <2>1. "unsure" \in Labels /\ "complete" \in Labels /\ Len(drafts') \in Nat
    BY <1>3 DEF Labels
  <2> QED
    BY <1>0, <1>4, <2>1 DEF CallRecords
<1>6. WorkflowTyped /\ WorkflowTyped'
  BY <1>0, <1>3, <1>4, <1>5 DEF ListingInv, WorkflowTyped, Goes, history
<1>7. Relies(r)'
  <2>1. PICK q : q = call[c]
    OBVIOUS
  <2>2. Relies(q)' /\ q.at = "send"
    BY <1>0, <1>3, <1>6, <2>1, RelyKept
  <2>3. r.at \in Writing /\ r.write \in Writes /\ q.at \in Writing /\ q.write = r.write
        /\ q.version = r.version /\ q.listing = r.listing /\ r.at \in {"unsure", "complete"}
    BY <1>0, <1>4, <2>1, <2>2 DEF Writing
  <2>4. r.write # "draft" => r.product = q.product
    BY <1>0, <1>4, <2>1 DEF CallRecords
  <2>5. r.at = "complete" /\ r.write = "draft" => MadeFrom(r.product, r.version)'
    BY <1>3, <1>4 DEF MadeFrom
  <2> HIDE DEF MadeFrom
  <2>6. r.write = "publish" => /\ snapshot'[r.version].listing \in consents'
                               /\ (~late' => MadeFrom(r.product, r.version)')
    BY <2>2, <2>3, <2>4 DEF Relies
  <2>7. r.version \in Reviews
        /\ (r.write # "publish" =>
               r.listing \in Listings /\ r.listing = snapshot'[r.version].listing)
        /\ record'.version > 0
    BY <2>2, <2>3 DEF Relies, Past
  <2> QED
    BY <2>3, <2>5, <2>6, <2>7 DEF Relies
<1> QED
  BY <1>0, <1>3, <1>4, <1>5, <1>7, ProviderRest

-----------------------------------------------------------------------------
(* The theorem.                                                             *)

LEMMA ListingInit == WorkflowInit => ListingInv
<1> SUFFICES ASSUME WorkflowInit PROVE ListingInv
  OBVIOUS
<1> USE WorkflowAssumption DEF WorkflowInit
<1>0. 0 \in 0..LastVersion /\ Reviews = 1..LastVersion /\ Len(<<>>) = 0
  BY DEF Reviews
<1>1. WorkflowTyped
  <2>1. record \in Jobs
    BY <1>0 DEF NoJob, Jobs, JobStates
  <2>2. snapshot \in [Reviews -> [listing : Listings \union {NoListing}, product : Nat]]
    BY <1>0 DEF NoReview
  <2>3. claim \in [Keys -> [status : {"none", "claimed", "completed", "reconciliation_required"},
                            result : Nat]]
    BY DEF Unclaimed
  <2>4. call \in [Calls -> CallRecords]
    BY IdleRelies
  <2>5. artworks \in Nat /\ drafts \in Seq(Products) /\ listed \in Seq(Publications)
    OBVIOUS
  <2>6. generated \in Listings \union {NoListing} /\ consents \subseteq Listings
    OBVIOUS
  <2>7. late \in BOOLEAN
    OBVIOUS
  <2> HIDE DEF WorkflowInit
  <2> QED
    BY <2>1, <2>2, <2>3, <2>4, <2>5, <2>6, <2>7 DEF WorkflowTyped
<1>2. ReviewRecorded /\ ApprovalTrue /\ OwnProduct
  BY <1>0 DEF ReviewRecorded, ApprovalTrue, OwnProduct, NoJob, NoReview, Reviewed, ApprovalBound,
     HasProduct
<1>3. DraftsMade /\ ClaimsKept /\ WritesOnce /\ ListedTrue
  <2>1. artworks = 0 /\ 1..Len(drafts) = {} /\ 1..Len(listed) = {}
    OBVIOUS
  <2>2. \A k \in Keys : claim[k].status = "none"
    BY DEF Unclaimed
  <2> HIDE DEF WorkflowInit
  <2>3. DraftsMade /\ ListedTrue
    BY <2>1 DEF DraftsMade, ListedTrue
  <2>4. WritesOnce
    BY <2>1 DEF WritesOnce
  <2>5. \A v \in Reviews : claim[<<"draft", v>>].status = "none"
    BY <2>2, KeysIn
  <2>6. ClaimsKept
    BY <2>1, <2>5 DEF ClaimsKept
  <2> QED
    BY <2>3, <2>4, <2>6
<1>4. CallsRely /\ WritesAlone
  BY IdleRelies DEF CallsRely, WritesAlone, Idle, InFlight
<1> QED
  BY <1>1, <1>2, <1>3, <1>4 DEF ListingInv

LEMMA ListingStep == ListingInv /\ [WorkflowNext]_workflowVars => ListingInv'
<1> SUFFICES ASSUME ListingInv, [WorkflowNext]_workflowVars PROVE ListingInv'
  OBVIOUS
<1>1. CASE UNCHANGED workflowVars
  BY <1>1, OwnSteps
<1>2. CASE WaitExpires \/ VerifyPublication
  BY <1>2, OwnSteps
<1>3. ASSUME NEW c \in Calls,
             \/ Abandon(c)
             \/ CreateIntake(c) \/ ValidateIntake(c)
             \/ BeginPrepare(c) \/ StartAnalysis(c) \/ ReadCheckpoint(c) \/ SaveCheckpoint(c)
             \/ GenerationFails(c) \/ RecordReview(c) \/ Reread(c) \/ ReadReview(c)
             \/ ValidateListing(c) \/ MakeReady(c) \/ PresentForApproval(c)
             \/ BeginProductDraft(c) \/ ClaimExternalWrite(c) \/ CallProduction(c)
             \/ CompleteExternalWrite(c) \/ RequireReconciliation(c) \/ AttachProduct(c)
             \/ BeginRevise(c) \/ NumberRevision(c) \/ Reopen(c)
             \/ BeginApprove(c) \/ CheckApproval(c) \/ CommitApproval(c)
             \/ BeginWait(c) \/ RegisterApprovalWait(c)
             \/ BeginPublish(c) \/ StartPublishing(c) \/ MarkPublished(c)
      PROVE  ListingInv'
  BY <1>3, AbandonStep, PrepareLooks, SellerLooks, PrepareMoves, CreateStep, FailStep, RecordStep,
     AttachStep, ReopenStep, ApproveStep, PublishStep, ClaimStep, AnswerStep, CallStep
<1> QED
  BY <1>1, <1>2, <1>3 DEF WorkflowNext

LEMMA ListingImplies == ListingInv => WorkflowSound
<1> SUFFICES ASSUME ListingInv PROVE WorkflowSound
  OBVIOUS
<1>1. WritesOnce
  BY DEF ListingInv
<1>2. ApprovedValid
  <2> SUFFICES ASSUME record.state \in ApprovalBound
               PROVE  Current.listing \in ValidOnes \intersect consents
    BY DEF ApprovedValid
  <2>1. record.approved = record.version /\ record.version > 0
    BY DEF ListingInv, ApprovalTrue, ReviewRecorded, Reviewed
  <2> QED
    BY <2>1 DEF ListingInv, ApprovalTrue, Current
<1>3. ASSUME ~late PROVE PublishedAsApproved
  BY <1>3 DEF ListingInv, ListedTrue, DraftsMade, MadeFrom, PublishedAsApproved
<1>4. ASSUME ~late PROVE DraftMatches
  BY <1>4 DEF ListingInv, OwnProduct, HasProduct, DraftsMade, MadeFrom, DraftMatches, Current
<1> QED
  BY <1>1, <1>2, <1>3, <1>4 DEF WorkflowSound

\* However the calls of the workflow overlap, die and are repeated, each external write happens
\* once, an approved job shows a validated listing that the seller has approved, and, until a
\* generation has failed late, what is published or waits for an approval is the product of its
\* own review.
THEOREM WorkflowAlwaysSound == WorkflowSpec => []WorkflowSound
<1>1. WorkflowSpec => []ListingInv
  BY ListingInit, ListingStep, PTL DEF WorkflowSpec
<1> QED
  BY <1>1, ListingImplies, PTL
=============================================================================
