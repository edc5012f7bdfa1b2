---------------------------- MODULE DraftPromise ----------------------------
(***************************************************************************)
(* What a seller is promised about the provider draft of one job, without  *)
(* works, permits, executions or workers: the machine and the seller take  *)
(* turns, only the machine's turn touches the provider, the artwork is     *)
(* uploaded once, one product is created and then only replaced by a later *)
(* review, an approval is of the payload the product carries, and once the *)
(* job is over nothing changes.  Two things limit the promise.  A job may  *)
(* end with the seller told that an outcome is unknown: then the call may  *)
(* still take effect.  And the machine may stray, when it writes off an    *)
(* update that is on its way: then the product may carry any saved review. *)
(***************************************************************************)
EXTENDS Naturals

CONSTANT MaxReview  \* bound: the last review version a seller may save

VARIABLES
  turn,     \* who acts next: "machine", "seller", or nobody: "over"
  saved,    \* the current review, 0 before the first
  image,    \* how many times the artwork was uploaded
  draft,    \* the review the product carries, 0 without a product
  approval, \* the review that was approved, 0 for none
  told,     \* is the job over with an outcome that is unknown?
  strayed   \* was an update written off that may still come?

promiseVars == <<turn, saved, image, draft, approval, told, strayed>>

Init ==
  /\ turn = "machine" /\ saved = 0 /\ image = 0 /\ draft = 0 /\ approval = 0
  /\ told = FALSE /\ strayed = FALSE

FirstReview ==
  /\ turn = "machine" /\ saved = 0 /\ saved' = 1
  /\ UNCHANGED <<turn, image, draft, approval, told, strayed>>

\* The machine may still bring something about: it is its turn, or it said it might.
Working == turn = "machine" \/ told

UploadOnce ==
  /\ Working /\ saved > 0 /\ image = 0 /\ image' = 1
  /\ UNCHANGED <<turn, saved, draft, approval, told, strayed>>

\* A create needs the image; a replacement only ever moves to a later review.
Write ==
  /\ Working /\ image = 1 /\ draft < saved /\ draft' = saved
  /\ UNCHANGED <<turn, saved, image, approval, told, strayed>>

\* Only replacements can be written off: a draft that is there.
MayStray == strayed' = strayed \/ (draft > 0 /\ strayed' = TRUE)

Stray ==
  /\ turn = "machine" /\ MayStray
  /\ UNCHANGED <<turn, saved, image, draft, approval, told>>

StrayWrite ==
  /\ strayed /\ draft' \in 1..saved
  /\ UNCHANGED <<turn, saved, image, approval, told, strayed>>

HandBack ==
  /\ turn = "machine" /\ MayStray
  /\ \/ turn' = "seller" /\ UNCHANGED told
     \/ turn' = "over" /\ told' \in BOOLEAN
  /\ UNCHANGED <<saved, image, draft, approval>>

Revise ==
  /\ turn = "seller" /\ saved < MaxReview /\ saved' = saved + 1
  /\ turn' \in {"seller", "machine"}
  /\ UNCHANGED <<image, draft, approval, told, strayed>>

Resume ==
  /\ turn = "seller" /\ turn' = "machine"
  /\ UNCHANGED <<saved, image, draft, approval, told, strayed>>

Approve ==
  /\ turn = "seller" /\ saved > 0 /\ (draft = saved \/ strayed)
  /\ approval' = saved /\ turn' = "over"
  /\ UNCHANGED <<saved, image, draft, told, strayed>>

Abandon ==
  /\ turn = "seller" /\ turn' = "over"
  /\ UNCHANGED <<saved, image, draft, approval, told, strayed>>

Next ==
  \/ FirstReview \/ UploadOnce \/ Write \/ Stray \/ StrayWrite \/ HandBack
  \/ Revise \/ Resume \/ Approve \/ Abandon

Spec == Init /\ [][Next]_promiseVars /\ WF_promiseVars(HandBack)

=============================================================================
