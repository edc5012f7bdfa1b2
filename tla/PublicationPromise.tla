------------------------- MODULE PublicationPromise -------------------------
(***************************************************************************)
(* What a seller who confirms a publication is promised, without attempts, *)
(* permits, calls, workers or deadlines: at most one POST; a failure means *)
(* that none was sent and none will be; a publication means that the       *)
(* listing exists; unknown is the only outcome under which a POST may      *)
(* still be on its way; and an outcome is final.                           *)
(***************************************************************************)
EXTENDS Naturals

VARIABLES
  outcome,  \* "open", or the outcome of the request
  posts,    \* publish POSTs sent
  listed    \* is the product listed?

promiseVars == <<outcome, posts, listed>>

Init == outcome = "open" /\ posts = 0 /\ listed = FALSE

Send ==
  /\ outcome \in {"open", "unknown"} /\ posts = 0 /\ posts' = 1
  /\ UNCHANGED <<outcome, listed>>

List ==
  /\ posts = 1 /\ listed' = TRUE
  /\ UNCHANGED <<outcome, posts>>

Publish == outcome = "open" /\ listed /\ outcome' = "published" /\ UNCHANGED <<posts, listed>>

Fail == outcome = "open" /\ posts = 0 /\ outcome' = "failed" /\ UNCHANGED <<posts, listed>>

GiveUp == outcome = "open" /\ outcome' = "unknown" /\ UNCHANGED <<posts, listed>>

Next == Send \/ List \/ Publish \/ Fail \/ GiveUp

SafeSpec == Init /\ [][Next]_promiseVars

=============================================================================
