---------------------------- MODULE WorkDelivery ----------------------------
(***************************************************************************)
(* What the outbox promises about each work request, seen from the job and *)
(* from the execution: it is claimed before its one execution starts, it   *)
(* is marked only when that execution exists, it never becomes pending     *)
(* again, and it is cancelled only while nothing has touched it.           *)
(* ProductMachine takes these steps as atomic; Dispatch shows that the     *)
(* dispatchers implement them.                                             *)
(***************************************************************************)

CONSTANT Works

VARIABLES
  status,  \* WorkRequestStatus
  exec     \* its Step Functions execution

deliveryVars == <<status, exec>>

Init == status = [w \in Works |-> "absent"] /\ exec = [w \in Works |-> "none"]

Moves(w, from, to) == status[w] \in from /\ status' = [status EXCEPT ![w] = to]

Open(w)   == Moves(w, {"absent"}, "pending") /\ UNCHANGED exec
Claim(w)  == Moves(w, {"pending"}, "claimed") /\ UNCHANGED exec
Cancel(w) == Moves(w, {"pending"}, "cancelled") /\ UNCHANGED exec
Mark(w)   == exec[w] # "none" /\ Moves(w, {"claimed"}, "dispatched") /\ UNCHANGED exec

Start(w) ==
  /\ status[w] = "claimed" /\ exec[w] = "none"
  /\ exec' = [exec EXCEPT ![w] = "running"]
  /\ UNCHANGED status

Die(w) == exec[w] = "running" /\ exec' = [exec EXCEPT ![w] = "dead"] /\ UNCHANGED status

\* By the execution itself, or for it once it is dead and the work was marked.
Settle(w) ==
  \/ /\ exec[w] = "running" /\ exec' = [exec EXCEPT ![w] = "ended"]
     /\ Moves(w, {"claimed", "dispatched"}, "completed")
  \/ /\ exec[w] = "dead" /\ Moves(w, {"dispatched"}, "completed") /\ UNCHANGED exec

Next == \E w \in Works :
  Open(w) \/ Claim(w) \/ Cancel(w) \/ Mark(w) \/ Start(w) \/ Die(w) \/ Settle(w)

Spec == Init /\ [][Next]_deliveryVars

=============================================================================
