----------------------------- MODULE MCDispatch -----------------------------
(* Dispatch for TLC: one row that settles and two that Step Functions refuses. *)
EXTENDS Dispatch
=============================================================================
