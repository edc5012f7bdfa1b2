---------------------------- MODULE MCPublication ----------------------------
(* PublicationMachine for TLC: see the configurations of this module. *)
EXTENDS PublicationMachine, TLC

\* Invocations are interchangeable.
WorkerSymmetry == Permutations(Workers)
=============================================================================
