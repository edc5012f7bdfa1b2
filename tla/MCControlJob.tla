---------------------------- MODULE MCControlJob ----------------------------
(* ControlJob on a small job: see the constants of each configuration.      *)
EXTENDS ControlJob
=============================================================================
