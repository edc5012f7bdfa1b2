--------------------------- MODULE MCProductMachine ---------------------------
(* ProductMachine for TLC: see the configurations of this module. *)
EXTENDS ProductMachine

=============================================================================
