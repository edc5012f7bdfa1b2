-------------------------------- MODULE MCJob --------------------------------
(* The job under commands that anybody may issue in any legal order, and the *)
(* job as the first phase's workflow had it.  A behaviour follows one of     *)
(* them and leaves the variables of the other at their initial values, so    *)
(* their states add up instead of multiplying.                               *)
EXTENDS ControlJob, ListingWorkflow, TLC

VARIABLE scope  \* what a behaviour follows

JobInit == scope \in {"commands", "first phase"} /\ Init /\ WorkflowInit

JobNext ==
  /\ UNCHANGED scope
  /\ \/ scope = "commands" /\ Next /\ UNCHANGED workflowVars
     \/ scope = "first phase" /\ WorkflowNext /\ UNCHANGED vars

JobSpec == JobInit /\ [][JobNext]_<<vars, workflowVars, scope>>

\* Calls of the first phase are interchangeable, and so are the listings that pass.
FirstPhaseSymmetry == Permutations(Calls) \union Permutations(ValidOnes)
=============================================================================
