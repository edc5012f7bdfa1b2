------------------------------ MODULE MCAccess ------------------------------
(* Who may act: enrolment, store connections and judge sessions.  They share *)
(* no state, so a behaviour follows one of them and leaves the others at     *)
(* their initial states: nothing is lost, and their states add up instead of *)
(* multiplying.                                                              *)
EXTENDS AccountProvision, Connection, JudgeSession

VARIABLE scope  \* the component a behaviour follows

accessVars == <<accountVars, vars, sessionVars, scope>>

AccessInit ==
  /\ scope \in {"accounts", "connections", "sessions"}
  /\ AccountInit /\ Init /\ SessionInit
  /\ scope # "accounts" => row = [u \in Users |-> NoRow]

AccessNext ==
  /\ UNCHANGED scope
  /\ \/ scope = "accounts" /\ AccountNext /\ UNCHANGED <<vars, sessionVars>>
     \/ scope = "connections" /\ Next /\ UNCHANGED <<accountVars, sessionVars>>
     \/ scope = "sessions" /\ SessionNext /\ UNCHANGED <<accountVars, vars>>

AccessSpec == AccessInit /\ [][AccessNext]_accessVars
=============================================================================
