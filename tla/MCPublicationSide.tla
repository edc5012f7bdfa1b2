-------------------------- MODULE MCPublicationSide --------------------------
(* What surrounds the two workflows: the publication request, the retention   *)
(* of its rows, and the two recovery sweeps.  A behaviour follows one of them *)
(* and leaves the others at their initial states.                             *)
EXTENDS PublicationRetention, ExecutionSweep, PublicationSweep, TLC

VARIABLE scope  \* what a behaviour follows

sideVars == <<vars, executionVars, pubSweepVars, scope>>

\* Keys are interchangeable; so are two of a kind that act, and as only one kind acts in a
\* behaviour they are exchanged together.
Exchange(S) == CHOOSE p \in Permutations(S) : \A s \in S : p[s] # s

SideSymmetry ==
  Permutations(Keys) \cup
  {IF exchanged
     THEN Exchange(Calls) @@ Exchange(Deliveries) @@ Exchange(Sweeps) @@ Exchange(Recoverers)
     ELSE [k \in Keys |-> k] : exchanged \in BOOLEAN}

\* Requests that cross need only one delivery behind them, which they cannot see, and no
\* appended row; ...
OneDelivery ==
  /\ worker' = NotRead
  /\ stream.tries > 0 => stream'.at # "waiting"
  /\ (\E d \in Deliveries : ret[d].pc # "idle") => UNCHANGED call

\* ... deliveries that cross need only one request before them.
OneRequest ==
  /\ Cardinality({c \in Calls : call'[c].pc # "idle"}) <= 1
  /\ issued # <<>> => \A c \in Calls : call[c].pc = "idle" => call'[c].pc = "idle"

\* Sweeps that cross need only one work, and one sweep may have a page of several.
FewWorks ==
  \/ Cardinality({w \in Works : row'[w] # "absent"}) <= 1
  \/ Cardinality({s \in Sweeps : sweepPc'[s] # "idle"}) <= 1

SideInit ==
  /\ scope \in {"requests", "retention", "executions", "publications"}
  /\ Init /\ SweepInit /\ PubSweepInit

SideNext ==
  /\ UNCHANGED scope
  /\ \/ scope = "requests" /\ Next /\ OneDelivery /\ UNCHANGED <<executionVars, pubSweepVars>>
     \/ scope = "retention" /\ Next /\ OneRequest /\ UNCHANGED <<executionVars, pubSweepVars>>
     \/ scope = "executions" /\ SweepNext /\ FewWorks /\ UNCHANGED <<vars, pubSweepVars>>
     \/ scope = "publications" /\ PubSweepNext /\ UNCHANGED <<vars, executionVars>>

SideSpec == SideInit /\ [][SideNext]_sideVars
=============================================================================
