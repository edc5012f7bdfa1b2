------------------------------ MODULE MCCleanup ------------------------------
(* The three sweeps that take things away: judge products, expired jobs,     *)
(* unreferenced sources.  They share no state, so a behaviour follows one    *)
(* of them and leaves the others at an initial state.                        *)
EXTENDS JudgeCleanup, OperationalCleanup, SourceRetention, TLC

VARIABLE scope  \* the sweep a behaviour follows

\* The two runs are interchangeable, and so are the two requests; only one kind acts in a
\* behaviour, so they are exchanged together.
Exchange(S) == CHOOSE p \in Permutations(S) : \A s \in S : p[s] # s

CleanupSymmetry ==
  {IF exchanged THEN Exchange(Runs) @@ Exchange(Requests) ELSE [r \in Runs |-> r] :
     exchanged \in BOOLEAN}

cleanupSideVars == <<cleanupVars, expiryVars, vars, scope>>

\* One owner's jobs in the order of the table, and the rows of a job in theirs.
MCJobOrder == <<"j1", "j2">>
MCJobRows == <<"event", "meta">>
MCOwnerRows == <<"upload">>
MCOneRow == <<"meta">>

CleanupSideInit ==
  /\ scope \in {"products", "rows", "sources"}
  /\ CleanupInit /\ ExpiryInit /\ Init
  /\ scope # "products" => rank = CHOOSE f \in [JudgeJobs -> 1..Cardinality(JudgeJobs)] :
                                    \A i, j \in JudgeJobs : f[i] = f[j] => i = j

CleanupSideNext ==
  /\ UNCHANGED scope
  /\ \/ scope = "products" /\ CleanupNext /\ UNCHANGED <<expiryVars, vars>>
     \/ scope = "rows" /\ ExpiryNext /\ UNCHANGED <<cleanupVars, vars>>
     \/ scope = "sources" /\ Next /\ UNCHANGED <<cleanupVars, expiryVars>>

CleanupSideSpec == CleanupSideInit /\ [][CleanupSideNext]_cleanupSideVars
=============================================================================
