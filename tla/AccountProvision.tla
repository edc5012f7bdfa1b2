-------------------------- MODULE AccountProvision --------------------------
(***************************************************************************)
(* Enrolment in accounts/: Cognito calls a hook when a signup is confirmed *)
(* and before each native sign-in.  The hook proves the user, creates the  *)
(* account's row once, and adds the user to the account group.  Hooks of   *)
(* one user overlap, die between their steps and lose answers, while the   *)
(* user's attributes change; later sign-ins repair what was left undone.   *)
(***************************************************************************)
EXTENDS Naturals, FiniteSets

CONSTANTS
  Users,      \* users of the pool
  Reserved,   \* those there were before: reserved_owner_ids
  Legacy,     \* those whose key may hold a row of another identity
  Hooks,      \* hook invocations at once
  MaxFaults,  \* bound: calls that fail or lose their answer
  MaxChanges, \* bound: changes of a user
  Nobody

ASSUME AccountAssumption ==
  Reserved \subseteq Users /\ Legacy \subseteq Users /\ MaxFaults \in Nat /\ MaxChanges \in Nat
  /\ Nobody \notin Users

VARIABLES
  user,        \* confirmed, enabled, linked to an external identity, and which email
  row,         \* the account's row: NoRow, Foreign, or the hook run that created it
  members,     \* the account group
  hookPc, who, \* where a hook stands, and for which user
  source,      \* "signup" or "signin"
  event,       \* the user as its event shows it
  run,         \* number of the hook run: the creation time it would write
  signedIn,    \* users whose native sign-in the hook let through
  runs, faults, changes

accountVars ==
  <<user, row, members, hookPc, who, source, event, run, signedIn, runs, faults, changes>>
CognitoVars == <<user, members>>

Emails == {1, 2}
NoRow == 0
Foreign == 3

AccountInit ==
  /\ user = [u \in Users |-> [confirmed |-> u \in Reserved, enabled |-> TRUE, linked |-> FALSE,
                              email |-> 1]]
  /\ \E foreign \in SUBSET Legacy :
       row = [u \in Users |-> IF u \in foreign THEN Foreign ELSE NoRow]
  /\ members = {} /\ signedIn = {}
  /\ hookPc = [h \in Hooks |-> "idle"] /\ who = [h \in Hooks |-> Nobody]
  /\ source = [h \in Hooks |-> Nobody] /\ event = [h \in Hooks |-> Nobody]
  /\ run = [h \in Hooks |-> 0] /\ runs = 1 /\ faults = 0 /\ changes = 0

HookGoto(h, label) == hookPc' = [hookPc EXCEPT ![h] = label]
Local == UNCHANGED <<who, source, event, run, runs, changes>>
Fault == faults < MaxFaults /\ faults' = faults + 1

\* The invocation is over: all its failures are one error to Cognito, which refuses the sign-in.
Leave(h) ==
  /\ HookGoto(h, "idle") /\ who' = [who EXCEPT ![h] = Nobody]
  /\ source' = [source EXCEPT ![h] = Nobody]
  /\ event' = [event EXCEPT ![h] = Nobody] /\ run' = [run EXCEPT ![h] = 0]
  /\ UNCHANGED <<runs, changes>>

\* Cognito confirms a signup, or somebody signs in; one run number each, bounded by the two kinds.
Begin(h, u, kind) ==
  /\ hookPc[h] = "idle" /\ who' = [who EXCEPT ![h] = u] /\ source' = [source EXCEPT ![h] = kind]
  /\ event' = [event EXCEPT ![h] = user'[u]]
  /\ run' = [run EXCEPT ![h] = runs] /\ runs' = 3 - runs
  /\ HookGoto(h, "event") /\ UNCHANGED <<row, members, signedIn, faults, changes>>

ConfirmSignup(h, u) ==
  /\ ~user[u].confirmed /\ user[u].enabled
  /\ user' = [user EXCEPT ![u].confirmed = TRUE] /\ Begin(h, u, "signup")

\* Cognito calls the hook before it looks at the password, or at the user's status.
SignIn(h, u) == u \notin signedIn /\ UNCHANGED user /\ Begin(h, u, "signin")

\* native_signup: linked users are passed, and reserved ones that sign in.
ReadEvent(h) ==
  LET u == who[h] IN
  /\ hookPc[h] = "event" /\ UNCHANGED <<CognitoVars, row, faults>>
  /\ \/ (event[h].linked \/ (source[h] = "signin" /\ u \in Reserved)) /\ Leave(h)
        /\ UNCHANGED signedIn
     \/ ~event[h].linked /\ u \in Reserved /\ source[h] = "signup" /\ Leave(h) /\ UNCHANGED signedIn
     \/ ~event[h].linked /\ u \notin Reserved /\ Local /\ UNCHANGED signedIn
        /\ HookGoto(h, IF source[h] = "signin" THEN "verify" ELSE "create")

\* Mutant of Verify: the event alone is the proof.
VerifyEvent(h) ==
  /\ hookPc[h] = "verify" /\ HookGoto(h, "create")
  /\ UNCHANGED <<CognitoVars, row, faults, signedIn>> /\ Local

\* verify_native_signup: AdminGetUser, before anything is written.
Verify(h) ==
  LET u == user[who[h]]
      proved == u.confirmed /\ u.enabled /\ ~u.linked /\ u.email = event[h].email IN
  /\ hookPc[h] = "verify" /\ UNCHANGED <<CognitoVars, row, faults, signedIn>>
  /\ (proved /\ HookGoto(h, "create") /\ Local) \/ (~proved /\ Leave(h))

\* Mutant: a row that is there is a conflict, whose ever it is.
CreateOrConflict(h) ==
  LET u == who[h] IN
  /\ hookPc[h] = "create" /\ UNCHANGED <<CognitoVars, faults, signedIn>>
  /\ \/ row[u] = NoRow /\ row' = [row EXCEPT ![u] = run[h]] /\ HookGoto(h, "assign") /\ Local
     \/ row[u] \in {1, 2} /\ Leave(h) /\ UNCHANGED row
     \/ row[u] = Foreign /\ Leave(h) /\ UNCHANGED row

\* create_if_absent: an own row is accepted, another fails closed.
Create(h) ==
  LET u == who[h] IN
  /\ hookPc[h] = "create" /\ UNCHANGED <<CognitoVars, faults, signedIn>>
  /\ \/ row[u] = NoRow /\ row' = [row EXCEPT ![u] = run[h]] /\ HookGoto(h, "assign") /\ Local
     \/ row[u] \in {1, 2} /\ HookGoto(h, "assign") /\ Local /\ UNCHANGED row
     \/ row[u] = Foreign /\ Leave(h) /\ UNCHANGED row

\* assign: AdminAddUserToGroup; the hook returns, and Cognito goes on.
Assign(h) ==
  /\ hookPc[h] = "assign" /\ UNCHANGED <<user, row, faults>> /\ Leave(h)
  /\ members' = members \cup {who[h]}
  /\ signedIn' = IF source[h] = "signin" THEN signedIn \cup {who[h]} ELSE signedIn

\* A call took effect and its answer is lost: the hook fails.
AnswerLost(h) ==
  /\ Fault /\ Leave(h) /\ UNCHANGED <<user, signedIn>>
  /\ \/ hookPc[h] = "create" /\ row[who[h]] = NoRow /\ row' = [row EXCEPT ![who[h]] = run[h]]
        /\ UNCHANGED members
     \/ hookPc[h] = "assign" /\ UNCHANGED row /\ members' = members \cup {who[h]}

\* A call fails, or the hook dies.
Fails(h) ==
  hookPc[h] \in {"verify", "create", "assign"} /\ Fault /\ Leave(h)
  /\ UNCHANGED <<CognitoVars, row, signedIn>>

\* An administrator disables or links a user; a user changes its email.
UserChanges(u) ==
  /\ changes < MaxChanges /\ changes' = changes + 1
  /\ \/ user' = [user EXCEPT ![u].enabled = FALSE]
     \/ user' = [user EXCEPT ![u].linked = TRUE]
     \/ user' = [user EXCEPT ![u].email = 3 - @]
  /\ UNCHANGED <<row, members, hookPc, who, source, event, run, signedIn, runs, faults>>

HookStep(h) == ReadEvent(h) \/ Verify(h) \/ Create(h) \/ Assign(h)

AccountNext ==
  \/ \E h \in Hooks :
       \/ \E u \in Users : ConfirmSignup(h, u) \/ SignIn(h, u)
       \/ HookStep(h)
       \/ (who[h] # Nobody /\ AnswerLost(h))
       \/ Fails(h)
  \/ \E u \in Users : UserChanges(u)

AccountSpec == AccountInit /\ [][AccountNext]_accountVars

\* A user who is refused signs in again; a hook goes on.
AccountFairness ==
  /\ \A u \in Users : SF_accountVars(\E h \in Hooks : SignIn(h, u))
  /\ \A h \in Hooks : WF_accountVars(HookStep(h))

-----------------------------------------------------------------------------
(* Properties.                                                             *)

\* The variables stay in their types, a hook knows its user and its kind, and
\* the row it created or read is still there when it enrols.
AccountTypeOK ==
  /\ user \in [Users -> [confirmed : BOOLEAN, enabled : BOOLEAN, linked : BOOLEAN, email : Emails]]
  /\ row \in [Users -> {NoRow, 1, 2, Foreign}]
  /\ members \subseteq Users /\ signedIn \subseteq Users
  /\ hookPc \in [Hooks -> {"idle", "event", "verify", "create", "assign"}]
  /\ \A h \in Hooks : hookPc[h] # "idle" => who[h] \in Users /\ source[h] \in {"signup", "signin"}
  /\ \A h \in Hooks : hookPc[h] = "assign" => row[who[h]] \in {1, 2}

\* Whatever hooks die and whatever answers they lose, whoever is in the account group, or was let
\* through by the hook, has an account row of its own, and nobody reserved is enrolled.  (provision)
EnrolledHasAccount ==
  \A u \in members \cup signedIn : row[u] \in {1, 2} /\ u \notin Reserved

\* A sign-in the hook let through is that of a member: a lost answer is not taken for a grant.
SignedInIsMember == signedIn \subseteq members

\* A row is written once: overlapping hooks and repairs keep the first creation, and a foreign row
\* is left alone.  (create_if_absent)
RowKept == [][\A u \in Users : row[u] # NoRow => row'[u] = row[u]]_accountVars

\* Sign-in events of users who never confirmed their signup create nothing: an own row, and a
\* membership, are those of a confirmed user.  (verify_native_signup)
OnlyConfirmed ==
  \A u \in Users : row[u] \in {1, 2} \/ u \in members => user[u].confirmed

\* Enrolment is sound whoever dies and whatever answers are lost: rows before members, members
\* before native sign-ins, and none of it for a reserved or an unconfirmed user.
EnrolmentSound == AccountTypeOK /\ EnrolledHasAccount /\ SignedInIsMember /\ OnlyConfirmed

\* Enrolment left half done is repaired, once: a confirmed user who keeps signing in is at last
\* enrolled, unless it is disabled or linked, reserved, or its key holds a foreign row; and no
\* repair writes a row again.  (pre-authentication repair)
EnrolledAtLast ==
  /\ RowKept
  /\ AccountFairness =>
       \A u \in Users \ Reserved :
         (user[u].confirmed /\ row[u] # Foreign)
           ~> (~user[u].enabled \/ user[u].linked \/ u \in signedIn)
=============================================================================
