---------------------------- MODULE AccessProofs ----------------------------
(***************************************************************************)
(* Who may act, for any number of users, hooks, candidates, requests,      *)
(* cleanups, browsers and any bounds: enrolment is sound, the secrets and  *)
(* the rows of a store connection agree, and judge sessions hold.          *)
(*                                                                         *)
(* The arguments.  Accounts: a hook that goes on writing works for a user  *)
(* it found confirmed, and no write takes a confirmation back.             *)
(* Connections: an invocation ends before the grace of a candidate it      *)
(* found unexpired does, so no cleanup claims a candidate whose secret a   *)
(* validation may still create; and the reservations a new one is counted  *)
(* against are still listed, because a reservation only drops what no      *)
(* window it is in can hold.  Sessions: a request reserves a session of    *)
(* its own name once, and whoever was overtaken by a revocation finds it   *)
(* when it looks again, for neither is ever taken back.                    *)
(***************************************************************************)
EXTENDS AccountProvision, Connection, JudgeSession, FiniteSetTheorems, TLAPS

-----------------------------------------------------------------------------
(* Accounts.                                                                *)

UserRecord == [confirmed : BOOLEAN, enabled : BOOLEAN, linked : BOOLEAN, email : Emails]

HooksTyped ==
  /\ who \in [Hooks -> Users \cup {Nobody}]
  /\ source \in [Hooks -> {"signup", "signin", Nobody}]
  /\ run \in [Hooks -> 0..2] /\ runs \in {1, 2}
  /\ \A h \in Hooks : hookPc[h] # "idle" => run[h] # 0

\* A hook that has read its event works for a user who is not reserved, and once it writes, or
\* answers a signup, for one who is confirmed.
HooksProven ==
  \A h \in Hooks :
    /\ hookPc[h] \in {"verify", "create", "assign"} => who[h] \notin Reserved
    /\ (hookPc[h] # "idle" /\ source[h] = "signup") \/ hookPc[h] \in {"create", "assign"}
         => user[who[h]].confirmed
    /\ hookPc[h] = "verify" => source[h] = "signin"

AccountInv == EnrolmentSound /\ HooksTyped /\ HooksProven

LEMMA AccountInvInit == AccountInit => AccountInv
<1> SUFFICES ASSUME AccountInit PROVE AccountInv
  OBVIOUS
<1>1. /\ row \in [Users -> {NoRow, 1, 2, Foreign}]
      /\ \A u \in Users : row[u] \in {NoRow, Foreign}
  BY DEF AccountInit
<1>2. user \in [Users -> UserRecord]
  <2>1. \A u \in Users : (u \in Reserved) \in BOOLEAN
    OBVIOUS
  <2> QED
    BY <2>1 DEF AccountInit, UserRecord, Emails
<1> QED
  BY <1>1, <1>2 DEF AccountInit, AccountInv, EnrolmentSound, AccountTypeOK, EnrolledHasAccount,
     SignedInIsMember, OnlyConfirmed, HooksTyped, HooksProven, UserRecord, NoRow, Foreign

\* A hook moves on, to its end or to the next step, and nothing else changes.
LEMMA HookMoves ==
  ASSUME AccountInv, NEW h \in Hooks, NEW label,
         UNCHANGED <<CognitoVars, row, signedIn>>,
         \/ Leave(h)
         \/ HookGoto(h, label) /\ Local /\ hookPc[h] # "idle"
              /\ \/ label = "verify" /\ who[h] \notin Reserved /\ source[h] = "signin"
                 \/ label = "create" /\ who[h] \notin Reserved /\ user[who[h]].confirmed
                 \/ label = "assign" /\ hookPc[h] = "create" /\ row[who[h]] \in {1, 2}
  PROVE  AccountInv'
BY AccountAssumption DEF AccountInv, EnrolmentSound, AccountTypeOK, EnrolledHasAccount,
   SignedInIsMember, OnlyConfirmed, HooksTyped, HooksProven, Leave, HookGoto, Local, CognitoVars

\* An attribute of a user changes: it stays a user, and a confirmed one stays confirmed.
LEMMA UserChanged ==
  ASSUME AccountInv, NEW u \in Users,
         \/ user' = [user EXCEPT ![u].confirmed = TRUE]
         \/ user' = [user EXCEPT ![u].enabled = FALSE]
         \/ user' = [user EXCEPT ![u].linked = TRUE]
         \/ user' = [user EXCEPT ![u].email = 3 - @]
         \/ UNCHANGED user
  PROVE  /\ user' \in [Users -> UserRecord]
         /\ \A v \in Users : user[v].confirmed => user'[v].confirmed
         /\ user' = [user EXCEPT ![u].confirmed = TRUE] => user'[u].confirmed
<1>1. user \in [Users -> UserRecord]
  BY DEF AccountInv, EnrolmentSound, AccountTypeOK, UserRecord
<1>2. CASE user' = [user EXCEPT ![u].email = 3 - @]
  <2>1. user[u].email \in {1, 2} /\ 3 - user[u].email \in {1, 2}
    BY <1>1 DEF UserRecord, Emails
  <2> QED
    BY <1>1, <1>2, <2>1 DEF UserRecord, Emails
<1>3. CASE user' = [user EXCEPT ![u].confirmed = TRUE]
  BY <1>1, <1>3 DEF UserRecord
<1>4. CASE user' = [user EXCEPT ![u].enabled = FALSE]
  BY <1>1, <1>4 DEF UserRecord
<1>5. CASE user' = [user EXCEPT ![u].linked = TRUE]
  BY <1>1, <1>5 DEF UserRecord
<1> QED
  BY <1>1, <1>2, <1>3, <1>4, <1>5

LEMMA AccountInvStep == ASSUME AccountInv, [AccountNext]_accountVars PROVE AccountInv'
<1> USE AccountAssumption DEF EnrolmentSound
<1>1. ASSUME NEW h \in Hooks, NEW u \in Users, ConfirmSignup(h, u) PROVE AccountInv'
  <2>1. /\ user' \in [Users -> UserRecord] /\ user'[u].confirmed
        /\ \A v \in Users : user[v].confirmed => user'[v].confirmed
    BY <1>1, UserChanged DEF ConfirmSignup
  <2> QED
    BY <1>1, <2>1 DEF ConfirmSignup, Begin, HookGoto, AccountInv, AccountTypeOK, UserRecord,
       EnrolledHasAccount, SignedInIsMember, OnlyConfirmed, HooksTyped, HooksProven
<1>2. ASSUME NEW h \in Hooks, NEW u \in Users, SignIn(h, u) PROVE AccountInv'
  BY <1>2 DEF SignIn, Begin, HookGoto, AccountInv, AccountTypeOK, EnrolledHasAccount,
     SignedInIsMember, OnlyConfirmed, HooksTyped, HooksProven
<1>3. ASSUME NEW h \in Hooks, ReadEvent(h) \/ Verify(h) \/ Fails(h) PROVE AccountInv'
  BY <1>3, HookMoves DEF ReadEvent, Verify, Fails, AccountInv, AccountTypeOK, HooksTyped,
     HooksProven
<1>4. ASSUME NEW h \in Hooks, hookPc[h] = "create", row[who[h]] = NoRow,
             row' = [row EXCEPT ![who[h]] = run[h]], UNCHANGED <<user, members, signedIn>>,
             Leave(h) \/ (HookGoto(h, "assign") /\ Local)
      PROVE  AccountInv'
  <2>1. /\ who[h] \in Users /\ run[h] \in {1, 2} /\ who[h] \notin members \cup signedIn
        /\ who[h] \notin Reserved /\ user[who[h]].confirmed
    BY <1>4 DEF AccountInv, AccountTypeOK, EnrolledHasAccount, HooksTyped, HooksProven, NoRow
  <2>2. /\ row' \in [Users -> {NoRow, 1, 2, Foreign}] /\ row'[who[h]] \in {1, 2}
        /\ \A u \in Users \ {who[h]} : row'[u] = row[u]
    BY <1>4, <2>1 DEF AccountInv, AccountTypeOK
  <2>3. CASE Leave(h)
    BY <1>4, <2>1, <2>2, <2>3 DEF Leave, HookGoto, AccountInv, AccountTypeOK,
       EnrolledHasAccount, SignedInIsMember, OnlyConfirmed, HooksTyped, HooksProven
  <2>4. CASE HookGoto(h, "assign") /\ Local
    BY <1>4, <2>1, <2>2, <2>4 DEF HookGoto, Local, AccountInv, AccountTypeOK,
       EnrolledHasAccount, SignedInIsMember, OnlyConfirmed, HooksTyped, HooksProven
  <2> QED
    BY <1>4, <2>3, <2>4
<1>5. ASSUME NEW h \in Hooks, hookPc[h] = "assign", members' = members \cup {who[h]},
             Leave(h), UNCHANGED <<user, row>>,
             signedIn' \subseteq signedIn \cup {who[h]}
      PROVE  AccountInv'
  BY <1>5 DEF Leave, HookGoto, AccountInv, AccountTypeOK,
     EnrolledHasAccount, SignedInIsMember, OnlyConfirmed, HooksTyped, HooksProven
<1>6. ASSUME NEW h \in Hooks, Create(h) PROVE AccountInv'
  BY <1>4, <1>6, HookMoves DEF Create, CognitoVars, AccountInv, AccountTypeOK, HooksTyped,
     HooksProven
<1>7. ASSUME NEW h \in Hooks, Assign(h) \/ AnswerLost(h) PROVE AccountInv'
  <2>1. CASE Assign(h)
    BY <1>5, <2>1 DEF Assign
  <2>2. CASE AnswerLost(h)
    <3>1. CASE hookPc[h] = "create"
      <4>1. /\ row[who[h]] = NoRow /\ row' = [row EXCEPT ![who[h]] = run[h]] /\ Leave(h)
            /\ UNCHANGED <<user, members, signedIn>>
        BY <2>2, <3>1 DEF AnswerLost
      <4> QED
        BY <1>4, <3>1, <4>1
    <3>2. CASE hookPc[h] # "create"
      <4>1. /\ hookPc[h] = "assign" /\ members' = members \cup {who[h]} /\ Leave(h)
            /\ UNCHANGED <<user, row>> /\ signedIn' \subseteq signedIn \cup {who[h]}
        BY <2>2, <3>2 DEF AnswerLost
      <4> QED
        BY <1>5, <4>1
    <3> QED
      BY <3>1, <3>2
  <2> QED
    BY <1>7, <2>1, <2>2
<1>8. ASSUME NEW u \in Users, UserChanges(u) PROVE AccountInv'
  <2>1. /\ user' \in [Users -> UserRecord]
        /\ \A v \in Users : user[v].confirmed => user'[v].confirmed
    BY <1>8, UserChanged DEF UserChanges
  <2> QED
    BY <1>8, <2>1 DEF UserChanges, AccountInv, AccountTypeOK, UserRecord, EnrolledHasAccount,
       SignedInIsMember, OnlyConfirmed, HooksTyped, HooksProven
<1>9. CASE UNCHANGED accountVars
  BY <1>9 DEF accountVars, CognitoVars, AccountInv, AccountTypeOK, EnrolledHasAccount,
     SignedInIsMember, OnlyConfirmed, HooksTyped, HooksProven
<1> QED
  BY <1>1, <1>2, <1>3, <1>6, <1>7, <1>8, <1>9 DEF AccountNext, HookStep

\* Enrolment is sound: however hooks overlap, die and lose their answers while users change,
\* the group and the sign-ins let through hold users with an account of their own, none of them
\* reserved and all of them confirmed (accounts/provision, verify_native_signup).
THEOREM EnrolmentAlwaysSound == AccountSpec => []EnrolmentSound
<1>1. AccountInv => EnrolmentSound
  BY DEF AccountInv
<1> QED
  BY <1>1, AccountInvInit, AccountInvStep, PTL DEF AccountSpec

\* A row is written once: whoever creates or repairs an account, the row that is there, own or
\* foreign, is left as it is (create_if_absent).
THEOREM RowAlwaysKept == AccountSpec => RowKept
<1>1. ASSUME AccountInv, [AccountNext]_accountVars
      PROVE  \A u \in Users : row[u] # NoRow => row'[u] = row[u]
  BY <1>1 DEF AccountNext, ConfirmSignup, SignIn, Begin, HookStep, ReadEvent, Verify, Create,
     Assign, AnswerLost,
     Fails, UserChanges, accountVars, CognitoVars, AccountInv, EnrolmentSound, AccountTypeOK
<1> QED
  BY <1>1, AccountInvInit, AccountInvStep, PTL DEF AccountSpec, RowKept


-----------------------------------------------------------------------------
(* Connections.                                                            *)

Working == {"reserve", "check", "save", "probe", "publish", "recheck", "select"}

RequestRecord ==
  [pc : Working \cup {"idle", "finish", "mark"}, candidate : Candidates \cup {None},
   token : Tokens \cup {None}, op : SelectOps \cup {None}, shop : Shops \cup {None},
   version : Nat, stores : SUBSET Shops, now : Nat, began : Nat]

CleanRecord ==
  [pc : {"idle", "dispose", "tombstone"}, candidate : Candidates \cup {None}, began : Nat]

CandidateRecord ==
  [state : CandidateStates, token : Tokens \cup {None}, created : Nat, version : Nat,
   stores : SUBSET Shops]

SetupRecord ==
  [version : Nat, candidate : Candidates \cup {None}, binding : Candidates \cup {None},
   shop : Shops \cup {None}, granted : BOOLEAN]

ConnectionTyped ==
  /\ ConnectionTypeOK
  /\ request \in [Requests -> RequestRecord] /\ cleaner \in [Cleaners -> CleanRecord]

Live(c) == [state |-> "live", token |-> candidate[c].token]

\* What the row of a candidate says of its secret and of its binding.
CandidateHolds(c) ==
  /\ candidate[c].state = "absent" => secret[c] = NoSecret
  /\ candidate[c].state = "pending" => secret[c] \in {NoSecret, Live(c)}
  /\ candidate[c].state \in {"validated", "consumed"} => secret[c] = Live(c)
  /\ candidate[c].state \in {"deleting", "deleted"}
       => candidate[c].created + Lifetime + Grace < clock
  /\ candidate[c].state = "deleted" => secret[c].state # "live"
  /\ candidate[c].state = "consumed" <=> connection[c] # NoConnection

\* A request is inside its time limit.  One that validates has found its candidate unexpired
\* since it began: it is over before any cleanup may claim that candidate.
RequestHolds(r) ==
  /\ r.pc # "idle" => r.began <= clock /\ clock <= r.began + InvocationLimit
  /\ r.pc \in Working => r.candidate \in Candidates
  /\ r.pc = "reserve" => r.token \in Tokens /\ r.now = r.began
  /\ r.pc \in {"check", "save", "probe", "publish"} =>
       candidate[r.candidate].state # "absent" /\ candidate[r.candidate].token = r.token
  /\ r.pc \in {"save", "probe", "publish"} => r.began < candidate[r.candidate].created + Lifetime
  /\ (r.pc = "publish" /\ candidate[r.candidate].state = "pending")
       => secret[r.candidate] = Live(r.candidate)
  /\ r.pc \in {"recheck", "select"} => r.op \in SelectOps /\ r.shop \in Shops
  /\ r.pc \in {"finish", "mark"} => IsBound
  /\ r.pc = "mark" => seller

CleanerHolds(k) ==
  /\ k.pc # "idle" => k.candidate \in Candidates
                      /\ candidate[k.candidate].state \in {"deleting", "deleted"}
  /\ k.pc = "tombstone" => secret[k.candidate].state # "live"

\* A binding row that is absent names no shop.
BindingHolds(c) == connection[c].state = "absent" => connection[c] = NoConnection

RowsAgree ==
  /\ \A c \in Candidates : CandidateHolds(c) /\ BindingHolds(c)
  /\ \A p \in Requests : RequestHolds(request[p])
  /\ \A q \in Cleaners : CleanerHolds(cleaner[q])
  /\ \A o \in SelectOps : receipt[o].candidate = None => receipt[o] = NoReceipt
  /\ OneDestination

Dated == {c \in Candidates : candidate[c].state # "absent"}

\* The candidates whose reservation counts at t.
InWindow(t) == {c \in Candidates : /\ candidate[c].state # "absent"
                                   /\ candidate[c].created <= t
                                   /\ candidate[c].created + Window > t}

\* The budget row lists every reservation that can still count, and nothing else.
BudgetHeld ==
  /\ IsFiniteSet(attempts) /\ IsFiniteSet(Dated)
  /\ \A a \in attempts : candidate[a.candidate].state # "absent"
                         /\ candidate[a.candidate].created = a.at
  /\ \A c \in Dated :
       /\ candidate[c].created <= clock
       /\ \/ [candidate |-> c, at |-> candidate[c].created] \in attempts
          \/ \E a \in attempts : candidate[c].created + Window <= a.at
  /\ BudgetHolds

ConnectionInv == ConnectionTyped /\ RowsAgree /\ BudgetHeld

LEMMA ConnectionConstants ==
  /\ Lifetime \in Nat /\ Window \in Nat /\ Limit \in Nat /\ Limit > 0 /\ Grace \in Nat
  /\ InvocationLimit \in Nat /\ MaxClock \in Nat /\ InvocationLimit <= Grace
  /\ None \notin Candidates /\ None \notin Tokens /\ None \notin Shops
BY ConnectionAssumption

LEMMA ConnectionInvInit == Init => ConnectionInv
<1> SUFFICES ASSUME Init PROVE ConnectionInv
  OBVIOUS
<1> USE ConnectionConstants DEF Init, Absent, Unbound, NoConnection, NoReceipt, NoSecret, Idle,
   NoClean
<1>1. ConnectionTyped
  <2>1. setup \in SetupRecord /\ workflow \in BOOLEAN /\ seller \in BOOLEAN
    BY DEF SetupRecord
  <2>2. candidate \in [Candidates -> CandidateRecord]
    BY DEF CandidateRecord, CandidateStates
  <2>3. request \in [Requests -> RequestRecord] /\ cleaner \in [Cleaners -> CleanRecord]
    BY DEF RequestRecord, CleanRecord
  <2>4. /\ clock \in 0..MaxClock /\ attempts \subseteq [candidate : Candidates, at : Nat]
        /\ connection \in [Candidates -> [state : {"absent", "pending_activation", "active"},
             shop : Shops \cup {None}]]
        /\ receipt \in [SelectOps -> [candidate : Candidates \cup {None},
             shop : Shops \cup {None}, version : Nat]]
        /\ secret \in [Candidates -> [state : {"absent", "live", "scheduled"},
             token : Tokens \cup {None}]]
    OBVIOUS
  <2> QED
    BY <2>1, <2>2, <2>3, <2>4
       DEF ConnectionTyped, ConnectionTypeOK, SetupRecord, CandidateRecord
<1>2. RowsAgree
  BY DEF RowsAgree, CandidateHolds, BindingHolds, RequestHolds, CleanerHolds, OneDestination,
     IsBound, Working, Live
<1>3. Dated = {} /\ attempts = {}
  BY DEF Dated
<1>4. BudgetHolds
  <2> SUFFICES ASSUME NEW t \in 0..clock PROVE Cardinality(InWindow(t)) <= Limit
    BY DEF BudgetHolds, InWindow
  <2>1. InWindow(t) = {}
    BY DEF InWindow
  <2>2. Cardinality({}) = 0
    BY FS_EmptySet
  <2> HIDE DEF InWindow
  <2> QED
    BY <2>1, <2>2
<1>5. IsFiniteSet(Dated) /\ IsFiniteSet(attempts)
  BY <1>3, FS_EmptySet
<1>6. BudgetHeld
  BY <1>3, <1>4, <1>5 DEF BudgetHeld
<1> QED
  BY <1>1, <1>2, <1>6 DEF ConnectionInv

LEMMA RequestMoves ==
  ASSUME ConnectionTyped, NEW p \in Requests, NEW r \in RequestRecord, Goes(p, r),
         UNCHANGED <<clock, workflow, storeVars, secret, cleaner>>, seller' \in BOOLEAN
  PROVE  ConnectionTyped'
<1>1. request' \in [Requests -> RequestRecord]
  BY DEF ConnectionTyped, Goes
<1> QED
  BY <1>1 DEF ConnectionTyped, ConnectionTypeOK, storeVars

LEMMA IdleTyped == Idle \in RequestRecord
BY ConnectionConstants DEF Idle, RequestRecord

LEMMA PcTyped ==
  ASSUME NEW r \in RequestRecord, NEW pc \in Working \cup {"idle", "finish", "mark"}
  PROVE  [r EXCEPT !.pc = pc] \in RequestRecord
BY DEF RequestRecord

LEMMA TypedStep == ASSUME ConnectionInv, [Next]_vars PROVE ConnectionTyped'
<1> USE ConnectionConstants
<1> DEFINE Typed == ConnectionTyped'
<1>0. ConnectionTyped /\ seller \in BOOLEAN /\ \A p \in Requests : request[p] \in RequestRecord
  BY DEF ConnectionInv, ConnectionTyped, ConnectionTypeOK
<1>1. CASE Tick
  <2>1. request' \in [Requests -> RequestRecord] /\ cleaner' \in [Cleaners -> CleanRecord]
    BY <1>0, <1>1, IdleTyped DEF Tick, At, CleanRecord, NoClean, ConnectionTyped
  <2>2. clock' \in 0..MaxClock
    BY <1>0, <1>1 DEF Tick, ConnectionTyped, ConnectionTypeOK
  <2> QED
    BY <1>0, <1>1, <2>1, <2>2 DEF Tick, storeVars, ConnectionTyped, ConnectionTypeOK
<1>2. CASE EnableWorkflow \/ UNCHANGED vars
  BY <1>0, <1>2 DEF EnableWorkflow, vars, storeVars, ConnectionTyped, ConnectionTypeOK
<1>3. ASSUME NEW p \in Requests, NEW c \in Candidates, NEW t \in Tokens, BeginValidate(p, c, t)
      PROVE  Typed
  <2>1. clock \in Nat
    BY <1>0 DEF ConnectionTyped, ConnectionTypeOK
  <2>2. PICK r \in RequestRecord : Goes(p, r)
    BY <1>3, <2>1, IdleTyped DEF BeginValidate, RequestRecord, Working
  <2> QED
    BY <1>0, <1>3, <2>2, RequestMoves DEF BeginValidate
<1>4. ASSUME NEW p \in Requests, Reserve(p) PROVE Typed
  <2> DEFINE r == request[p]
  <2>1. request' \in [Requests -> RequestRecord]
    BY <1>0, <1>4, PcTyped DEF Reserve, Goes, ConnectionTyped, Working
  <2>2. r \in RequestRecord /\ r.pc = "reserve" /\ r.candidate \in Candidates /\ r.now \in Nat
        /\ r.token \in Tokens
    BY <1>0, <1>4 DEF Reserve, At, RequestRecord, Working, RowsAgree, RequestHolds, ConnectionInv
  <2>3. candidate \in [Candidates -> CandidateRecord]
    BY <1>0 DEF ConnectionTyped, ConnectionTypeOK, CandidateRecord
  <2>4. candidate' \in [Candidates -> CandidateRecord]
    <3>1. [Absent EXCEPT !.state = "pending", !.token = r.token, !.created = r.now]
            \in CandidateRecord
      BY <2>2 DEF Absent, CandidateRecord, CandidateStates
    <3> QED
      BY <1>4, <2>2, <2>3, <3>1 DEF Reserve
  <2>5. attempts' \subseteq [candidate : Candidates, at : Nat]
    BY <1>0, <1>4, <2>2 DEF Reserve, Recent, ConnectionTyped, ConnectionTypeOK
  <2> QED
    BY <1>0, <1>4, <2>1, <2>4, <2>5
       DEF Reserve, ConnectionTyped, ConnectionTypeOK, CandidateRecord
<1>5. ASSUME NEW p \in Requests, Check(p) PROVE Typed
  BY <1>0, <1>5, IdleTyped, PcTyped, RequestMoves DEF Check, Done, Working
<1>6. ASSUME NEW p \in Requests, CreateSecret(p) PROVE Typed
  <2>1. request' \in [Requests -> RequestRecord]
    BY <1>0, <1>6, PcTyped DEF CreateSecret, Goes, ConnectionTyped, Working
  <2>2. request[p].token \in Tokens \cup {None}
    BY <1>0 DEF RequestRecord
  <2>3. secret' \in [Candidates -> [state : {"absent", "live", "scheduled"},
                                    token : Tokens \cup {None}]]
    BY <1>0, <1>6, <2>2 DEF CreateSecret, ConnectionTyped, ConnectionTypeOK
  <2> QED
    BY <1>0, <1>6, <2>1, <2>3 DEF CreateSecret, storeVars, ConnectionTyped, ConnectionTypeOK
<1>7. ASSUME NEW p \in Requests, ProbeShops(p) PROVE Typed
  <2>1. \A listed \in SUBSET Shops :
          [request[p] EXCEPT !.pc = "publish", !.stores = listed] \in RequestRecord
    BY <1>0 DEF RequestRecord, Working
  <2> QED
    BY <1>0, <1>7, <2>1, RequestMoves DEF ProbeShops
<1>8. ASSUME NEW p \in Requests, PublishCandidate(p) PROVE Typed
  <2> DEFINE r == request[p]
             version == IF IsBound THEN setup.version ELSE setup.version + 1
  <2>1. request' \in [Requests -> RequestRecord]
    BY <1>0, <1>8, IdleTyped DEF PublishCandidate, Done, Goes, ConnectionTyped
  <2>2. r.candidate \in Candidates /\ r.stores \in SUBSET Shops
    BY <1>0, <1>8 DEF PublishCandidate, At, RequestRecord, Working, RowsAgree, RequestHolds,
       ConnectionInv
  <2>3. candidate \in [Candidates -> CandidateRecord] /\ setup \in SetupRecord
    BY <1>0 DEF ConnectionTyped, ConnectionTypeOK, CandidateRecord, SetupRecord
  <2>4. version \in Nat
    BY <2>3 DEF SetupRecord
  <2> HIDE DEF version
  <2>5. candidate' \in [Candidates -> CandidateRecord]
    <3>1. candidate' = [candidate EXCEPT ![r.candidate].state = "validated",
                            ![r.candidate].version = version, ![r.candidate].stores = r.stores]
      BY <1>8 DEF PublishCandidate, version
    <3> QED
      BY <2>2, <2>3, <2>4, <3>1 DEF CandidateRecord, CandidateStates
  <2>6. setup' \in SetupRecord
    <3>1. setup' = setup \/ setup' = [setup EXCEPT !.version = version, !.candidate = r.candidate]
      BY <1>8 DEF PublishCandidate, version
    <3> QED
      BY <2>2, <2>3, <2>4, <3>1 DEF SetupRecord
  <2> QED
    BY <1>0, <1>8, <2>1, <2>5, <2>6
       DEF PublishCandidate, ConnectionTyped, ConnectionTypeOK, CandidateRecord, SetupRecord
<1>9. ASSUME NEW p \in Requests, NEW o \in SelectOps, NEW c \in Candidates, NEW s \in Shops,
             NEW v \in 1..(Cardinality(Candidates) + 1), BeginSelect(p, o, c, s, v)
      PROVE  Typed
  <2>1. clock \in Nat /\ setup.version \in Nat
    BY <1>0 DEF ConnectionTyped, ConnectionTypeOK
  <2>2. PICK r \in RequestRecord : Goes(p, r)
    BY <1>9, <2>1, IdleTyped DEF BeginSelect, RequestRecord, Working
  <2> QED
    BY <1>0, <1>9, <2>2, RequestMoves DEF BeginSelect
<1>10. ASSUME NEW p \in Requests,
              RecheckShop(p) \/ RecoverSelect(p) \/ Activate(p) \/ Finish(p) \/ Raise(p)
       PROVE  Typed
  <2>1. clock \in Nat
    BY <1>0 DEF ConnectionTyped, ConnectionTypeOK
  <2>2. PICK r \in RequestRecord : Goes(p, r)
    <3>1. [Idle EXCEPT !.pc = "finish", !.began = clock] \in RequestRecord
      BY <2>1, IdleTyped DEF RequestRecord
    <3> QED
      BY <1>0, <1>10, <3>1, IdleTyped, PcTyped
         DEF RecheckShop, RecoverSelect, Activate, Finish, Raise, Done, Working
  <2>3. seller' \in BOOLEAN
    BY <1>0, <1>10 DEF RecheckShop, RecoverSelect, Activate, Finish, Raise
  <2>4. UNCHANGED <<clock, workflow, storeVars, secret, cleaner>>
    BY <1>10 DEF RecheckShop, RecoverSelect, Activate, Finish, Raise
  <2> QED
    BY <1>0, <2>2, <2>3, <2>4, RequestMoves
<1>11. ASSUME NEW p \in Requests, Select(p) PROVE Typed
  <2> DEFINE r == request[p]
  <2>1. request' \in [Requests -> RequestRecord]
    BY <1>0, <1>11, PcTyped DEF Select, Goes, ConnectionTyped
  <2>2. r.candidate \in Candidates /\ r.op \in SelectOps /\ r.shop \in Shops /\ r.version \in Nat
    BY <1>0, <1>11 DEF Select, At, RequestRecord, Working, RowsAgree, RequestHolds, ConnectionInv
  <2>3. candidate \in [Candidates -> CandidateRecord] /\ setup \in SetupRecord
    BY <1>0 DEF ConnectionTyped, ConnectionTypeOK, CandidateRecord, SetupRecord
  <2>4. candidate' \in [Candidates -> CandidateRecord]
    BY <1>11, <2>2, <2>3 DEF Select, CandidateRecord, CandidateStates
  <2>5. setup' \in SetupRecord
    <3>1. setup.version + 1 \in Nat
      BY <2>3 DEF SetupRecord
    <3>2. setup' = [version |-> setup.version + 1, candidate |-> None, binding |-> r.candidate,
                    shop |-> r.shop, granted |-> FALSE]
      BY <1>11 DEF Select, Unbound
    <3> QED
      BY <2>2, <3>1, <3>2 DEF SetupRecord
  <2>6. connection' \in [Candidates -> [state : {"absent", "pending_activation", "active"},
                                        shop : Shops \cup {None}]]
    BY <1>0, <1>11, <2>2 DEF Select, ConnectionTyped, ConnectionTypeOK
  <2>7. receipt' \in [SelectOps -> [candidate : Candidates \cup {None},
                                    shop : Shops \cup {None}, version : Nat]]
    BY <1>0, <1>11, <2>2 DEF Select, ConnectionTyped, ConnectionTypeOK
  <2> QED
    BY <1>0, <1>11, <2>1, <2>4, <2>5, <2>6, <2>7
       DEF Select, ConnectionTyped, ConnectionTypeOK, CandidateRecord, SetupRecord
<1>12. ASSUME NEW p \in Requests, MarkSellerGranted(p) PROVE Typed
  <2>1. request' \in [Requests -> RequestRecord]
    BY <1>0, <1>12, IdleTyped DEF MarkSellerGranted, Done, Goes, ConnectionTyped
  <2>2. setup' \in SetupRecord
    BY <1>0, <1>12 DEF MarkSellerGranted, ConnectionTyped, ConnectionTypeOK, SetupRecord
  <2>3. connection' \in [Candidates -> [state : {"absent", "pending_activation", "active"},
                                        shop : Shops \cup {None}]]
    <3> DEFINE S == [state : {"absent", "pending_activation", "active"}, shop : Shops \cup {None}]
    <3>1. connection \in [Candidates -> S] /\ \A k \in S : [k EXCEPT !.state = "active"] \in S
      BY <1>0 DEF ConnectionTyped, ConnectionTypeOK
    <3>2. connection' = [connection EXCEPT ![setup.binding] =
                           [connection[setup.binding] EXCEPT !.state = "active"]]
      BY <1>12 DEF MarkSellerGranted
    <3> HIDE DEF S
    <3>3. connection' \in [Candidates -> S]
      BY <3>1, <3>2
    <3> QED
      BY <3>3 DEF S
  <2> QED
    BY <1>0, <1>12, <2>1, <2>2, <2>3
       DEF MarkSellerGranted, ConnectionTyped, ConnectionTypeOK, SetupRecord
<1>13. ASSUME NEW q \in Cleaners, NEW c \in Candidates, ClaimCleanup(q, c) PROVE Typed
  <2>1. clock \in Nat
    BY <1>0 DEF ConnectionTyped, ConnectionTypeOK
  <2>2. cleaner' \in [Cleaners -> CleanRecord]
    BY <1>0, <1>13, <2>1 DEF ClaimCleanup, CleanRecord, ConnectionTyped
  <2>3. candidate' \in [Candidates -> CandidateRecord]
    <3>1. candidate \in [Candidates -> CandidateRecord]
      BY <1>0 DEF ConnectionTyped, ConnectionTypeOK, CandidateRecord
    <3> QED
      BY <1>13, <3>1 DEF ClaimCleanup, CandidateRecord, CandidateStates
  <2> QED
    BY <1>0, <1>13, <2>2, <2>3 DEF ClaimCleanup, ConnectionTyped, ConnectionTypeOK,
       CandidateRecord
<1>14. ASSUME NEW q \in Cleaners, Dispose(q) \/ Tombstone(q) \/ RaiseCleanup(q) PROVE Typed
  <2>1. /\ cleaner \in [Cleaners -> CleanRecord] /\ cleaner[q] \in CleanRecord
        /\ NoClean \in CleanRecord
    BY <1>0 DEF ConnectionTyped, CleanRecord, NoClean
  <2>2. cleaner' \in [Cleaners -> CleanRecord]
    <3>1. [cleaner[q] EXCEPT !.pc = "tombstone"] \in CleanRecord
      BY <2>1 DEF CleanRecord
    <3>2. \/ cleaner' = [cleaner EXCEPT ![q] = [cleaner[q] EXCEPT !.pc = "tombstone"]]
          \/ cleaner' = [cleaner EXCEPT ![q] = NoClean]
      BY <1>14 DEF Dispose, Tombstone, RaiseCleanup
    <3> QED
      BY <2>1, <3>1, <3>2
  <2>3. candidate' \in [Candidates -> CandidateRecord]
    <3>1. candidate \in [Candidates -> CandidateRecord]
      BY <1>0 DEF ConnectionTyped, ConnectionTypeOK, CandidateRecord
    <3>2. \/ UNCHANGED candidate
          \/ candidate' = [candidate EXCEPT ![cleaner[q].candidate].state = "deleted"]
      BY <1>14 DEF Dispose, Tombstone, RaiseCleanup, storeVars
    <3> QED
      BY <3>1, <3>2 DEF CandidateRecord, CandidateStates
  <2>4. secret' \in [Candidates -> [state : {"absent", "live", "scheduled"},
                                    token : Tokens \cup {None}]]
    <3>1. secret \in [Candidates -> [state : {"absent", "live", "scheduled"},
                                     token : Tokens \cup {None}]]
      BY <1>0 DEF ConnectionTyped, ConnectionTypeOK
    <3>2. \/ UNCHANGED secret
          \/ secret' = [secret EXCEPT ![cleaner[q].candidate].state = "scheduled"]
      BY <1>14 DEF Dispose, Tombstone, RaiseCleanup
    <3> QED
      BY <3>1, <3>2
  <2> QED
    BY <1>0, <1>14, <2>2, <2>3, <2>4 DEF Dispose, Tombstone, RaiseCleanup,
       storeVars, ConnectionTyped, ConnectionTypeOK, CandidateRecord
<1> QED
  BY <1>1, <1>2, <1>3, <1>4, <1>5, <1>6, <1>7, <1>8, <1>9, <1>10, <1>11, <1>12, <1>13,
     <1>14 DEF Next, RequestStep, CleanupStep


\* The record fields a proof about the rows reads.
LEMMA RowTypes ==
  ASSUME ConnectionTyped
  PROVE  /\ clock \in Nat /\ workflow \in BOOLEAN /\ seller \in BOOLEAN
         /\ candidate \in [Candidates -> CandidateRecord]
         /\ setup \in SetupRecord
         /\ connection \in [Candidates -> [state : {"absent", "pending_activation", "active"},
                                           shop : Shops \cup {None}]]
         /\ receipt \in [SelectOps -> [candidate : Candidates \cup {None},
                                       shop : Shops \cup {None}, version : Nat]]
         /\ secret \in [Candidates -> [state : {"absent", "live", "scheduled"},
                                       token : Tokens \cup {None}]]
         /\ request \in [Requests -> RequestRecord] /\ cleaner \in [Cleaners -> CleanRecord]
         /\ \A p \in Requests : request[p] \in RequestRecord
         /\ \A q \in Cleaners : cleaner[q] \in CleanRecord
BY ConnectionConstants DEF ConnectionTyped, ConnectionTypeOK, CandidateRecord, SetupRecord

\* Only one request moves, and the account may be granted its group.
LEMMA RowsQuiet ==
  ASSUME ConnectionInv, NEW p \in Requests, NEW r, Goes(p, r),
         UNCHANGED <<clock, storeVars, secret, cleaner>>, seller' \in BOOLEAN, seller => seller',
         RequestHolds(r) \/ (/\ r.pc = "mark" /\ seller' /\ IsBound
                              /\ r.began <= clock /\ clock <= r.began + InvocationLimit),
         r \in RequestRecord
  PROVE  RowsAgree'
<1>1. ConnectionTyped BY DEF ConnectionInv
<1>2. \A c \in Candidates : (CandidateHolds(c) /\ BindingHolds(c))'
  BY DEF ConnectionInv, RowsAgree, CandidateHolds, BindingHolds, Live, storeVars
<1>3. \A s \in Requests \ {p} : RequestHolds(request[s])'
  BY <1>1, RowTypes DEF ConnectionInv, RowsAgree, RequestHolds, Goes, storeVars, Live, IsBound
<1>4. RequestHolds(request[p])'
  BY <1>1, RowTypes DEF Goes, RequestHolds, storeVars, Live, IsBound, RequestRecord, Working
<1>5. \A q \in Cleaners : CleanerHolds(cleaner[q])'
  BY DEF ConnectionInv, RowsAgree, CleanerHolds, storeVars
<1>6. /\ (\A o \in SelectOps : receipt[o].candidate = None => receipt[o] = NoReceipt)'
      /\ OneDestination'
  BY DEF ConnectionInv, RowsAgree, OneDestination, storeVars, IsBound
<1> QED
  BY <1>2, <1>3, <1>4, <1>5, <1>6 DEF RowsAgree


\* What holds of a request, on the rows it concerns.
LEMMA RequestFacts ==
  ASSUME ConnectionInv, NEW p \in Requests
  PROVE  /\ ConnectionTyped /\ request[p] \in RequestRecord /\ RequestHolds(request[p])
         /\ request[p].pc \in Working =>
              /\ request[p].candidate \in Candidates
              /\ CandidateHolds(request[p].candidate) /\ BindingHolds(request[p].candidate)
BY RowTypes DEF ConnectionInv, RowsAgree, RequestHolds

\* The rows of one candidate change, in one transaction or one secret call.
LEMMA OneCandidate ==
  ASSUME ConnectionInv, NEW c \in Candidates, UNCHANGED <<clock>>,
         \A d \in Candidates \ {c} :
           candidate'[d] = candidate[d] /\ secret'[d] = secret[d] /\ connection'[d] = connection[d],
         CandidateHolds(c)', BindingHolds(c)'
  PROVE  \A d \in Candidates : (CandidateHolds(d) /\ BindingHolds(d))'
BY DEF ConnectionInv, RowsAgree, CandidateHolds, BindingHolds, Live

\* The requests keep what they rely on when a candidate is reserved or moves on, its token and
\* its date stay, and a request about to publish a pending candidate still finds its secret.
LEMMA OtherRequests ==
  ASSUME ConnectionInv, NEW c \in Candidates, UNCHANGED <<clock, seller>>,
         IsBound => IsBound',
         \A d \in Candidates \ {c} : candidate'[d] = candidate[d] /\ secret'[d] = secret[d],
         candidate[c].state # "absent" =>
           /\ candidate'[c].state # "absent" /\ candidate'[c].token = candidate[c].token
           /\ candidate'[c].created = candidate[c].created
           /\ candidate'[c].state = "pending" => candidate[c].state = "pending"
           /\ secret[c] = Live(c) => (secret'[c] = Live(c) \/ candidate'[c].state # "pending")
  PROVE  \A s \in Requests : request'[s] = request[s] => RequestHolds(request[s])'
<1> SUFFICES ASSUME NEW s \in Requests, request'[s] = request[s] PROVE RequestHolds(request[s])'
  OBVIOUS
<1>1. RequestHolds(request[s]) /\ request[s] \in RequestRecord
  BY RequestFacts
<1>2. request[s].pc \in Working => request[s].candidate \in Candidates
  BY <1>1 DEF RequestHolds
<1> QED
  BY <1>1, <1>2 DEF RequestHolds, Live, Working

\* The cleanups keep what they rely on.
LEMMA OtherCleaners ==
  ASSUME ConnectionInv, UNCHANGED cleaner,
         \A d \in Candidates : candidate[d].state \in {"deleting", "deleted"} =>
           /\ candidate'[d].state \in {"deleting", "deleted"}
           /\ secret[d].state # "live" => secret'[d].state # "live"
  PROVE  \A q \in Cleaners : CleanerHolds(cleaner[q])'
BY DEF ConnectionInv, RowsAgree, CleanerHolds

LEMMA ReserveRows == ASSUME ConnectionInv, NEW p \in Requests, Reserve(p) PROVE RowsAgree'
<1> DEFINE r == request[p]
           c == r.candidate
<1> USE ConnectionConstants
<1>1. /\ r.pc = "reserve" /\ r \in RequestRecord /\ RequestHolds(r) /\ c \in Candidates
      /\ CandidateHolds(c) /\ BindingHolds(c) /\ ConnectionTyped
  BY RequestFacts DEF Reserve, At, Working
<1>2. CASE candidate[c].state # "absent"
  <2>1. /\ UNCHANGED <<clock, storeVars, secret, cleaner, seller>>
        /\ Goes(p, [r EXCEPT !.pc = "check"]) /\ candidate[c].token = r.token
    BY <1>2 DEF Reserve, storeVars
  <2>2. [r EXCEPT !.pc = "check"] \in RequestRecord
    BY <1>1, PcTyped DEF Working
  <2>3. RequestHolds([r EXCEPT !.pc = "check"])
    BY <1>1, <1>2, <2>1 DEF RequestHolds, RequestRecord, Working
  <2> QED
    BY <1>1, <2>1, <2>2, <2>3, RowsQuiet, RowTypes
<1>3. CASE candidate[c].state = "absent"
  <2>1. /\ UNCHANGED <<clock, setup, connection, receipt, secret, cleaner, seller>>
        /\ candidate' = [candidate EXCEPT ![c] =
             [Absent EXCEPT !.state = "pending", !.token = r.token, !.created = r.now]]
        /\ request' = [request EXCEPT ![p] = [r EXCEPT !.pc = "check"]]
    BY <1>3 DEF Reserve, Goes
  <2>2. /\ candidate'[c].state = "pending" /\ candidate'[c].token = r.token
        /\ candidate'[c].created = r.now
        /\ \A d \in Candidates \ {c} : candidate'[d] = candidate[d]
    BY <1>1, <2>1, RowTypes DEF Absent
  <2>3. \A d \in Candidates : (CandidateHolds(d) /\ BindingHolds(d))'
    <3>1. CandidateHolds(c)' /\ BindingHolds(c)'
      BY <1>1, <1>3, <2>1, <2>2 DEF CandidateHolds, BindingHolds
    <3> QED
      BY <1>1, <2>1, <2>2, <3>1, OneCandidate
  <2>4. \A s \in Requests \ {p} : RequestHolds(request[s])'
    <3>1. \A s \in Requests \ {p} : request'[s] = request[s]
      BY <1>1, <2>1, RowTypes
    <3> QED
      BY <1>1, <1>3, <2>1, <2>2, <3>1, OtherRequests DEF IsBound
  <2>5. RequestHolds(request[p])'
    <3>1. request'[p] = [r EXCEPT !.pc = "check"]
      BY <1>1, <2>1, RowTypes
    <3> QED
      BY <1>1, <2>1, <2>2, <3>1 DEF RequestHolds, RequestRecord, Working
  <2>6. \A q \in Cleaners : CleanerHolds(cleaner[q])'
    BY <1>1, <1>3, <2>1, <2>2, OtherCleaners
  <2>7. /\ (\A o \in SelectOps : receipt[o].candidate = None => receipt[o] = NoReceipt)'
        /\ OneDestination'
    BY <2>1 DEF OneDestination, IsBound, ConnectionInv, RowsAgree
  <2> QED
    BY <2>3, <2>4, <2>5, <2>6, <2>7 DEF RowsAgree
<1> QED
  BY <1>2, <1>3

LEMMA SecretRows == ASSUME ConnectionInv, NEW p \in Requests, CreateSecret(p) PROVE RowsAgree'
<1> DEFINE r == request[p]
           c == r.candidate
<1> USE ConnectionConstants
<1>1. /\ r.pc = "save" /\ r \in RequestRecord /\ RequestHolds(r) /\ c \in Candidates
      /\ CandidateHolds(c) /\ BindingHolds(c) /\ ConnectionTyped
  BY RequestFacts DEF CreateSecret, At, Working
\* The request began before the candidate expired and is inside its time limit.
<1>2. candidate[c].state \notin {"deleting", "deleted", "absent"}
  <2>1. /\ r.began < candidate[c].created + Lifetime /\ clock <= r.began + InvocationLimit
        /\ candidate[c].state # "absent"
    BY <1>1 DEF RequestHolds
  <2>2. r.began \in Nat /\ clock \in Nat /\ candidate[c].created \in Nat
    BY <1>1, RowTypes DEF RequestRecord, CandidateRecord
  <2>3. ~(candidate[c].created + Lifetime + Grace < clock)
    BY <2>1, <2>2
  <2> QED
    BY <1>1, <2>1, <2>3 DEF CandidateHolds
<1>3. candidate[c].token = r.token
  BY <1>1 DEF RequestHolds
<1>4. /\ UNCHANGED <<clock, storeVars, cleaner, seller>>
      /\ secret' = IF secret[c].state # "absent" THEN secret
                   ELSE [secret EXCEPT ![c] = [state |-> "live", token |-> r.token]]
      /\ request' = [request EXCEPT ![p] = [r EXCEPT !.pc = "probe"]]
  BY DEF CreateSecret, Goes
<1>5. secret'[c] = Live(c) /\ \A d \in Candidates \ {c} : secret'[d] = secret[d]
  <2>1. secret[c] \in {NoSecret, Live(c)}
    BY <1>1, <1>2, RowTypes DEF CandidateHolds, CandidateRecord, CandidateStates
  <2> QED
    BY <1>1, <1>3, <1>4, <2>1, RowTypes DEF Live, NoSecret
<1>6. \A d \in Candidates : (CandidateHolds(d) /\ BindingHolds(d))'
  <2>1. CandidateHolds(c)' /\ BindingHolds(c)'
    BY <1>1, <1>2, <1>4, <1>5 DEF CandidateHolds, BindingHolds, storeVars, Live
  <2> QED
    BY <1>1, <1>4, <1>5, <2>1, OneCandidate DEF storeVars
<1>7. \A s \in Requests \ {p} : RequestHolds(request[s])'
  <2>1. \A s \in Requests \ {p} : request'[s] = request[s]
    BY <1>1, <1>4, RowTypes
  <2> QED
    BY <1>1, <1>4, <1>5, <2>1, OtherRequests DEF IsBound, storeVars
<1>8. RequestHolds(request[p])'
  <2>1. request'[p] = [r EXCEPT !.pc = "probe"]
    BY <1>1, <1>4, RowTypes
  <2> QED
    BY <1>1, <1>4, <2>1 DEF RequestHolds, RequestRecord, Working, storeVars
<1>9. \A q \in Cleaners : CleanerHolds(cleaner[q])'
  BY <1>1, <1>2, <1>4, <1>5, OtherCleaners DEF storeVars
<1>10. /\ (\A o \in SelectOps : receipt[o].candidate = None => receipt[o] = NoReceipt)'
       /\ OneDestination'
  BY <1>4 DEF OneDestination, IsBound, ConnectionInv, RowsAgree, storeVars
<1> QED
  BY <1>6, <1>7, <1>8, <1>9, <1>10 DEF RowsAgree

LEMMA PublishRows == ASSUME ConnectionInv, NEW p \in Requests, PublishCandidate(p) PROVE RowsAgree'
<1> DEFINE r == request[p]
<1> USE ConnectionConstants
<1>0. PICK c \in Candidates : c = r.candidate
  BY RequestFacts DEF PublishCandidate, At, Working
<1>1. /\ r.pc = "publish" /\ r \in RequestRecord /\ RequestHolds(r) /\ c \in Candidates
      /\ CandidateHolds(c) /\ BindingHolds(c) /\ ConnectionTyped
      /\ candidate[c].state = "pending" /\ secret[c] = Live(c)
  BY <1>0, RequestFacts DEF PublishCandidate, At, Working, RequestHolds
<1>2. /\ UNCHANGED <<clock, connection, receipt, secret, cleaner, seller>>
      /\ request' = [request EXCEPT ![p] = Idle]
      /\ UNCHANGED setup \/ (~IsBound /\ \E v :
           setup' = [setup EXCEPT !.version = v, !.candidate = c])
  BY <1>0 DEF PublishCandidate, Goes, Done
<1>3. /\ candidate'[c].state = "validated" /\ candidate'[c].token = candidate[c].token
      /\ candidate'[c].created = candidate[c].created
      /\ \A d \in Candidates \ {c} : candidate'[d] = candidate[d]
  BY <1>0, <1>1, RowTypes DEF PublishCandidate, CandidateRecord
<1>4. setup'.binding = setup.binding /\ setup'.shop = setup.shop /\ setup'.granted = setup.granted
  BY <1>1, <1>2, RowTypes DEF SetupRecord
<1>10. UNCHANGED <<clock, connection, secret>>
  BY <1>2
<1>5. \A d \in Candidates : (CandidateHolds(d) /\ BindingHolds(d))'
  <2>1. CandidateHolds(c)' /\ BindingHolds(c)'
    BY <1>1, <1>3, <1>10 DEF CandidateHolds, BindingHolds, Live
  <2> QED
    BY <1>1, <1>3, <1>10, <2>1, OneCandidate
<1>6. \A s \in Requests \ {p} : RequestHolds(request[s])'
  <2>1. \A s \in Requests \ {p} : request'[s] = request[s]
    BY <1>1, <1>2, RowTypes
  <2>2. IsBound => IsBound'
    BY <1>4 DEF IsBound
  <2> QED
    BY <1>1, <1>2, <1>3, <2>1, <2>2, OtherRequests
<1>7. RequestHolds(request[p])'
  <2>1. request'[p] = Idle
    BY <1>1, <1>2, RowTypes
  <2> QED
    BY <2>1 DEF RequestHolds, Idle, Working
<1>8. \A q \in Cleaners : CleanerHolds(cleaner[q])'
  BY <1>1, <1>2, <1>3, OtherCleaners
<1>9. /\ (\A o \in SelectOps : receipt[o].candidate = None => receipt[o] = NoReceipt)'
      /\ OneDestination'
  BY <1>2, <1>4 DEF OneDestination, IsBound, ConnectionInv, RowsAgree
<1> QED
  BY <1>5, <1>6, <1>7, <1>8, <1>9 DEF RowsAgree

LEMMA SelectRows == ASSUME ConnectionInv, NEW p \in Requests, Select(p) PROVE RowsAgree'
<1> DEFINE r == request[p]
           c == r.candidate
<1> USE ConnectionConstants
<1>1. /\ r.pc = "select" /\ r \in RequestRecord /\ RequestHolds(r) /\ c \in Candidates
      /\ CandidateHolds(c) /\ BindingHolds(c) /\ ConnectionTyped /\ r.op \in SelectOps
      /\ r.shop \in Shops
      /\ candidate[c].state = "validated" /\ connection[c] = NoConnection /\ ~IsBound
  BY RequestFacts DEF Select, At, Working, RequestHolds
<1>2. /\ UNCHANGED <<clock, secret, cleaner, seller>>
      /\ request' = [request EXCEPT ![p] = [r EXCEPT !.pc = "finish"]]
      /\ candidate' = [candidate EXCEPT ![c].state = "consumed"]
      /\ connection' = [connection EXCEPT ![c] = [state |-> "pending_activation", shop |-> r.shop]]
      /\ setup' = [Unbound EXCEPT !.version = setup.version + 1, !.binding = c, !.shop = r.shop]
      /\ receipt' = [receipt EXCEPT ![r.op] =
                       [candidate |-> c, shop |-> r.shop, version |-> r.version]]
  BY DEF Select, Goes
<1>3. /\ candidate'[c].state = "consumed" /\ candidate'[c].token = candidate[c].token
      /\ candidate'[c].created = candidate[c].created
      /\ \A d \in Candidates \ {c} :
           candidate'[d] = candidate[d] /\ connection'[d] = connection[d]
      /\ connection'[c] = [state |-> "pending_activation", shop |-> r.shop]
  BY <1>1, <1>2, RowTypes DEF CandidateRecord
<1>4. setup'.binding = c /\ setup'.shop = r.shop /\ setup'.granted = FALSE
  BY <1>2 DEF Unbound
<1>5. \A d \in Candidates : (CandidateHolds(d) /\ BindingHolds(d))'
  <2>1. CandidateHolds(c)' /\ BindingHolds(c)'
    BY <1>1, <1>2, <1>3 DEF CandidateHolds, BindingHolds, Live, NoConnection
  <2> QED
    BY <1>1, <1>2, <1>3, <2>1, OneCandidate
<1>6. \A s \in Requests \ {p} : RequestHolds(request[s])'
  <2>1. \A s \in Requests \ {p} : request'[s] = request[s]
    BY <1>1, <1>2, RowTypes
  <2> QED
    BY <1>1, <1>2, <1>3, <2>1, OtherRequests
<1>7. RequestHolds(request[p])'
  <2>1. request'[p] = [r EXCEPT !.pc = "finish"]
    BY <1>1, <1>2, RowTypes
  <2> QED
    BY <1>1, <1>2, <1>4, <2>1 DEF RequestHolds, RequestRecord, Working, IsBound
<1>8. \A q \in Cleaners : CleanerHolds(cleaner[q])'
  BY <1>1, <1>2, <1>3, OtherCleaners
<1>9. (\A o \in SelectOps : receipt[o].candidate = None => receipt[o] = NoReceipt)'
  <2>1. \A o \in SelectOps : receipt[o].candidate = None => receipt[o] = NoReceipt
    BY DEF ConnectionInv, RowsAgree
  <2> QED
    BY <1>1, <1>2, <2>1, RowTypes DEF NoReceipt
<1>10. OneDestination'
  <2>1. \A d \in Candidates : connection[d] = NoConnection
    BY <1>1 DEF ConnectionInv, RowsAgree, OneDestination, IsBound
  <2>2. \A o \in SelectOps : receipt[o] = NoReceipt
    BY <1>1 DEF ConnectionInv, RowsAgree, OneDestination, IsBound
  <2> QED
    BY <1>1, <1>2, <1>3, <1>4, <2>1, <2>2, RowTypes DEF OneDestination, IsBound, NoConnection
<1> QED
  BY <1>5, <1>6, <1>7, <1>8, <1>9, <1>10 DEF RowsAgree


LEMMA MarkRows == ASSUME ConnectionInv, NEW p \in Requests, MarkSellerGranted(p) PROVE RowsAgree'
<1> USE ConnectionConstants
<1>0. PICK b \in Candidates : b = setup.binding
  BY RequestFacts, RowTypes DEF MarkSellerGranted, At, RequestHolds, IsBound, SetupRecord
<1>1. /\ CandidateHolds(b) /\ BindingHolds(b) /\ ConnectionTyped /\ seller
      /\ connection[b] # NoConnection /\ candidate[b].state = "consumed"
      /\ connection[b].state # "absent"
  BY <1>0, RequestFacts DEF MarkSellerGranted, At, RequestHolds, ConnectionInv, RowsAgree,
     OneDestination, CandidateHolds, BindingHolds
<1>2. /\ UNCHANGED <<clock, candidate, receipt, secret, cleaner, seller>>
      /\ request' = [request EXCEPT ![p] = Idle]
      /\ setup' = [setup EXCEPT !.granted = TRUE]
      /\ connection' = [connection EXCEPT ![b].state = "active"]
  BY <1>0 DEF MarkSellerGranted, Goes, Done
<1>3. /\ connection'[b] = [state |-> "active", shop |-> connection[b].shop]
      /\ \A d \in Candidates \ {b} : connection'[d] = connection[d]
  BY <1>1, <1>2, RowTypes
<1>4. setup'.binding = b /\ setup'.shop = setup.shop /\ setup'.granted = TRUE
  BY <1>0, <1>1, <1>2, RowTypes DEF SetupRecord
<1>5. \A d \in Candidates : (CandidateHolds(d) /\ BindingHolds(d))'
  <2>1. CandidateHolds(b)' /\ BindingHolds(b)'
    BY <1>1, <1>2, <1>3 DEF CandidateHolds, BindingHolds, Live, NoConnection
  <2> QED
    BY <1>1, <1>2, <1>3, <2>1, OneCandidate
<1>6. \A s \in Requests \ {p} : RequestHolds(request[s])'
  <2>1. \A s \in Requests \ {p} : request'[s] = request[s]
    BY <1>1, <1>2, RowTypes
  <2>2. IsBound => IsBound'
    BY <1>0, <1>4 DEF IsBound
  <2> QED
    BY <1>1, <1>2, <2>1, <2>2, OtherRequests
<1>7. RequestHolds(request[p])'
  <2>1. request'[p] = Idle
    BY <1>1, <1>2, RowTypes
  <2> QED
    BY <2>1 DEF RequestHolds, Idle, Working
<1>8. \A q \in Cleaners : CleanerHolds(cleaner[q])'
  BY <1>1, <1>2, OtherCleaners
<1>9. (\A o \in SelectOps : receipt[o].candidate = None => receipt[o] = NoReceipt)'
  BY <1>2 DEF ConnectionInv, RowsAgree
<1>10. OneDestination'
  BY <1>0, <1>1, <1>2, <1>3, <1>4, RowTypes
     DEF ConnectionInv, RowsAgree, OneDestination, IsBound, NoConnection
<1> QED
  BY <1>5, <1>6, <1>7, <1>8, <1>9, <1>10 DEF RowsAgree

LEMMA ClaimRows ==
  ASSUME ConnectionInv, NEW q \in Cleaners, NEW c \in Candidates, ClaimCleanup(q, c)
  PROVE  RowsAgree'
<1> USE ConnectionConstants
<1>1. CandidateHolds(c) /\ BindingHolds(c) /\ ConnectionTyped /\ connection[c] = NoConnection
      /\ candidate[c].state \in {"pending", "validated", "deleting"}
      /\ candidate[c].created + Lifetime + Grace < clock
  BY DEF ClaimCleanup, ConnectionInv, RowsAgree
<1>2. /\ UNCHANGED <<clock, setup, connection, receipt, secret, seller, request>>
      /\ candidate' = [candidate EXCEPT ![c].state = "deleting"]
      /\ cleaner' = [cleaner EXCEPT ![q] = [pc |-> "dispose", candidate |-> c, began |-> clock]]
  BY DEF ClaimCleanup
<1>3. /\ candidate'[c].state = "deleting" /\ candidate'[c].token = candidate[c].token
      /\ candidate'[c].created = candidate[c].created
      /\ \A d \in Candidates \ {c} : candidate'[d] = candidate[d]
  BY <1>1, <1>2, RowTypes DEF CandidateRecord
<1>4. \A d \in Candidates : (CandidateHolds(d) /\ BindingHolds(d))'
  <2>1. CandidateHolds(c)' /\ BindingHolds(c)'
    BY <1>1, <1>2, <1>3 DEF CandidateHolds, BindingHolds, Live
  <2> QED
    BY <1>1, <1>2, <1>3, <2>1, OneCandidate
<1>5. \A s \in Requests : RequestHolds(request[s])'
  BY <1>1, <1>2, <1>3, OtherRequests DEF IsBound
<1>6. \A k \in Cleaners : CleanerHolds(cleaner[k])'
  BY <1>1, <1>2, <1>3, RowTypes DEF ConnectionInv, RowsAgree, CleanerHolds
<1>7. (\A o \in SelectOps : receipt[o].candidate = None => receipt[o] = NoReceipt)'
      /\ OneDestination'
  BY <1>2 DEF ConnectionInv, RowsAgree, OneDestination, IsBound
<1> QED
  BY <1>4, <1>5, <1>6, <1>7 DEF RowsAgree

LEMMA CleanupRows ==
  ASSUME ConnectionInv, NEW q \in Cleaners, Dispose(q) \/ Tombstone(q) \/ RaiseCleanup(q)
  PROVE  RowsAgree'
<1> USE ConnectionConstants
<1>0. ConnectionTyped /\ cleaner[q].pc # "idle" /\ CleanerHolds(cleaner[q])
  BY DEF ConnectionInv, RowsAgree, Dispose, Tombstone, RaiseCleanup
<1>1. PICK c \in Candidates : c = cleaner[q].candidate
  BY <1>0 DEF CleanerHolds
<1>2. /\ CandidateHolds(c) /\ BindingHolds(c) /\ candidate[c].state \in {"deleting", "deleted"}
      /\ cleaner[q].pc = "tombstone" => secret[c].state # "live"
  BY <1>0, <1>1 DEF ConnectionInv, RowsAgree, CleanerHolds
<1>3. /\ UNCHANGED <<clock, setup, connection, receipt, seller, request>>
      /\ \A d \in Candidates \ {c} : candidate'[d] = candidate[d] /\ secret'[d] = secret[d]
      /\ candidate'[c].state \in {"deleting", "deleted"}
      /\ candidate'[c].token = candidate[c].token /\ candidate'[c].created = candidate[c].created
      /\ secret[c].state # "live" => secret'[c].state # "live"
      /\ Dispose(q) => secret'[c].state # "live"
      /\ candidate'[c].state = "deleted" => secret'[c].state # "live"
  <2>1. CASE Dispose(q)
    BY <1>0, <1>1, <1>2, <2>1, RowTypes DEF Dispose, storeVars, CandidateRecord
  <2>2. CASE Tombstone(q)
    <3>1. /\ candidate' = [candidate EXCEPT ![c].state = "deleted"] /\ ~Dispose(q)
          /\ UNCHANGED <<clock, setup, connection, receipt, seller, request, secret>>
          /\ secret[c].state # "live"
      BY <1>1, <1>2, <2>2 DEF Tombstone, Dispose
    <3> QED
      BY <1>0, <1>1, <1>2, <3>1, RowTypes DEF CandidateRecord
  <2>3. CASE RaiseCleanup(q) /\ ~Dispose(q)
    BY <1>0, <1>2, <2>3 DEF RaiseCleanup, storeVars, CandidateHolds
  <2> QED
    BY <2>1, <2>2, <2>3
<1>4. \A d \in Candidates : (CandidateHolds(d) /\ BindingHolds(d))'
  <2>1. CandidateHolds(c)' /\ BindingHolds(c)'
    BY <1>2, <1>3 DEF CandidateHolds, BindingHolds
  <2> QED
    BY <1>3, <2>1, OneCandidate
<1>5. \A s \in Requests : RequestHolds(request[s])'
  BY <1>2, <1>3, OtherRequests DEF IsBound
<1>6. \A k \in Cleaners : CleanerHolds(cleaner[k])'
  <2>1. CleanerHolds(cleaner[q])'
    <3>1. \/ cleaner'[q] = NoClean
          \/ Dispose(q) /\ cleaner'[q].pc = "tombstone" /\ cleaner'[q].candidate = c
      BY <1>0, <1>1, RowTypes DEF Dispose, Tombstone, RaiseCleanup, CleanRecord
    <3> QED
      BY <1>3, <3>1 DEF CleanerHolds, NoClean
  <2>2. ASSUME NEW k \in Cleaners \ {q} PROVE CleanerHolds(cleaner[k])'
    <3>1. cleaner'[k] = cleaner[k] /\ CleanerHolds(cleaner[k])
      BY <1>0, RowTypes DEF Dispose, Tombstone, RaiseCleanup, ConnectionInv, RowsAgree
    <3> QED
      BY <1>3, <3>1 DEF CleanerHolds
  <2> QED
    BY <2>1, <2>2
<1>7. (\A o \in SelectOps : receipt[o].candidate = None => receipt[o] = NoReceipt)'
      /\ OneDestination'
  BY <1>3 DEF ConnectionInv, RowsAgree, OneDestination, IsBound
<1> QED
  BY <1>4, <1>5, <1>6, <1>7 DEF RowsAgree

LEMMA TickRows == ASSUME ConnectionInv, Tick PROVE RowsAgree'
<1> USE ConnectionConstants
<1>1. /\ clock' = clock + 1 /\ clock \in Nat /\ UNCHANGED <<storeVars, secret, seller>>
      /\ ConnectionTyped
  BY RowTypes DEF Tick, ConnectionInv
<1>2. \A d \in Candidates : (CandidateHolds(d) /\ BindingHolds(d))'
  BY <1>1, RowTypes DEF ConnectionInv, RowsAgree, CandidateHolds, BindingHolds, storeVars, Live,
     CandidateRecord
<1>3. ASSUME NEW s \in Requests PROVE RequestHolds(request[s])'
  <2>1. CASE request'[s] = Idle
    BY <2>1 DEF RequestHolds, Idle, Working
  <2>2. CASE request'[s] = request[s] /\ request[s].pc # "idle" /\ ~Overdue(request[s].began)
    <3>1. request[s].began \in Nat /\ RequestHolds(request[s])
      BY <1>1, RowTypes, RequestFacts DEF RequestRecord
    <3>2. request[s].began <= clock' /\ clock' <= request[s].began + InvocationLimit
      BY <1>1, <2>2, <3>1 DEF Overdue, RequestHolds
    <3> QED
      BY <1>1, <2>2, <3>1, <3>2 DEF RequestHolds, storeVars, Live, IsBound
  <2> QED
    BY <2>1, <2>2 DEF Tick, At
<1>4. ASSUME NEW k \in Cleaners PROVE CleanerHolds(cleaner[k])'
  <2>1. cleaner'[k] = NoClean \/ cleaner'[k] = cleaner[k]
    BY DEF Tick
  <2> QED
    BY <1>1, <2>1 DEF ConnectionInv, RowsAgree, CleanerHolds, NoClean, storeVars
<1>5. (\A o \in SelectOps : receipt[o].candidate = None => receipt[o] = NoReceipt)'
      /\ OneDestination'
  BY <1>1 DEF ConnectionInv, RowsAgree, OneDestination, IsBound, storeVars
<1> QED
  BY <1>2, <1>3, <1>4, <1>5 DEF RowsAgree

LEMMA QuietRows ==
  ASSUME ConnectionInv, NEW p \in Requests,
         \/ \E c \in Candidates, t \in Tokens : BeginValidate(p, c, t)
         \/ Check(p) \/ ProbeShops(p)
         \/ \E o \in SelectOps, c \in Candidates, s \in Shops,
               v \in 1..(Cardinality(Candidates) + 1) : BeginSelect(p, o, c, s, v)
         \/ RecheckShop(p) \/ RecoverSelect(p) \/ Activate(p) \/ Finish(p) \/ Raise(p)
  PROVE  RowsAgree'
<1> USE ConnectionConstants
<1>0. /\ ConnectionTyped /\ request[p] \in RequestRecord /\ RequestHolds(request[p])
      /\ clock \in Nat /\ seller \in BOOLEAN
  BY RequestFacts, RowTypes
<1>1. Idle \in RequestRecord /\ RequestHolds(Idle)
  BY IdleTyped DEF RequestHolds, Idle, Working
<1>2. [Idle EXCEPT !.pc = "finish", !.began = clock] \in RequestRecord
      /\ (IsBound => RequestHolds([Idle EXCEPT !.pc = "finish", !.began = clock]))
  <2>1. [Idle EXCEPT !.pc = "finish", !.began = clock] \in RequestRecord
    BY <1>0, <1>1 DEF RequestRecord
  <2> QED
    BY <1>0, <1>1, <2>1 DEF RequestRecord, RequestHolds, Working
<1> DEFINE Kept == UNCHANGED <<clock, storeVars, secret, cleaner>>
<1>3. ASSUME NEW r \in RequestRecord, RequestHolds(r), Goes(p, r), Kept, UNCHANGED seller
      PROVE  RowsAgree'
  BY <1>0, <1>3, RowsQuiet
<1>4. ASSUME NEW c \in Candidates, NEW t \in Tokens, BeginValidate(p, c, t) PROVE RowsAgree'
  <2>1. PICK r \in RequestRecord : Goes(p, r) /\ RequestHolds(r)
    <3>1. CASE candidate[c].state = "absent"
      <4> DEFINE r == [Idle EXCEPT !.pc = "reserve", !.candidate = c, !.token = t,
                                   !.now = clock, !.began = clock]
      <4>1. r \in RequestRecord
        BY <1>0, <1>1 DEF RequestRecord, Working
      <4>2. RequestHolds(r)
        BY <1>0, <1>1 DEF RequestRecord, RequestHolds, Working
      <4> QED
        BY <1>4, <3>1, <4>1, <4>2 DEF BeginValidate
    <3>2. CASE candidate[c].state # "absent"
      <4> DEFINE r == [Idle EXCEPT !.pc = "check", !.candidate = c, !.token = t,
                                   !.began = clock]
      <4>1. r \in RequestRecord
        BY <1>0, <1>1 DEF RequestRecord, Working
      <4>2. RequestHolds(r)
        <5>1. candidate[c].token = t
          BY <1>4, <3>2 DEF BeginValidate
        <5>2. r.pc = "check" /\ r.candidate = c /\ r.token = t /\ r.began = clock
          BY <1>1 DEF RequestRecord
        <5> HIDE DEF r
        <5> QED
          BY <1>0, <3>2, <5>1, <5>2 DEF RequestHolds, Working
      <4> QED
        BY <1>4, <3>2, <4>1, <4>2 DEF BeginValidate
    <3> QED
      BY <3>1, <3>2
  <2> QED
    BY <1>3, <1>4, <2>1 DEF BeginValidate
<1>5. ASSUME Check(p) PROVE RowsAgree'
  <2>1. PICK r \in RequestRecord : Goes(p, r) /\ RequestHolds(r)
    <3>1. CASE Done(p)
      BY <1>1, <3>1 DEF Done
    <3>2. CASE Goes(p, [request[p] EXCEPT !.pc = "save"])
      <4>1. [request[p] EXCEPT !.pc = "save"] \in RequestRecord
        BY <1>0, PcTyped DEF Working
      <4>2. request[p].began < candidate[request[p].candidate].created + Lifetime
        BY <1>0, <1>5, RowTypes
           DEF Check, At, Expired, RequestHolds, RequestRecord, CandidateRecord, Working
      <4>3. RequestHolds([request[p] EXCEPT !.pc = "save"])
        BY <1>0, <1>5, <4>2 DEF Check, At, RequestHolds, RequestRecord, Working
      <4> QED
        BY <3>2, <4>1, <4>3
    <3> QED
      BY <1>5, <3>1, <3>2 DEF Check
  <2> QED
    BY <1>3, <1>5, <2>1 DEF Check
<1>6. ASSUME ProbeShops(p) PROVE RowsAgree'
  <2>1. PICK listed \in SUBSET Shops :
          Goes(p, [request[p] EXCEPT !.pc = "publish", !.stores = listed])
    BY <1>6 DEF ProbeShops
  <2> DEFINE r == [request[p] EXCEPT !.pc = "publish", !.stores = listed]
  <2>2. r \in RequestRecord
    BY <1>0 DEF RequestRecord, Working
  <2>3. secret[request[p].candidate] = Live(request[p].candidate)
    BY <1>0, <1>6, RowTypes DEF ProbeShops, At, Readable, RequestHolds, Live, Working
  <2>4. RequestHolds(r)
    BY <1>0, <1>6, <2>3 DEF ProbeShops, At, RequestHolds, RequestRecord, Working
  <2> HIDE DEF r
  <2> QED
    BY <1>3, <1>6, <2>1, <2>2, <2>4 DEF ProbeShops, r
<1>7. ASSUME NEW o \in SelectOps, NEW c \in Candidates, NEW s \in Shops,
             NEW v \in 1..(Cardinality(Candidates) + 1), BeginSelect(p, o, c, s, v)
      PROVE  RowsAgree'
  <2>1. PICK r \in RequestRecord : Goes(p, r) /\ RequestHolds(r)
    <3>1. CASE receipt[o] # NoReceipt
      BY <1>2, <1>7, <3>1 DEF BeginSelect, IsBound
    <3>2. CASE receipt[o] = NoReceipt
      <4> DEFINE r == [Idle EXCEPT !.pc = "recheck", !.op = o, !.candidate = c, !.shop = s,
                                   !.version = v, !.began = clock]
      <4>1. v \in Nat
        BY <1>0, <1>7, <3>2, RowTypes DEF BeginSelect, SetupRecord
      <4>2. r \in RequestRecord
        BY <1>0, <1>1, <4>1 DEF RequestRecord, Working
      <4>3. RequestHolds(r)
        BY <1>0, <1>1 DEF RequestHolds, RequestRecord, Working
      <4> QED
        BY <1>7, <3>2, <4>2, <4>3 DEF BeginSelect
    <3> QED
      BY <3>1, <3>2
  <2> QED
    BY <1>3, <1>7, <2>1 DEF BeginSelect
<1>8. ASSUME RecheckShop(p) PROVE RowsAgree'
  <2>1. [request[p] EXCEPT !.pc = "select"] \in RequestRecord
    BY <1>0, PcTyped DEF Working
  <2>2. RequestHolds([request[p] EXCEPT !.pc = "select"])
    BY <1>0, <1>8 DEF RecheckShop, At, RequestHolds, RequestRecord, Working
  <2> QED
    BY <1>3, <1>8, <2>1, <2>2 DEF RecheckShop
<1>9. ASSUME RecoverSelect(p) PROVE RowsAgree'
  <2>1. [request[p] EXCEPT !.pc = "finish"] \in RequestRecord
    BY <1>0, PcTyped
  <2>2. RequestHolds([request[p] EXCEPT !.pc = "finish"])
    BY <1>0, <1>9 DEF RecoverSelect, At, RequestHolds, RequestRecord, Working, IsBound
  <2> QED
    BY <1>3, <1>9, <2>1, <2>2 DEF RecoverSelect
<1>10. ASSUME Activate(p) PROVE RowsAgree'
  BY <1>2, <1>3, <1>10 DEF Activate
<1>11. ASSUME Finish(p) PROVE RowsAgree'
  <2>1. CASE Done(p) /\ UNCHANGED seller
    BY <1>1, <1>3, <1>11, <2>1 DEF Finish, Done
  <2>2. CASE seller' = TRUE /\ Goes(p, [request[p] EXCEPT !.pc = "mark"])
    <3> DEFINE r == [request[p] EXCEPT !.pc = "mark"]
    <3>0. r \in RequestRecord
      BY <1>0, PcTyped
    <3>1. /\ r.pc = "mark" /\ IsBound
          /\ r.began <= clock /\ clock <= r.began + InvocationLimit
      BY <1>0, <1>11 DEF Finish, At, RequestRecord, RequestHolds
    <3>2. Kept /\ seller' = TRUE /\ Goes(p, r)
      BY <1>11, <2>2 DEF Finish
    <3> HIDE DEF r
    <3> QED
      BY <1>0, <3>0, <3>1, <3>2, RowsQuiet
  <2> QED
    BY <1>11, <2>1, <2>2 DEF Finish
<1>12. ASSUME Raise(p) PROVE RowsAgree'
  BY <1>1, <1>3, <1>12 DEF Raise, Done
<1> QED
  BY <1>4, <1>5, <1>6, <1>7, <1>8, <1>9, <1>10, <1>11, <1>12


LEMMA RowsStep == ASSUME ConnectionInv, [Next]_vars PROVE RowsAgree'
<1>1. CASE EnableWorkflow \/ UNCHANGED vars
  <2>1. UNCHANGED <<clock, storeVars, secret, seller, request, cleaner>>
    BY <1>1 DEF EnableWorkflow, vars, storeVars
  <2> QED
    BY <2>1 DEF ConnectionInv, RowsAgree, CandidateHolds, BindingHolds, RequestHolds, CleanerHolds,
       OneDestination, IsBound, Live, storeVars
<1> QED
  BY <1>1, ReserveRows, SecretRows, PublishRows, SelectRows, MarkRows, ClaimRows, CleanupRows,
     TickRows, QuietRows DEF Next, RequestStep, CleanupStep

\* Nothing is reserved: the rows and the budget stay, though later windows hold less of them.
LEMMA BudgetStays ==
  ASSUME ConnectionInv, UNCHANGED attempts, clock' \in Nat, clock <= clock',
         \A c \in Candidates : /\ candidate'[c].state = "absent" <=> candidate[c].state = "absent"
                               /\ candidate'[c].created = candidate[c].created
  PROVE  BudgetHeld'
<1> USE ConnectionConstants
<1>0. ConnectionTyped /\ BudgetHeld
  BY DEF ConnectionInv
<1>1. Dated' = Dated
  BY DEF Dated
<1>2. BudgetHolds'
  <2> SUFFICES ASSUME NEW t \in 0..clock' PROVE Cardinality(InWindow(t)') <= Limit
    BY DEF BudgetHolds, InWindow
  <2>1. InWindow(t)' = InWindow(t)
    BY DEF InWindow
  <2>2. clock \in Nat
    BY <1>0, RowTypes
  <2>3. CASE t <= clock
    <3>1. Cardinality(InWindow(t)) <= Limit
      BY <1>0, <2>2, <2>3 DEF BudgetHeld, BudgetHolds, InWindow
    <3> QED
      BY <2>1, <3>1
  <2>4. CASE t > clock
    <3>1. InWindow(t) \in SUBSET InWindow(clock) /\ InWindow(clock) \in SUBSET Dated
      <4>1. \A c \in Dated : candidate[c].created \in Nat /\ candidate[c].created <= clock
        BY <1>0, RowTypes DEF Dated, BudgetHeld, CandidateRecord
      <4> QED
        BY <2>2, <2>4, <4>1 DEF InWindow, Dated
    <3>2. IsFiniteSet(InWindow(clock))
      BY <1>0, <3>1, FS_Subset DEF BudgetHeld
    <3>3. Cardinality(InWindow(t)) <= Cardinality(InWindow(clock))
      BY <3>1, <3>2, FS_Subset
    <3>4. Cardinality(InWindow(clock)) <= Limit
      BY <1>0, <2>2 DEF BudgetHeld, BudgetHolds, InWindow
    <3>5. Cardinality(InWindow(clock)) \in Nat /\ Cardinality(InWindow(t)) \in Nat
      BY <3>1, <3>2, FS_Subset, FS_CardinalityType
    <3> QED
      BY <2>1, <3>3, <3>4, <3>5
  <2> QED
    BY <2>2, <2>3, <2>4
<1>3. \A a \in attempts : a.candidate \in Candidates
  BY <1>0 DEF ConnectionTyped, ConnectionTypeOK
<1>4. \A c \in Candidates : candidate[c].created \in Nat
  BY <1>0, RowTypes DEF CandidateRecord
<1>5. clock \in Nat
  BY <1>0, RowTypes
<1>6. \A a \in attempts' : candidate'[a.candidate].state # "absent"
                           /\ candidate'[a.candidate].created = a.at
  BY <1>0, <1>3 DEF BudgetHeld
<1>7. \A c \in Dated' :
        /\ candidate'[c].created <= clock'
        /\ \/ [candidate |-> c, at |-> candidate'[c].created] \in attempts'
           \/ \E a \in attempts' : candidate'[c].created + Window <= a.at
  <2> SUFFICES ASSUME NEW c \in Dated
               PROVE  /\ candidate'[c].created <= clock'
                      /\ \/ [candidate |-> c, at |-> candidate'[c].created] \in attempts'
                         \/ \E a \in attempts' : candidate'[c].created + Window <= a.at
    BY <1>1
  <2>1. c \in Candidates /\ candidate'[c].created = candidate[c].created
    BY DEF Dated
  <2>2. /\ candidate[c].created <= clock
        /\ \/ [candidate |-> c, at |-> candidate[c].created] \in attempts
           \/ \E a \in attempts : candidate[c].created + Window <= a.at
    BY <1>0 DEF BudgetHeld
  <2> QED
    BY <1>4, <1>5, <2>1, <2>2
<1> QED
  BY <1>0, <1>1, <1>2, <1>6, <1>7 DEF BudgetHeld

\* A reservation counts every other one that is in a window with it: their attempts are still
\* listed, so that with the new one there are at most as many as the limit.
LEMMA BudgetGrows ==
  ASSUME ConnectionInv, NEW c \in Candidates, NEW now \in Nat, UNCHANGED clock,
         candidate[c].state = "absent", now <= clock,
         \A a \in attempts : a.at <= now, Cardinality(Recent(now)) < Limit,
         attempts' = Recent(now) \cup {[candidate |-> c, at |-> now]},
         candidate'[c].state # "absent", candidate'[c].created = now,
         \A d \in Candidates \ {c} : candidate'[d] = candidate[d]
  PROVE  BudgetHeld'
<1> USE ConnectionConstants
<1>0. ConnectionTyped /\ BudgetHeld
  BY DEF ConnectionInv
<1>1. Dated' = Dated \cup {c} /\ c \notin Dated
  BY DEF Dated
<1>2. IsFiniteSet(Dated') /\ IsFiniteSet(Recent(now)) /\ IsFiniteSet(attempts')
  <2>1. Recent(now) \in SUBSET attempts
    BY DEF Recent
  <2> QED
    BY <1>0, <1>1, <2>1, FS_Subset, FS_AddElement DEF BudgetHeld
<1>3. \A d \in Dated : /\ candidate[d].created \in Nat /\ d \in Candidates
                       /\ candidate'[d] = candidate[d]
  BY <1>0, <1>1, RowTypes DEF CandidateRecord, Dated
<1>4. clock \in Nat /\ \A a \in attempts : a.at \in Nat /\ a.candidate \in Dated
                                          /\ candidate[a.candidate].created = a.at
  BY <1>0, RowTypes DEF ConnectionTyped, ConnectionTypeOK, BudgetHeld, Dated
<1> DEFINE new == [candidate |-> c, at |-> now]
<1>5. \A a \in attempts' : candidate'[a.candidate].state # "absent"
                           /\ candidate'[a.candidate].created = a.at
  <2>1. \A a \in Recent(now) : candidate'[a.candidate].state # "absent"
                               /\ candidate'[a.candidate].created = a.at
    BY <1>3, <1>4 DEF Recent, Dated
  <2>2. candidate'[new.candidate].state # "absent" /\ candidate'[new.candidate].created = new.at
    OBVIOUS
  <2> QED
    BY <2>1, <2>2
<1>6. ASSUME NEW d \in Dated'
      PROVE  /\ candidate'[d].created <= clock'
             /\ \/ [candidate |-> d, at |-> candidate'[d].created] \in attempts'
                \/ \E a \in attempts' : candidate'[d].created + Window <= a.at
  <2>1. CASE d = c
    BY <2>1
  <2>2. CASE d \in Dated
    <3>1. /\ candidate[d].created <= clock
          /\ \/ [candidate |-> d, at |-> candidate[d].created] \in attempts
             \/ \E a \in attempts : candidate[d].created + Window <= a.at
      BY <1>0, <2>2 DEF BudgetHeld
    <3>2. new \in attempts' /\ new.at = now
      OBVIOUS
    <3>3. CASE candidate[d].created + Window <= now
      BY <1>3, <2>2, <3>1, <3>2, <3>3
    <3>4. CASE ~(candidate[d].created + Window <= now)
      <4>1. ~ \E a \in attempts : candidate[d].created + Window <= a.at
        BY <1>3, <1>4, <2>2, <3>4
      <4>2. [candidate |-> d, at |-> candidate[d].created] \in Recent(now)
        BY <1>3, <2>2, <3>1, <3>4, <4>1 DEF Recent
      <4> QED
        BY <1>3, <2>2, <3>1, <4>2
    <3> QED
      BY <3>3, <3>4
  <2> QED
    BY <1>1, <2>1, <2>2
<1>7. BudgetHolds'
  <2> SUFFICES ASSUME NEW t \in 0..clock' PROVE Cardinality(InWindow(t)') <= Limit
    BY DEF BudgetHolds, InWindow
  <2>0. t \in 0..clock /\ t \in Nat
    BY <1>4
  <2>1. IsFiniteSet(InWindow(t)) /\ Cardinality(InWindow(t)) <= Limit
        /\ Cardinality(InWindow(t)) \in Nat
    <3>1. InWindow(t) \in SUBSET Dated
      BY DEF InWindow, Dated
    <3> QED
      BY <1>0, <2>0, <3>1, FS_Subset, FS_CardinalityType DEF BudgetHeld, BudgetHolds, InWindow
  <2>2. CASE t < now
    <3>1. InWindow(t)' = InWindow(t)
      BY <1>3, <2>0, <2>2 DEF InWindow, Dated
    <3> QED
      BY <2>1, <3>1
  <2>3. CASE t >= now
    <3>1. InWindow(t)' \in SUBSET (InWindow(t) \cup {c})
      BY <1>3 DEF InWindow, Dated
    <3> DEFINE f == [d \in InWindow(t) |-> [candidate |-> d, at |-> candidate[d].created]]
    <3>2. f \in Injection(InWindow(t), Recent(now))
      <4>1. ASSUME NEW d \in InWindow(t)
            PROVE  [candidate |-> d, at |-> candidate[d].created] \in Recent(now)
        <5>1. d \in Dated /\ candidate[d].created + Window > now
          BY <1>3, <2>3, <2>0 DEF InWindow, Dated
        <5>2. \/ [candidate |-> d, at |-> candidate[d].created] \in attempts
              \/ \E a \in attempts : candidate[d].created + Window <= a.at
          BY <1>0, <5>1 DEF BudgetHeld
        <5>3. ~ \E a \in attempts : candidate[d].created + Window <= a.at
          BY <1>3, <1>4, <5>1
        <5> QED
          BY <1>3, <5>1, <5>2, <5>3 DEF Recent
      <4>2. f \in [InWindow(t) -> Recent(now)]
        BY <4>1
      <4>3. \A d, e \in InWindow(t) : f[d] = f[e] => d = e
        OBVIOUS
      <4> QED
        BY <4>2, <4>3 DEF Injection, IsInjective
    <3>3. Cardinality(InWindow(t)) <= Cardinality(Recent(now))
      BY <1>2, <3>2, FS_Injection
    <3>4. Cardinality(Recent(now)) \in Nat
      BY <1>2, FS_CardinalityType
    <3>5. IsFiniteSet(InWindow(t) \cup {c})
          /\ Cardinality(InWindow(t) \cup {c}) <= Cardinality(InWindow(t)) + 1
      <4>1. /\ IsFiniteSet(InWindow(t) \cup {c})
            /\ Cardinality(InWindow(t) \cup {c}) =
                 IF c \in InWindow(t) THEN Cardinality(InWindow(t))
                 ELSE Cardinality(InWindow(t)) + 1
        BY <2>1, FS_AddElement
      <4> QED
        BY <2>1, <4>1
    <3>6. Cardinality(InWindow(t)') <= Cardinality(InWindow(t) \cup {c})
      BY <3>1, <3>5, FS_Subset
    <3>7. Cardinality(InWindow(t)') \in Nat /\ Cardinality(InWindow(t) \cup {c}) \in Nat
      BY <3>1, <3>5, FS_Subset, FS_CardinalityType
    <3> QED
      BY <2>1, <3>3, <3>4, <3>5, <3>6, <3>7
  <2> QED
    BY <2>0, <2>2, <2>3
<1> QED
  BY <1>2, <1>5, <1>6, <1>7 DEF BudgetHeld

LEMMA BudgetStep == ASSUME ConnectionInv, [Next]_vars PROVE BudgetHeld'
<1> USE ConnectionConstants
<1>0. ConnectionTyped /\ clock \in Nat
  BY RowTypes DEF ConnectionInv
<1>1. ASSUME UNCHANGED <<attempts, candidate>>, clock' = clock \/ clock' = clock + 1
      PROVE  BudgetHeld'
  BY <1>0, <1>1, BudgetStays
<1>2. ASSUME NEW p \in Requests, Reserve(p) PROVE BudgetHeld'
  <2> DEFINE r == request[p]
  <2>1. PICK c \in Candidates : c = r.candidate
    BY <1>2, RequestFacts DEF Reserve, At, Working
  <2>2. /\ r.now \in Nat /\ r.now <= clock
    BY <1>2, RequestFacts DEF Reserve, At, RequestHolds, RequestRecord
  <2>3. CASE candidate[c].state # "absent"
    BY <1>1, <1>2, <2>1, <2>3 DEF Reserve
  <2>4. CASE candidate[c].state = "absent"
    <3>1. /\ UNCHANGED clock /\ \A a \in attempts : a.at <= r.now
          /\ Cardinality(Recent(r.now)) < Limit
          /\ attempts' = Recent(r.now) \cup {[candidate |-> c, at |-> r.now]}
          /\ candidate' = [candidate EXCEPT ![c] =
               [Absent EXCEPT !.state = "pending", !.token = r.token, !.created = r.now]]
      BY <1>2, <2>1, <2>4 DEF Reserve
    <3>2. /\ candidate'[c].state # "absent" /\ candidate'[c].created = r.now
          /\ \A d \in Candidates \ {c} : candidate'[d] = candidate[d]
      BY <1>0, <3>1, RowTypes DEF Absent
    <3> QED
      BY <2>2, <2>4, <3>1, <3>2, BudgetGrows
  <2> QED
    BY <2>3, <2>4
<1>3. ASSUME NEW p \in Requests, PublishCandidate(p) \/ Select(p) PROVE BudgetHeld'
  <2>1. UNCHANGED <<attempts, clock>>
    BY <1>3 DEF PublishCandidate, Select
  <2>2. \A c \in Candidates : /\ candidate'[c].state = "absent" <=> candidate[c].state = "absent"
                              /\ candidate'[c].created = candidate[c].created
    BY <1>0, <1>3, RowTypes DEF PublishCandidate, Select, CandidateRecord
  <2> QED
    BY <1>0, <2>1, <2>2, BudgetStays
<1>4. ASSUME NEW q \in Cleaners, Tombstone(q) \/ \E c \in Candidates : ClaimCleanup(q, c)
      PROVE  BudgetHeld'
  <2>1. UNCHANGED <<attempts, clock>>
    BY <1>4 DEF Tombstone, ClaimCleanup
  <2>2. \A c \in Candidates : /\ candidate'[c].state = "absent" <=> candidate[c].state = "absent"
                              /\ candidate'[c].created = candidate[c].created
    <3>1. candidate \in [Candidates -> CandidateRecord]
      BY <1>0, RowTypes
    <3>2. CASE Tombstone(q)
      BY <3>1, <3>2 DEF Tombstone, CandidateRecord
    <3>3. CASE \E c \in Candidates : ClaimCleanup(q, c)
      BY <3>1, <3>3 DEF ClaimCleanup, CandidateRecord
    <3> QED
      BY <1>4, <3>2, <3>3
  <2> QED
    BY <1>0, <2>1, <2>2, BudgetStays
<1>5. ASSUME NEW p \in Requests,
             \/ \E c \in Candidates, t \in Tokens : BeginValidate(p, c, t)
             \/ Check(p) \/ CreateSecret(p) \/ ProbeShops(p)
             \/ \E o \in SelectOps, c \in Candidates, s \in Shops,
                   v \in 1..(Cardinality(Candidates) + 1) : BeginSelect(p, o, c, s, v)
             \/ RecheckShop(p) \/ RecoverSelect(p) \/ Activate(p) \/ Finish(p)
             \/ MarkSellerGranted(p) \/ Raise(p)
      PROVE  BudgetHeld'
  <2>1. UNCHANGED <<attempts, candidate, clock>>
    BY <1>5 DEF BeginValidate, Check, CreateSecret, ProbeShops, BeginSelect, RecheckShop,
       RecoverSelect, Activate, Finish, MarkSellerGranted, Raise, storeVars
  <2> QED
    BY <1>1, <2>1
<1>6. ASSUME NEW q \in Cleaners, Dispose(q) \/ RaiseCleanup(q) PROVE BudgetHeld'
  BY <1>1, <1>6 DEF Dispose, RaiseCleanup, storeVars
<1>7. CASE Tick \/ EnableWorkflow \/ UNCHANGED vars
  BY <1>1, <1>7 DEF Tick, EnableWorkflow, vars, storeVars
<1> QED
  BY <1>2, <1>3, <1>4, <1>5, <1>6, <1>7 DEF Next, RequestStep, CleanupStep

LEMMA ConnectionInvStep == ASSUME ConnectionInv, [Next]_vars PROVE ConnectionInv'
BY TypedStep, RowsStep, BudgetStep DEF ConnectionInv

\* Secrets are where they are needed and nowhere else: a selected connection keeps the live
\* secret its candidate was validated with, and a tombstoned candidate leaves none behind,
\* although the request that creates it checked the candidate before it expired.
THEOREM SecretsAlwaysSafe == Spec => []SecretsSafe
<1>1. ASSUME ConnectionInv PROVE SecretsSafe
  BY <1>1 DEF ConnectionInv, RowsAgree, CandidateHolds, SecretsSafe, SelectedSecretKept,
     NoSecretLeftBehind, Live
<1> QED
  BY <1>1, ConnectionInvInit, ConnectionInvStep, PTL DEF Spec

\* The rows of a setup tell of one destination, and no window of time holds more reservations
\* than the limit, whatever invocations race, replay, lose their replies or die.
THEOREM ConnectionAlwaysSound == Spec => []ConnectionSound
<1>1. ASSUME ConnectionInv PROVE ConnectionSound
  BY <1>1 DEF ConnectionInv, ConnectionTyped, RowsAgree, BudgetHeld, ConnectionSound
<1> QED
  BY <1>1, ConnectionInvInit, ConnectionInvStep, PTL DEF Spec

\* A selected destination is never changed: no later validation, selection or cleanup, however
\* stale what it read, gives the setup another binding or shop (select, publish_candidate).
THEOREM DestinationAlwaysKept == Spec => DestinationKept
<1>1. ASSUME ConnectionInv, [Next]_vars
      PROVE  [IsBound => setup'.binding = setup.binding /\ setup'.shop = setup.shop]_vars
  <2> SUFFICES ASSUME IsBound PROVE setup'.binding = setup.binding /\ setup'.shop = setup.shop
    OBVIOUS
  <2>1. setup \in SetupRecord
    BY <1>1, RowTypes DEF ConnectionInv
  <2>2. ASSUME NEW p \in Requests, RequestStep(p), ~MarkSellerGranted(p) PROVE UNCHANGED setup
    <3>1. CASE PublishCandidate(p) \/ Select(p)
      BY <3>1 DEF PublishCandidate, Select
    <3>2. CASE Reserve(p) \/ Check(p) \/ CreateSecret(p) \/ ProbeShops(p) \/ RecheckShop(p)
               \/ RecoverSelect(p)
      BY <3>2 DEF Reserve, Check, CreateSecret, ProbeShops, RecheckShop, RecoverSelect, storeVars
    <3>3. CASE \/ Activate(p) \/ Finish(p) \/ Raise(p)
               \/ \E c \in Candidates, t \in Tokens : BeginValidate(p, c, t)
      BY <3>3 DEF Activate, Finish, Raise, BeginValidate, storeVars
    <3>4. CASE \E o \in SelectOps, c \in Candidates, s \in Shops,
                  v \in 1..(Cardinality(Candidates) + 1) : BeginSelect(p, o, c, s, v)
      BY <3>4 DEF BeginSelect, storeVars
    <3> QED
      BY <2>2, <3>1, <3>2, <3>3, <3>4 DEF RequestStep
  <2>3. ASSUME NEW q \in Cleaners, CleanupStep(q) PROVE UNCHANGED setup
    BY <2>3 DEF CleanupStep, ClaimCleanup, Dispose, Tombstone, RaiseCleanup, storeVars
  <2>4. CASE Tick \/ EnableWorkflow \/ UNCHANGED vars
    BY <2>4 DEF Tick, EnableWorkflow, vars, storeVars
  <2>5. ASSUME NEW p \in Requests, MarkSellerGranted(p)
        PROVE  setup'.binding = setup.binding /\ setup'.shop = setup.shop
    BY <2>1, <2>5 DEF MarkSellerGranted, SetupRecord
  <2> QED
    BY <1>1, <2>2, <2>3, <2>4, <2>5 DEF Next
<1> QED
  BY <1>1, ConnectionInvInit, ConnectionInvStep, PTL DEF Spec, DestinationKept


-----------------------------------------------------------------------------
(* Judge sessions.                                                         *)

InvitationRecord ==
  [enabled : BOOLEAN, expiry : 1..InviteEnd, limit : 1..Redemptions, count : 0..Redemptions]

SessionRecord == [created : 0..MaxTime, expiry : 0..Campaign, revoked : BOOLEAN]

AnswersTyped ==
  /\ token \in [Browsers -> Nat] /\ DOMAIN seen = Browsers
  /\ grant \in [Browsers -> [is : {"none", "token", "denied", "unavailable"}, until : Nat]]

\* What a request has read: an invitation to redeem, or a session that is still the one it was
\* but for its revocation.  Its own session exists once it was reserved, and only then.
RequestReads(q) ==
  /\ requestPc[q] # "new" => wants[q] \in Browsers \cup {"redeem"}
  /\ (wants[q] = "redeem" /\ requestPc[q] \in {"issue", "again"}) => seen[q] \in InvitationRecord
  /\ wants[q] \in Browsers => Exists(wants[q]) /\ requestPc[q] # "new"
  /\ (wants[q] \in Browsers /\ requestPc[q] \in {"issue", "again", "answer"}) =>
       seen[q] \in SessionRecord /\ seen[q].expiry = session[wants[q]].expiry
  /\ Exists(q) => wants[q] = "redeem" /\ requestPc[q] \in {"answer", "done"}
  /\ (wants[q] = "redeem" /\ requestPc[q] = "answer") => Exists(q)
  /\ requestPc[q] # "done" => grant[q].is = "none"
  /\ requestPc[q] \in {"again", "answer"} => token[q] > 0
  /\ (grant[q].is = "token" /\ wants[q] = "redeem") => Exists(q)
  /\ grant[q].is = "token" => wants[q] \in Browsers \cup {"redeem"}
  /\ Exists(q) => session[q].expiry > 0

\* Whoever was overtaken meets a revoked session, or an invitation that is over for good.
OvertakenStopped ==
  \A q \in overtaken :
    /\ requestPc[q] \in {"issue", "again", "done"}
    /\ requestPc[q] # "done" =>
         \/ wants[q] \in Browsers /\ session[wants[q]].revoked
         \/ ~(invitation.enabled /\ hour < invitation.expiry)

SessionInv ==
  /\ SessionsHold /\ AnswersTyped /\ IsFiniteSet({s \in Browsers : Exists(s)})
  /\ (\A q \in Browsers : RequestReads(q)) /\ OvertakenStopped

LEMMA SessionConstants ==
  /\ Nothing \notin Browsers /\ "redeem" \notin Browsers /\ Nothing # "redeem"
  /\ Redemptions \in Nat /\ Redemptions > 0 /\ Campaign \in Nat /\ InviteEnd \in Nat
  /\ InviteEnd > 0 /\ InviteEnd <= Campaign /\ Duration \in Nat /\ Duration > 0
  /\ TokenLife \in Nat /\ TokenLife > 0 /\ MaxTime \in Nat /\ MaxTime > 0 /\ MaxOperator \in Nat
BY SessionAssumption

LEMMA EarliestOfThree ==
  ASSUME NEW a \in Nat, NEW b \in Nat, NEW c \in Nat
  PROVE  /\ Earliest({a, b, c}) \in {a, b, c} /\ Earliest({a, b, c}) <= a
         /\ Earliest({a, b, c}) <= b /\ Earliest({a, b, c}) <= c
<1>1. \E n \in {a, b, c} : \A m \in {a, b, c} : n <= m
  <2>1. CASE a <= b /\ a <= c
    BY <2>1
  <2>2. CASE b <= a /\ b <= c
    BY <2>2
  <2>3. CASE c <= a /\ c <= b
    BY <2>3
  <2> QED
    BY <2>1, <2>2, <2>3
<1> QED
  BY <1>1 DEF Earliest

LEMMA EarliestOfTwo ==
  ASSUME NEW a \in Nat, NEW b \in Nat
  PROVE  Earliest({a, b}) \in Nat /\ Earliest({a, b}) <= a /\ Earliest({a, b}) <= b
<1>1. {a, b, b} = {a, b}
  OBVIOUS
<1> QED
  BY <1>1, EarliestOfThree

LEMMA SessionInvInit == SessionInit => SessionInv
<1> SUFFICES ASSUME SessionInit PROVE SessionInv
  OBVIOUS
<1> USE SessionConstants DEF SessionInit, NoSession, Exists
<1>1. invitation \in InvitationRecord /\ session \in [Browsers -> SessionRecord]
  BY DEF InvitationRecord, SessionRecord
<1>2. {s \in Browsers : Exists(s)} = {}
  OBVIOUS
<1>3. IsFiniteSet({s \in Browsers : Exists(s)}) /\ Cardinality({s \in Browsers : Exists(s)}) = 0
  BY <1>2, FS_EmptySet
<1>4. SessionTypeOK
  BY <1>1 DEF SessionTypeOK, InvitationRecord, SessionRecord
<1>5. RedemptionsHeld /\ LogoutWins /\ GrantBounded
  BY <1>3 DEF RedemptionsHeld, LogoutWins, GrantBounded
<1>6. AnswersTyped /\ (\A q \in Browsers : RequestReads(q)) /\ OvertakenStopped
  BY DEF AnswersTyped, RequestReads, OvertakenStopped
<1> QED
  BY <1>3, <1>4, <1>5, <1>6 DEF SessionInv, SessionsHold

\* The types of the state, and what is known of a request.
LEMMA SessionFacts ==
  ASSUME SessionInv
  PROVE  /\ hour \in 1..MaxTime /\ hour \in Nat /\ overtaken \subseteq Browsers
         /\ invitation \in InvitationRecord /\ session \in [Browsers -> SessionRecord]
         /\ requestPc \in [Browsers -> {"new", "issue", "again", "answer", "done"}]
         /\ wants \in [Browsers -> Browsers \cup {"redeem", Nothing}]
         /\ AnswersTyped /\ \A q \in Browsers : RequestReads(q)
BY SessionConstants DEF SessionInv, SessionsHold, SessionTypeOK, InvitationRecord, SessionRecord

\* Only a request moves: it does not answer with a token, unless one its session covers.
LEMMA BrowserMoves ==
  ASSUME SessionInv, NEW q \in Browsers, Rows, UNCHANGED overtaken,
         requestPc' \in [Browsers -> {"new", "issue", "again", "answer", "done"}],
         wants' \in [Browsers -> Browsers \cup {"redeem", Nothing}], AnswersTyped',
         \A p \in Browsers \ {q} : /\ requestPc'[p] = requestPc[p] /\ wants'[p] = wants[p]
                                   /\ seen'[p] = seen[p] /\ token'[p] = token[p]
                                   /\ grant'[p] = grant[p],
         RequestReads(q)', requestPc'[q] # "answer" \/ token'[q] > 0,
         requestPc'[q] = "answer" => wants'[q] = "redeem" \/ seen'[q].expiry > 0,
         q \in overtaken =>
           /\ grant'[q].is # "token" /\ requestPc'[q] \in {"issue", "again", "done"}
           /\ requestPc'[q] # "done" => requestPc[q] # "done" /\ wants'[q] = wants[q],
         grant'[q].is = "token" =>
           grant'[q].until <= session[IF wants'[q] = "redeem" THEN q ELSE wants'[q]].expiry
  PROVE  SessionInv'
<1> USE SessionConstants
<1>1. UNCHANGED <<hour, invitation, session, operator>>
  BY DEF Rows
<1>2. \A s \in Browsers : Exists(s)' <=> Exists(s)
  BY <1>1 DEF Exists
<1>3. {s \in Browsers : Exists(s)}' = {s \in Browsers : Exists(s)}
  BY <1>2
<1>4. ASSUME NEW p \in Browsers PROVE RequestReads(p)'
  <2>1. CASE p = q
    BY <2>1
  <2>2. CASE p # q
    BY <1>1, <1>2, <2>2, SessionFacts DEF RequestReads
  <2> QED
    BY <2>1, <2>2
<1>5. OvertakenStopped'
  BY <1>1, SessionFacts DEF OvertakenStopped, SessionInv
<1>6. LogoutWins'
  BY SessionFacts DEF LogoutWins, SessionInv, SessionsHold
<1>7. GrantBounded'
  BY <1>1 DEF GrantBounded, SessionInv, SessionsHold
<1>8. RedemptionsHeld'
  BY <1>1, <1>3 DEF RedemptionsHeld, SessionInv, SessionsHold
<1>9. SessionTypeOK'
  <2>1. ASSUME NEW p \in Browsers, requestPc'[p] = "answer"
        PROVE  Its(p)'.expiry > 0 /\ token'[p] > 0
    <3>1. CASE p = q
      BY <1>1, <2>1, <3>1, <1>4, <1>2 DEF Its, RequestReads
    <3>2. CASE p # q
      BY <1>1, <2>1, <3>2 DEF Its, SessionInv, SessionsHold, SessionTypeOK
    <3> QED
      BY <3>1, <3>2
  <2> QED
    BY <1>1, <2>1 DEF SessionTypeOK, SessionInv, SessionsHold
<1> QED
  BY <1>3, <1>4, <1>5, <1>6, <1>7, <1>8, <1>9 DEF SessionInv, SessionsHold


\* Only browser q's request moved.
Others(q) ==
  \A p \in Browsers \ {q} : /\ requestPc'[p] = requestPc[p] /\ wants'[p] = wants[p]
                            /\ seen'[p] = seen[p] /\ token'[p] = token[p] /\ grant'[p] = grant[p]

LEMMA AnswerMoves ==
  ASSUME SessionInv, NEW q \in Browsers, NEW is \in {"none", "token", "denied", "unavailable"},
         NEW until \in Nat, Answer(q, is, until), UNCHANGED wants
  PROVE  /\ requestPc' \in [Browsers -> {"new", "issue", "again", "answer", "done"}]
         /\ AnswersTyped' /\ Others(q)
         /\ requestPc'[q] = "done" /\ grant'[q] = [is |-> is, until |-> until]
BY SessionFacts DEF Answer, Goto, AnswersTyped, Others

\* A request that is answered without a token, or with one its session covers.
LEMMA AnswerStep ==
  ASSUME SessionInv, NEW q \in Browsers, Rows, UNCHANGED <<wants, overtaken>>,
         wants[q] \in Browsers \cup {"redeem"},
         NEW is \in {"token", "denied", "unavailable"}, NEW until \in Nat, Answer(q, is, until),
         is = "token" =>
           /\ requestPc[q] = "answer"
           /\ until <= session[IF wants[q] = "redeem" THEN q ELSE wants[q]].expiry
  PROVE  SessionInv'
<1>1. /\ requestPc' \in [Browsers -> {"new", "issue", "again", "answer", "done"}]
      /\ AnswersTyped' /\ Others(q)
      /\ requestPc'[q] = "done" /\ grant'[q] = [is |-> is, until |-> until]
  BY AnswerMoves
<1>2. /\ UNCHANGED session /\ RequestReads(q)
      /\ wants' \in [Browsers -> Browsers \cup {"redeem", Nothing}]
  BY SessionFacts DEF Rows
<1>3. RequestReads(q)'
  BY <1>1, <1>2, SessionConstants DEF RequestReads, Exists
<1>4. q \in overtaken => requestPc[q] # "answer"
  BY DEF SessionInv, OvertakenStopped
<1> QED
  BY <1>1, <1>2, <1>3, <1>4, BrowserMoves DEF Others

\* A request goes on, and knows what it must.
LEMMA GoesOn ==
  ASSUME SessionInv, NEW q \in Browsers, Rows, UNCHANGED <<wants, overtaken, seen, grant>>,
         NEW label \in {"again", "answer"}, Goto(q, label),
         wants[q] \in Browsers \cup {"redeem"}, requestPc[q] \in {"issue", "again"},
         token' \in [Browsers -> Nat], \A p \in Browsers \ {q} : token'[p] = token[p],
         token'[q] > 0,
         label = "again" => requestPc[q] = "issue",
         label = "answer" => /\ requestPc[q] = "again" /\ wants[q] \in Browsers
                             /\ seen[q].expiry > 0 /\ q \notin overtaken
  PROVE  SessionInv'
<1>1. /\ requestPc' = [requestPc EXCEPT ![q] = label]
      /\ requestPc' \in [Browsers -> {"new", "issue", "again", "answer", "done"}]
      /\ AnswersTyped' /\ Others(q) /\ requestPc'[q] = label /\ UNCHANGED session
  BY SessionFacts DEF Goto, AnswersTyped, Others, Rows
<1>2. RequestReads(q)'
  BY <1>1, SessionFacts, SessionConstants DEF RequestReads, Exists
<1>3. grant[q].is = "none"
  BY SessionFacts DEF RequestReads
<1> QED
  BY <1>1, <1>2, <1>3, SessionFacts, BrowserMoves DEF Others

LEMMA BeginStep == ASSUME SessionInv, NEW q \in Browsers, BeginRedeem(q) \/ BeginRefresh(q)
                   PROVE  SessionInv'
<1> USE SessionConstants
<1>1. PICK what \in Browsers \cup {"redeem"} :
        /\ requestPc[q] = "new" /\ wants' = [wants EXCEPT ![q] = what] /\ Rows
        /\ UNCHANGED overtaken
        /\ what # "redeem" => Exists(what) /\ what # q
        /\ \/ /\ Goto(q, "issue") /\ UNCHANGED <<token, grant>>
              /\ seen' = [seen EXCEPT ![q] = IF what = "redeem" THEN invitation ELSE session[what]]
           \/ Answer(q, "denied", 0)
  BY DEF BeginRedeem, BeginRefresh
<1>2. /\ UNCHANGED <<session, invitation>> /\ RequestReads(q) /\ ~Exists(q)
      /\ wants' \in [Browsers -> Browsers \cup {"redeem", Nothing}] /\ wants'[q] = what
      /\ q \notin overtaken /\ grant[q].is = "none"
  BY <1>1, SessionFacts DEF Rows, RequestReads, SessionInv, OvertakenStopped
<1>3. /\ requestPc' \in [Browsers -> {"new", "issue", "again", "answer", "done"}]
      /\ AnswersTyped' /\ Others(q) /\ grant'[q].is \in {"none", "denied"}
      /\ \/ requestPc'[q] = "done"
         \/ /\ requestPc'[q] = "issue" /\ grant'[q].is = "none"
            /\ seen'[q] = IF what = "redeem" THEN invitation ELSE session[what]
  <2>1. CASE Answer(q, "denied", 0)
    BY <1>1, <2>1, SessionFacts DEF Goto, Answer, AnswersTyped, Others
  <2>2. CASE ~Answer(q, "denied", 0)
    BY <1>1, <1>2, <2>2, SessionFacts DEF Goto, AnswersTyped, Others
  <2> QED
    BY <2>1, <2>2
<1>4. RequestReads(q)'
  BY <1>1, <1>2, <1>3, SessionFacts DEF RequestReads, Exists
<1> QED
  BY <1>1, <1>2, <1>3, <1>4, BrowserMoves DEF Others


LEMMA IssueStep == ASSUME SessionInv, NEW q \in Browsers, Issue(q) PROVE SessionInv'
<1> USE SessionConstants
<1>1. /\ requestPc[q] = "issue" /\ Rows /\ UNCHANGED <<wants, overtaken>>
      /\ wants[q] \in Browsers \cup {"redeem"}
  BY SessionFacts DEF Issue, RequestReads
<1>2. CASE Answer(q, "unavailable", 0)
  BY <1>1, <1>2, AnswerStep
<1>3. CASE \E life \in 1..TokenLife :
             /\ hour < Campaign /\ token' = [token EXCEPT ![q] = hour + life]
             /\ Goto(q, "again") /\ UNCHANGED <<seen, grant>>
  <2>1. PICK life \in 1..TokenLife :
             /\ token' = [token EXCEPT ![q] = hour + life]
             /\ Goto(q, "again") /\ UNCHANGED <<seen, grant>>
    BY <1>3
  <2>2. /\ token' \in [Browsers -> Nat] /\ token'[q] > 0
        /\ \A p \in Browsers \ {q} : token'[p] = token[p]
    BY <2>1, SessionFacts DEF AnswersTyped
  <2> QED
    BY <1>1, <2>1, <2>2, GoesOn
<1> QED
  BY <1>2, <1>3 DEF Issue

LEMMA UnavailableStep == ASSUME SessionInv, NEW q \in Browsers, Unavailable(q) PROVE SessionInv'
<1>1. /\ Rows /\ UNCHANGED <<wants, overtaken>> /\ Answer(q, "unavailable", 0)
      /\ wants[q] \in Browsers \cup {"redeem"}
  BY SessionFacts DEF Unavailable, RequestReads
<1> QED
  BY <1>1, AnswerStep

LEMMA LookStep == ASSUME SessionInv, NEW q \in Browsers, LookAgain(q) PROVE SessionInv'
<1> USE SessionConstants
<1>1. /\ requestPc[q] = "again" /\ wants[q] \in Browsers /\ Rows /\ UNCHANGED <<wants, overtaken>>
      /\ RequestReads(q) /\ token[q] > 0
  BY SessionFacts DEF LookAgain, RequestReads
<1>2. CASE Answer(q, "denied", 0)
  BY <1>1, <1>2, AnswerStep
<1>3. CASE Valid(wants[q]) /\ session[wants[q]] = seen[q] /\ Goto(q, "answer")
             /\ UNCHANGED <<seen, token, grant>>
  <2>1. q \notin overtaken
    BY <1>1, <1>3 DEF SessionInv, OvertakenStopped, Valid, Holds, Invites
  <2>2. seen[q].expiry > 0 /\ token \in [Browsers -> Nat]
    BY <1>1, SessionFacts DEF RequestReads, AnswersTyped
  <2> QED
    BY <1>1, <1>3, <2>1, <2>2, GoesOn
<1> QED
  BY <1>2, <1>3 DEF LookAgain

LEMMA DeliverStep == ASSUME SessionInv, NEW q \in Browsers, Deliver(q) PROVE SessionInv'
<1> USE SessionConstants
<1>1. /\ requestPc[q] = "answer" /\ Rows /\ UNCHANGED <<wants, overtaken>>
      /\ wants[q] \in Browsers \cup {"redeem"} /\ token[q] \in Nat
      /\ Its(q).expiry = session[IF wants[q] = "redeem" THEN q ELSE wants[q]].expiry
      /\ Its(q).expiry \in Nat
  BY SessionFacts DEF Deliver, RequestReads, Its, SessionRecord, AnswersTyped
<1>2. CASE Answer(q, "denied", 0) \/ Answer(q, "unavailable", 0)
  BY <1>1, <1>2, AnswerStep
<1>3. CASE Answer(q, "token", Earliest({token[q], Its(q).expiry}))
  BY <1>1, <1>3, AnswerStep, EarliestOfTwo
<1> QED
  BY <1>2, <1>3 DEF Deliver

LEMMA EndsBounded ==
  ASSUME SessionInv, NEW q \in Browsers, seen[q] \in InvitationRecord
  PROVE  /\ Ends(q) \in Nat /\ Ends(q) <= hour + Duration /\ Ends(q) <= InviteEnd
         /\ Ends(q) <= Campaign
<1>1. hour + Duration \in Nat /\ seen[q].expiry \in Nat /\ seen[q].expiry <= InviteEnd
      /\ Campaign \in Nat
  BY SessionFacts, SessionConstants DEF InvitationRecord
<1> QED
  BY <1>1, EarliestOfThree, SessionConstants DEF Ends

LEMMA ReserveStep == ASSUME SessionInv, NEW q \in Browsers, ReserveRedemption(q) PROVE SessionInv'
<1> USE SessionConstants
<1>1. /\ requestPc[q] = "again" /\ wants[q] = "redeem"
      /\ UNCHANGED <<hour, wants, overtaken, operator>>
      /\ RequestReads(q) /\ token[q] > 0 /\ ~Exists(q) /\ seen[q] \in InvitationRecord
      /\ grant[q].is = "none"
  BY SessionFacts DEF ReserveRedemption, RequestReads
<1>2. CASE Answer(q, "denied", 0) /\ UNCHANGED <<invitation, session>>
  BY <1>1, <1>2, AnswerStep DEF Rows
<1>3. CASE /\ hour < Campaign /\ hour < Ends(q) /\ Reservable(q)
           /\ invitation' = [invitation EXCEPT !.count = @ + 1]
           /\ session' = [session EXCEPT ![q] =
                            [created |-> hour, expiry |-> Ends(q), revoked |-> FALSE]]
           /\ \/ Goto(q, "answer") /\ UNCHANGED <<seen, token, grant>>
              \/ Answer(q, "unavailable", 0)
  <2>1. /\ hour \in Nat /\ hour > 0 /\ hour <= MaxTime /\ hour < Ends(q) /\ invitation.enabled
        /\ hour < invitation.expiry /\ invitation.count < invitation.limit
        /\ invitation.count \in Nat /\ invitation.limit <= Redemptions
        /\ invitation.limit \in Nat /\ invitation \in InvitationRecord
    BY <1>3, SessionFacts DEF Reservable, InvitationRecord
  <2>2. /\ Ends(q) \in Nat /\ Ends(q) <= hour + Duration /\ Ends(q) <= InviteEnd
        /\ Ends(q) <= Campaign
    BY <1>1, EndsBounded
  <2>3. q \notin overtaken
    BY <1>1, <2>1 DEF SessionInv, OvertakenStopped
  <2> DEFINE new == [created |-> hour, expiry |-> Ends(q), revoked |-> FALSE]
  <2>4. new \in SessionRecord /\ new # NoSession /\ new.expiry = Ends(q) /\ new.created = hour
    BY <2>1, <2>2 DEF SessionRecord, NoSession
  <2>5. /\ session' \in [Browsers -> SessionRecord] /\ session'[q] = new
        /\ \A p \in Browsers \ {q} : session'[p] = session[p]
    BY <1>3, <2>4, SessionFacts
  <2> HIDE DEF new
  <2>6. /\ invitation' \in InvitationRecord /\ invitation'.count = invitation.count + 1
        /\ invitation'.enabled = invitation.enabled /\ invitation'.expiry = invitation.expiry
    <3>1. /\ DOMAIN invitation = {"enabled", "expiry", "limit", "count"}
          /\ invitation.count + 1 \in 0..Redemptions
      BY <2>1 DEF InvitationRecord
    <3>2. invitation' = [invitation EXCEPT !.count = invitation.count + 1]
      BY <1>3
    <3>3. /\ invitation'.count = invitation.count + 1 /\ invitation'.enabled = invitation.enabled
          /\ invitation'.expiry = invitation.expiry
      BY <2>1, <3>1, <3>2
    <3>4. invitation' \in InvitationRecord
      BY <2>1, <3>1, <3>2 DEF InvitationRecord
    <3> QED
      BY <3>3, <3>4
  <2>7. /\ requestPc' \in [Browsers -> {"new", "issue", "again", "answer", "done"}]
        /\ AnswersTyped' /\ Others(q) /\ requestPc'[q] \in {"answer", "done"}
        /\ grant'[q].is \in {"none", "unavailable"}
        /\ requestPc'[q] = "answer" => grant'[q].is = "none" /\ token'[q] > 0
    <3>1. CASE Answer(q, "unavailable", 0)
      <4>1. "unavailable" \in {"none", "token", "denied", "unavailable"} /\ 0 \in Nat
            /\ wants' = wants
        BY <1>1
      <4>2. /\ requestPc' \in [Browsers -> {"new", "issue", "again", "answer", "done"}]
            /\ AnswersTyped' /\ Others(q)
            /\ requestPc'[q] = "done" /\ grant'[q] = [is |-> "unavailable", until |-> 0]
        BY <3>1, <4>1, AnswerMoves
      <4> QED
        BY <4>2
    <3>2. CASE Goto(q, "answer") /\ UNCHANGED <<seen, token, grant>>
      BY <1>1, <3>2, SessionFacts DEF Goto, AnswersTyped, Others
    <3> QED
      BY <1>3, <3>1, <3>2
  <2>8. \A s \in Browsers : Exists(s)' <=> (Exists(s) \/ s = q)
    BY <2>4, <2>5 DEF Exists
  <2>9. ASSUME NEW p \in Browsers PROVE RequestReads(p)'
    <3>1. CASE p = q
      BY <1>1, <2>1, <2>2, <2>4, <2>5, <2>7, <2>8, <3>1 DEF RequestReads
    <3>2. CASE p # q
      <4>1. RequestReads(p) /\ (wants[p] = q => FALSE)
        BY <1>1, <3>2, SessionFacts DEF RequestReads
      <4> QED
        BY <1>1, <2>5, <2>7, <2>8, <3>2, <4>1 DEF RequestReads, Others
    <3> QED
      BY <3>1, <3>2
  <2>10. /\ IsFiniteSet({s \in Browsers : Exists(s)}') /\ RedemptionsHeld'
    <3> DEFINE S == {s \in Browsers : Exists(s)}
    <3>1. {s \in Browsers : Exists(s)}' = S \cup {q} /\ q \notin S
      BY <1>1, <2>8
    <3>2. IsFiniteSet(S) /\ Cardinality(S) = invitation.count
      BY DEF SessionInv, SessionsHold, RedemptionsHeld
    <3> HIDE DEF S
    <3>3. IsFiniteSet(S \cup {q}) /\ Cardinality(S \cup {q}) = invitation.count + 1
      BY <3>1, <3>2, FS_AddElement
    <3> QED
      BY <2>1, <2>6, <3>1, <3>3 DEF RedemptionsHeld
  <2>11. OvertakenStopped'
    BY <1>1, <2>3, <2>5, <2>6, <2>7, SessionFacts DEF SessionInv, OvertakenStopped, Others,
       RequestReads
  <2>12. LogoutWins'
    BY <1>1, <2>3, <2>7, SessionFacts DEF SessionInv, SessionsHold, LogoutWins, Others
  <2>13. GrantBounded'
    <3>1. ASSUME NEW p \in Browsers, grant'[p].is = "token"
          PROVE  grant'[p].until <= session'[IF wants'[p] = "redeem" THEN p ELSE wants'[p]].expiry
      <4>1. p # q /\ grant[p].is = "token" /\ grant'[p] = grant[p] /\ wants'[p] = wants[p]
        BY <2>7, <3>1 DEF Others
      <4>2. /\ wants[p] \in Browsers \cup {"redeem"} /\ wants[p] # q
            /\ grant[p].until <= session[IF wants[p] = "redeem" THEN p ELSE wants[p]].expiry
        BY <1>1, <4>1, SessionFacts DEF RequestReads, SessionInv, SessionsHold, GrantBounded
      <4> QED
        BY <2>5, <4>1, <4>2
    <3>2. \A p \in Browsers : /\ session'[p].expiry <= InviteEnd
                              /\ session'[p].expiry <= session'[p].created + Duration
      BY <2>2, <2>4, <2>5 DEF SessionInv, SessionsHold, GrantBounded
    <3> QED
      BY <3>1, <3>2 DEF GrantBounded
  <2>14. SessionTypeOK'
    <3>1. ASSUME NEW p \in Browsers, requestPc'[p] = "answer"
          PROVE  Its(p)'.expiry > 0 /\ token'[p] > 0
      <4>1. CASE p = q
        BY <1>1, <2>1, <2>2, <2>4, <2>5, <2>7, <3>1, <4>1 DEF Its
      <4>2. CASE p # q
        <5>1. wants[p] = "redeem" => session'[p] = session[p]
          BY <2>5, <4>2
        <5> QED
          BY <1>1, <2>7, <3>1, <4>2, <5>1 DEF Its, Others, SessionInv, SessionsHold, SessionTypeOK
      <4> QED
        BY <4>1, <4>2
    <3> QED
      BY <1>1, <2>5, <2>6, <2>7, <3>1, SessionFacts
         DEF SessionTypeOK, SessionInv, SessionsHold, InvitationRecord, SessionRecord
  <2> QED
    BY <2>7, <2>9, <2>10, <2>11, <2>12, <2>13, <2>14 DEF SessionInv, SessionsHold
<1> QED
  BY <1>2, <1>3 DEF ReserveRedemption

\* Nobody's request moves: what may change is revoked, reduced or overtaken, and the clock.
LEMMA AuthorityStep ==
  ASSUME SessionInv, UNCHANGED <<requestPc, wants, seen, token, grant>>,
         hour' \in 1..MaxTime, hour <= hour', operator' \in 0..MaxOperator,
         invitation' \in InvitationRecord, invitation'.count = invitation.count,
         invitation'.enabled => invitation.enabled, invitation'.expiry <= invitation.expiry,
         session' \in [Browsers -> SessionRecord],
         \A s \in Browsers : /\ session'[s].created = session[s].created
                             /\ session'[s].expiry = session[s].expiry
                             /\ session[s].revoked => session'[s].revoked
                             /\ Exists(s)' <=> Exists(s),
         overtaken' \subseteq Browsers,
         \A q \in overtaken' \ overtaken :
           /\ requestPc[q] \in {"issue", "again"}
           /\ \/ wants[q] \in Browsers /\ session'[wants[q]].revoked
              \/ ~(invitation'.enabled /\ hour' < invitation'.expiry)
  PROVE  SessionInv'
<1> USE SessionConstants
<1>1. {s \in Browsers : Exists(s)}' = {s \in Browsers : Exists(s)}
  OBVIOUS
<1>2. RedemptionsHeld' /\ IsFiniteSet({s \in Browsers : Exists(s)}')
  BY <1>1 DEF SessionInv, SessionsHold, RedemptionsHeld
<1>3. ASSUME NEW q \in Browsers PROVE RequestReads(q)'
  BY SessionFacts DEF RequestReads
<1>4. OvertakenStopped'
  <2>1. hour \in Nat /\ hour' \in Nat /\ invitation.expiry \in Nat /\ invitation'.expiry \in Nat
    BY SessionFacts DEF InvitationRecord
  <2> QED
    BY <2>1, SessionFacts DEF SessionInv, OvertakenStopped
<1>5. LogoutWins'
  BY SessionFacts DEF SessionInv, SessionsHold, LogoutWins, RequestReads
<1>6. GrantBounded'
  <2>1. ASSUME NEW q \in Browsers, grant[q].is = "token"
        PROVE  grant[q].until <= session'[IF wants[q] = "redeem" THEN q ELSE wants[q]].expiry
    BY <2>1, SessionFacts DEF RequestReads, SessionInv, SessionsHold, GrantBounded
  <2> QED
    BY <2>1 DEF SessionInv, SessionsHold, GrantBounded
<1>7. SessionTypeOK'
  <2>1. ASSUME NEW p \in Browsers, requestPc'[p] = "answer"
        PROVE  Its(p)'.expiry > 0 /\ token'[p] > 0
    BY <2>1 DEF Its, SessionInv, SessionsHold, SessionTypeOK
  <2> QED
    BY <2>1 DEF SessionTypeOK, SessionInv, SessionsHold, InvitationRecord, SessionRecord
<1>8. AnswersTyped'
  BY SessionFacts DEF AnswersTyped
<1> QED
  BY <1>2, <1>3, <1>4, <1>5, <1>6, <1>7, <1>8 DEF SessionInv, SessionsHold

LEMMA LogoutStep == ASSUME SessionInv, NEW s \in Browsers, Logout(s) PROVE SessionInv'
<1>1. /\ UNCHANGED <<hour, invitation, requestPc, wants, seen, token, grant, operator>>
      /\ session' = [session EXCEPT ![s].revoked = TRUE] /\ Exists(s)
      /\ overtaken' = overtaken \cup Waiting(s)
  BY DEF Logout
<1>2. session \in [Browsers -> SessionRecord] /\ overtaken \subseteq Browsers
  BY SessionFacts
<1>3. /\ session' \in [Browsers -> SessionRecord] /\ session'[s].revoked
      /\ \A t \in Browsers : /\ session'[t].created = session[t].created
                             /\ session'[t].expiry = session[t].expiry
                             /\ session[t].revoked => session'[t].revoked
      /\ \A t \in Browsers \ {s} : session'[t] = session[t]
  BY <1>1, <1>2 DEF SessionRecord
<1>4. session'[s] # NoSession
  BY <1>3 DEF NoSession
<1>5. \A t \in Browsers : Exists(t)' <=> Exists(t)
  BY <1>1, <1>3, <1>4 DEF Exists
<1>6. hour \in 1..MaxTime /\ operator \in 0..MaxOperator /\ invitation \in InvitationRecord
  BY SessionFacts DEF SessionInv, SessionsHold, SessionTypeOK
<1>7. \A q \in overtaken' \ overtaken :
        requestPc[q] \in {"issue", "again"} /\ wants[q] = s
  BY <1>1 DEF Waiting
<1>8. overtaken' \subseteq Browsers
  BY <1>1, <1>2 DEF Waiting
<1>9. invitation.expiry \in Nat /\ hour \in Nat
  BY <1>6, SessionConstants DEF InvitationRecord
<1> QED
  BY <1>1, <1>3, <1>5, <1>6, <1>7, <1>8, <1>9, AuthorityStep

LEMMA OperatorStep == ASSUME SessionInv, OperatorChanges PROVE SessionInv'
<1> USE SessionConstants
<1>1. /\ UNCHANGED <<hour, session, requestPc, wants, seen, token, grant>>
      /\ operator' = operator + 1 /\ operator < MaxOperator
      /\ overtaken' = overtaken \cup
           {q \in Browsers : /\ requestPc[q] \in {"issue", "again"}
                              /\ ~(invitation'.enabled /\ hour < invitation'.expiry)}
  BY DEF OperatorChanges
<1>2. /\ hour \in 1..MaxTime /\ operator \in 0..MaxOperator /\ invitation \in InvitationRecord
      /\ session \in [Browsers -> SessionRecord] /\ overtaken \subseteq Browsers /\ hour \in Nat
  BY SessionFacts DEF SessionInv, SessionsHold, SessionTypeOK
<1>3. /\ invitation' \in InvitationRecord /\ invitation'.count = invitation.count
      /\ invitation'.enabled => invitation.enabled
      /\ invitation'.expiry <= invitation.expiry
  <2>1. CASE invitation' = [invitation EXCEPT !.enabled = FALSE]
    <3>1. invitation' \in InvitationRecord
      BY <1>2, <2>1 DEF InvitationRecord
    <3>3. invitation.expiry \in Nat
      BY <1>2 DEF InvitationRecord
    <3>2. /\ invitation'.count = invitation.count /\ invitation'.expiry = invitation.expiry
          /\ ~invitation'.enabled
      BY <1>2, <2>1 DEF InvitationRecord
    <3> QED
      BY <3>1, <3>2, <3>3
  <2>2. CASE \E e \in 1..(invitation.expiry - 1) : invitation' = [invitation EXCEPT !.expiry = e]
    BY <1>2, <2>2 DEF InvitationRecord
  <2>3. CASE \E n \in 1..(invitation.limit - 1) : invitation' = [invitation EXCEPT !.limit = n]
    BY <1>2, <2>3 DEF InvitationRecord
  <2> QED
    BY <2>1, <2>2, <2>3 DEF OperatorChanges
<1>4. operator' \in 0..MaxOperator /\ overtaken' \subseteq Browsers
  BY <1>1, <1>2
<1>5. \A t \in Browsers : Exists(t)' <=> Exists(t)
  BY <1>1 DEF Exists
<1>6. \A q \in overtaken' \ overtaken :
           /\ requestPc[q] \in {"issue", "again"}
           /\ ~(invitation'.enabled /\ hour' < invitation'.expiry)
  BY <1>1
<1>8. /\ hour' \in 1..MaxTime /\ hour <= hour' /\ session' \in [Browsers -> SessionRecord]
      /\ UNCHANGED <<requestPc, wants, seen, token, grant>>
  BY <1>1, <1>2
<1>9. \A s \in Browsers : /\ session'[s].created = session[s].created
                          /\ session'[s].expiry = session[s].expiry
                          /\ session[s].revoked => session'[s].revoked
                          /\ Exists(s)' <=> Exists(s)
  BY <1>1, <1>5
<1>10. \A q \in overtaken' \ overtaken :
           /\ requestPc[q] \in {"issue", "again"}
           /\ \/ wants[q] \in Browsers /\ session'[wants[q]].revoked
              \/ ~(invitation'.enabled /\ hour' < invitation'.expiry)
  BY <1>6
<1> QED
  <2>1. /\ invitation'.enabled => invitation.enabled
        /\ invitation'.expiry <= invitation.expiry
    BY <1>3
  <2> HIDE SessionConstants
  <2> QED
    BY <1>3, <1>4, <1>8, <1>9, <1>10, <2>1, AuthorityStep

LEMMA SessionInvStep == ASSUME SessionInv, [SessionNext]_sessionVars PROVE SessionInv'
<1>1. CASE SessionTick \/ UNCHANGED sessionVars
  <2>1. /\ UNCHANGED <<invitation, session, requestPc, wants, seen, token, grant, overtaken,
                       operator>>
        /\ hour' = hour \/ (hour < MaxTime /\ hour' = hour + 1)
    BY <1>1 DEF SessionTick, sessionVars
  <2>2. /\ hour \in 1..MaxTime /\ operator \in 0..MaxOperator /\ invitation \in InvitationRecord
        /\ session \in [Browsers -> SessionRecord] /\ overtaken \subseteq Browsers
        /\ invitation.expiry \in Nat
    BY SessionFacts, SessionConstants DEF SessionInv, SessionsHold, SessionTypeOK, InvitationRecord
  <2>3. hour' \in 1..MaxTime /\ hour <= hour'
    BY <2>1, <2>2, SessionConstants
  <2>4. \A t \in Browsers : Exists(t)' <=> Exists(t)
    BY <2>1 DEF Exists
  <2> QED
    BY <2>1, <2>2, <2>3, <2>4, AuthorityStep
<1> QED
  BY <1>1, BeginStep, LogoutStep, IssueStep, ReserveStep, LookStep, DeliverStep, UnavailableStep,
     OperatorStep DEF SessionNext

\* Sessions hold: there are as many as redemptions were counted, none outlives its invitation,
\* the campaign or its four hours, and a logout or a revocation that comes while a request waits
\* for Cognito keeps the token from it (reserve, refresh).
THEOREM SessionsAlwaysHold == SessionSpec => []SessionsHold
<1>1. SessionInv => SessionsHold
  BY DEF SessionInv
<1> QED
  BY <1>1, SessionInvInit, SessionInvStep, PTL DEF SessionSpec
=============================================================================
