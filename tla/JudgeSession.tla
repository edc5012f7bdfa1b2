---------------------------- MODULE JudgeSession ----------------------------
(***************************************************************************)
(* The session broker of judge_session/: an invitation is redeemed a       *)
(* bounded number of times for sessions, a session renews the access token *)
(* its browser holds, and is revoked at logout.  Every request reads the   *)
(* table, calls Cognito, and reads or writes the table again, while the    *)
(* operator, other requests and the clock go on.                           *)
(***************************************************************************)
EXTENDS Naturals, FiniteSets

CONSTANTS
  Browsers,    \* requests; the session a redemption creates has its name
  Redemptions, \* redemption_limit of the invitation
  InviteEnd,   \* expires_at of the invitation
  Campaign,    \* campaign_expires_at
  Duration,    \* duration_seconds (4 h)
  TokenLife,   \* longest life of an access token (1 h)
  MaxTime,     \* bound: the clock
  MaxOperator, \* bound: changes of the invitation by the operator
  Nothing

ASSUME SessionAssumption ==
  /\ {Nothing, "redeem"} \cap Browsers = {} /\ Nothing # "redeem" /\ Redemptions \in Nat \ {0}
  /\ Campaign \in Nat /\ InviteEnd \in 1..Campaign
  /\ Duration \in Nat \ {0} /\ TokenLife \in Nat \ {0} /\ MaxTime \in Nat \ {0}
  /\ MaxOperator \in Nat

VARIABLES
  hour,       \* the clock
  invitation, \* the row INVITE#: enabled, expiry, limit, count
  session,    \* the row SESSION# of each redemption
  requestPc,  \* where a request stands
  wants,      \* "redeem", or the session its cookie names
  seen,       \* the row it has read: an invitation, or a session
  token,      \* when the access token it was issued ends
  grant,      \* what it answered: a token good until then, or "none", "denied", "unavailable"
  overtaken,  \* requests whose session, or invitation, was revoked before they looked again
  operator    \* changes by the operator

sessionVars ==
  <<hour, invitation, session, requestPc, wants, seen, token, grant, overtaken, operator>>

NoSession == [created |-> 0, expiry |-> 0, revoked |-> FALSE]

SessionInit ==
  /\ hour = 1
  /\ invitation = [enabled |-> TRUE, expiry |-> InviteEnd, limit |-> Redemptions, count |-> 0]
  /\ session = [q \in Browsers |-> NoSession]
  /\ requestPc = [q \in Browsers |-> "new"] /\ wants = [q \in Browsers |-> Nothing]
  /\ seen = [q \in Browsers |-> Nothing] /\ token = [q \in Browsers |-> 0]
  /\ grant = [q \in Browsers |-> [is |-> "none", until |-> 0]]
  /\ overtaken = {} /\ operator = 0

Exists(s) == session[s] # NoSession
Rows == UNCHANGED <<hour, invitation, session, operator>>
Goto(q, label) == requestPc' = [requestPc EXCEPT ![q] = label]

\* Answer, and forget what was read.
Answer(q, is, until) ==
  /\ Goto(q, "done")
  /\ grant' = [grant EXCEPT ![q] = [is |-> is, until |-> until]]
  /\ seen' = [seen EXCEPT ![q] = Nothing] /\ token' = [token EXCEPT ![q] = 0]

-----------------------------------------------------------------------------
(* What a row must be to be used.                                          *)

\* Invitation.read: enabled, not over, and for a redemption not used up.
Invites(redeem) ==
  /\ invitation.enabled /\ invitation.count <= invitation.limit /\ hour < invitation.expiry
  /\ redeem => invitation.count < invitation.limit

\* Session.read.
Holds(s) ==
  /\ Exists(s) /\ ~session[s].revoked /\ hour < session[s].expiry
  /\ session[s].expiry <= session[s].created + Duration /\ session[s].expiry <= Campaign

\* _session: the session, and the invitation it came from.
Valid(s) ==
  hour < Campaign /\ Holds(s) /\ Invites(FALSE) /\ session[s].expiry <= invitation.expiry

-----------------------------------------------------------------------------
(* Requests.                                                               *)

\* A browser has an invitation, or the cookie of a session.
BeginRedeem(q) ==
  /\ requestPc[q] = "new" /\ wants' = [wants EXCEPT ![q] = "redeem"] /\ Rows /\ UNCHANGED overtaken
  /\ \/ hour < Campaign /\ Invites(TRUE) /\ Goto(q, "issue")
        /\ seen' = [seen EXCEPT ![q] = invitation] /\ UNCHANGED <<token, grant>>
     \/ ~(hour < Campaign /\ Invites(TRUE)) /\ Answer(q, "denied", 0)

BeginRefresh(q) ==
  /\ requestPc[q] = "new" /\ Rows /\ UNCHANGED overtaken
  /\ \E s \in Browsers \ {q} :
       /\ Exists(s) /\ wants' = [wants EXCEPT ![q] = s]
       /\ \/ Valid(s) /\ Goto(q, "issue")
             /\ seen' = [seen EXCEPT ![q] = session[s]] /\ UNCHANGED <<token, grant>>
          \/ ~Valid(s) /\ Answer(q, "denied", 0)

\* Requests on this session that have yet to look at it again.
Waiting(s) == {q \in Browsers : wants[q] = s /\ requestPc[q] \in {"issue", "again"}}

Logout(s) ==
  /\ Exists(s) /\ session' = [session EXCEPT ![s].revoked = TRUE]
  /\ overtaken' = overtaken \cup Waiting(s)
  /\ UNCHANGED <<hour, invitation, requestPc, wants, seen, token, grant, operator>>

\* The seed is read, Cognito refreshes it, the token is verified; it may outlive the session.
Issue(q) ==
  /\ requestPc[q] = "issue" /\ Rows /\ UNCHANGED <<wants, overtaken>>
  /\ \/ \E life \in 1..TokenLife :
          /\ hour < Campaign /\ token' = [token EXCEPT ![q] = hour + life]
          /\ Goto(q, "again") /\ UNCHANGED <<seen, grant>>
     \/ Answer(q, "unavailable", 0)

Earliest(S) == CHOOSE n \in S : \A m \in S : n <= m

\* Where a new session ends.
Ends(q) == Earliest({hour + Duration, seen[q].expiry, Campaign})

\* The condition of the transaction, on the row as it is.
Reservable(q) ==
  /\ invitation.enabled /\ invitation.expiry = seen[q].expiry /\ hour < invitation.expiry
  /\ invitation.limit = seen[q].limit /\ invitation.count < invitation.limit

\* The count and the session in one transaction; its answer may be lost.
ReserveRedemption(q) ==
  /\ requestPc[q] = "again" /\ wants[q] = "redeem" /\ UNCHANGED <<hour, wants, overtaken, operator>>
  /\ \/ ~(hour < Campaign /\ hour < Ends(q) /\ Reservable(q)) /\ Answer(q, "denied", 0)
        /\ UNCHANGED <<invitation, session>>
     \/ /\ hour < Campaign /\ hour < Ends(q) /\ Reservable(q)
        /\ invitation' = [invitation EXCEPT !.count = @ + 1]
        /\ session' = [session EXCEPT ![q] =
                         [created |-> hour, expiry |-> Ends(q), revoked |-> FALSE]]
        /\ \/ Goto(q, "answer") /\ UNCHANGED <<seen, token, grant>>
           \/ Answer(q, "unavailable", 0)

\* Mutant of LookAgain: the session read before the call to Cognito is trusted.
LookAgainNot(q) ==
  /\ requestPc[q] = "again" /\ wants[q] \in Browsers /\ Rows /\ UNCHANGED <<wants, overtaken>>
  /\ Goto(q, "answer") /\ UNCHANGED <<seen, token, grant>>

\* refresh reads the session again: it must be valid, and the one it was.
LookAgain(q) ==
  /\ requestPc[q] = "again" /\ wants[q] \in Browsers /\ Rows /\ UNCHANGED <<wants, overtaken>>
  /\ LET s == wants[q] IN
     \/ Valid(s) /\ session[s] = seen[q] /\ Goto(q, "answer") /\ UNCHANGED <<seen, token, grant>>
     \/ ~(Valid(s) /\ session[s] = seen[q]) /\ Answer(q, "denied", 0)

\* The session a request answers for.
Its(q) == IF wants[q] = "redeem" THEN session[q] ELSE seen[q]

\* The answer: what is left of the token, or of the session when that is less.
Deliver(q) ==
  /\ requestPc[q] = "answer" /\ Rows /\ UNCHANGED <<wants, overtaken>>
  /\ \/ hour < Its(q).expiry /\ hour < token[q]
        /\ Answer(q, "token", Earliest({token[q], Its(q).expiry}))
     \/ hour >= Its(q).expiry /\ Answer(q, "denied", 0)
     \/ hour < Its(q).expiry /\ hour >= token[q] /\ Answer(q, "unavailable", 0)

\* The table cannot be read, or the invocation dies.
Unavailable(q) ==
  /\ requestPc[q] \in {"issue", "again", "answer"} /\ Rows /\ UNCHANGED <<wants, overtaken>>
  /\ Answer(q, "unavailable", 0)

-----------------------------------------------------------------------------
(* The operator and the clock.                                             *)

\* The invitation is disabled, ends sooner, or may be redeemed less often.
OperatorChanges ==
  /\ operator < MaxOperator /\ operator' = operator + 1
  /\ \/ invitation' = [invitation EXCEPT !.enabled = FALSE]
     \/ \E e \in 1..(invitation.expiry - 1) : invitation' = [invitation EXCEPT !.expiry = e]
     \/ \E n \in 1..(invitation.limit - 1) : invitation' = [invitation EXCEPT !.limit = n]
  /\ overtaken' = overtaken \cup
       {q \in Browsers : /\ requestPc[q] \in {"issue", "again"}
                          /\ ~(invitation'.enabled /\ hour < invitation'.expiry)}
  /\ UNCHANGED <<hour, session, requestPc, wants, seen, token, grant>>

SessionTick ==
  /\ hour < MaxTime /\ hour' = hour + 1
  /\ UNCHANGED <<invitation, session, requestPc, wants, seen, token, grant, overtaken, operator>>

SessionNext ==
  \/ \E q \in Browsers :
       \/ BeginRedeem(q) \/ BeginRefresh(q) \/ Logout(q) \/ Issue(q) \/ ReserveRedemption(q)
       \/ LookAgain(q) \/ Deliver(q) \/ Unavailable(q)
  \/ OperatorChanges \/ SessionTick

SessionSpec == SessionInit /\ [][SessionNext]_sessionVars

-----------------------------------------------------------------------------
(* Properties.                                                             *)

\* The variables stay in their types, and a request that answers for a new session has it.
SessionTypeOK ==
  /\ hour \in 1..MaxTime /\ operator \in 0..MaxOperator /\ overtaken \subseteq Browsers
  /\ invitation \in [enabled : BOOLEAN, expiry : 1..InviteEnd,
                     limit : 1..Redemptions, count : 0..Redemptions]
  /\ session \in [Browsers -> [created : 0..MaxTime, expiry : 0..Campaign, revoked : BOOLEAN]]
  /\ requestPc \in [Browsers -> {"new", "issue", "again", "answer", "done"}]
  /\ wants \in [Browsers -> Browsers \cup {"redeem", Nothing}]
  /\ \A q \in Browsers : requestPc[q] = "answer" => Its(q).expiry > 0 /\ token[q] > 0

\* However many browsers redeem at once and lose their answers, there are as many sessions as
\* redemptions were counted, and no more than the operator ever allowed.  (reserve)
RedemptionsHeld ==
  /\ Cardinality({s \in Browsers : Exists(s)}) = invitation.count
  /\ invitation.count <= Redemptions

\* A logout or a revocation that comes while a request waits for Cognito wins: that request gets
\* no token.  (refresh, the second _session; reserve)
LogoutWins == \A q \in overtaken : grant[q].is # "token"

\* What a browser is told of its token never outlives its session, and no session outlives the
\* campaign, the invitation it was redeemed from, or four hours.  (redeem, JudgeSessionHandler)
GrantBounded ==
  \A q \in Browsers :
    LET s == IF wants[q] = "redeem" THEN q ELSE wants[q] IN
    /\ grant[q].is = "token" => grant[q].until <= session[s].expiry
    /\ session[q].expiry <= InviteEnd /\ session[q].expiry <= session[q].created + Duration

\* Sessions hold: as many as were redeemed, none longer than it may be, none against a logout.
SessionsHold == SessionTypeOK /\ RedemptionsHeld /\ LogoutWins /\ GrantBounded
=============================================================================
