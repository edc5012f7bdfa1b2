-------------------------- MODULE PublicationProofs --------------------------
(***************************************************************************)
(* Publication for any number of workers, faults and redrives, any budgets *)
(* and any deadline: at most one POST, nothing sent for a failed request,  *)
(* no accepted outcome and no publication that is not true of the provider,*)
(* and PublicationMachine implements PublicationPromise.                   *)
(*                                                                         *)
(* The argument: the permit is consumed by the command that appends the    *)
(* only publish claim, so there is one such claim; its grant went to one   *)
(* worker, and no worker obtains a grant twice; so the worker that may     *)
(* still send the POST is the only one, and it has not sent it.            *)
(***************************************************************************)
EXTENDS PublicationMachine, TLAPS

CallRecords == [purpose : Purposes \cup {"none"}, audited : BOOLEAN,
                evidence : Evidence, consumed : BOOLEAN]

AuthorityTyped ==
  /\ now \in 0..Deadline /\ touched \in 0..now
  /\ state \in {"requested"} \cup AfterPost \cup Terminal
  /\ permit \in {"available", "consumed", "retired"}
  /\ work \in {"pending", "dispatched", "verifying", "reconciling",
               "succeeded", "failed", "outcome_unknown"}
  /\ reconstructed \in BOOLEAN /\ proven \in BOOLEAN
  /\ post \in {"none", "accepted", "ambiguous"}
  /\ call \in [CallId -> CallRecords]
  /\ shopGets \in 0..ShopLimit /\ productGets \in 0..ProductLimit /\ publishPosts \in 0..1
  /\ claims = shopGets + productGets + publishPosts

Labels == {"idle", "running", "prepared", "granted", "validated", "audited", "answered"}

FlowTyped ==
  /\ exec \in {"none", "running", "failed", "exhausted", "succeeded"}
  /\ task \in Workers \cup {NoWorker}
  /\ polls \in 0..PollBudget /\ redrives \in 0..MaxRedrives /\ faults \in 0..MaxFaults

WorkersTyped ==
  /\ pc \in [Workers -> Labels]
  /\ grant \in [Workers -> 0..claims] /\ answer \in [Workers -> Evidence]
  /\ sent \in Nat /\ listing \in {"absent", "taken", "live"}

\* The permit is consumed with the only publish claim, and the state goes with it.
PermitPart ==
  /\ publishPosts = 1 <=> permit = "consumed"
  /\ permit = "consumed" => proven
  /\ state = "failed" => permit = "retired"
  /\ state \in AfterPost \cup {"published", "unknown"} => permit = "consumed"
  /\ \A c \in CallId : call[c].purpose = "publish" => permit = "consumed"
  /\ \A c, d \in CallId : call[c].purpose = "publish" /\ call[d].purpose = "publish" => c = d

\* What is staged for a call is of its purpose; a consumed proof ends the request.
EvidencePart ==
  /\ \A c \in CallId :
       call[c].evidence # "none" => call[c].evidence \in EvidenceOf(call[c].purpose)
  /\ \A c \in CallId : call[c].consumed => call[c].evidence # "none"
  /\ state = "published" <=> \E c \in CallId : call[c].evidence = "proof" /\ call[c].consumed

AuthorityInv == AuthorityTyped /\ PermitPart /\ EvidencePart

\* A command that claims and stages nothing keeps the calls, and a consumed permit.
Keeps ==
  /\ claims' = claims
  /\ permit = "consumed" => permit' = "consumed"
  /\ \A c \in CallId : /\ call'[c].purpose = call[c].purpose
                       /\ call'[c].evidence = call[c].evidence

-----------------------------------------------------------------------------
(* The commands, one lemma each.                                           *)

LEMMA NextCall ==
  ASSUME AuthorityTyped, shopGets < ShopLimit \/ productGets < ProductLimit \/ publishPosts = 0
  PROVE  claims \in Nat /\ claims + 1 \in CallId
BY PublicationAssumption DEF AuthorityTyped, CallId

\* Consuming evidence keeps the calls but for their consumption.
LEMMA ConsumeKeeps ==
  ASSUME AuthorityTyped, NEW S, Consume(S)
  PROVE  /\ call' \in [CallId -> CallRecords]
         /\ \A c \in CallId : /\ call'[c].purpose = call[c].purpose
                              /\ call'[c].evidence = call[c].evidence
                              /\ call'[c].consumed <=> (call[c].consumed \/ c \in S)
         /\ UNCHANGED <<claims, shopGets, productGets, publishPosts>>
<1>1. ASSUME NEW c \in CallId
      PROVE  /\ call'[c] \in CallRecords
             /\ call'[c].purpose = call[c].purpose
             /\ call'[c].evidence = call[c].evidence
             /\ call'[c].consumed <=> (call[c].consumed \/ c \in S)
  <2>1. call[c] \in CallRecords BY DEF AuthorityTyped
  <2>2. CASE c \in S
    <3>1. call'[c] = [call[c] EXCEPT !.consumed = TRUE] BY <2>2 DEF Consume
    <3> QED BY <2>1, <2>2, <3>1 DEF CallRecords
  <2>3. CASE c \notin S
    <3>1. call'[c] = call[c] BY <2>3 DEF Consume
    <3> QED BY <2>1, <2>3, <3>1
  <2> QED BY <2>2, <2>3
<1>2. call' = [c \in CallId |-> call'[c]] BY DEF Consume
<1>3. call' \in [CallId -> CallRecords] BY <1>1, <1>2
<1> QED BY <1>1, <1>3 DEF Consume

\* A claim is a fresh record at the end.
LEMMA AppendAdds ==
  ASSUME AuthorityTyped, claims + 1 \in CallId, NEW p \in Purposes, AppendClaim(p)
  PROVE  /\ call' \in [CallId -> CallRecords]
         /\ claims' = claims + 1
         /\ call'[claims + 1].purpose = p /\ call'[claims + 1].evidence = "none"
         /\ ~call'[claims + 1].consumed
         /\ \A c \in CallId : c # claims + 1 => call'[c] = call[c]
BY DEF AuthorityTyped, AppendClaim, NewCall, CallRecords, Evidence

LEMMA CommitTyped ==
  ASSUME AuthorityTyped, Commit
  PROVE  now' \in 0..Deadline /\ touched' \in 0..now' 
BY DEF AuthorityTyped, Commit

LEMMA DispatchWorkStep ==
  ASSUME AuthorityInv, DispatchWork
  PROVE  AuthorityInv' /\ Keeps
<1>1. AuthorityTyped'
  BY CommitTyped DEF AuthorityInv, AuthorityTyped, DispatchWork, attemptVars
<1>2. PermitPart' BY DEF AuthorityInv, PermitPart, DispatchWork, attemptVars
<1>3. EvidencePart' BY DEF AuthorityInv, EvidencePart, DispatchWork, attemptVars
<1>4. Keeps BY DEF Keeps, DispatchWork, attemptVars
<1> QED BY <1>1, <1>2, <1>3, <1>4 DEF AuthorityInv

LEMMA ReconstructStep ==
  ASSUME AuthorityInv, NEW t, ReconstructAuthority(t)
  PROVE  AuthorityInv' /\ Keeps
<1>1. AuthorityTyped'
  BY CommitTyped DEF AuthorityInv, AuthorityTyped, ReconstructAuthority, attemptVars
<1>2. PermitPart' BY DEF AuthorityInv, PermitPart, ReconstructAuthority, attemptVars
<1>3. EvidencePart' BY DEF AuthorityInv, EvidencePart, ReconstructAuthority, attemptVars
<1>4. Keeps BY DEF Keeps, ReconstructAuthority, attemptVars
<1> QED BY <1>1, <1>2, <1>3, <1>4 DEF AuthorityInv

\* A claim that is not a publish claim disturbs neither the permit nor what was staged.
LEMMA GetClaimKeeps ==
  ASSUME AuthorityInv, claims + 1 \in CallId, NEW p \in Purposes \ {"publish"}, AppendClaim(p),
         UNCHANGED <<state, permit, proven, publishPosts>>, state # "published"
  PROVE  PermitPart' /\ EvidencePart'
<1>1. AuthorityTyped BY DEF AuthorityInv
<1>2. /\ call'[claims + 1].purpose = p /\ call'[claims + 1].evidence = "none"
      /\ ~call'[claims + 1].consumed
      /\ \A c \in CallId : c # claims + 1 => call'[c] = call[c]
  BY <1>1, AppendAdds
<1>3. PermitPart' BY <1>2 DEF AuthorityInv, PermitPart
<1>4. EvidencePart' BY <1>2 DEF AuthorityInv, EvidencePart
<1> QED BY <1>3, <1>4

LEMMA ClaimShopGetStep ==
  ASSUME AuthorityInv, NEW t, ClaimShopGet(t)
  PROVE  AuthorityInv' /\ claims' = claims + 1 /\ claims + 1 \in CallId
<1>1. /\ shopGets < ShopLimit /\ shopGets' = shopGets + 1 /\ AppendClaim("shop") /\ Commit
      /\ UNCHANGED <<state, permit, work, reconstructed, proven, post, productGets, publishPosts>>
      /\ state # "published"
  BY DEF ClaimShopGet, RequestedDispatched
<1>2. AuthorityTyped /\ claims \in Nat /\ claims + 1 \in CallId
  BY <1>1, NextCall DEF AuthorityInv
<1>3. "shop" \in Purposes \ {"publish"} BY DEF Purposes
<1>4. call' \in [CallId -> CallRecords] /\ claims' = claims + 1
  BY <1>1, <1>2, <1>3, AppendAdds
<1>5. AuthorityTyped'
  BY <1>1, <1>2, <1>4, CommitTyped, PublicationAssumption DEF AuthorityTyped
<1>6. PermitPart' /\ EvidencePart' BY <1>1, <1>2, <1>3, GetClaimKeeps
<1> QED BY <1>2, <1>4, <1>5, <1>6 DEF AuthorityInv

LEMMA ClaimProductGetStep ==
  ASSUME AuthorityInv, NEW p, NEW t, ClaimProductGet(p, t)
  PROVE  AuthorityInv' /\ claims' = claims + 1 /\ claims + 1 \in CallId
<1>1. /\ productGets < ProductLimit /\ productGets' = productGets + 1 /\ AppendClaim(p) /\ Commit
      /\ UNCHANGED <<state, permit, work, reconstructed, proven, post, shopGets, publishPosts>>
      /\ p \in {"preflight", "verify", "reconcile"} /\ state # "published"
  BY DEF ClaimProductGet, RequestedDispatched
<1>2. AuthorityTyped /\ claims \in Nat /\ claims + 1 \in CallId
  BY <1>1, NextCall DEF AuthorityInv
<1>3. p \in Purposes \ {"publish"} BY <1>1 DEF Purposes
<1>4. call' \in [CallId -> CallRecords] /\ claims' = claims + 1
  BY <1>1, <1>2, <1>3, AppendAdds
<1>5. AuthorityTyped'
  BY <1>1, <1>2, <1>4, CommitTyped, PublicationAssumption DEF AuthorityTyped
<1>6. PermitPart' /\ EvidencePart' BY <1>1, <1>2, <1>3, GetClaimKeeps
<1> QED BY <1>2, <1>4, <1>5, <1>6 DEF AuthorityInv

LEMMA ClaimPublishStep ==
  ASSUME AuthorityInv, NEW t, ClaimPublish(t)
  PROVE  AuthorityInv' /\ claims' = claims + 1 /\ claims + 1 \in CallId
<1>1. /\ publishPosts = 0 /\ publishPosts' = 1 /\ AppendClaim("publish") /\ Commit
      /\ permit = "available" /\ permit' = "consumed" /\ proven /\ state = "requested"
      /\ UNCHANGED <<state, work, reconstructed, proven, post, shopGets, productGets>>
  BY DEF ClaimPublish, RequestedDispatched
<1>2. AuthorityTyped /\ claims \in Nat /\ claims + 1 \in CallId
  BY <1>1, NextCall DEF AuthorityInv
<1>3. "publish" \in Purposes BY DEF Purposes
<1>4. /\ call' \in [CallId -> CallRecords] /\ claims' = claims + 1
      /\ call'[claims + 1].purpose = "publish" /\ call'[claims + 1].evidence = "none"
      /\ ~call'[claims + 1].consumed
      /\ \A c \in CallId : c # claims + 1 => call'[c] = call[c]
  BY <1>1, <1>2, <1>3, AppendAdds
<1>5. AuthorityTyped' BY <1>1, <1>2, <1>4, CommitTyped DEF AuthorityTyped
<1>6. PermitPart' BY <1>1, <1>4 DEF AuthorityInv, PermitPart, AfterPost
<1>7. EvidencePart' BY <1>1, <1>4 DEF AuthorityInv, EvidencePart
<1> QED BY <1>2, <1>4, <1>5, <1>6, <1>7 DEF AuthorityInv

\* What a command that consumes evidence or settles has to show.
LEMMA SettledKeeps ==
  ASSUME AuthorityInv, Commit,
         UNCHANGED <<reconstructed, claims, shopGets, productGets, publishPosts>>,
         call' \in [CallId -> CallRecords],
         \A c \in CallId : /\ call'[c].purpose = call[c].purpose
                           /\ call'[c].evidence = call[c].evidence,
         state' \in {"requested"} \cup AfterPost \cup Terminal,
         permit' \in {"available", "consumed", "retired"},
         permit' = "consumed" <=> permit = "consumed",
         work' \in {"pending", "dispatched", "verifying", "reconciling",
                    "succeeded", "failed", "outcome_unknown"},
         proven' \in BOOLEAN, proven => proven', post' \in {"none", "accepted", "ambiguous"},
         state' = "failed" => permit' = "retired",
         state' \in AfterPost \cup {"published", "unknown"} => permit' = "consumed",
         \A c \in CallId : call'[c].consumed => call[c].consumed \/ call[c].evidence # "none",
         state' = "published" <=> \E c \in CallId : call'[c].evidence = "proof" /\ call'[c].consumed
  PROVE  AuthorityInv' /\ Keeps
<1>1. AuthorityTyped' BY CommitTyped DEF AuthorityInv, AuthorityTyped
<1>2. PermitPart' BY DEF AuthorityInv, PermitPart
<1>3. EvidencePart' BY DEF AuthorityInv, EvidencePart
<1> QED BY <1>1, <1>2, <1>3 DEF AuthorityInv, Keeps

LEMMA RecordPreflightStep ==
  ASSUME AuthorityInv, NEW s \in CallId, NEW p \in CallId, NEW t, RecordPreflight(s, p, t)
  PROVE  AuthorityInv' /\ Keeps
<1>1. /\ Consume({s, p}) /\ Commit /\ proven' = TRUE /\ state = "requested"
      /\ call[s].evidence = "good" /\ call[p].evidence = "good"
      /\ UNCHANGED <<state, permit, work, reconstructed, post>>
  BY DEF RecordPreflight, RequestedDispatched
<1>2. /\ call' \in [CallId -> CallRecords]
      /\ \A c \in CallId : /\ call'[c].purpose = call[c].purpose
                           /\ call'[c].evidence = call[c].evidence
                           /\ call'[c].consumed <=> (call[c].consumed \/ c \in {s, p})
      /\ UNCHANGED <<claims, shopGets, productGets, publishPosts>>
  BY <1>1, ConsumeKeeps DEF AuthorityInv
<1>3. ~\E c \in CallId : call'[c].evidence = "proof" /\ call'[c].consumed
  BY <1>1, <1>2 DEF AuthorityInv, EvidencePart
<1> QED BY <1>1, <1>2, <1>3, SettledKeeps DEF AuthorityInv, AuthorityTyped, PermitPart

\* Settling closes the permit that was not consumed.
LEMMA SettleTyped ==
  ASSUME AuthorityTyped, NEW o \in Terminal, Settle(o)
  PROVE  /\ state' = o
         /\ permit' \in {"available", "consumed", "retired"}
         /\ permit' = "consumed" <=> permit = "consumed"
         /\ permit = "available" => permit' = "retired"
         /\ work' \in {"succeeded", "failed", "outcome_unknown"}
BY DEF AuthorityTyped, Settle, Terminal

LEMMA SettlePreflightFailureStep ==
  ASSUME AuthorityInv, NEW k \in CallId, NEW t, SettlePreflightFailure(k, t)
  PROVE  AuthorityInv' /\ Keeps
<1>1. /\ Consume({k}) /\ Commit /\ Settle("failed") /\ state = "requested"
      /\ permit = "available" /\ call[k].evidence = "bad"
      /\ UNCHANGED <<reconstructed, proven, post>>
  BY DEF SettlePreflightFailure, RequestedDispatched, PreCall
<1>2. /\ call' \in [CallId -> CallRecords]
      /\ \A c \in CallId : /\ call'[c].purpose = call[c].purpose
                           /\ call'[c].evidence = call[c].evidence
                           /\ call'[c].consumed <=> (call[c].consumed \/ c \in {k})
      /\ UNCHANGED <<claims, shopGets, productGets, publishPosts>>
  BY <1>1, ConsumeKeeps DEF AuthorityInv
<1>3. ~\E c \in CallId : call'[c].evidence = "proof" /\ call'[c].consumed
  BY <1>1, <1>2 DEF AuthorityInv, EvidencePart
<1>4. AuthorityTyped /\ "failed" \in Terminal BY DEF AuthorityInv, Terminal
<1>5. /\ state' = "failed" /\ permit' = "retired"
      /\ work' \in {"succeeded", "failed", "outcome_unknown"}
  BY <1>1, <1>4, SettleTyped
<1> QED BY <1>1, <1>2, <1>3, <1>4, <1>5, SettledKeeps DEF AuthorityTyped, AfterPost, Terminal

LEMMA RecordPostOutcomeStep ==
  ASSUME AuthorityInv, NEW k \in CallId, RecordPostOutcome(k)
  PROVE  AuthorityInv' /\ Keeps /\ post' = call[k].evidence
<1>1. /\ Consume({k}) /\ Commit /\ state = "requested" /\ permit = "consumed"
      /\ call[k].purpose = "publish" /\ call[k].evidence # "none" /\ post' = call[k].evidence
      /\ state' \in AfterPost /\ work' = state'
      /\ UNCHANGED <<permit, reconstructed, proven>>
  BY DEF RecordPostOutcome, RequestedDispatched, Unconsumed, AfterPost
<1>2. /\ call' \in [CallId -> CallRecords]
      /\ \A c \in CallId : /\ call'[c].purpose = call[c].purpose
                           /\ call'[c].evidence = call[c].evidence
                           /\ call'[c].consumed <=> (call[c].consumed \/ c \in {k})
      /\ UNCHANGED <<claims, shopGets, productGets, publishPosts>>
  BY <1>1, ConsumeKeeps DEF AuthorityInv
<1>3. call[k].evidence \in {"accepted", "ambiguous"}
  BY <1>1 DEF AuthorityInv, EvidencePart, EvidenceOf, PreflightPurposes
<1>4. ~\E c \in CallId : call'[c].evidence = "proof" /\ call'[c].consumed
  BY <1>1, <1>2, <1>3 DEF AuthorityInv, EvidencePart
<1> QED BY <1>1, <1>2, <1>3, <1>4, SettledKeeps DEF AuthorityInv, AuthorityTyped, AfterPost

LEMMA RecoverConsumedClaimStep ==
  ASSUME AuthorityInv, RecoverConsumedClaim
  PROVE  AuthorityInv' /\ Keeps
<1>1. /\ Commit /\ state = "requested" /\ permit = "consumed" /\ post' = "ambiguous"
      /\ state' = "reconciling" /\ work' = "reconciling"
      /\ UNCHANGED <<permit, reconstructed, proven, call, claims, shopGets, productGets,
                     publishPosts>>
  BY DEF RecoverConsumedClaim, RequestedDispatched, attemptVars
<1>2. ~\E c \in CallId : call'[c].evidence = "proof" /\ call'[c].consumed
  BY <1>1 DEF AuthorityInv, EvidencePart
<1> QED BY <1>1, <1>2, SettledKeeps DEF AuthorityInv, AuthorityTyped, AfterPost

LEMMA RecordProductObservationStep ==
  ASSUME AuthorityInv, NEW k \in CallId, NEW t, RecordProductObservation(k, t)
  PROVE  /\ AuthorityInv' /\ Keeps
         /\ \/ state' = "published" /\ call[k].evidence = "proof"
            \/ state' \in {state, "unknown"}
<1>1. /\ Consume({k}) /\ Commit /\ state \in AfterPost /\ permit = "consumed"
      /\ call[k].evidence # "none" /\ UNCHANGED <<reconstructed, proven, post>>
      /\ IF call[k].evidence = "proof" THEN Settle("published")
         ELSE Settle("unknown") \/ UNCHANGED <<state, work, permit>>
  BY DEF RecordProductObservation, Unconsumed
<1>2. /\ call' \in [CallId -> CallRecords]
      /\ \A c \in CallId : /\ call'[c].purpose = call[c].purpose
                           /\ call'[c].evidence = call[c].evidence
                           /\ call'[c].consumed <=> (call[c].consumed \/ c \in {k})
      /\ UNCHANGED <<claims, shopGets, productGets, publishPosts>>
  BY <1>1, ConsumeKeeps DEF AuthorityInv
<1>3. AuthorityTyped /\ "published" \in Terminal /\ "unknown" \in Terminal /\ state # "published"
  BY <1>1 DEF AuthorityInv, Terminal, AfterPost
<1>4. ~\E c \in CallId : call[c].evidence = "proof" /\ call[c].consumed
  BY <1>3 DEF AuthorityInv, EvidencePart
<1>5. CASE call[k].evidence = "proof"
  <2>1. /\ state' = "published" /\ permit' = "consumed"
        /\ work' \in {"succeeded", "failed", "outcome_unknown"}
    BY <1>1, <1>3, <1>5, SettleTyped
  <2>2. \E c \in CallId : call'[c].evidence = "proof" /\ call'[c].consumed
    BY <1>2, <1>5
  <2> QED BY <1>1, <1>2, <1>3, <1>5, <2>1, <2>2, SettledKeeps DEF AuthorityTyped, Terminal
<1>6. CASE call[k].evidence # "proof"
  <2>1. /\ state' \in {state, "unknown"} /\ permit' = "consumed"
        /\ work' \in {work, "succeeded", "failed", "outcome_unknown"}
    BY <1>1, <1>3, <1>6, SettleTyped
  <2>2. ~\E c \in CallId : call'[c].evidence = "proof" /\ call'[c].consumed
    BY <1>2, <1>4, <1>6
  <2>3. state' # "published" /\ state' # "failed" /\ state' \in AfterPost \cup Terminal
    BY <1>1, <2>1 DEF AfterPost, Terminal
  <2> QED BY <1>1, <1>2, <1>3, <2>1, <2>2, <2>3, SettledKeeps DEF AuthorityTyped
<1> QED BY <1>5, <1>6

LEMMA SettleDeadlineStep ==
  ASSUME AuthorityInv, NEW t, SettleDeadline(t)
  PROVE  /\ AuthorityInv' /\ Keeps
         /\ \/ state = "requested" /\ permit = "available" /\ state' = "failed"
            \/ state \in AfterPost /\ state' = "unknown"
<1>1. /\ Commit /\ UNCHANGED <<reconstructed, proven, post, call, claims, shopGets, productGets,
                               publishPosts>>
      /\ \/ state = "requested" /\ permit = "available" /\ Settle("failed")
         \/ state \in AfterPost /\ permit = "consumed" /\ Settle("unknown")
  BY DEF SettleDeadline, attemptVars
<1>2. AuthorityTyped /\ "failed" \in Terminal /\ "unknown" \in Terminal /\ state # "published"
  BY <1>1 DEF AuthorityInv, Terminal, AfterPost
<1>3. ~\E c \in CallId : call'[c].evidence = "proof" /\ call'[c].consumed
  BY <1>1, <1>2 DEF AuthorityInv, EvidencePart
<1>4. /\ work' \in {"succeeded", "failed", "outcome_unknown"}
      /\ \/ state = "requested" /\ permit = "available" /\ state' = "failed" /\ permit' = "retired"
         \/ state \in AfterPost /\ permit = "consumed" /\ state' = "unknown" /\ permit' = "consumed"
  BY <1>1, <1>2, SettleTyped
<1>5. /\ \A c \in CallId : /\ call'[c].purpose = call[c].purpose
                           /\ call'[c].evidence = call[c].evidence
      /\ call' \in [CallId -> CallRecords] /\ post' \in {"none", "accepted", "ambiguous"}
      /\ proven' \in BOOLEAN /\ (proven => proven')
      /\ permit' \in {"available", "consumed", "retired"}
      /\ permit' = "consumed" <=> permit = "consumed"
      /\ state' \in {"failed", "unknown"} /\ state' \in AfterPost \cup Terminal
  BY <1>1, <1>2, <1>4 DEF AuthorityTyped, Terminal
<1> QED BY <1>1, <1>2, <1>3, <1>4, <1>5, SettledKeeps DEF AfterPost

\* An audit or a stage changes one call, and not its purpose.
LEMMA CallChanged ==
  ASSUME AuthorityInv, NEW c \in CallId, Commit, state \notin Terminal,
         call' \in [CallId -> CallRecords],
         \A d \in CallId \ {c} : call'[d] = call[d],
         call'[c].purpose = call[c].purpose, call'[c].consumed <=> call[c].consumed,
         call'[c].evidence \in {call[c].evidence} \cup EvidenceOf(call[c].purpose),
         call[c].evidence # "none" => call'[c].evidence = call[c].evidence,
         UNCHANGED <<state, permit, work, reconstructed, proven, post,
                     claims, shopGets, productGets, publishPosts>>
  PROVE  AuthorityInv'
<1>1. AuthorityTyped' BY CommitTyped DEF AuthorityInv, AuthorityTyped
<1>2. PermitPart' BY DEF AuthorityInv, PermitPart
<1>3. EvidencePart' BY DEF AuthorityInv, EvidencePart, Terminal
<1> QED BY <1>1, <1>2, <1>3 DEF AuthorityInv

LEMMA CommitAuditStep ==
  ASSUME AuthorityInv, NEW k \in CallId, CommitAudit(k)
  PROVE  AuthorityInv' /\ Keeps /\ UNCHANGED <<state, post>>
<1>1. CASE call[k].audited
  <2>1. UNCHANGED pubVars BY <1>1 DEF CommitAudit
  <2> QED BY <2>1 DEF pubVars, authority, attemptVars, AuthorityInv, AuthorityTyped, PermitPart,
                      EvidencePart, Keeps
<1>2. CASE ~call[k].audited
  <2>1. /\ state \notin Terminal /\ call' = [call EXCEPT ![k].audited = TRUE] /\ Commit
        /\ UNCHANGED <<state, permit, work, reconstructed, proven, post,
                       claims, shopGets, productGets, publishPosts>>
    BY <1>2 DEF CommitAudit
  <2>2. call[k] \in CallRecords /\ call \in [CallId -> CallRecords]
    BY DEF AuthorityInv, AuthorityTyped
  <2>3. /\ call' \in [CallId -> CallRecords]
        /\ \A d \in CallId \ {k} : call'[d] = call[d]
        /\ call'[k].purpose = call[k].purpose /\ call'[k].consumed = call[k].consumed
        /\ call'[k].evidence = call[k].evidence
    BY <2>1, <2>2 DEF CallRecords
  <2>4. Keeps BY <2>1, <2>3 DEF Keeps
  <2> QED BY <2>1, <2>3, <2>4, CallChanged
<1> QED BY <1>1, <1>2

LEMMA StageEvidenceStep ==
  ASSUME AuthorityInv, NEW k \in CallId, NEW e \in Evidence \ {"none"},
         e \in EvidenceOf(call[k].purpose), StageEvidence(k, e)
  PROVE  /\ AuthorityInv' /\ UNCHANGED <<state, permit, post, claims>>
         /\ \A c \in CallId : call'[c].purpose = call[c].purpose
         /\ call'[k].evidence = e
         /\ \A c \in CallId \ {k} : call'[c].evidence = call[c].evidence
<1>1. /\ state \notin Terminal /\ call' = [call EXCEPT ![k].evidence = e] /\ Commit
      /\ call[k].evidence = "none"
      /\ UNCHANGED <<state, permit, work, reconstructed, proven, post,
                     claims, shopGets, productGets, publishPosts>>
  BY DEF StageEvidence
<1>2. call[k] \in CallRecords /\ call \in [CallId -> CallRecords]
  BY DEF AuthorityInv, AuthorityTyped
<1>3. /\ call' \in [CallId -> CallRecords]
      /\ \A d \in CallId \ {k} : call'[d] = call[d]
      /\ call'[k].purpose = call[k].purpose /\ call'[k].consumed = call[k].consumed
      /\ call'[k].evidence = e
  BY <1>1, <1>2 DEF CallRecords
<1> QED BY <1>1, <1>3, CallChanged

LEMMA TickStep ==
  ASSUME AuthorityInv, Tick
  PROVE  AuthorityInv' /\ Keeps
<1>1. AuthorityTyped'
  BY PublicationAssumption DEF AuthorityInv, AuthorityTyped, Tick, authority, attemptVars
<1>2. PermitPart' /\ EvidencePart'
  BY DEF AuthorityInv, PermitPart, EvidencePart, Tick, authority, attemptVars
<1>3. Keeps BY DEF Keeps, Tick, authority, attemptVars
<1> QED BY <1>1, <1>2, <1>3 DEF AuthorityInv

-----------------------------------------------------------------------------
(* Commands by what they do to the calls and to the outcome.               *)

Recording ==
  \/ UNCHANGED pubVars \/ Tick \/ DispatchWork \/ RecoverConsumedClaim
  \/ \E t \in Reading : ReconstructAuthority(t) \/ SettleDeadline(t)
  \/ \E s, p \in CallId, t \in Reading : RecordPreflight(s, p, t)
  \/ \E c \in CallId, t \in Reading :
       SettlePreflightFailure(c, t) \/ RecordProductObservation(c, t)
  \/ \E c \in CallId : RecordPostOutcome(c) \/ CommitAudit(c)

\* An outcome is reached from no other, a failure before the POST is claimed and a
\* publication from a proof.
OutcomeStep ==
  \/ state' = state \/ (state \notin Terminal /\ state' \notin Terminal)
  \/ state \notin Terminal /\ state' = "unknown"
  \/ state \notin Terminal /\ state' = "failed" /\ permit # "consumed"
  \/ state \notin Terminal /\ state' = "published" /\ \E c \in CallId : call[c].evidence = "proof"

\* An accepted POST was so before, or is what a call had staged.
PostStep ==
  post' = "accepted" => post = "accepted" \/ \E c \in CallId : call[c].evidence = "accepted"

LEMMA RecordingStep ==
  ASSUME AuthorityInv, Recording
  PROVE  AuthorityInv' /\ Keeps /\ OutcomeStep /\ PostStep
<1>1. CASE UNCHANGED pubVars
  BY <1>1 DEF pubVars, authority, attemptVars, AuthorityInv, AuthorityTyped, PermitPart,
              EvidencePart, Keeps, OutcomeStep, PostStep
<1>2. CASE Tick
  <2>1. UNCHANGED <<state, post>> BY <1>2 DEF Tick, authority
  <2> QED BY <1>2, <2>1, TickStep DEF OutcomeStep, PostStep
<1>3. CASE DispatchWork
  <2>1. UNCHANGED <<state, post>> BY <1>3 DEF DispatchWork
  <2> QED BY <1>3, <2>1, DispatchWorkStep DEF OutcomeStep, PostStep
<1>4. CASE RecoverConsumedClaim
  <2>1. state = "requested" /\ state' = "reconciling" /\ post' = "ambiguous"
    BY <1>4 DEF RecoverConsumedClaim, RequestedDispatched
  <2> QED BY <1>4, <2>1, RecoverConsumedClaimStep DEF OutcomeStep, PostStep, Terminal
<1>5. ASSUME NEW t \in Reading, ReconstructAuthority(t)
      PROVE  AuthorityInv' /\ Keeps /\ OutcomeStep /\ PostStep
  <2>1. UNCHANGED <<state, post>> BY <1>5 DEF ReconstructAuthority
  <2> QED BY <1>5, <2>1, ReconstructStep DEF OutcomeStep, PostStep
<1>6. ASSUME NEW t \in Reading, SettleDeadline(t)
      PROVE  AuthorityInv' /\ Keeps /\ OutcomeStep /\ PostStep
  <2>1. UNCHANGED post BY <1>6 DEF SettleDeadline
  <2> QED BY <1>6, <2>1, SettleDeadlineStep DEF OutcomeStep, PostStep, Terminal, AfterPost
<1>7. ASSUME NEW s \in CallId, NEW p \in CallId, NEW t \in Reading, RecordPreflight(s, p, t)
      PROVE  AuthorityInv' /\ Keeps /\ OutcomeStep /\ PostStep
  <2>1. UNCHANGED <<state, post>> BY <1>7 DEF RecordPreflight
  <2> QED BY <1>7, <2>1, RecordPreflightStep DEF OutcomeStep, PostStep
<1>8. ASSUME NEW c \in CallId, NEW t \in Reading, SettlePreflightFailure(c, t)
      PROVE  AuthorityInv' /\ Keeps /\ OutcomeStep /\ PostStep
  <2>1. state = "requested" /\ permit = "available" /\ state' = "failed" /\ UNCHANGED post
    BY <1>8 DEF SettlePreflightFailure, RequestedDispatched, PreCall, Settle
  <2> QED BY <1>8, <2>1, SettlePreflightFailureStep DEF OutcomeStep, PostStep, Terminal
<1>9. ASSUME NEW c \in CallId, NEW t \in Reading, RecordProductObservation(c, t)
      PROVE  AuthorityInv' /\ Keeps /\ OutcomeStep /\ PostStep
  <2>1. state \in AfterPost /\ UNCHANGED post BY <1>9 DEF RecordProductObservation
  <2> QED BY <1>9, <2>1, RecordProductObservationStep
          DEF OutcomeStep, PostStep, Terminal, AfterPost
<1>10. ASSUME NEW c \in CallId, RecordPostOutcome(c)
       PROVE  AuthorityInv' /\ Keeps /\ OutcomeStep /\ PostStep
  <2>1. state = "requested" /\ state' \in AfterPost
    BY <1>10 DEF RecordPostOutcome, RequestedDispatched, AfterPost
  <2> QED BY <1>10, <2>1, RecordPostOutcomeStep DEF OutcomeStep, PostStep, Terminal, AfterPost
<1>11. ASSUME NEW c \in CallId, CommitAudit(c)
       PROVE  AuthorityInv' /\ Keeps /\ OutcomeStep /\ PostStep
  BY <1>11, CommitAuditStep DEF OutcomeStep, PostStep
<1> QED BY <1>1, <1>2, <1>3, <1>4, <1>5, <1>6, <1>7, <1>8, <1>9, <1>10, <1>11 DEF Recording

Claiming ==
  \E t \in Reading :
    \/ ClaimShopGet(t) \/ ClaimPublish(t)
    \/ \E p \in {"preflight", "verify", "reconcile"} : ClaimProductGet(p, t)

LEMMA ClaimingStep ==
  ASSUME AuthorityInv, Claiming
  PROVE  /\ AuthorityInv' /\ claims \in Nat /\ claims' = claims + 1 /\ claims + 1 \in CallId
         /\ permit = "consumed" => permit' = "consumed"
         /\ UNCHANGED <<state, post>>
         /\ call'[claims + 1].evidence = "none"
         /\ call'[claims + 1].purpose = "publish" => permit # "consumed"
         /\ \A c \in CallId : c # claims + 1 => call'[c] = call[c]
<1>1. AuthorityTyped BY DEF AuthorityInv
<1>2. PICK t \in Reading :
        \/ ClaimShopGet(t) \/ ClaimPublish(t)
        \/ \E p \in {"preflight", "verify", "reconcile"} : ClaimProductGet(p, t)
  BY DEF Claiming
<1>3. CASE ClaimShopGet(t)
  <2>1. AppendClaim("shop") /\ UNCHANGED <<state, post, permit>> BY <1>3 DEF ClaimShopGet
  <2>2. AuthorityInv' /\ claims' = claims + 1 /\ claims + 1 \in CallId
    BY <1>3, ClaimShopGetStep
  <2> QED BY <1>1, <2>1, <2>2, AppendAdds DEF Purposes, AuthorityTyped
<1>4. CASE ClaimPublish(t)
  <2>1. AppendClaim("publish") /\ UNCHANGED <<state, post>> /\ permit = "available"
    BY <1>4 DEF ClaimPublish
  <2>2. AuthorityInv' /\ claims' = claims + 1 /\ claims + 1 \in CallId
    BY <1>4, ClaimPublishStep
  <2> QED BY <1>1, <2>1, <2>2, AppendAdds DEF Purposes, AuthorityTyped
<1>5. ASSUME NEW p \in {"preflight", "verify", "reconcile"}, ClaimProductGet(p, t)
      PROVE  /\ AuthorityInv' /\ claims' = claims + 1 /\ claims + 1 \in CallId
             /\ AppendClaim(p) /\ UNCHANGED <<state, post, permit>>
  BY <1>5, ClaimProductGetStep DEF ClaimProductGet
<1> QED BY <1>1, <1>2, <1>3, <1>4, <1>5, AppendAdds DEF Purposes, AuthorityTyped

-----------------------------------------------------------------------------
(* The invariant of the machine.                                           *)

Holding == {"granted", "validated", "audited", "answered"}

\* No grant is held twice.
GrantPart ==
  /\ \A w \in Workers : pc[w] \in Holding => grant[w] \in 1..claims
  /\ \A w, v \in Workers :
       pc[w] \in Holding /\ pc[v] \in Holding /\ grant[w] = grant[v] => w = v

\* The POST was sent for a consumed permit, and whoever may send it has not.
SentPart ==
  /\ sent <= 1
  /\ sent = 1 => permit = "consumed"
  /\ \A w \in Workers : MaySend(w) => sent = 0
  /\ listing # "absent" => sent = 1

\* Is evidence e true of the provider?
True(e) ==
  /\ e = "accepted" => listing # "absent"
  /\ e = "proof" => listing = "live"

TruthPart ==
  /\ \A c \in CallId : True(call[c].evidence)
  /\ \A w \in Workers :
       pc[w] = "answered" => answer[w] \in EvidenceOf(Purpose(w)) /\ True(answer[w])
  /\ post = "accepted" => listing # "absent"

WorkersInv == WorkersTyped /\ GrantPart /\ SentPart /\ TruthPart

MachineInv == AuthorityInv /\ FlowTyped /\ WorkersInv

LEMMA InvInit == MachineInit => MachineInv
<1> SUFFICES ASSUME MachineInit PROVE MachineInv OBVIOUS
<1> USE DEF MachineInit, PublicationInit
<1>1. \A c \in CallId : call[c] = NewCall("none") OBVIOUS
<1>2. AuthorityTyped
  <2>1. NewCall("none") \in CallRecords BY DEF NewCall, CallRecords, Evidence
  <2>2. call \in [CallId -> CallRecords] BY <2>1
  <2>3. /\ claims = shopGets + productGets + publishPosts
        /\ shopGets \in 0..ShopLimit /\ productGets \in 0..ProductLimit /\ publishPosts \in 0..1
        /\ now \in 0..Deadline /\ touched \in 0..now
    BY PublicationAssumption
  <2>4. /\ state = "requested" /\ permit = "available" /\ work = "pending" /\ post = "none"
        /\ reconstructed \in BOOLEAN /\ proven \in BOOLEAN
    OBVIOUS
  <2> HIDE DEF MachineInit, PublicationInit
  <2> QED BY <2>2, <2>3, <2>4 DEF AuthorityTyped
<1>3. PermitPart BY <1>1 DEF PermitPart, NewCall, AfterPost
<1>4. EvidencePart BY <1>1 DEF EvidencePart, NewCall
<1>5. FlowTyped BY MachineAssumption DEF FlowTyped
<1>6. WorkersTyped BY DEF WorkersTyped, Labels, Evidence
<1>7. GrantPart /\ SentPart BY DEF GrantPart, SentPart, Holding, MaySend
<1>8. TruthPart BY <1>1 DEF TruthPart, True, NewCall
<1> QED BY <1>2, <1>3, <1>4, <1>5, <1>6, <1>7, <1>8 DEF MachineInv, AuthorityInv, WorkersInv

\* A worker keeps the grant it holds, or drops it.
Withdraws ==
  /\ UNCHANGED providerVars
  /\ pc' \in [Workers -> Labels] /\ grant' \in [Workers -> 0..claims]
  /\ answer' \in [Workers -> Evidence]
  /\ \A w \in Workers :
       pc'[w] \in Holding => /\ pc[w] \in Holding
                             /\ grant'[w] = grant[w] /\ answer'[w] = answer[w]
                             /\ pc'[w] = "answered" <=> pc[w] = "answered"

LEMMA ClaimsAreCalls ==
  ASSUME AuthorityTyped
  PROVE  claims \in Nat /\ 1..claims \subseteq CallId
BY PublicationAssumption DEF AuthorityTyped, CallId

LEMMA RecordingKeepsWorkers ==
  ASSUME MachineInv, Recording, Withdraws
  PROVE  AuthorityInv' /\ WorkersInv'
<1>1. AuthorityInv' /\ Keeps /\ PostStep BY RecordingStep DEF MachineInv
<1>2. 1..claims \subseteq CallId BY ClaimsAreCalls DEF MachineInv, AuthorityInv
<1>3. WorkersTyped' BY <1>1 DEF MachineInv, WorkersInv, WorkersTyped, Withdraws, Keeps, providerVars
<1>4. GrantPart' BY <1>1 DEF MachineInv, WorkersInv, GrantPart, Withdraws, Keeps
<1>5. ASSUME NEW w \in Workers, pc'[w] \in Holding
      PROVE  /\ call'[grant'[w]].purpose = Purpose(w)
             /\ pc[w] \in Holding /\ answer'[w] = answer[w]
             /\ pc'[w] = "answered" <=> pc[w] = "answered"
  BY <1>1, <1>2, <1>5 DEF MachineInv, WorkersInv, GrantPart, Withdraws, Keeps, Purpose
<1>6. SentPart'
  <2>1. ASSUME NEW w \in Workers, MaySend(w)'
        PROVE  sent' = 0
    <3>1. MaySend(w) BY <1>5, <2>1 DEF MaySend, Purpose, Holding
    <3> QED BY <3>1 DEF MachineInv, WorkersInv, SentPart, Withdraws, providerVars
  <2> QED BY <1>1, <2>1 DEF MachineInv, WorkersInv, SentPart, Withdraws, Keeps, providerVars
<1>7. TruthPart'
  <2>1. UNCHANGED listing BY DEF Withdraws, providerVars
  <2>2. \A c \in CallId : True(call[c].evidence)'
    BY <1>1, <2>1 DEF MachineInv, WorkersInv, TruthPart, True, Keeps
  <2>3. ASSUME NEW w \in Workers, pc'[w] = "answered"
        PROVE  answer'[w] \in EvidenceOf(Purpose(w)') /\ True(answer[w])'
    <3>1. pc[w] = "answered" /\ answer'[w] = answer[w] /\ Purpose(w)' = Purpose(w)
      BY <1>5, <2>3 DEF Holding, Purpose
    <3> QED BY <2>1, <3>1 DEF MachineInv, WorkersInv, TruthPart, True
  <2>4. post' = "accepted" => listing' # "absent"
    BY <1>1, <2>1 DEF MachineInv, WorkersInv, TruthPart, True, PostStep
  <2> QED BY <2>2, <2>3, <2>4 DEF TruthPart, EvidenceOf
<1> QED BY <1>1, <1>3, <1>4, <1>6, <1>7 DEF WorkersInv

LEMMA GrantedKeepsWorkers ==
  ASSUME MachineInv, Claiming, NEW w \in Workers, Granted(w)
  PROVE  AuthorityInv' /\ WorkersInv'
<1>1. /\ AuthorityInv' /\ claims \in Nat /\ claims' = claims + 1 /\ claims + 1 \in CallId
      /\ permit = "consumed" => permit' = "consumed"
      /\ UNCHANGED <<state, post>>
      /\ call'[claims + 1].evidence = "none"
      /\ call'[claims + 1].purpose = "publish" => permit # "consumed"
      /\ \A c \in CallId : c # claims + 1 => call'[c] = call[c]
  BY ClaimingStep DEF MachineInv
<1>2. 1..claims \subseteq CallId BY ClaimsAreCalls DEF MachineInv, AuthorityInv
<1>3. /\ pc[w] \notin Holding
      /\ pc' = [pc EXCEPT ![w] = "granted"] /\ grant' = [grant EXCEPT ![w] = claims + 1]
      /\ UNCHANGED <<answer, sent, listing>>
  BY DEF Granted, Holding, NoWire, providerVars
<1>4. WorkersTyped'
  BY <1>1, <1>3 DEF MachineInv, WorkersInv, WorkersTyped, Labels
<1>5. GrantPart'
  BY <1>1, <1>3 DEF MachineInv, WorkersInv, WorkersTyped, GrantPart, Holding
<1>6. ASSUME NEW v \in Workers \ {w}
      PROVE  /\ pc'[v] = pc[v]
             /\ pc[v] \in Holding => Purpose(v)' = Purpose(v)
  BY <1>1, <1>2, <1>3 DEF MachineInv, WorkersInv, WorkersTyped, GrantPart, Purpose
<1>7. SentPart'
  <2>1. ASSUME NEW v \in Workers, MaySend(v)'
        PROVE  sent' = 0
    <3>1. CASE v = w
      <4>1. call'[claims + 1].purpose = "publish"
        BY <1>3, <2>1, <3>1 DEF MaySend, Purpose, MachineInv, WorkersInv, WorkersTyped
      <4> QED BY <1>1, <1>3, <4>1 DEF MachineInv, WorkersInv, SentPart, WorkersTyped
    <3>2. CASE v # w
      <4>1. MaySend(v) BY <1>6, <2>1, <3>2 DEF MaySend, Holding
      <4> QED BY <1>3, <4>1 DEF MachineInv, WorkersInv, SentPart
    <3> QED BY <3>1, <3>2
  <2> QED BY <1>1, <1>3, <2>1 DEF MachineInv, WorkersInv, SentPart
<1>8. TruthPart'
  <2>1. \A c \in CallId : True(call[c].evidence)'
    BY <1>1, <1>3 DEF MachineInv, WorkersInv, TruthPart, True
  <2>2. ASSUME NEW v \in Workers, pc'[v] = "answered"
        PROVE  answer'[v] \in EvidenceOf(Purpose(v)') /\ True(answer[v])'
    <3>1. v # w BY <1>3, <2>2 DEF MachineInv, WorkersInv, WorkersTyped
    <3>2. pc[v] = "answered" /\ Purpose(v)' = Purpose(v) BY <1>6, <2>2, <3>1 DEF Holding
    <3> QED BY <1>3, <3>2 DEF MachineInv, WorkersInv, TruthPart, True
  <2> QED BY <1>1, <1>3, <2>1, <2>2 DEF MachineInv, WorkersInv, TruthPart, EvidenceOf
<1> QED BY <1>1, <1>4, <1>5, <1>7, <1>8 DEF WorkersInv

\* A worker that is answered after its request went out, or before a POST may.
LEMMA AnsweredKeepsWorkers ==
  ASSUME MachineInv, NEW w \in Workers, pc[w] = "audited", NEW e \in Evidence,
         e \in EvidenceOf(Purpose(w)), Answered(w, e), True(e)',
         \/ UNCHANGED providerVars
         \/ MaySend(w) /\ sent' = sent + 1 /\ listing' \in {"taken", listing}
  PROVE  AuthorityInv' /\ WorkersInv'
<1>1. /\ UNCHANGED pubVars /\ UNCHANGED grant
      /\ pc' = [pc EXCEPT ![w] = "answered"] /\ answer' = [answer EXCEPT ![w] = e]
  BY DEF Answered
<1>2. AuthorityInv' /\ Keeps /\ UNCHANGED <<permit, post, call, claims>>
  BY <1>1, RecordingStep DEF Recording, MachineInv, pubVars, authority, attemptVars
<1>3. /\ sent' \in 0..1 /\ sent' \in {sent, sent + 1} /\ listing' \in {"taken", listing}
      /\ sent' # sent => MaySend(w) /\ listing = "absent"
      /\ listing' # listing => listing = "absent" /\ sent' = 1
  BY DEF MachineInv, WorkersInv, WorkersTyped, SentPart, providerVars
<1>4. WorkersTyped'
  BY <1>1, <1>2, <1>3 DEF MachineInv, WorkersInv, WorkersTyped, Labels
<1>5. GrantPart'
  BY <1>1, <1>2 DEF MachineInv, WorkersInv, WorkersTyped, GrantPart, Holding
<1>6. SentPart'
  <2>1. ASSUME NEW v \in Workers, MaySend(v)'
        PROVE  sent' = 0
    <3>1. v # w BY <1>1, <2>1 DEF MachineInv, WorkersInv, WorkersTyped, MaySend
    <3>2. MaySend(v) /\ sent = 0
      BY <1>1, <1>2, <2>1, <3>1 DEF MachineInv, WorkersInv, SentPart, MaySend, Purpose
    <3>3. CASE sent' # sent
      <4>1. call[grant[w]].purpose = "publish" /\ call[grant[v]].purpose = "publish"
            /\ grant[w] \in CallId /\ grant[v] \in CallId
        BY <1>3, <3>2, <3>3, ClaimsAreCalls
           DEF MachineInv, WorkersInv, AuthorityInv, GrantPart, MaySend, Purpose, Holding
      <4>2. grant[w] = grant[v] BY <4>1 DEF MachineInv, AuthorityInv, PermitPart
      <4> QED BY <3>1, <3>2, <4>2 DEF MachineInv, WorkersInv, GrantPart, MaySend, Holding
    <3> QED BY <3>2, <3>3
  <2>2. sent' = 1 => permit' = "consumed"
    <3>1. MaySend(w) => permit = "consumed"
      BY ClaimsAreCalls DEF MachineInv, WorkersInv, AuthorityInv, GrantPart, PermitPart,
                            MaySend, Purpose, Holding
    <3> QED BY <1>2, <1>3, <3>1 DEF MachineInv, WorkersInv, SentPart
  <2> QED BY <1>3, <2>1, <2>2 DEF MachineInv, WorkersInv, SentPart
<1>7. TruthPart'
  <2>1. \A c \in CallId : True(call[c].evidence)'
    BY <1>2, <1>3 DEF MachineInv, WorkersInv, WorkersTyped, SentPart, TruthPart, True
  <2>2. ASSUME NEW v \in Workers, pc'[v] = "answered"
        PROVE  answer'[v] \in EvidenceOf(Purpose(v)') /\ True(answer[v])'
    <3>1. Purpose(v)' = Purpose(v) BY <1>1, <1>2 DEF Purpose
    <3>2. CASE v = w
      <4>1. answer'[v] = e BY <1>1, <3>2 DEF MachineInv, WorkersInv, WorkersTyped
      <4>2. e \in EvidenceOf(Purpose(v)') BY <3>1, <3>2
      <4>3. True(answer[v])' BY <4>1 DEF True
      <4> QED BY <4>1, <4>2, <4>3
    <3>3. CASE v # w
      BY <1>1, <1>3, <2>2, <3>1, <3>3
         DEF MachineInv, WorkersInv, WorkersTyped, SentPart, TruthPart, True
    <3> QED BY <3>2, <3>3
  <2> QED BY <1>2, <1>3, <2>1, <2>2
          DEF MachineInv, WorkersInv, WorkersTyped, SentPart, TruthPart, EvidenceOf
<1> QED BY <1>2, <1>4, <1>5, <1>6, <1>7 DEF WorkersInv

LEMMA LeaveWithdraws ==
  ASSUME MachineInv, NEW w \in Workers, Leave(w), UNCHANGED providerVars
  PROVE  Withdraws
BY ClaimsAreCalls
   DEF Leave, MachineInv, AuthorityInv, WorkersInv, WorkersTyped, Withdraws, Labels, Holding,
       Evidence

LEMMA StayWithdraws ==
  ASSUME MachineInv, UNCHANGED workerVars, UNCHANGED providerVars
  PROVE  Withdraws
BY DEF MachineInv, WorkersInv, WorkersTyped, Withdraws, workerVars

\* An invocation moves on without a grant, or on to its audit.
LEMMA MoveWithdraws ==
  ASSUME MachineInv, NEW w \in Workers, NEW l \in Labels \ {"answered"},
         l \in Holding => pc[w] \in Holding \ {"answered"},
         pc' = [pc EXCEPT ![w] = l], UNCHANGED <<grant, answer>>, UNCHANGED providerVars
  PROVE  Withdraws
BY DEF MachineInv, WorkersInv, WorkersTyped, Withdraws, Labels, Holding

LEMMA ReturnTyped ==
  ASSUME MachineInv, NEW w \in Workers, Return(w), UNCHANGED providerVars, UNCHANGED faults
  PROVE  FlowTyped' /\ Withdraws
<1>1. Leave(w) BY DEF Return
<1>2. ASSUME task # w PROVE FlowTyped'
  <2>1. UNCHANGED <<exec, task, polls, redrives>> BY <1>2 DEF Return, flowVars
  <2> QED BY <2>1 DEF MachineInv, FlowTyped
<1>3. ASSUME task = w PROVE FlowTyped'
  <2>1. /\ task' = NoWorker /\ UNCHANGED redrives
        /\ exec' \in {"succeeded", "running", "exhausted"}
        /\ polls' = polls \/ (polls < PollBudget /\ polls' = polls + 1)
    BY <1>3 DEF Return
  <2> QED BY <2>1, MachineAssumption DEF MachineInv, FlowTyped
<1> QED BY <1>1, <1>2, <1>3, LeaveWithdraws

LEMMA StageKeeps ==
  ASSUME MachineInv, NEW w \in Workers, Stage(w)
  PROVE  MachineInv' /\ UNCHANGED <<state, sent, listing>>
<1>1. /\ pc[w] = "answered" /\ StageEvidence(grant[w], answer[w]) /\ Return(w)
      /\ UNCHANGED providerVars /\ UNCHANGED faults
  BY DEF Stage, NoWire
<1>2. /\ grant[w] \in CallId /\ answer[w] \in Evidence \ {"none"}
      /\ answer[w] \in EvidenceOf(call[grant[w]].purpose) /\ True(answer[w])
  BY <1>1, ClaimsAreCalls
     DEF MachineInv, AuthorityInv, WorkersInv, WorkersTyped, GrantPart, TruthPart, Purpose,
         Holding, EvidenceOf, Evidence
<1>3. /\ AuthorityInv' /\ UNCHANGED <<state, permit, post, claims>>
      /\ \A c \in CallId : call'[c].purpose = call[c].purpose
      /\ call'[grant[w]].evidence = answer[w]
      /\ \A c \in CallId \ {grant[w]} : call'[c].evidence = call[c].evidence
  BY <1>1, <1>2, StageEvidenceStep DEF MachineInv
<1>4. FlowTyped' /\ Withdraws BY <1>1, ReturnTyped
<1>5. WorkersTyped'
  BY <1>3, <1>4 DEF MachineInv, WorkersInv, WorkersTyped, Withdraws, providerVars
<1>6. GrantPart' BY <1>3, <1>4 DEF MachineInv, WorkersInv, GrantPart, Withdraws
<1>7. ASSUME NEW v \in Workers, pc'[v] \in Holding
      PROVE  /\ Purpose(v)' = Purpose(v) /\ answer'[v] = answer[v]
             /\ pc'[v] = "answered" <=> pc[v] = "answered"
             /\ pc[v] \in Holding
  BY <1>3, <1>4, <1>7, ClaimsAreCalls
     DEF MachineInv, AuthorityInv, WorkersInv, GrantPart, Withdraws, Purpose
<1>8. UNCHANGED <<sent, listing>> BY <1>4 DEF Withdraws, providerVars
<1>9. SentPart'
  <2>1. ASSUME NEW v \in Workers, MaySend(v)' PROVE MaySend(v)
    BY <1>7, <2>1 DEF MaySend, Holding
  <2> QED BY <1>3, <1>8, <2>1 DEF MachineInv, WorkersInv, SentPart
<1>10. TruthPart'
  <2>1. \A c \in CallId : True(call[c].evidence)'
    BY <1>2, <1>3, <1>8 DEF MachineInv, WorkersInv, TruthPart, True
  <2>2. ASSUME NEW v \in Workers, pc'[v] = "answered"
        PROVE  answer'[v] \in EvidenceOf(Purpose(v)') /\ True(answer[v])'
    BY <1>7, <1>8, <2>2 DEF MachineInv, WorkersInv, TruthPart, True, Holding
  <2> QED BY <1>3, <1>8, <2>1, <2>2 DEF MachineInv, WorkersInv, TruthPart, EvidenceOf
<1> QED BY <1>3, <1>4, <1>5, <1>6, <1>8, <1>9, <1>10 DEF MachineInv, WorkersInv

LEMMA ProviderKeeps ==
  ASSUME MachineInv, ProviderPublishes
  PROVE  MachineInv' /\ UNCHANGED <<state, sent>> /\ sent = 1
<1>1. /\ listing = "taken" /\ listing' = "live"
      /\ UNCHANGED pubVars /\ UNCHANGED <<exec, task, polls, redrives, faults>>
      /\ UNCHANGED <<pc, grant, answer, sent>>
  BY DEF ProviderPublishes, flowVars, workerVars
<1>2. AuthorityInv' /\ UNCHANGED <<state, permit, post, call, claims>>
  BY <1>1, RecordingStep DEF Recording, MachineInv, pubVars, authority, attemptVars
<1>3. FlowTyped' BY <1>1 DEF MachineInv, FlowTyped
<1>4. WorkersTyped' BY <1>1, <1>2 DEF MachineInv, WorkersInv, WorkersTyped
<1>5. GrantPart' BY <1>1, <1>2 DEF MachineInv, WorkersInv, GrantPart
<1>6. SentPart' BY <1>1, <1>2 DEF MachineInv, WorkersInv, SentPart, MaySend, Purpose
<1>7. TruthPart' BY <1>1, <1>2 DEF MachineInv, WorkersInv, TruthPart, True, Purpose
<1>8. sent = 1 BY <1>1 DEF MachineInv, WorkersInv, SentPart
<1> QED BY <1>1, <1>2, <1>3, <1>4, <1>5, <1>6, <1>7, <1>8 DEF MachineInv, WorkersInv

-----------------------------------------------------------------------------
(* One lemma per kind of step.  Outside the boundary a step records one    *)
(* command, or none, and some worker stays, moves on or ends.              *)

Quiet == Recording /\ Withdraws /\ FlowTyped'

LEMMA EndsQuiet ==
  ASSUME MachineInv, NEW w \in Workers, Recording, Ends(w) \/ Returns(w)
  PROVE  Quiet
<1>1. Return(w) /\ UNCHANGED providerVars /\ UNCHANGED faults BY DEF Ends, Returns, NoWire
<1> QED BY <1>1, ReturnTyped DEF Quiet

LEMMA GoesOnQuiet ==
  ASSUME MachineInv, NEW w \in Workers, Recording, GoesOn(w)
  PROVE  Quiet
<1>1. /\ pc' = [pc EXCEPT ![w] = "prepared"] /\ UNCHANGED <<grant, answer>>
      /\ UNCHANGED providerVars /\ UNCHANGED <<exec, task, polls, redrives, faults>>
  BY DEF GoesOn, NoWire, flowVars
<1>2. Withdraws BY <1>1, MoveWithdraws DEF Labels, Holding
<1>3. FlowTyped' BY <1>1 DEF MachineInv, FlowTyped
<1> QED BY <1>2, <1>3 DEF Quiet

\* The steps of the workflow, of recovery and of the clock.
LEMMA FlowQuiet ==
  ASSUME MachineInv,
         \/ StartExecution \/ TimeOut \/ Redrive \/ RecoverySettle \/ RecoveryRecover \/ Clock
         \/ \E w \in Workers : Invoke(w) \/ Raise(w) \/ Lose(w)
  PROVE  Quiet
<1>1. ASSUME StartExecution \/ TimeOut \/ Redrive PROVE Quiet
  <2>1. /\ UNCHANGED pubVars /\ UNCHANGED workerVars /\ UNCHANGED providerVars
        /\ UNCHANGED <<polls, faults>> /\ exec' \in {"running", "failed"}
        /\ task' \in {task, NoWorker}
        /\ redrives' = redrives \/ (redrives < MaxRedrives /\ redrives' = redrives + 1)
    BY <1>1 DEF StartExecution, TimeOut, Redrive, NoWorkers
  <2>2. FlowTyped' BY <2>1, MachineAssumption DEF MachineInv, FlowTyped
  <2> QED BY <2>1, <2>2, StayWithdraws DEF Quiet, Recording
<1>2. ASSUME RecoverySettle \/ RecoveryRecover \/ Clock PROVE Quiet
  <2>1. /\ UNCHANGED <<exec, task, polls, redrives, faults>>
        /\ UNCHANGED workerVars /\ UNCHANGED providerVars
        /\ SettleDeadline(now) \/ RecoverConsumedClaim \/ Tick
    BY <1>2 DEF RecoverySettle, RecoveryRecover, Clock, NoWorkers, flowVars
  <2>2. FlowTyped' BY <2>1 DEF MachineInv, FlowTyped
  <2>3. now \in Reading BY DEF MachineInv, AuthorityInv, AuthorityTyped, Reading
  <2> QED BY <2>1, <2>2, <2>3, StayWithdraws DEF Quiet, Recording
<1>3. ASSUME NEW w \in Workers, Invoke(w) PROVE Quiet
  <2>1. /\ UNCHANGED pubVars /\ UNCHANGED providerVars /\ UNCHANGED <<grant, answer>>
        /\ pc' = [pc EXCEPT ![w] = "running"] /\ UNCHANGED <<exec, polls, redrives, faults>>
        /\ task' = w
    BY <1>3 DEF Invoke
  <2>2. FlowTyped' BY <2>1 DEF MachineInv, FlowTyped
  <2>3. Withdraws BY <2>1, MoveWithdraws DEF Labels, Holding
  <2> QED BY <2>1, <2>2, <2>3 DEF Quiet, Recording
<1>4. ASSUME NEW w \in Workers, Raise(w) PROVE Quiet
  <2>1. /\ Leave(w) /\ UNCHANGED pubVars /\ UNCHANGED providerVars
        /\ UNCHANGED <<polls, redrives, faults>>
        /\ exec' \in {exec, "failed"} /\ task' \in {task, NoWorker}
    BY <1>4 DEF Raise
  <2>2. FlowTyped' BY <2>1 DEF MachineInv, FlowTyped
  <2> QED BY <2>1, <2>2, LeaveWithdraws DEF Quiet, Recording
<1>5. ASSUME NEW w \in Workers, Lose(w) PROVE Quiet
  <2>1. /\ Leave(w) \/ UNCHANGED workerVars
        /\ UNCHANGED pubVars /\ UNCHANGED providerVars /\ UNCHANGED <<polls, redrives>>
        /\ faults < MaxFaults /\ faults' = faults + 1
        /\ exec' \in {"running", "failed"} /\ task' = NoWorker
    BY <1>5 DEF Lose
  <2>2. FlowTyped' BY <2>1, MachineAssumption DEF MachineInv, FlowTyped
  <2> QED BY <2>1, <2>2, LeaveWithdraws, StayWithdraws DEF Quiet, Recording
<1> QED BY <1>1, <1>2, <1>3, <1>4, <1>5

\* The steps of the coordinator that claim no call.
LEMMA CoordinateQuiet ==
  ASSUME MachineInv, NEW w \in Workers,
         \/ FindTerminal(w) \/ AdvancePostOutcome(w) \/ AdvanceObservation(w)
         \/ AdvanceDeadline(w) \/ AdvanceRecover(w) \/ AdvanceDispatch(w)
         \/ AdvanceReconstruct(w) \/ AdvanceNegative(w) \/ AdvancePreflight(w)
  PROVE  Quiet
<1>1. 1..claims \subseteq CallId BY ClaimsAreCalls DEF MachineInv, AuthorityInv
<1>2. CASE FindTerminal(w)
  BY <1>2, EndsQuiet DEF FindTerminal, Recording
<1>3. CASE AdvancePostOutcome(w)
  BY <1>1, <1>3, EndsQuiet DEF AdvancePostOutcome, Recording
<1>4. CASE AdvanceObservation(w)
  BY <1>1, <1>4, EndsQuiet DEF AdvanceObservation, Recording
<1>5. CASE AdvanceDeadline(w)
  BY <1>5, EndsQuiet DEF AdvanceDeadline, Recording
<1>6. CASE AdvanceRecover(w)
  BY <1>6, EndsQuiet DEF AdvanceRecover, Recording
<1>7. CASE AdvanceDispatch(w)
  BY <1>7, GoesOnQuiet DEF AdvanceDispatch, Recording
<1>8. CASE AdvanceReconstruct(w)
  BY <1>8, GoesOnQuiet DEF AdvanceReconstruct, Recording
<1>9. CASE AdvanceNegative(w)
  BY <1>1, <1>9, EndsQuiet DEF AdvanceNegative, Recording
<1>10. CASE AdvancePreflight(w)
  BY <1>1, <1>10, EndsQuiet DEF AdvancePreflight, Recording
<1> QED BY <1>2, <1>3, <1>4, <1>5, <1>6, <1>7, <1>8, <1>9, <1>10

LEMMA CoordinateClaims ==
  ASSUME MachineInv, NEW w \in Workers,
         AdvanceShop(w) \/ AdvanceProduct(w) \/ AdvancePublish(w) \/ AdvancePoll(w)
  PROVE  Claiming /\ Granted(w) /\ FlowTyped'
<1>1. Claiming /\ Granted(w)
  BY DEF AdvanceShop, AdvanceProduct, AdvancePublish, AdvancePoll, Claiming
<1>2. UNCHANGED <<exec, task, polls, redrives, faults>>
  BY <1>1 DEF Granted, NoWire, flowVars
<1>3. FlowTyped' BY <1>2 DEF MachineInv, FlowTyped
<1> QED BY <1>1, <1>3

\* The steps of the boundary before its wire request.
LEMMA BoundaryQuiet ==
  ASSUME MachineInv, NEW w \in Workers, Validate(w) \/ Audit(w)
  PROVE  Quiet
<1>1. UNCHANGED providerVars /\ UNCHANGED <<grant, answer>>
      /\ UNCHANGED <<exec, task, polls, redrives, faults>>
  BY DEF Validate, Audit, NoFlow, flowVars
<1>2. FlowTyped' BY <1>1 DEF MachineInv, FlowTyped
<1>3. ASSUME Validate(w) PROVE Quiet
  <2>1. pc[w] = "granted" /\ pc' = [pc EXCEPT ![w] = "validated"] /\ UNCHANGED pubVars
    BY <1>3 DEF Validate
  <2>2. Withdraws BY <1>1, <2>1, MoveWithdraws DEF Labels, Holding
  <2> QED BY <1>2, <2>1, <2>2 DEF Quiet, Recording
<1>4. ASSUME Audit(w) PROVE Quiet
  <2>1. pc[w] = "validated" /\ pc' = [pc EXCEPT ![w] = "audited"] /\ CommitAudit(grant[w])
    BY <1>4 DEF Audit
  <2>2. Withdraws BY <1>1, <2>1, MoveWithdraws DEF Labels, Holding
  <2>3. grant[w] \in CallId
    BY <2>1, ClaimsAreCalls DEF MachineInv, AuthorityInv, WorkersInv, GrantPart, Holding
  <2> QED BY <1>2, <2>1, <2>2, <2>3 DEF Quiet, Recording
<1> QED BY <1>3, <1>4

\* The wire request and its answer.
LEMMA WireKeeps ==
  ASSUME MachineInv, NEW w \in Workers, ReadPreflight(w) \/ SendPost(w) \/ ReadProduct(w)
  PROVE  /\ MachineInv' /\ UNCHANGED state
         /\ \/ UNCHANGED providerVars
            \/ MaySend(w) /\ sent = 0 /\ sent' = 1 /\ listing' # "live"
<1>1. PICK e \in Evidence : Answered(w, e) /\ e \in EvidenceOf(Purpose(w)) /\ True(e)'
                            /\ \/ UNCHANGED providerVars
                               \/ MaySend(w) /\ sent' = sent + 1 /\ listing' \in {"taken", listing}
  <2>1. CASE ReadPreflight(w)
    BY <2>1 DEF ReadPreflight, EvidenceOf, PreflightPurposes, Evidence, True
  <2>2. CASE SendPost(w)
    BY <2>2 DEF SendPost, EvidenceOf, PreflightPurposes, Evidence, True, MaySend
  <2>3. CASE ReadProduct(w)
    BY <2>3 DEF ReadProduct, EvidenceOf, PreflightPurposes, Evidence, True, providerVars
  <2> QED BY <2>1, <2>2, <2>3
<1>2. pc[w] = "audited" BY DEF ReadPreflight, SendPost, ReadProduct
<1>3. AuthorityInv' /\ WorkersInv' BY <1>1, <1>2, AnsweredKeepsWorkers
<1>4. UNCHANGED <<exec, task, polls, redrives, faults>> /\ UNCHANGED state
  BY <1>1 DEF Answered, NoFlow, flowVars, pubVars, authority
<1>5. FlowTyped' BY <1>4 DEF MachineInv, FlowTyped
<1>6. MaySend(w) => sent = 0 /\ listing = "absent"
  BY DEF MachineInv, WorkersInv, WorkersTyped, SentPart
<1> QED BY <1>1, <1>3, <1>4, <1>5, <1>6 DEF MachineInv

-----------------------------------------------------------------------------
(* The theorems.                                                           *)

PromiseStep == [Promise!Next]_(Promise!promiseVars)

\* What the provider shows of the state of a request.
LEMMA OutcomeShown ==
  ASSUME MachineInv
  PROVE  /\ permit # "consumed" => sent = 0
         /\ (\E c \in CallId : call[c].evidence = "proof") => listing = "live"
         /\ state = "failed" => permit # "consumed"
BY DEF MachineInv, AuthorityInv, PermitPart, WorkersInv, WorkersTyped, SentPart, TruthPart, True

LEMMA QuietPromised ==
  ASSUME MachineInv, Quiet
  PROVE  MachineInv' /\ PromiseStep
<1>1. AuthorityInv' /\ WorkersInv' /\ FlowTyped' BY RecordingKeepsWorkers DEF Quiet
<1>2. OutcomeStep /\ UNCHANGED <<sent, listing>>
  BY RecordingStep DEF Quiet, MachineInv, Withdraws, providerVars
<1>3. ASSUME state' = state \/ (state \notin Terminal /\ state' \notin Terminal)
      PROVE  PromiseStep
  BY <1>2, <1>3 DEF PromiseStep, Promise!Next, Promise!promiseVars
<1>4. ASSUME state \notin Terminal /\ state' = "unknown"
      PROVE  PromiseStep
  BY <1>2, <1>4 DEF PromiseStep, Promise!Next, Promise!GiveUp, Terminal
<1>5. ASSUME state \notin Terminal /\ state' = "failed" /\ permit # "consumed"
      PROVE  PromiseStep
  BY <1>2, <1>5, OutcomeShown DEF PromiseStep, Promise!Next, Promise!Fail, Terminal
<1>6. ASSUME state \notin Terminal /\ state' = "published",
             \E c \in CallId : call[c].evidence = "proof"
      PROVE  PromiseStep
  BY <1>2, <1>6, OutcomeShown DEF PromiseStep, Promise!Next, Promise!Publish, Terminal
<1>7. PromiseStep BY <1>2, <1>3, <1>4, <1>5, <1>6 DEF OutcomeStep
<1> QED BY <1>1, <1>7 DEF MachineInv

\* A POST on its way: the request has neither failed nor been published.
LEMMA SenderOpen ==
  ASSUME MachineInv, NEW w \in Workers, MaySend(w)
  PROVE  state \notin {"failed", "published"}
<1>1. permit = "consumed"
  BY ClaimsAreCalls DEF MachineInv, WorkersInv, AuthorityInv, GrantPart, PermitPart,
                        MaySend, Purpose, Holding
<1>2. sent = 0 /\ listing = "absent"
  BY DEF MachineInv, WorkersInv, WorkersTyped, SentPart
<1>3. state # "published"
  BY <1>2, OutcomeShown DEF MachineInv, AuthorityInv, EvidencePart
<1> QED BY <1>1, <1>3, OutcomeShown

LEMMA NextKeeps ==
  ASSUME MachineInv, MachineNext
  PROVE  MachineInv' /\ PromiseStep
<1>1. CASE \/ StartExecution \/ TimeOut \/ Redrive \/ RecoverySettle \/ RecoveryRecover
           \/ Clock
  BY <1>1, FlowQuiet, QuietPromised
<1>2. CASE ProviderPublishes
  <2>1. MachineInv' /\ UNCHANGED <<state, sent>> /\ sent = 1 /\ listing' = "live"
    BY <1>2, ProviderKeeps DEF ProviderPublishes
  <2> QED BY <2>1 DEF PromiseStep, Promise!Next, Promise!List
<1>3. ASSUME NEW w \in Workers, Invoke(w) \/ Raise(w) \/ Lose(w)
      PROVE  MachineInv' /\ PromiseStep
  BY <1>3, FlowQuiet, QuietPromised
<1>4. ASSUME NEW w \in Workers, Coordinate(w)
      PROVE  MachineInv' /\ PromiseStep
  <2>1. CASE AdvanceShop(w) \/ AdvanceProduct(w) \/ AdvancePublish(w) \/ AdvancePoll(w)
    <3>1. Claiming /\ Granted(w) /\ FlowTyped' BY <2>1, CoordinateClaims
    <3>2. AuthorityInv' /\ WorkersInv' BY <3>1, GrantedKeepsWorkers
    <3>3. UNCHANGED <<state, sent, listing>>
      BY <3>1, ClaimingStep DEF MachineInv, Granted, NoWire, providerVars
    <3>4. PromiseStep BY <3>3 DEF PromiseStep, Promise!promiseVars
    <3> QED BY <3>1, <3>2, <3>4 DEF MachineInv
  <2>2. CASE ~(AdvanceShop(w) \/ AdvanceProduct(w) \/ AdvancePublish(w) \/ AdvancePoll(w))
    BY <1>4, <2>2, CoordinateQuiet, QuietPromised DEF Coordinate
  <2> QED BY <2>1, <2>2
<1>5. ASSUME NEW w \in Workers, Call(w)
      PROVE  MachineInv' /\ PromiseStep
  <2>1. CASE Validate(w) \/ Audit(w) BY <2>1, BoundaryQuiet, QuietPromised
  <2>2. CASE ReadPreflight(w) \/ SendPost(w) \/ ReadProduct(w)
    <3>1. /\ MachineInv' /\ UNCHANGED state
          /\ \/ UNCHANGED providerVars
             \/ MaySend(w) /\ sent = 0 /\ sent' = 1 /\ listing' # "live"
      BY <2>2, WireKeeps
    <3>2. CASE UNCHANGED providerVars
      BY <3>1, <3>2 DEF PromiseStep, Promise!promiseVars, providerVars
    <3>3. CASE MaySend(w) /\ sent = 0 /\ sent' = 1 /\ listing' # "live"
      <4>1. listing # "live" BY <3>3 DEF MachineInv, WorkersInv, WorkersTyped, SentPart
      <4>2. state \notin {"failed", "published"} BY <3>3, SenderOpen
      <4>3. Promise!Send BY <3>1, <3>3, <4>1, <4>2 DEF Promise!Send, Terminal
      <4> QED BY <3>1, <4>3 DEF PromiseStep, Promise!Next
    <3> QED BY <3>1, <3>2, <3>3
  <2>3. CASE Stage(w)
    BY <2>3, StageKeeps DEF PromiseStep, Promise!promiseVars
  <2> QED BY <1>5, <2>1, <2>2, <2>3 DEF Call
<1> QED BY <1>1, <1>2, <1>3, <1>4, <1>5 DEF MachineNext

LEMMA StutterKeeps ==
  ASSUME MachineInv, UNCHANGED machineVars
  PROVE  MachineInv' /\ PromiseStep
<1>1. UNCHANGED pubVars /\ UNCHANGED workerVars /\ UNCHANGED providerVars
      /\ UNCHANGED <<exec, task, polls, redrives, faults>>
  BY DEF machineVars, flowVars
<1>2. FlowTyped' BY <1>1 DEF MachineInv, FlowTyped
<1>3. Quiet BY <1>1, <1>2, StayWithdraws DEF Quiet, Recording
<1> QED BY <1>3, QuietPromised

LEMMA InvAlways == MachineSpec => []MachineInv
<1>1. MachineInv /\ [MachineNext]_machineVars => MachineInv'
  BY NextKeeps, StutterKeeps
<1> QED BY InvInit, <1>1, PTL DEF MachineSpec

\* Type correctness of the publication machine.
THEOREM PublicationTyped == MachineSpec => []MachineTypeOK
<1>1. MachineInv => MachineTypeOK
  BY DEF MachineInv, AuthorityInv, AuthorityTyped, CallRecords, FlowTyped, WorkersInv,
         WorkersTyped, Labels, MachineTypeOK
<1> QED BY InvAlways, <1>1, PTL

\* However many workers, faults and redrives: at most one publish POST, and only for a
\* proven preflight and a consumed permit.
THEOREM OnePostAlways == MachineSpec => []OnePost
<1>1. MachineInv => OnePost
  BY DEF MachineInv, AuthorityInv, PermitPart, WorkersInv, SentPart, OnePost
<1> QED BY InvAlways, <1>1, PTL

\* A failed request has sent nothing and no worker is about to.
THEOREM FailedUnsentAlways == MachineSpec => []FailedUnsent
<1>1. ASSUME MachineInv, state = "failed"
      PROVE  permit = "retired" /\ sent = 0
  BY <1>1, OutcomeShown DEF MachineInv, AuthorityInv, PermitPart
<1>2. ASSUME MachineInv, state = "failed", NEW w \in Workers
      PROVE  ~MaySend(w)
  BY <1>2, SenderOpen
<1>3. MachineInv => FailedUnsent BY <1>1, <1>2 DEF FailedUnsent
<1> QED BY InvAlways, <1>3, PTL

\* An accepted POST was taken by the provider.
THEOREM AcceptedTakenAlways == MachineSpec => []AcceptedTaken
<1>1. MachineInv => AcceptedTaken
  BY DEF MachineInv, WorkersInv, SentPart, TruthPart, AcceptedTaken
<1> QED BY InvAlways, <1>1, PTL

\* A request is published exactly on a consumed proof, and then the listing is there.
THEOREM PublishedProvenAlways == MachineSpec => []PublishedProven
<1>1. ASSUME MachineInv, state = "published"
      PROVE  sent = 1 /\ listing = "live"
  <2>1. listing = "live" BY <1>1, OutcomeShown DEF MachineInv, AuthorityInv, EvidencePart
  <2> QED BY <1>1, <2>1 DEF MachineInv, WorkersInv, SentPart
<1>2. MachineInv => PublishedProven
  BY <1>1 DEF MachineInv, AuthorityInv, EvidencePart, PublishedProven
<1> QED BY InvAlways, <1>2, PTL

\* All that the record says of an outcome, together.
THEOREM OutcomesTrueAlways == MachineSpec => []OutcomesTrue
<1>1. MachineTypeOK /\ FailedUnsent /\ AcceptedTaken /\ PublishedProven => OutcomesTrue
  BY DEF OutcomesTrue
<1> QED
  BY PublicationTyped, FailedUnsentAlways, AcceptedTakenAlways, PublishedProvenAlways, <1>1, PTL

\* The machine implements what the requester is promised.
THEOREM PublicationImplementsPromise == MachineSpec => PromiseKept
<1>1. MachineInit => Promise!Init
  BY DEF MachineInit, PublicationInit, Promise!Init, Terminal
<1>2. MachineInv /\ [MachineNext]_machineVars => PromiseStep
  BY NextKeeps, StutterKeeps
<1> QED BY InvAlways, <1>1, <1>2, PTL
        DEF MachineSpec, PromiseKept, Promise!SafeSpec, PromiseStep

=============================================================================
