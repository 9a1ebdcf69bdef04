------------------------ MODULE TokenExchangeProofs ------------------------
(***************************************************************************)
(* Proofs about TokenExchange, for any number of requests and tokens, any  *)
(* TTL configuration the server starts with, and any bounds.               *)
(***************************************************************************)
EXTENDS TokenExchange, NaturalFacts, TLAPS

Holding == {"rating", "recording", "auditing", "returning"}

(* The inductive invariant, by parts. *)

\* A request in its second half holds a token of this process, its own.
HeldReceived == \A r \in Requests : pc[r] \in Holding => held[r] \in received
HeldDistinct ==
    \A r, s \in Requests :
        (pc[r] \in Holding /\ pc[s] \in Holding /\ held[r] = held[s]) => r = s

\* Before RecordToken nobody else has seen the token.
Unrecorded ==
    \A r \in Requests : pc[r] \in {"rating", "recording"} =>
        /\ held[r] \notin tracked
        /\ held[r] \notin batch
        /\ held[r] \notin revoking
        /\ held[r] \notin revoked
        /\ held[r] \notin delivered

\* Whatever the process, the loop, GitHub or a caller has was minted.
Knowledge ==
    /\ received \subseteq minted
    /\ tracked \subseteq received
    /\ batch \subseteq received
    /\ revoking \subseteq received
    /\ revoked \subseteq minted
    /\ delivered \subseteq minted

\* The loop only ever touches tokens whose expiry has passed.
OnlyOverdue ==
    \A t \in Tokens : (t \in batch \/ t \in revoking \/ t \in revoked) => now > expires[t]

\* From RecordToken on, the expiry is within GitHub's and the maximum.
Capped ==
    \A r \in Requests : pc[r] \in {"auditing", "returning"} =>
        /\ expires[held[r]] <= ghExpiry[held[r]]
        /\ expires[held[r]] <= now + MaxTokenTTL

\* A request about to return its token has its granted entry.
GrantLogged ==
    \A r \in Requests : pc[r] = "returning" => Granted(r, held[r]) \in audit

\* The process loses a token it knows only by revoking it.
NotForgotten ==
    \A t \in received :
        \/ t \in tracked
        \/ t \in revoked
        \/ \E r \in Requests : held[r] = t /\ pc[r] \in {"rating", "recording"}

TokenInv ==
    /\ HeldReceived
    /\ HeldDistinct
    /\ Unrecorded
    /\ Knowledge
    /\ OnlyOverdue
    /\ Capped
    /\ NotForgotten
    /\ ReportedExpiryBounded

AuditInv ==
    /\ GrantLogged
    /\ DeliveredIsAudited
    /\ FinishedRequestsAudited

------------------------------------------------------------------------------
(* TTL arithmetic *)

\* A request that passes validateRequest has a TTL resolveTTL can work with.
LEMMA ValidTTLInRange ==
    ASSUME NEW d \in Int, ValidRequestedTTL(d)
    PROVE  d \in 0 .. MaxTokenTTL
  BY TTLConfigValid DEF ValidTTLs, ValidRequestedTTL

\* Whatever the trust policy says, the resolved TTL is positive and at most
\* the central maximum (resolveTTL).
THEOREM ResolvedTTLInRange ==
    ASSUME NEW d \in 0 .. MaxTokenTTL, NEW p \in Int
    PROVE  ResolveTTL(d, p) \in 1 .. MaxTokenTTL
  BY TTLConfigValid DEF ValidTTLs, ResolveTTL, LoweredByPolicy, RequestedOrDefault

\* The capped expiry is a time, no later than either bound (capExpiry).
LEMMA CapExpiryBounded ==
    ASSUME NEW e \in Nat, NEW n \in Nat, NEW d \in 0 .. MaxTokenTTL
    PROVE  /\ CapExpiry(e, n, d) \in Nat
           /\ CapExpiry(e, n, d) <= e
           /\ CapExpiry(e, n, d) <= n + MaxTokenTTL
  BY TTLConfigValid DEF ValidTTLs, CapExpiry

------------------------------------------------------------------------------
(* Types *)

\* A request in its second half holds a token, which TypeOK alone cannot say.
HeldIsToken == \A r \in Requests : pc[r] \in Holding => held[r] \in Tokens
TypeInv == TypeOK /\ HeldIsToken

\* The service starts well typed.
LEMMA TypeInit == Init => TypeInv
  <1> SUFFICES ASSUME Init PROVE TypeInv
    OBVIOUS
  <1>1. 0 \in 0 .. MaxTokenTTL
    BY TTLConfigValid DEF ValidTTLs
  <1>2. /\ requested \in [Requests -> 0 .. MaxTokenTTL]
        /\ ttl \in [Requests -> 0 .. MaxTokenTTL]
    BY <1>1 DEF Init
  <1>3. pc \in [Requests -> PCs] /\ answer \in [Requests -> Answers]
    BY DEF Init, PCs, Answers
  <1>4. HeldIsToken
    BY DEF Init, HeldIsToken, Holding
  <1> QED
    BY <1>2, <1>3, <1>4 DEF Init, TypeInv, TypeOK

\* Every step of an exchange, of the loop, of the process and of the clock keeps the types.
LEMMA TypeStep == TypeInv /\ [Next]_vars => TypeInv'
  <1> SUFFICES ASSUME TypeInv, [Next]_vars PROVE TypeInv'
    OBVIOUS
  <1> USE DEF TypeInv, TypeOK, HeldIsToken, Holding, PCs, InFlight, procVars, loopVars, requestVars,
              githubVars, trackerVars, clientVars, auditVars
  <1>1. ASSUME NEW r \in Requests, NEW d \in RequestTTLs, Begin(r, d) PROVE TypeInv'
    BY <1>1, ExchangeConstants, ValidTTLInRange DEF Begin, Answer, Answers, UnauditedCodes
  <1>2. ASSUME NEW r \in Requests, ValidateOIDC(r) PROVE TypeInv'
    BY <1>2 DEF ValidateOIDC, Answer, Answers, UnauditedCodes
  <1>3. ASSUME NEW r \in Requests, NEW p \in PolicyTTLs, Authorize(r, p) PROVE TypeInv'
    <2>1. ResolveTTL(requested[r], p) \in 0 .. MaxTokenTTL
      BY ExchangeConstants, TTLConfigValid, ResolvedTTLInRange DEF ValidTTLs
    <2>2. ttl' \in [Requests -> 0 .. MaxTokenTTL]
      BY <1>3, <2>1 DEF Authorize
    <2> QED
      BY <1>3, <2>2 DEF Authorize, Deny, AuditDenied, Denied, AuditEntries, Answer, Answers, DenyReasons
  <1>4. ASSUME NEW r \in Requests, SelectApp(r) PROVE TypeInv'
    BY <1>4 DEF SelectApp, Deny, AuditDenied, Denied, AuditEntries, Answer, Answers, DenyReasons
  <1>5. ASSUME NEW r \in Requests, NEW t \in Tokens, MintToken(r, t) PROVE TypeInv'
    BY <1>5, ExchangeConstants DEF MintToken, CreateToken
  <1>6. ASSUME NEW r \in Requests, NEW t \in Tokens, MintReplyLost(r, t) PROVE TypeInv'
    BY <1>6, ExchangeConstants DEF MintReplyLost, CreateToken
  <1>7. ASSUME NEW r \in Requests, MintFails(r) PROVE TypeInv'
    BY <1>7 DEF MintFails, Deny, AuditDenied, Denied, AuditEntries, Answer, Answers, DenyReasons
  <1>8. ASSUME NEW r \in Requests, QueryRateLimit(r) PROVE TypeInv'
    BY <1>8 DEF QueryRateLimit
  <1>9. ASSUME NEW r \in Requests, RecordToken(r) PROVE TypeInv'
    BY <1>9, CapExpiryBounded DEF RecordToken
  <1>10. ASSUME NEW r \in Requests, AuditGranted(r) PROVE TypeInv'
    BY <1>10 DEF AuditGranted, Granted, AuditEntries, Answer, Answers
  <1>11. ASSUME NEW r \in Requests, ReturnToken(r) PROVE TypeInv'
    BY <1>11 DEF ReturnToken, Answer, Answers
  <1>12. ASSUME StartPass PROVE TypeInv'
    BY <1>12 DEF StartPass, GetExpired
  <1>13. ASSUME NEW t \in Tokens, StartRevocation(t) PROVE TypeInv'
    BY <1>13 DEF StartRevocation
  <1>14. ASSUME NEW t \in Tokens, RevokeSucceeds(t) PROVE TypeInv'
    BY <1>14 DEF RevokeSucceeds
  <1>15. ASSUME NEW t \in Tokens, RevokeFails(t) PROVE TypeInv'
    BY <1>15 DEF RevokeFails
  <1>16. ASSUME Signal PROVE TypeInv'
    BY <1>16 DEF Signal
  <1>17. ASSUME ProcessEnds PROVE TypeInv'
    <2>1. pc' \in [Requests -> PCs]
      BY <1>17 DEF ProcessEnds
    <2>2. \A r \in Requests : pc'[r] \notin Holding
      BY <1>17 DEF ProcessEnds
    <2>3. HeldIsToken'
      BY <2>2
    <2>4. /\ batch' \subseteq Tokens /\ revoking' \subseteq Tokens
          /\ received' \subseteq Tokens /\ tracked' \subseteq Tokens
          /\ proc' \in {"up", "draining", "down"} /\ stops' \in Nat
      BY <1>17 DEF ProcessEnds
    <2>5. ticked' \in BOOLEAN
      BY <1>17, Zenon DEF ProcessEnds
    <2>6. UNCHANGED <<now, loopStart, requested, ttl, held, answer, githubVars,
                      expires, clientVars, auditVars>>
      BY <1>17 DEF ProcessEnds
    <2> QED
      BY <2>1, <2>3, <2>4, <2>5, <2>6
  <1>18. ASSUME Start PROVE TypeInv'
    BY <1>18 DEF Start
  <1>19. ASSUME Tick PROVE TypeInv'
    BY <1>19 DEF Tick
  <1>20. CASE UNCHANGED vars
    BY <1>20 DEF vars
  <1> QED
    BY <1>1, <1>2, <1>3, <1>4, <1>5, <1>6, <1>7, <1>8, <1>9, <1>10, <1>11, <1>12,
       <1>13, <1>14, <1>15, <1>16, <1>17, <1>18, <1>19, <1>20
       DEF Next, RequestStep, RevokerStep, ProcessStep, Close, Crash

\* Every reachable state is well typed; in particular effective TTLs stay
\* within the central maximum.
THEOREM TypeCorrect == Spec => []TypeOK
  BY TypeInit, TypeStep, PTL DEF Spec, TypeInv

------------------------------------------------------------------------------
(* Tokens *)

\* There are no tokens at the start.
LEMMA TokenInit == Init => TokenInv
  BY DEF Init, TokenInv, HeldReceived, HeldDistinct, Unrecorded, Knowledge,
         OnlyOverdue, Capped, NotForgotten, ReportedExpiryBounded, Holding

\* Every step keeps what is known of tokens: the loop's snapshot, Record and restarts included.
LEMMA TokenStep == TypeInv /\ TypeInv' /\ TokenInv /\ [Next]_vars => TokenInv'
  <1> SUFFICES ASSUME TypeInv, TypeInv', TokenInv, [Next]_vars PROVE TokenInv'
    OBVIOUS
  <1> USE TTLConfigValid
      DEF ValidTTLs, TypeInv, TypeOK, HeldIsToken, Holding, procVars, loopVars,
          requestVars, githubVars, trackerVars, clientVars, auditVars,
          TokenInv, HeldReceived, HeldDistinct, Unrecorded, Knowledge,
          OnlyOverdue, Capped, NotForgotten, ReportedExpiryBounded
  <1>1. ASSUME NEW r \in Requests, NEW d \in RequestTTLs, Begin(r, d) PROVE TokenInv'
    BY <1>1 DEF Begin, Answer
  <1>2. ASSUME NEW r \in Requests, ValidateOIDC(r) PROVE TokenInv'
    BY <1>2 DEF ValidateOIDC, Answer
  <1>3. ASSUME NEW r \in Requests, NEW p \in PolicyTTLs, Authorize(r, p) PROVE TokenInv'
    BY <1>3 DEF Authorize, Deny, Answer
  <1>4. ASSUME NEW r \in Requests, SelectApp(r) PROVE TokenInv'
    BY <1>4 DEF SelectApp, Deny, Answer
  <1>5. ASSUME NEW r \in Requests, NEW t \in Tokens, MintToken(r, t) PROVE TokenInv'
    BY <1>5 DEF MintToken, CreateToken
  <1>6. ASSUME NEW r \in Requests, NEW t \in Tokens, MintReplyLost(r, t) PROVE TokenInv'
    BY <1>6 DEF MintReplyLost, CreateToken
  <1>7. ASSUME NEW r \in Requests, MintFails(r) PROVE TokenInv'
    BY <1>7 DEF MintFails, Deny, Answer
  <1>8. ASSUME NEW r \in Requests, QueryRateLimit(r) PROVE TokenInv'
    BY <1>8 DEF QueryRateLimit
  <1>9. ASSUME NEW r \in Requests, RecordToken(r) PROVE TokenInv'
    <2>1. held[r] \in Tokens /\ held[r] \in received
      BY <1>9 DEF RecordToken
    <2>2. /\ expires'[held[r]] <= ghExpiry[held[r]]
          /\ expires'[held[r]] <= now + MaxTokenTTL
      BY <1>9, <2>1, CapExpiryBounded DEF RecordToken
    <2>3. \A t \in Tokens : t # held[r] => expires'[t] = expires[t]
      BY <1>9, <2>1 DEF RecordToken
    <2>4. Capped'
      BY <1>9, <2>1, <2>2, <2>3 DEF RecordToken
    <2>5. OnlyOverdue' /\ ReportedExpiryBounded'
      BY <1>9, <2>1, <2>3 DEF RecordToken
    <2>6. HeldReceived' /\ HeldDistinct' /\ Unrecorded' /\ Knowledge' /\ NotForgotten'
      BY <1>9, <2>1 DEF RecordToken
    <2> QED
      BY <2>4, <2>5, <2>6
  <1>10. ASSUME NEW r \in Requests, AuditGranted(r) PROVE TokenInv'
    BY <1>10 DEF AuditGranted, Answer
  <1>11. ASSUME NEW r \in Requests, ReturnToken(r) PROVE TokenInv'
    BY <1>11 DEF ReturnToken, Answer
  <1>12. ASSUME StartPass PROVE TokenInv'
    BY <1>12 DEF StartPass, GetExpired
  <1>13. ASSUME NEW t \in Tokens, StartRevocation(t) PROVE TokenInv'
    BY <1>13 DEF StartRevocation
  <1>14. ASSUME NEW t \in Tokens, RevokeSucceeds(t) PROVE TokenInv'
    BY <1>14 DEF RevokeSucceeds
  <1>15. ASSUME NEW t \in Tokens, RevokeFails(t) PROVE TokenInv'
    BY <1>15 DEF RevokeFails
  <1>16. ASSUME Signal PROVE TokenInv'
    BY <1>16 DEF Signal
  <1>17. ASSUME ProcessEnds PROVE TokenInv'
    BY <1>17 DEF ProcessEnds, InFlight
  <1>18. ASSUME Start PROVE TokenInv'
    BY <1>18 DEF Start
  <1>19. ASSUME Tick PROVE TokenInv'
    BY <1>19 DEF Tick
  <1>20. CASE UNCHANGED vars
    BY <1>20 DEF vars
  <1> QED
    BY <1>1, <1>2, <1>3, <1>4, <1>5, <1>6, <1>7, <1>8, <1>9, <1>10, <1>11, <1>12,
       <1>13, <1>14, <1>15, <1>16, <1>17, <1>18, <1>19, <1>20
       DEF Next, RequestStep, RevokerStep, ProcessStep, Close, Crash

------------------------------------------------------------------------------
(* Audit *)

\* The log is empty at the start.
LEMMA AuditInit == Init => AuditInv
  BY DEF Init, AuditInv, GrantLogged, DeliveredIsAudited, FinishedRequestsAudited

\* A denial, wherever it happens, leaves its audit entry or a failed write.
LEMMA DenyAudited ==
    ASSUME TypeInv, AuditInv, NEW r \in Requests, NEW reason \in DenyReasons,
           NEW code \in {reason, "INTERNAL_ERROR"},
           Deny(r, reason, code), UNCHANGED <<held, delivered>>
    PROVE  AuditInv'
  <1>1. audit \subseteq audit' /\ auditFailed \subseteq auditFailed'
    BY DEF Deny, AuditDenied
  <1>2. /\ pc'[r] = "done" /\ answer'[r] = code
        /\ \A s \in Requests : s # r => pc'[s] = pc[s] /\ answer'[s] = answer[s]
    BY DEF Deny, Answer, TypeInv, TypeOK
  <1>3. GrantLogged'
    BY <1>1, <1>2 DEF AuditInv, GrantLogged, Granted
  <1>4. DeliveredIsAudited'
    BY <1>1 DEF AuditInv, DeliveredIsAudited, Granted
  <1>5. ASSUME NEW s \in Requests, pc'[s] = "done", answer'[s] \notin UnauditedCodes,
               s \notin auditFailed'
        PROVE  \E a \in audit' : /\ a.request = s
                                 /\ answer'[s] \in {a.outcome, "INTERNAL_ERROR"}
                                 /\ (a.outcome = "granted") <=> (answer'[s] = "granted")
    <2>1. CASE s = r
      <3>1. Denied(r, reason) \in audit'
        BY <1>5, <2>1 DEF Deny, AuditDenied
      <3>2. Denied(r, reason).request = r /\ Denied(r, reason).outcome = reason
        BY DEF Denied
      <3>3. reason # "granted" /\ code # "granted"
        BY DEF DenyReasons
      <3> QED
        BY <1>2, <2>1, <3>1, <3>2, <3>3
    <2>2. CASE s # r
      BY <1>1, <1>2, <1>5, <2>2 DEF AuditInv, FinishedRequestsAudited
    <2> QED
      BY <2>1, <2>2
  <1> QED
    BY <1>3, <1>4, <1>5 DEF AuditInv, FinishedRequestsAudited

\* Every step keeps the log complete: each way out of exchange writes its entry first.
LEMMA AuditStep == TypeInv /\ TypeInv' /\ AuditInv /\ [Next]_vars => AuditInv'
  <1> SUFFICES ASSUME TypeInv, TypeInv', AuditInv, [Next]_vars PROVE AuditInv'
    OBVIOUS
  <1> USE DEF TypeInv, TypeOK, procVars, loopVars, requestVars, githubVars,
              trackerVars, clientVars, auditVars, AuditInv, GrantLogged,
              DeliveredIsAudited, FinishedRequestsAudited
  <1>1. ASSUME NEW r \in Requests, NEW d \in RequestTTLs, Begin(r, d) PROVE AuditInv'
    BY <1>1 DEF Begin, Answer, UnauditedCodes
  <1>2. ASSUME NEW r \in Requests, ValidateOIDC(r) PROVE AuditInv'
    BY <1>2 DEF ValidateOIDC, Answer, UnauditedCodes
  <1>3. ASSUME NEW r \in Requests, NEW p \in PolicyTTLs, Authorize(r, p) PROVE AuditInv'
    <2>1. CASE Deny(r, "POLICY_DENIED", "POLICY_DENIED")
      BY <1>3, <2>1, DenyAudited DEF Authorize, DenyReasons
    <2>2. CASE pc' = [pc EXCEPT ![r] = "selecting"] /\ UNCHANGED <<answer, auditVars>>
      BY <1>3, <2>2 DEF Authorize
    <2> QED
      BY <1>3, <2>1, <2>2 DEF Authorize
  <1>4. ASSUME NEW r \in Requests, SelectApp(r) PROVE AuditInv'
    <2>1. CASE Deny(r, "RATE_LIMITED", "RATE_LIMITED") \/ Deny(r, "APP_SELECTION_FAILED", "INTERNAL_ERROR")
      BY <1>4, <2>1, DenyAudited DEF SelectApp, DenyReasons
    <2>2. CASE pc' = [pc EXCEPT ![r] = "minting"] /\ UNCHANGED <<answer, auditVars>>
      BY <1>4, <2>2 DEF SelectApp
    <2> QED
      BY <1>4, <2>1, <2>2 DEF SelectApp
  <1>5. ASSUME NEW r \in Requests, NEW t \in Tokens, MintToken(r, t) PROVE AuditInv'
    BY <1>5 DEF MintToken
  <1>6. ASSUME NEW r \in Requests, NEW t \in Tokens, MintReplyLost(r, t) PROVE AuditInv'
    BY <1>6 DEF MintReplyLost
  <1>7. ASSUME NEW r \in Requests, MintFails(r) PROVE AuditInv'
    BY <1>7, DenyAudited DEF MintFails, DenyReasons
  <1>8. ASSUME NEW r \in Requests, QueryRateLimit(r) PROVE AuditInv'
    BY <1>8 DEF QueryRateLimit
  <1>9. ASSUME NEW r \in Requests, RecordToken(r) PROVE AuditInv'
    BY <1>9 DEF RecordToken
  <1>10. ASSUME NEW r \in Requests, AuditGranted(r) PROVE AuditInv'
    <2>1. audit \subseteq audit' /\ auditFailed \subseteq auditFailed'
      BY <1>10 DEF AuditGranted
    <2>2. \A s \in Requests : s # r => pc'[s] = pc[s] /\ answer'[s] = answer[s]
      BY <1>10 DEF AuditGranted, Answer
    <2>3. \/ pc'[r] = "returning" /\ Granted(r, held[r]) \in audit'
          \/ pc'[r] = "done" /\ r \in auditFailed'
      BY <1>10 DEF AuditGranted, Answer
    <2>4. GrantLogged' /\ DeliveredIsAudited'
      BY <1>10, <2>1, <2>2, <2>3 DEF AuditGranted, Granted
    <2>5. FinishedRequestsAudited'
      BY <2>1, <2>2, <2>3
    <2> QED
      BY <2>4, <2>5
  <1>11. ASSUME NEW r \in Requests, ReturnToken(r) PROVE AuditInv'
    <2>1. Granted(r, held[r]) \in audit /\ UNCHANGED auditVars
      BY <1>11 DEF ReturnToken
    <2>2. /\ pc'[r] = "done" /\ answer'[r] = "granted"
          /\ \A s \in Requests : s # r => pc'[s] = pc[s] /\ answer'[s] = answer[s]
      BY <1>11 DEF ReturnToken, Answer
    <2>3. Granted(r, held[r]).request = r /\ Granted(r, held[r]).outcome = "granted"
      BY DEF Granted
    <2>4. GrantLogged' /\ DeliveredIsAudited'
      BY <1>11, <2>1, <2>2 DEF ReturnToken, Granted
    <2>5. FinishedRequestsAudited'
      BY <2>1, <2>2, <2>3
    <2> QED
      BY <2>4, <2>5
  <1>12. ASSUME RevokerStep PROVE AuditInv'
    BY <1>12 DEF RevokerStep, StartPass, StartRevocation, RevokeSucceeds, RevokeFails
  <1>13. ASSUME ProcessEnds PROVE AuditInv'
    BY <1>13 DEF ProcessEnds, InFlight
  <1>14. ASSUME Signal \/ Start \/ Tick PROVE AuditInv'
    BY <1>14 DEF Signal, Start, Tick
  <1>15. CASE UNCHANGED vars
    BY <1>15 DEF vars
  <1> QED
    BY <1>1, <1>2, <1>3, <1>4, <1>5, <1>6, <1>7, <1>8, <1>9, <1>10, <1>11, <1>12,
       <1>13, <1>14, <1>15
       DEF Next, RequestStep, ProcessStep, Close, Crash

------------------------------------------------------------------------------
(* What holds in every reachable state *)

\* The parts of the invariant hold throughout.
LEMMA Invariance == Spec => [](TypeInv /\ TokenInv /\ AuditInv)
  BY TypeInit, TypeStep, TokenInit, TokenStep, AuditInit, AuditStep, PTL DEF Spec

\* No token reaches a caller without a granted entry in the audit log.
THEOREM DeliveredIsAuditedAlways == Spec => []DeliveredIsAudited
  <1>1. AuditInv => DeliveredIsAudited
    BY DEF AuditInv
  <1> QED
    BY <1>1, Invariance, PTL

\* Authenticated requests are audited unless the audit backend failed.
THEOREM FinishedRequestsAuditedAlways == Spec => []FinishedRequestsAudited
  <1>1. AuditInv => FinishedRequestsAudited
    BY DEF AuditInv
  <1> QED
    BY <1>1, Invariance, PTL

\* The process never forgets a working token it knows of.
THEOREM LiveTokensAreTrackedAlways == Spec => []LiveTokensAreTracked
  <1>1. TokenInv => LiveTokensAreTracked
    BY DEF TokenInv, NotForgotten, LiveTokensAreTracked, Alive
  <1> QED
    BY <1>1, Invariance, PTL

\* The expiry in a response respects GitHub's expiry and the maximum TTL.
THEOREM ReportedExpiryBoundedAlways == Spec => []ReportedExpiryBounded
  <1>1. TokenInv => ReportedExpiryBounded
    BY DEF TokenInv
  <1> QED
    BY <1>1, Invariance, PTL

\* A delivered token works until the expiry its caller was told, through
\* every interleaving with the revocation loop and every restart.
THEOREM UsableUntilExpiryAlways == Spec => []UsableUntilExpiry
  <1>1. TypeInv /\ TokenInv => UsableUntilExpiry
    <2> SUFFICES ASSUME TypeInv, TokenInv, NEW t \in delivered, now <= expires[t]
                 PROVE  Alive(t)
      BY DEF UsableUntilExpiry
    <2>1. t \in minted /\ t \in Tokens
      BY DEF TokenInv, Knowledge, TypeInv, TypeOK
    <2>2. now \in Nat /\ expires[t] \in Nat /\ ghExpiry[t] \in Nat
      BY <2>1 DEF TypeInv, TypeOK
    <2>3. t \notin revoked
      BY <2>1, <2>2 DEF TokenInv, OnlyOverdue
    <2>4. now <= ghExpiry[t]
      BY <2>2 DEF TokenInv, ReportedExpiryBounded
    <2> QED
      BY <2>1, <2>3, <2>4 DEF Alive
  <1> QED
    BY <1>1, Invariance, PTL

------------------------------------------------------------------------------
(* How late a token is revoked, when the loop is prompt, GitHub revokes what  *)
(* it is asked to and the process does not end                                *)

Promptly == PromptRevoker /\ ~RevocationMayFail /\ MaxStops = 0

\* One process from the start, which receives every token it delivers.
OneProcess == stops = 0 /\ Running /\ loopStart = 0 /\ delivered \subseteq received

\* From authorization to Record a request has a TTL that is not zero, so that
\* no working token is recorded after its expiry.
HasTTL ==
    \A r \in Requests : pc[r] \in {"selecting", "minting", "rating", "recording"} => ttl[r] >= 1

\* A working token that was overdue at a tick is overdue at the tick of this
\* very moment, which the loop has not taken yet or whose pass still has it.
PassInv ==
    \A t \in tracked : \A m \in Nat :
        (m % RevocationInterval = 0 /\ m <= now /\ Alive(t) /\ expires[t] < m) =>
            m = now /\ (ticked \/ t \in batch \/ t \in revoking)

PromptInv == OneProcess /\ HasTTL /\ PassInv

\* Nothing is overdue at the start.
LEMMA PromptInit == Init => PromptInv
  BY DEF Init, PromptInv, OneProcess, HasTTL, PassInv, Running

\* A step of a request before or after Record leaves the tracker, the loop
\* and the clock alone, and never brings a tracked token back to life.
LEMMA PassSame ==
    ASSUME TypeInv, TokenInv, PassInv, UNCHANGED <<now, ticked, batch, revoking, revoked>>,
           UNCHANGED <<tracked, expires>>,
           \A t \in minted : t \in minted' /\ ghExpiry'[t] = ghExpiry[t]
    PROVE  PassInv'
  <1>1. \A t \in tracked : t \in minted
    BY DEF TokenInv, Knowledge
  <1>2. \A t \in tracked : Alive(t)' => Alive(t)
    BY <1>1 DEF Alive
  <1> QED
    BY <1>1, <1>2 DEF PassInv

\* A process that is not to end does not.
LEMMA OneProcessStep ==
    ASSUME Promptly, TypeInv, TokenInv, OneProcess, [Next]_vars
    PROVE  OneProcess'
  <1> USE DEF OneProcess, Running, procVars, loopVars, requestVars, githubVars, trackerVars,
              clientVars, auditVars
  <1>1. ASSUME NEW r \in Requests, NEW d \in RequestTTLs, Begin(r, d) PROVE OneProcess'
    BY <1>1 DEF Begin
  <1>2. ASSUME NEW r \in Requests, RequestStep(r), ~ReturnToken(r) PROVE OneProcess'
    BY <1>2 DEF RequestStep, ValidateOIDC, Authorize, SelectApp, MintToken, MintReplyLost, MintFails,
                QueryRateLimit, RecordToken, AuditGranted
  <1>3. ASSUME NEW r \in Requests, ReturnToken(r) PROVE OneProcess'
    BY <1>3 DEF ReturnToken, TokenInv, HeldReceived, Holding
  <1>4. ASSUME RevokerStep \/ Tick PROVE OneProcess'
    BY <1>4 DEF RevokerStep, StartPass, StartRevocation, RevokeSucceeds, RevokeFails, Tick
  <1>5. ASSUME ProcessStep PROVE OneProcess'
    BY <1>5 DEF Promptly, ProcessStep, Signal, Close, Crash, Start, ProcessEnds
  <1>6. CASE UNCHANGED vars
    BY <1>6 DEF vars
  <1> QED
    BY <1>1, <1>2, <1>3, <1>4, <1>5, <1>6 DEF Next

\* Authorize gives a request its TTL.
LEMMA HasTTLStep ==
    ASSUME TypeInv, HasTTL, [Next]_vars
    PROVE  HasTTL'
  <1> USE DEF TypeInv, TypeOK, HasTTL, procVars, loopVars, requestVars, githubVars, trackerVars,
              clientVars, auditVars
  <1>1. ASSUME NEW r \in Requests, NEW d \in RequestTTLs, Begin(r, d) PROVE HasTTL'
    BY <1>1 DEF Begin, Answer
  <1>2. ASSUME NEW r \in Requests, NEW p \in PolicyTTLs, Authorize(r, p) PROVE HasTTL'
    <2>1. ResolveTTL(requested[r], p) \in 1 .. MaxTokenTTL
      BY ExchangeConstants, ResolvedTTLInRange
    <2> QED
      BY <1>2, <2>1 DEF Authorize, Deny, Answer
  <1>3. ASSUME NEW r \in Requests,
               \/ ValidateOIDC(r) \/ SelectApp(r) \/ MintFails(r) \/ QueryRateLimit(r)
               \/ RecordToken(r) \/ AuditGranted(r) \/ ReturnToken(r)
               \/ \E t \in Tokens : MintToken(r, t) \/ MintReplyLost(r, t)
        PROVE  HasTTL'
    BY <1>3 DEF ValidateOIDC, SelectApp, MintFails, QueryRateLimit, RecordToken, AuditGranted,
                ReturnToken, MintToken, MintReplyLost, Deny, Answer
  <1>4. ASSUME RevokerStep \/ Tick \/ Signal \/ Start PROVE HasTTL'
    BY <1>4 DEF RevokerStep, StartPass, StartRevocation, RevokeSucceeds, RevokeFails, Tick, Signal,
                Start
  <1>5. ASSUME ProcessEnds PROVE HasTTL'
    BY <1>5 DEF ProcessEnds, InFlight
  <1>6. CASE UNCHANGED vars
    BY <1>6 DEF vars
  <1> QED
    BY <1>1, <1>2, <1>3, <1>4, <1>5, <1>6 DEF Next, RequestStep, ProcessStep, Close, Crash

\* A pass takes every overdue token, time does not pass before it is over, and
\* every interval has a tick.
LEMMA PassStep ==
    ASSUME Promptly, TypeInv, TypeInv', TokenInv, PromptInv, OneProcess', [Next]_vars
    PROVE  PassInv'
  <1> USE DEF procVars, loopVars, requestVars, githubVars, trackerVars, clientVars, auditVars
  <1>0. /\ now \in Nat /\ ghExpiry \in [Tokens -> Nat] /\ expires \in [Tokens -> Nat]
        /\ tracked \subseteq Tokens /\ minted \subseteq Tokens /\ PassInv
        /\ tracked \subseteq minted
    BY DEF TypeInv, TypeOK, PromptInv, TokenInv, Knowledge
  <1>1. ASSUME NEW r \in Requests, NEW d \in RequestTTLs, Begin(r, d) PROVE PassInv'
    BY <1>0, <1>1, PassSame DEF Begin
  <1>2. ASSUME NEW r \in Requests,
               \/ ValidateOIDC(r) \/ SelectApp(r) \/ MintFails(r) \/ QueryRateLimit(r)
               \/ AuditGranted(r) \/ ReturnToken(r) \/ \E p \in PolicyTTLs : Authorize(r, p)
        PROVE  PassInv'
    BY <1>0, <1>2, PassSame DEF ValidateOIDC, SelectApp, MintFails, QueryRateLimit, AuditGranted,
                                ReturnToken, Authorize
  <1>3. ASSUME NEW r \in Requests, NEW t \in Tokens, MintToken(r, t) \/ MintReplyLost(r, t)
        PROVE  PassInv'
    BY <1>0, <1>3, PassSame DEF MintToken, MintReplyLost, CreateToken
  <1>4. ASSUME NEW r \in Requests, RecordToken(r) PROVE PassInv'
    <2>1. /\ held[r] \in Tokens /\ ttl[r] \in Nat /\ ttl[r] >= 1 /\ tracked' = tracked \cup {held[r]}
          /\ expires' = [expires EXCEPT ![held[r]] = CapExpiry(ghExpiry[held[r]], now, ttl[r])]
          /\ UNCHANGED <<now, ticked, batch, revoking, revoked, minted, ghExpiry, held>>
          /\ held[r] \notin tracked
      BY <1>4, TTLConfigValid
         DEF RecordToken, TypeInv, TypeOK, HeldIsToken, Holding, PromptInv, HasTTL, TokenInv, Unrecorded
    <2>2. Alive(held[r])' => ~(expires'[held[r]] < now)
      BY <1>0, <2>1 DEF Alive, CapExpiry
    <2>3. \A t \in tracked : expires'[t] = expires[t] /\ (Alive(t)' <=> Alive(t))
      BY <1>0, <2>1 DEF Alive
    <2>4. expires'[held[r]] \in Nat
      BY <2>1 DEF TypeInv, TypeOK
    <2>5. ASSUME NEW m \in Nat, m <= now, Alive(held[r])', expires'[held[r]] < m PROVE FALSE
      BY <1>0, <2>2, <2>4, <2>5
    <2> QED
      BY <1>0, <2>1, <2>3, <2>5 DEF PassInv
  <1>5. ASSUME StartPass PROVE PassInv'
    <2>1. /\ batch' = {t \in tracked : now > expires[t]}
          /\ UNCHANGED <<now, tracked, expires, minted, revoked, ghExpiry>>
      BY <1>5 DEF StartPass, GetExpired
    <2>2. ASSUME NEW t \in tracked, NEW m \in Nat, m % RevocationInterval = 0, m <= now, Alive(t),
                 expires[t] < m
          PROVE  m = now /\ t \in batch'
      <3>1. m = now
        BY <1>0, <2>2 DEF PassInv
      <3>2. expires[t] \in Nat
        BY <1>0
      <3> QED
        BY <1>0, <2>1, <2>2, <3>1, <3>2
    <2> QED
      BY <2>1, <2>2 DEF PassInv, Alive
  <1>6. ASSUME NEW t \in Tokens, StartRevocation(t) PROVE PassInv'
    BY <1>0, <1>6 DEF StartRevocation, PassInv, Alive
  <1>7. ASSUME NEW t \in Tokens, RevokeSucceeds(t) PROVE PassInv'
    BY <1>0, <1>7 DEF RevokeSucceeds, PassInv, Alive
  <1>8. ASSUME NEW t \in Tokens, RevokeFails(t) PROVE PassInv'
    BY <1>8 DEF RevokeFails, Promptly
  <1>9. ASSUME Signal PROVE PassInv'
    BY <1>0, <1>9, PassSame DEF Signal
  <1>10. ASSUME Close \/ Crash \/ Start PROVE FALSE
    BY <1>10 DEF Close, Crash, Start, ProcessEnds, PromptInv, OneProcess, Running
  <1>11. ASSUME Tick PROVE PassInv'
    <2>1. /\ ~ticked /\ batch = {} /\ revoking = {} /\ loopStart = 0 /\ Running
      BY <1>11 DEF Tick, Promptly, PassOver, PromptInv, OneProcess
    <2>2. /\ now' = IF now < MaxTime THEN now + 1 ELSE now
          /\ ticked' = (now = MaxTime \/ (now' - loopStart) % RevocationInterval = 0)
          /\ UNCHANGED <<tracked, expires, minted, revoked, ghExpiry, batch, revoking>>
      BY <1>11, <2>1 DEF Tick
    <2>3. now' \in Nat /\ now <= now' /\ (\A m \in Nat : m <= now' => m <= now \/ m = now')
      BY <1>0, <2>2
    <2>4. ASSUME NEW t \in tracked, NEW m \in Nat, m % RevocationInterval = 0, m <= now', Alive(t)',
                 expires[t] < m
          PROVE  m = now' /\ ticked'
      <3>1. Alive(t)
        BY <1>0, <2>2, <2>3, <2>4 DEF Alive
      <3>2. ~(m <= now)
        BY <1>0, <2>1, <2>4, <3>1 DEF PassInv
      <3>3. m = now'
        BY <2>3, <2>4, <3>2
      <3>4. (now' - loopStart) % RevocationInterval = 0
        BY <2>1, <2>3, <2>4, <3>3
      <3> QED
        BY <2>2, <3>3, <3>4
    <2> QED
      BY <2>2, <2>4 DEF PassInv
  <1>12. CASE UNCHANGED vars
    BY <1>0, <1>12, PassSame DEF vars
  <1> QED
    BY <1>1, <1>2, <1>3, <1>4, <1>5, <1>6, <1>7, <1>8, <1>9, <1>10, <1>11, <1>12
       DEF Next, RequestStep, RevokerStep, ProcessStep

\* With a prompt loop, a GitHub that revokes what it is asked to and a process
\* that does not end, no delivered token outlives the central maximum by more
\* than one interval of the loop, for every TTL, interval and number of tokens
\* (sts.go:389-472).  Without the last of these the exchange_lifetime_restart
\* run shows that it does.
THEOREM LifetimeWithinMaximumAlways ==
    ASSUME PromptRevoker, ~RevocationMayFail, MaxStops = 0
    PROVE  Spec => []LifetimeWithinMaximum
  <1>0. Promptly
    BY DEF Promptly
  <1>1. TypeInv /\ TokenInv /\ PromptInv => LifetimeWithinMaximum
    <2> SUFFICES ASSUME TypeInv, TokenInv, PromptInv, NEW t \in delivered,
                        now > deliveredAt[t] + MaxTokenTTL + RevocationInterval, Alive(t)
                 PROVE  FALSE
      BY DEF LifetimeWithinMaximum
    <2>1. t \in tracked /\ t \in Tokens
      BY DEF TypeInv, TypeOK, TokenInv, NotForgotten, Unrecorded, PromptInv, OneProcess, Alive
    <2>2. /\ now \in Nat /\ expires[t] \in Nat /\ deliveredAt[t] \in Nat /\ MaxTokenTTL \in Nat
          /\ RevocationInterval \in Nat \ {0} /\ expires[t] <= deliveredAt[t] + MaxTokenTTL
      BY <2>1, TTLConfigValid, ExchangeConstants
         DEF ValidTTLs, TypeInv, TypeOK, TokenInv, ReportedExpiryBounded
    <2>3. now \in Nat \ {0} /\ now > expires[t] + RevocationInterval
      BY <2>2
    <2>4. PICK m \in Nat : m % RevocationInterval = 0 /\ m < now /\ now <= m + RevocationInterval
      BY <2>2, <2>3, MultipleBelow
    <2>5. m <= now /\ m # now /\ expires[t] < m
      BY <2>2, <2>3, <2>4
    <2> QED
      BY <2>1, <2>4, <2>5 DEF PromptInv, PassInv
  <1>2. TypeInv /\ TypeInv' /\ TokenInv /\ PromptInv /\ [Next]_vars => PromptInv'
    <2> SUFFICES ASSUME TypeInv, TypeInv', TokenInv, PromptInv, [Next]_vars PROVE PromptInv'
      OBVIOUS
    <2>1. OneProcess' /\ HasTTL'
      BY <1>0, OneProcessStep, HasTTLStep DEF PromptInv
    <2> QED
      BY <1>0, <2>1, PassStep DEF PromptInv
  <1> QED
    BY <1>1, <1>2, PromptInit, Invariance, PTL DEF Spec
==============================================================================
