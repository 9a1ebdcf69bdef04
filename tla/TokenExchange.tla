---------------------------- MODULE TokenExchange ----------------------------
(***************************************************************************)
(* The token exchange of GATE (internal/sts): concurrent exchange calls,   *)
(* the in-memory TokenTracker, the background revocation loop, the audit   *)
(* log, and the process that hosts them, which may drain, stop, crash and  *)
(* start again.  GitHub is external: it mints, expires and revokes tokens, *)
(* and its replies may be lost.                                            *)
(*                                                                         *)
(* A request is one call of Service.exchange.  Its steps are the places    *)
(* where the goroutine blocks on something outside the process; between    *)
(* two of them other requests, the revocation loop, the clock and the end  *)
(* of the process interleave.                                              *)
(***************************************************************************)
EXTENDS TokenLifetime, FiniteSets

CONSTANTS
    Requests,               \* calls of Exchange
    Tokens,                 \* identities of GitHub installation tokens
    NoToken,                \* "this request holds no token"
    RequestTTLs,            \* requested_ttl values that callers send
    PolicyTTLs,             \* token_ttl values of the matched trust policy
    GitHubLifetime,         \* lifetime GitHub gives an installation token
    RevocationInterval,     \* revocationInterval
    RevocationConcurrency,  \* revocationConcurrency
    PromptRevoker,          \* TRUE: a pass that is due ends before time passes
    RevocationMayFail,      \* TRUE: GitHub may answer a revocation with an error
    MaxTime,                \* bound on the clock
    MaxStops                \* bound on how often the process ends

ASSUME ExchangeConstants ==
    /\ NoToken \notin Tokens
    /\ IsFiniteSet(Tokens)
    /\ RequestTTLs \subseteq Int
    /\ PolicyTTLs \subseteq Int
    /\ GitHubLifetime \in Nat \ {0}
    /\ RevocationInterval \in Nat \ {0}
    /\ RevocationConcurrency \in Nat \ {0}
    /\ PromptRevoker \in BOOLEAN
    /\ RevocationMayFail \in BOOLEAN
    /\ MaxTime \in Nat
    /\ MaxStops \in Nat

VARIABLES
    now,          \* the clock
    proc,         \* the process: "up", "draining" (signal received) or "down"
    stops,        \* how often it has ended
    loopStart,    \* when the revocation ticker was created
    ticked,       \* the ticker's channel holds a tick (its buffer is one)
    batch,        \* tokens of the current pass still to be handed to the group
    revoking,     \* tokens whose revocation call is in flight
    pc,           \* what each request is about to do
    requested,    \* requested_ttl of each request
    ttl,          \* its Result.EffectiveTTL; 0 before it is authorized
    held,         \* tokenResp.Token of each request
    answer,       \* what the caller of Exchange got: a code, or "granted"
    minted,       \* tokens GitHub has created
    ghExpiry,     \* when GitHub lets a token die by itself
    revoked,      \* tokens revoked at GitHub
    received,     \* tokens whose creation this process was told about
    tracked,      \* keys of TokenTracker.entries
    expires,      \* the capped expiry of a token: tracker entry and response
    delivered,    \* tokens returned to a caller
    deliveredAt,  \* when
    audit,        \* entries the audit backend holds
    auditFailed   \* requests for which the audit backend returned an error

requestVars == <<pc, requested, ttl, held, answer>>
githubVars  == <<minted, ghExpiry, revoked>>
trackerVars == <<received, tracked, expires>>
clientVars  == <<delivered, deliveredAt>>
loopVars    == <<ticked, batch, revoking>>
procVars    == <<proc, stops, loopStart>>
auditVars   == <<audit, auditFailed>>
vars == <<now, procVars, loopVars, requestVars, githubVars, trackerVars,
          clientVars, auditVars>>

------------------------------------------------------------------------------
(* Types *)

InFlight == {"validating", "authorizing", "selecting", "minting", "rating",
             "recording", "auditing", "returning"}
PCs      == {"idle", "done", "lost"} \cup InFlight

\* The deny reasons that end in an audit entry, and the codes that do not.
UnauditedCodes == {"INVALID_REQUEST", "INVALID_TOKEN"}
DenyReasons == {"POLICY_DENIED", "RATE_LIMITED", "APP_SELECTION_FAILED",
                "GITHUB_API_ERROR"}
Answers == {"none", "granted", "INTERNAL_ERROR"} \cup UnauditedCodes \cup DenyReasons

AuditEntries ==
    [request: Requests, outcome: {"granted"}, token: Tokens]
        \cup [request: Requests, outcome: DenyReasons, token: {NoToken}]

Granted(r, t) == [request |-> r, outcome |-> "granted", token |-> t]
Denied(r, reason) == [request |-> r, outcome |-> reason, token |-> NoToken]

\* Type invariant.
TypeOK ==
    /\ now \in Nat
    /\ proc \in {"up", "draining", "down"}
    /\ stops \in Nat
    /\ loopStart \in Nat
    /\ ticked \in BOOLEAN
    /\ batch \subseteq Tokens
    /\ revoking \subseteq Tokens
    /\ pc \in [Requests -> PCs]
    /\ requested \in [Requests -> 0 .. MaxTokenTTL]
    /\ ttl \in [Requests -> 0 .. MaxTokenTTL]
    /\ held \in [Requests -> Tokens \cup {NoToken}]
    /\ answer \in [Requests -> Answers]
    /\ minted \subseteq Tokens
    /\ ghExpiry \in [Tokens -> Nat]
    /\ revoked \subseteq Tokens
    /\ received \subseteq Tokens
    /\ tracked \subseteq Tokens
    /\ expires \in [Tokens -> Nat]
    /\ delivered \subseteq Tokens
    /\ deliveredAt \in [Tokens -> Nat]
    /\ audit \subseteq AuditEntries
    /\ auditFailed \subseteq Requests

------------------------------------------------------------------------------
(* GitHub: a token works until it is revoked or its own expiry passes. *)

Alive(t) == t \in minted /\ t \notin revoked /\ now <= ghExpiry[t]

\* POST /app/installations/{id}/access_tokens, at GitHub.
CreateToken(t) ==
    /\ t \in Tokens \ minted
    /\ minted' = minted \cup {t}
    /\ ghExpiry' = [ghExpiry EXCEPT ![t] = now + GitHubLifetime]
    /\ UNCHANGED revoked

------------------------------------------------------------------------------
(* One exchange *)

Running == proc # "down"

\* The request's goroutine ends with an answer for the caller.
Answer(r, code) ==
    /\ pc' = [pc EXCEPT ![r] = "done"]
    /\ answer' = [answer EXCEPT ![r] = code]

\* auditDenied: best effort, an error of the backend is only logged.  The
\* write may have reached the backend although the call failed.
AuditDenied(r, reason) ==
    \/ audit' = audit \cup {Denied(r, reason)} /\ UNCHANGED auditFailed
    \/ /\ audit' \in {audit, audit \cup {Denied(r, reason)}}
       /\ auditFailed' = auditFailed \cup {r}

Deny_Unaudited(r, reason, code) ==
    /\ Answer(r, code)
    /\ UNCHANGED auditVars

\* A denial after the caller is known: audited, then answered with a code.
Deny(r, reason, code) ==
    /\ AuditDenied(r, reason)
    /\ Answer(r, code)

\* The handler calls Exchange; validateRequest may refuse the request.
\* While the server drains a connection that was kept alive may still bring
\* one.
Begin(r, requestedTTL) ==
    /\ Running
    /\ pc[r] = "idle"
    /\ IF ValidRequestedTTL(requestedTTL)
       THEN /\ pc' = [pc EXCEPT ![r] = "validating"]
            /\ requested' = [requested EXCEPT ![r] = requestedTTL]
            /\ UNCHANGED answer
       ELSE Answer(r, "INVALID_REQUEST") /\ UNCHANGED requested
    /\ UNCHANGED <<now, procVars, loopVars, ttl, held, githubVars, trackerVars,
                   clientVars, auditVars>>

\* oidc.Validate: a bad token ends the request without an audit entry.
ValidateOIDC(r) ==
    /\ Running
    /\ pc[r] = "validating"
    /\ \/ pc' = [pc EXCEPT ![r] = "authorizing"] /\ UNCHANGED answer
       \/ Answer(r, "INVALID_TOKEN")
    /\ UNCHANGED <<now, procVars, loopVars, requested, ttl, held, githubVars, trackerVars,
                   clientVars, auditVars>>

\* authorizer.Authorize: the decision is the Authorizer module's; a grant
\* carries the TTL resolved against the matched policy's token_ttl.
Authorize(r, policyTTL) ==
    /\ Running
    /\ pc[r] = "authorizing"
    /\ \/ /\ pc' = [pc EXCEPT ![r] = "selecting"]
          /\ ttl' = [ttl EXCEPT ![r] = ResolveTTL(requested[r], policyTTL)]
          /\ UNCHANGED <<answer, auditVars>>
       \/ Deny(r, "POLICY_DENIED", "POLICY_DENIED") /\ UNCHANGED ttl
    /\ UNCHANGED <<now, procVars, loopVars, requested, held, githubVars,
                   trackerVars, clientVars>>

\* selector.SelectApp: an app, all apps exhausted, or another failure, which
\* the caller sees as an internal error.  The lookup of the app's client finds
\* it: apps and clients are built from the same list.
SelectApp(r) ==
    /\ Running
    /\ pc[r] = "selecting"
    /\ \/ /\ pc' = [pc EXCEPT ![r] = "minting"]
          /\ UNCHANGED <<answer, auditVars>>
       \/ Deny(r, "RATE_LIMITED", "RATE_LIMITED")
       \/ Deny(r, "APP_SELECTION_FAILED", "INTERNAL_ERROR")
    /\ UNCHANGED <<now, procVars, loopVars, requested, ttl, held, githubVars, trackerVars,
                   clientVars>>

\* client.RequestToken succeeds: GitHub mints and the reply arrives.
MintToken(r, t) ==
    /\ Running
    /\ pc[r] = "minting"
    /\ CreateToken(t)
    /\ pc' = [pc EXCEPT ![r] = "rating"]
    /\ held' = [held EXCEPT ![r] = t]
    /\ received' = received \cup {t}
    /\ UNCHANGED <<now, procVars, loopVars, requested, ttl, answer, tracked, expires,
                   clientVars, auditVars>>

\* GitHub mints but its reply is an error or is lost; the retrying transport
\* sends the POST again, so the request is still minting.
MintReplyLost(r, t) ==
    /\ Running
    /\ pc[r] = "minting"
    /\ CreateToken(t)
    /\ UNCHANGED <<now, procVars, loopVars, requestVars, trackerVars,
                   clientVars, auditVars>>

MintFails_RetryForever(r) == FALSE

\* client.RequestToken gives up.
MintFails(r) ==
    /\ Running
    /\ pc[r] = "minting"
    /\ Deny(r, "GITHUB_API_ERROR", "GITHUB_API_ERROR")
    /\ UNCHANGED <<now, procVars, loopVars, requested, ttl, held, githubVars, trackerVars,
                   clientVars>>

\* client.RateLimit and selector.RecordUsage: failures are only logged, and
\* what they write is the selector's state, not this module's.
QueryRateLimit(r) ==
    /\ Running
    /\ pc[r] = "rating"
    /\ pc' = [pc EXCEPT ![r] = "recording"]
    /\ UNCHANGED <<now, procVars, loopVars, requested, ttl, held, answer, githubVars,
                   trackerVars, clientVars, auditVars>>

\* capExpiry and tokenTracker.Record.
RecordToken(r) ==
    /\ Running
    /\ pc[r] = "recording"
    /\ LET t == held[r] IN
         /\ expires' = [expires EXCEPT ![t] = CapExpiry(ghExpiry[t], now, ttl[r])]
         /\ tracked' = tracked \cup {t}
    /\ pc' = [pc EXCEPT ![r] = "auditing"]
    /\ UNCHANGED <<now, procVars, loopVars, requested, ttl, held, answer, githubVars,
                   received, clientVars, auditVars>>

AuditGranted_BestEffort(r) ==
    /\ Running
    /\ pc[r] = "auditing"
    /\ \/ audit' = audit \cup {Granted(r, held[r])} /\ UNCHANGED auditFailed
       \/ UNCHANGED audit /\ auditFailed' = auditFailed \cup {r}
    /\ pc' = [pc EXCEPT ![r] = "returning"]
    /\ UNCHANGED <<now, procVars, loopVars, requested, ttl, held, answer,
                   githubVars, trackerVars, clientVars>>

\* auditGranted: on an error the caller gets an internal error, no token.
AuditGranted(r) ==
    /\ Running
    /\ pc[r] = "auditing"
    /\ \/ /\ audit' = audit \cup {Granted(r, held[r])}
          /\ pc' = [pc EXCEPT ![r] = "returning"]
          /\ UNCHANGED <<answer, auditFailed>>
       \/ /\ audit' \in {audit, audit \cup {Granted(r, held[r])}}
          /\ auditFailed' = auditFailed \cup {r}
          /\ Answer(r, "INTERNAL_ERROR")
    /\ UNCHANGED <<now, procVars, loopVars, requested, ttl, held, githubVars, trackerVars,
                   clientVars>>

\* exchange returns the token and its capped expiry to the caller.
ReturnToken(r) ==
    /\ Running
    /\ pc[r] = "returning"
    /\ Answer(r, "granted")
    /\ delivered' = delivered \cup {held[r]}
    /\ deliveredAt' = [deliveredAt EXCEPT ![held[r]] = now]
    /\ UNCHANGED <<now, procVars, loopVars, requested, ttl, held, githubVars, trackerVars,
                   auditVars>>

------------------------------------------------------------------------------
(* The revocation loop: one pass at a time, started by the ticker. *)

GetExpired_AllEntries == tracked

\* TokenTracker.GetExpired
GetExpired == {t \in tracked : now > expires[t]}

PassOver == batch = {} /\ revoking = {}

\* runRevocationLoop takes a tick; revokeExpiredTokens takes its snapshot.
StartPass ==
    /\ Running
    /\ ticked
    /\ PassOver
    /\ ticked' = FALSE
    /\ batch' = GetExpired
    /\ UNCHANGED <<now, procVars, revoking, requestVars, githubVars,
                   trackerVars, clientVars, auditVars>>

\* group.Go: at most RevocationConcurrency calls at a time.
StartRevocation(t) ==
    /\ Running
    /\ t \in batch
    /\ Cardinality(revoking) < RevocationConcurrency
    /\ batch' = batch \ {t}
    /\ revoking' = revoking \cup {t}
    /\ UNCHANGED <<now, procVars, ticked, requestVars, githubVars, trackerVars,
                   clientVars, auditVars>>

\* client.RevokeToken returns nil: GitHub revoked the token, or answered 401
\* because it was already dead.  The tracker drops it.
RevokeSucceeds(t) ==
    /\ Running
    /\ t \in revoking
    /\ revoked' = revoked \cup {t}
    /\ revoking' = revoking \ {t}
    /\ tracked' = tracked \ {t}
    /\ UNCHANGED <<now, procVars, ticked, batch, requestVars, minted, ghExpiry,
                   received, expires, clientVars, auditVars>>

RevokeFails_Forgets(t) ==
    /\ Running
    /\ RevocationMayFail
    /\ t \in revoking
    /\ revoking' = revoking \ {t}
    /\ tracked' = tracked \ {t}
    /\ UNCHANGED <<now, procVars, ticked, batch, requestVars, githubVars,
                   received, expires, clientVars, auditVars>>

\* client.RevokeToken returns an error, whether or not GitHub revoked the
\* token: it stays in the tracker for the next pass.
RevokeFails(t) ==
    /\ Running
    /\ RevocationMayFail
    /\ t \in revoking
    /\ revoked' \in {revoked, revoked \cup {t}}
    /\ revoking' = revoking \ {t}
    /\ UNCHANGED <<now, procVars, ticked, batch, requestVars, minted, ghExpiry,
                   trackerVars, clientVars, auditVars>>

------------------------------------------------------------------------------
(* The process and the clock *)

\* What dies with the process: requests in flight, the tracker, the loop.
ProcessEnds ==
    /\ stops < MaxStops
    /\ proc' = "down"
    /\ stops' = stops + 1
    /\ pc' = [r \in Requests |-> IF pc[r] \in InFlight THEN "lost" ELSE pc[r]]
    /\ received' = {}
    /\ tracked' = {}
    /\ ticked' = FALSE
    /\ batch' = {}
    /\ revoking' = {}
    /\ UNCHANGED <<now, loopStart, requested, ttl, held, answer, githubVars,
                   expires, clientVars, auditVars>>

\* SIGTERM or interrupt: the HTTP server stops listening, requests go on.
Signal ==
    /\ proc = "up"
    /\ proc' = "draining"
    /\ UNCHANGED <<now, stops, loopStart, loopVars, requestVars, githubVars,
                   trackerVars, clientVars, auditVars>>

\* httpServer.Shutdown returned nil: no request is active.  Server.close runs
\* Service.Close, which stops the loop and revokes nothing.
Close ==
    /\ proc = "draining"
    /\ \A r \in Requests : pc[r] \notin InFlight
    /\ ProcessEnds

\* Shutdown gave up after WaitTimeout (serve returns without closing), the
\* server failed, or the process was killed.
Crash ==
    /\ Running
    /\ ProcessEnds

\* A new process: NewService makes an empty tracker and a new ticker.
Start ==
    /\ proc = "down"
    /\ proc' = "up"
    /\ loopStart' = now
    /\ UNCHANGED <<now, stops, loopVars, requestVars, githubVars, trackerVars,
                   clientVars, auditVars>>

\* Time passes; the ticker of a running process puts a tick in its channel
\* every RevocationInterval.  At MaxTime the clock stands still in the model
\* but the ticker does not.
Tick ==
    /\ PromptRevoker => ~(Running /\ (ticked \/ ~PassOver))
    /\ now' = IF now < MaxTime THEN now + 1 ELSE now
    /\ ticked' = \/ ticked
                 \/ /\ Running
                    /\ \/ now = MaxTime
                       \/ (now' - loopStart) % RevocationInterval = 0
    /\ UNCHANGED <<procVars, batch, revoking, requestVars, githubVars,
                   trackerVars, clientVars, auditVars>>

------------------------------------------------------------------------------
Init ==
    /\ now = 0
    /\ proc = "up"
    /\ stops = 0
    /\ loopStart = 0
    /\ ticked = FALSE
    /\ batch = {}
    /\ revoking = {}
    /\ pc = [r \in Requests |-> "idle"]
    /\ requested = [r \in Requests |-> 0]
    /\ ttl = [r \in Requests |-> 0]
    /\ held = [r \in Requests |-> NoToken]
    /\ answer = [r \in Requests |-> "none"]
    /\ minted = {}
    /\ ghExpiry = [t \in Tokens |-> 0]
    /\ revoked = {}
    /\ received = {}
    /\ tracked = {}
    /\ expires = [t \in Tokens |-> 0]
    /\ delivered = {}
    /\ deliveredAt = [t \in Tokens |-> 0]
    /\ audit = {}
    /\ auditFailed = {}

RequestStep(r) ==
    \/ ValidateOIDC(r)
    \/ \E p \in PolicyTTLs : Authorize(r, p)
    \/ SelectApp(r)
    \/ \E t \in Tokens : MintToken(r, t)
    \/ \E t \in Tokens : MintReplyLost(r, t)
    \/ MintFails(r)
    \/ QueryRateLimit(r)
    \/ RecordToken(r)
    \/ AuditGranted(r)
    \/ ReturnToken(r)

RevokerStep ==
    \/ StartPass
    \/ \E t \in Tokens : StartRevocation(t) \/ RevokeSucceeds(t) \/ RevokeFails(t)

ProcessStep == Signal \/ Close \/ Crash \/ Start

Next ==
    \/ \E r \in Requests, d \in RequestTTLs : Begin(r, d)
    \/ \E r \in Requests : RequestStep(r)
    \/ RevokerStep
    \/ ProcessStep
    \/ Tick

Spec == Init /\ [][Next]_vars

\* Scheduling: a request's goroutine keeps running and every call it makes
\* returns (the GitHub client has a timeout); the loop serves its ticker;
\* GitHub does not refuse to revoke a token for ever.
Fairness ==
    /\ \A r \in Requests : WF_vars(RequestStep(r))
    /\ WF_vars(StartPass)
    /\ WF_vars(Tick)
    /\ \A t \in Tokens : /\ WF_vars(StartRevocation(t))
                         /\ WF_vars(RevokeSucceeds(t) \/ RevokeFails(t))
                         /\ SF_vars(RevokeSucceeds(t))

FairSpec == Spec /\ Fairness

------------------------------------------------------------------------------
(* Properties *)

\* A caller that got a token left a granted audit entry naming that token:
\* exchange returns only after auditGranted succeeded (sts.go:391).
DeliveredIsAudited ==
    \A t \in delivered : \E r \in Requests : Granted(r, t) \in audit

\* As long as the process lives, every working token it was told about is in
\* the tracker, or in the hands of a request that will still record it.  A
\* failed revocation, a failed audit write or a pass racing with a request
\* never makes the process forget a working token (sts.go:389, 446-467).
LiveTokensAreTracked ==
    \A t \in received :
        Alive(t) => \/ t \in tracked
                    \/ \E r \in Requests : /\ held[r] = t
                                            /\ pc[r] \in {"rating", "recording"}

\* Until the expiry it was told, a caller can use its token: the loop, which
\* works on a snapshot of the tracker, never revokes early, over restarts
\* too (tracker.go:48-60, sts.go:446).
UsableUntilExpiry ==
    \A t \in delivered : now <= expires[t] => Alive(t)

\* The expiry in a response is never later than GitHub's own, and at the
\* time of the response at most the central maximum away, whatever TTL the
\* request and the trust policy name (match.go:149-161, sts.go:566-572).
ReportedExpiryBounded ==
    \A t \in delivered : /\ expires[t] <= ghExpiry[t]
                         /\ expires[t] <= deliveredAt[t] + MaxTokenTTL

\* A finished request whose caller was authenticated has the audit entry of
\* its outcome, unless the audit backend reported an error for it
\* (sts.go:306-391).
FinishedRequestsAudited ==
    \A r \in Requests :
        (pc[r] = "done" /\ answer[r] \notin UnauditedCodes /\ r \notin auditFailed)
            => \E a \in audit :
                 /\ a.request = r
                 /\ answer[r] \in {a.outcome, "INTERNAL_ERROR"}
                 /\ (a.outcome = "granted") <=> (answer[r] = "granted")

\* A token does not outlive the central maximum by more than one round of
\* the revocation loop (README: lifetimes "cannot exceed the organization's
\* configured maximum").
LifetimeWithinMaximum ==
    \A t \in delivered :
        now > deliveredAt[t] + MaxTokenTTL + RevocationInterval => ~Alive(t)

\* A token past its expiry that the tracker holds eventually stops working,
\* through any number of failed revocations, unless the process ends
\* (sts.go:445-472).
OverdueTokensDie ==
    \A t \in Tokens :
        (t \in tracked /\ now > expires[t]) ~> (~Alive(t) \/ ~Running)

\* Every request that was begun is answered, or lost with its process.
RequestsEnd ==
    \A r \in Requests : (pc[r] \in InFlight) ~> (pc[r] \in {"done", "lost"})
==============================================================================
