---------------------------- MODULE GitHubClient ----------------------------
(***************************************************************************)
(* The GitHub client: concurrent calls of GetContents and RequestToken     *)
(* that share the cache of installation ids, the cache of contents tokens  *)
(* and the two singleflight groups that fill them, one inside the other,   *)
(* over a transport that retries, while the app is uninstalled from and    *)
(* installed again into the accounts it serves.                            *)
(*                                                                         *)
(* A cache looks an entry up under its read lock and drops an expired one  *)
(* under its write lock: two steps.  Every step of a call ends where it    *)
(* takes a lock, joins a flight or waits for GitHub.                       *)
(***************************************************************************)
EXTENDS Integers

CONSTANTS
    Calls,            \* concurrent calls
    Owners,           \* accounts: the key of both caches and of both groups
    Users,            \* the accounts that are users, not organizations
    NoCall,           \* no flight under way
    NoOwner,          \* owner of a call that has not begun
    NoEntry,          \* no cache entry
    InstallationTTL,  \* installationCacheTTL
    TokenLifetime,    \* how long GitHub lets an installation token work
    ExpiryBuffer,     \* tokenCacheExpiryBuffer
    RequestTime,      \* how long a call may take: the request's deadline
    MaxAttempts,      \* RetryConfig.MaxAttempts
    MayLackContents,  \* whether an installation may not grant the app contents:read
    MaxTokens,        \* bound on the tokens minted
    MaxInstallations, \* bound on the installations of an account
    MaxTime           \* bound on the clock

ASSUME GitHubClientConstants ==
    /\ Users \subseteq Owners /\ NoOwner \notin Owners
    /\ NoCall \notin Calls
    /\ InstallationTTL \in Nat /\ TokenLifetime \in Nat /\ RequestTime \in Nat
    /\ ExpiryBuffer \in Nat
    /\ TokenLifetime > ExpiryBuffer    \* an hour, against five minutes
    /\ MaxAttempts \in Nat \ {0} /\ MayLackContents \in BOOLEAN
    /\ MaxTokens \in Nat /\ MaxInstallations \in Nat \ {0} /\ MaxTime \in Nat

\* Five minutes against twice server.request_timeout, 30 seconds unless it is
\* configured: any positive time is accepted.
BufferCoversRequests == ExpiryBuffer > 2 * RequestTime

VARIABLES
    now,            \* the clock
    installation,   \* GitHub: the last installation of the app, and whether it is on
    since,          \* GitHub: since when
    minted,         \* GitHub: number of tokens minted
    installations,  \* installationCache.entries: [id, fetched], or NoEntry
    tokens,         \* tokenCache.entries: a token, or NoEntry
    lookupLeader,   \* installationSF: the call that looks an owner up
    mintLeader,     \* tokenMintSF: the call that mints a token for an owner
    call            \* the calls

githubVars == <<installation, since, minted>>
cacheVars == <<installations, tokens>>
flightVars == <<lookupLeader, mintLeader>>
vars == <<now, githubVars, cacheVars, flightVars, call>>

Ids == 0 .. MaxInstallations
Token == [n: 0 .. MaxTokens, id: Ids, expiresAt: Nat]
NoToken == [n |-> 0, id |-> 0, expiresAt |-> 0]

ASSUME NoEntryIsNoToken == NoEntry \notin Token

\* The steps at which a call waits for a reply from GitHub.
RequestSteps == {"org", "user", "mint", "contents"}
\* The steps inside the function given to installationSF.Do.
LookupSteps == {"get_id_again", "drop_id_again", "org", "user", "found"}
\* The steps inside the function given to tokenMintSF.Do.
MintSteps ==
    {"get_again", "drop_again", "get_id", "drop_id", "join_id", "wait_id",
     "mint", "ready", "land"} \cup LookupSteps
Steps ==
    {"idle", "get", "drop", "join", "wait", "contents"} \cup MintSteps

Call ==
    [pc: Steps, kind: {"contents", "token"}, owner: Owners \cup {NoOwner},
     id: Ids, token: Token, refused: 0 .. MaxTokens, skipCache: BOOLEAN,
     attempt: 1 .. MaxAttempts, began: Nat,
     result: {"none", "ok", "invalid_repository", "installation_not_found",
              "repository_not_found", "file_not_found", "failed"}]

Idle ==
    [pc |-> "idle", kind |-> "contents", owner |-> NoOwner, id |-> 0,
     token |-> NoToken, refused |-> 0, skipCache |-> FALSE, attempt |-> 1,
     began |-> 0, result |-> "none"]

\* Type invariant.
TypeOK ==
    /\ now \in Nat
    /\ installation \in [Owners -> [id: Ids, on: BOOLEAN]]
    /\ since \in [Owners -> Nat]
    /\ minted \in 0 .. MaxTokens
    /\ installations \in [Owners -> [id: Ids, fetched: Nat] \cup {NoEntry}]
    /\ tokens \in [Owners -> Token \cup {NoEntry}]
    /\ lookupLeader \in [Owners -> Calls \cup {NoCall}]
    /\ mintLeader \in [Owners -> Calls \cup {NoCall}]
    /\ call \in [Calls -> Call]

At(c, step) == call[c].pc = step
Goto(c, step) == call' = [call EXCEPT ![c].pc = step]
Owner(c) == call[c].owner

------------------------------------------------------------------------------
(* The two caches *)

\* installationCache.get: the entry is over.
IdExpired(o) == now - installations[o].fetched > InstallationTTL

TokenExpired_AtExpiry(e) == now > e.expiresAt

\* tokenCache.get: the entry is within the buffer of its expiry.
TokenExpired(e) == now > e.expiresAt - ExpiryBuffer

\* installationCache.set
SetId(o, id) == installations' = [installations EXCEPT ![o] = [id |-> id, fetched |-> now]]

\* tokenCache.set
SetToken(o, token) == tokens' = [tokens EXCEPT ![o] = token]

\* A store for an account outside Owners finds a cache full and the entry of
\* o its oldest, or the one that expires first.
Evict(o) ==
    /\ \/ installations' = [installations EXCEPT ![o] = NoEntry] /\ UNCHANGED tokens
       \/ tokens' = [tokens EXCEPT ![o] = NoEntry] /\ UNCHANGED installations
    /\ UNCHANGED <<now, githubVars, flightVars, call>>

------------------------------------------------------------------------------
(* The ends of flights *)

LookupWaiters(c) == {d \in Calls : At(d, "wait_id") /\ lookupLeader[Owner(d)] = c}
MintWaiters(c) == {d \in Calls : At(d, "wait") /\ mintLeader[Owner(d)] = c}

\* The calls that share an error of c: those that wait for its lookup and,
\* because a lookup may be part of a mint, those that wait for their mints.
Failing(c) ==
    LET leaders == {c} \cup LookupWaiters(c)
    IN  leaders \cup UNION {MintWaiters(d) : d \in leaders}

\* A call that has returned.
Ended(result) == [Idle EXCEPT !.result = result]

Without(leader, S) == [o \in Owners |-> IF leader[o] \in S THEN NoCall ELSE leader[o]]

Fail_LeaderOnly(c, code) ==
    /\ call' = [call EXCEPT ![c] = Ended(code)]
    /\ lookupLeader' = Without(lookupLeader, {c})
    /\ mintLeader' = Without(mintLeader, {c})

\* The step of c returned an error: it is passed up through both groups.
Fail(c, code) ==
    LET failing == Failing(c) IN
    /\ call' = [d \in Calls |-> IF d \in failing THEN Ended(code) ELSE call[d]]
    /\ lookupLeader' = Without(lookupLeader, failing)
    /\ mintLeader' = Without(mintLeader, failing)

\* installationSF.Do returns id to the leader c and to all who wait.
EndLookup(c, id) ==
    LET shared == {c} \cup LookupWaiters(c) IN
    /\ call' = [d \in Calls |->
                   IF d \in shared
                   THEN [call[d] EXCEPT !.pc = "mint", !.id = id, !.attempt = 1]
                   ELSE call[d]]
    /\ lookupLeader' = Without(lookupLeader, {c})
    /\ UNCHANGED mintLeader

------------------------------------------------------------------------------
(* GetContents and RequestToken up to the token cache *)

\* A call for a repository of the form owner/repo (parseRepository).
Begin(c, kind, o) ==
    /\ At(c, "idle")
    /\ call' = [call EXCEPT ![c] =
                   [Idle EXCEPT !.pc = IF kind = "contents" THEN "get" ELSE "get_id",
                                !.kind = kind, !.owner = o, !.began = now]]
    /\ UNCHANGED <<now, githubVars, cacheVars, flightVars>>

\* ErrInvalidRepository.
Malformed(c) ==
    /\ At(c, "idle")
    /\ call' = [call EXCEPT ![c] = Ended("invalid_repository")]
    /\ UNCHANGED <<now, githubVars, cacheVars, flightVars>>

GetToken_KeepsRefused(c) ==
    LET e == tokens[Owner(c)] IN
    /\ At(c, "get")
    /\ IF call[c].skipCache \/ e = NoEntry THEN Goto(c, "join")
       ELSE IF TokenExpired(e) THEN Goto(c, "drop")
       ELSE call' = [call EXCEPT ![c].pc = "contents", ![c].token = e]
    /\ UNCHANGED <<now, githubVars, cacheVars, flightVars>>

\* mintToken begins: the refused token is dropped, or the cache is asked.
GetToken(c) ==
    LET e == tokens[Owner(c)] IN
    /\ At(c, "get")
    /\ IF call[c].skipCache
       THEN tokens' = [tokens EXCEPT ![Owner(c)] = NoEntry] /\ Goto(c, "join")
       ELSE /\ IF e = NoEntry THEN Goto(c, "join")
               ELSE IF TokenExpired(e) THEN Goto(c, "drop")
               ELSE call' = [call EXCEPT ![c].pc = "contents", ![c].token = e]
            /\ UNCHANGED tokens
    /\ UNCHANGED <<now, githubVars, installations, flightVars>>

DropToken_NoRecheck(c) ==
    /\ call[c].pc \in {"drop", "drop_again"}
    /\ tokens' = [tokens EXCEPT ![Owner(c)] = NoEntry]
    /\ Goto(c, IF At(c, "drop") THEN "join" ELSE "get_id")
    /\ UNCHANGED <<now, githubVars, installations, flightVars>>

\* tokenCache.get saw an expired entry: look again under the write lock.
DropToken(c) ==
    LET e == tokens[Owner(c)] IN
    /\ call[c].pc \in {"drop", "drop_again"}
    /\ tokens' = IF e # NoEntry /\ TokenExpired(e)
                 THEN [tokens EXCEPT ![Owner(c)] = NoEntry] ELSE tokens
    /\ Goto(c, IF At(c, "drop") THEN "join" ELSE "get_id")
    /\ UNCHANGED <<now, githubVars, installations, flightVars>>

\* tokenMintSF.Do: wait for the flight under way, or lead one.
JoinMint(c) ==
    /\ At(c, "join")
    /\ IF mintLeader[Owner(c)] = NoCall
       THEN /\ mintLeader' = [mintLeader EXCEPT ![Owner(c)] = c]
            /\ Goto(c, IF call[c].skipCache THEN "get_id" ELSE "get_again")
       ELSE Goto(c, "wait") /\ UNCHANGED mintLeader
    /\ UNCHANGED <<now, githubVars, cacheVars, lookupLeader>>

\* The leader asks the cache again.
GetTokenAgain(c) ==
    LET e == tokens[Owner(c)] IN
    /\ At(c, "get_again")
    /\ IF e = NoEntry THEN Goto(c, "get_id")
       ELSE IF TokenExpired(e) THEN Goto(c, "drop_again")
       ELSE call' = [call EXCEPT ![c].pc = "land", ![c].token = e]
    /\ UNCHANGED <<now, githubVars, cacheVars, flightVars>>

------------------------------------------------------------------------------
(* getInstallationID *)

GetId_NoExpiry(c) ==
    LET e == installations[Owner(c)] IN
    /\ At(c, "get_id")
    /\ IF e = NoEntry THEN Goto(c, "join_id")
       ELSE call' = [call EXCEPT ![c].pc = "mint", ![c].id = e.id]
    /\ UNCHANGED <<now, githubVars, cacheVars, flightVars>>

\* The first look into the cache of installation ids.
GetId(c) ==
    LET e == installations[Owner(c)] IN
    /\ At(c, "get_id")
    /\ IF e = NoEntry THEN Goto(c, "join_id")
       ELSE IF IdExpired(Owner(c)) THEN Goto(c, "drop_id")
       ELSE call' = [call EXCEPT ![c].pc = "mint", ![c].id = e.id]
    /\ UNCHANGED <<now, githubVars, cacheVars, flightVars>>

\* installationCache.get saw an expired entry: look again under the write lock.
DropId(c) ==
    /\ call[c].pc \in {"drop_id", "drop_id_again"}
    /\ installations' = IF installations[Owner(c)] # NoEntry /\ IdExpired(Owner(c))
                        THEN [installations EXCEPT ![Owner(c)] = NoEntry]
                        ELSE installations
    /\ call' = [call EXCEPT ![c].pc = IF @ = "drop_id" THEN "join_id" ELSE "org"]
    /\ UNCHANGED <<now, githubVars, tokens, flightVars>>

\* installationSF.Do: wait for the flight under way, or lead one.
JoinLookup(c) ==
    /\ At(c, "join_id")
    /\ IF lookupLeader[Owner(c)] = NoCall
       THEN /\ lookupLeader' = [lookupLeader EXCEPT ![Owner(c)] = c]
            /\ Goto(c, "get_id_again")
       ELSE Goto(c, "wait_id") /\ UNCHANGED lookupLeader
    /\ UNCHANGED <<now, githubVars, cacheVars, mintLeader>>

\* The leader asks the cache again.
GetIdAgain(c) ==
    LET e == installations[Owner(c)] IN
    /\ At(c, "get_id_again")
    /\ IF e # NoEntry /\ ~IdExpired(Owner(c)) THEN EndLookup(c, e.id)
       ELSE /\ Goto(c, IF e = NoEntry THEN "org" ELSE "drop_id_again")
            /\ UNCHANGED flightVars
    /\ UNCHANGED <<now, githubVars, cacheVars>>

Retry_NoLimit(c) ==
    /\ call[c].pc \in RequestSteps
    /\ call' = [call EXCEPT ![c].attempt = @ + 1]
    /\ UNCHANGED <<now, githubVars, cacheVars, flightVars>>

\* retryTransport.RoundTrip: an error status or a transient error is tried
\* again after a backoff, MaxAttempts times in all.
Retry(c) ==
    /\ call[c].pc \in RequestSteps
    /\ call[c].attempt < MaxAttempts
    /\ call' = [call EXCEPT ![c].attempt = @ + 1]
    /\ UNCHANGED <<now, githubVars, cacheVars, flightVars>>

LastAttempt(c) == call[c].attempt = MaxAttempts

Installed(o, kind) == installation[o].on /\ (kind = "user" <=> o \in Users)

\* FindOrganizationInstallation or FindUserInstallation found the app.
Find(c) ==
    /\ call[c].pc \in {"org", "user"}
    /\ Installed(Owner(c), call[c].pc)
    /\ call' = [call EXCEPT ![c].pc = "found", ![c].id = installation[Owner(c)].id]
    /\ UNCHANGED <<now, githubVars, cacheVars, flightVars>>

\* 404 for an organization: the name may be a user's.  404 for a user:
\* ErrInstallationNotFound.
NotInstalled(c) ==
    /\ call[c].pc \in {"org", "user"}
    /\ ~Installed(Owner(c), call[c].pc)
    /\ LastAttempt(c)
    /\ IF At(c, "org")
       THEN call' = [call EXCEPT ![c].pc = "user", ![c].attempt = 1] /\ UNCHANGED flightVars
       ELSE Fail(c, "installation_not_found")
    /\ UNCHANGED <<now, githubVars, cacheVars>>

\* The id is cached, then the lookup ends.
StoreId(c) ==
    /\ At(c, "found")
    /\ SetId(Owner(c), call[c].id)
    /\ EndLookup(c, call[c].id)
    /\ UNCHANGED <<now, githubVars, tokens>>

------------------------------------------------------------------------------
(* createInstallationToken *)

\* GitHub mints a token.  RequestToken returns it; GetContents waits for its
\* replication first.
CreateToken(c) ==
    LET o == Owner(c)
        token == [n |-> minted + 1, id |-> call[c].id, expiresAt |-> now + TokenLifetime]
    IN
    /\ At(c, "mint")
    /\ minted < MaxTokens
    /\ installation[o] = [id |-> call[c].id, on |-> TRUE]
    /\ minted' = minted + 1
    /\ call' = IF call[c].kind = "contents"
               THEN [call EXCEPT ![c].pc = "ready", ![c].token = token, ![c].id = 0]
               ELSE [call EXCEPT ![c] = Ended("ok")]
    /\ UNCHANGED <<now, installation, since, cacheVars, flightVars>>

\* 404 or 422.  A contents token names no repository: the installation is gone,
\* or it does not grant contents:read, and the error is
\* ErrInstallationNotFound in both cases.  Any other token names one, which is
\* outside the installation.  The cached id stays.
CreateRefused(c) ==
    /\ At(c, "mint")
    /\ LastAttempt(c)
    /\ \/ /\ call[c].kind = "contents"
          /\ MayLackContents \/ installation[Owner(c)] # [id |-> call[c].id, on |-> TRUE]
          /\ Fail(c, "installation_not_found")
       \/ call[c].kind = "token" /\ Fail(c, "repository_not_found")
    /\ UNCHANGED <<now, githubVars, cacheVars>>

\* waitTokenReady is over: the token is cached.
StoreToken(c) ==
    /\ At(c, "ready")
    /\ SetToken(Owner(c), call[c].token)
    /\ Goto(c, "land")
    /\ UNCHANGED <<now, githubVars, installations, flightVars>>

\* tokenMintSF.Do returns the token to the leader and to all who wait.
Land(c) ==
    LET shared == {c} \cup MintWaiters(c) IN
    /\ At(c, "land")
    /\ call' = [d \in Calls |->
                   IF d \in shared
                   THEN [call[d] EXCEPT !.pc = "contents", !.token = call[c].token,
                                        !.attempt = 1]
                   ELSE call[d]]
    /\ mintLeader' = Without(mintLeader, {c})
    /\ UNCHANGED <<now, githubVars, cacheVars, lookupLeader>>

------------------------------------------------------------------------------
(* Repositories.GetContents *)

Works(o, token) ==
    now < token.expiresAt /\ installation[o] = [id |-> token.id, on |-> TRUE]

\* GitHub answers with the file, with a directory, or with 404.
Answered(c) ==
    /\ At(c, "contents")
    /\ Works(Owner(c), call[c].token)
    /\ \E result \in {"ok", "file_not_found"} :
          call' = [call EXCEPT ![c] = Ended(result)]
    /\ UNCHANGED <<now, githubVars, cacheVars, flightVars>>

\* 401 or 403, for a dead token, one not yet replicated, or a rate limit: the
\* first time the call starts over without the cache.
Refused(c) ==
    /\ At(c, "contents")
    /\ LastAttempt(c)
    /\ call' = IF call[c].skipCache
               THEN [call EXCEPT ![c] = Ended("failed")]
               ELSE [call EXCEPT ![c].pc = "get", ![c].skipCache = TRUE, ![c].attempt = 1,
                                 ![c].refused = call[c].token.n, ![c].token = NoToken]
    /\ UNCHANGED <<now, githubVars, cacheVars, flightVars>>

\* Any other error: a status that stays, an error that is not transient, or
\* that the request of c was cancelled or ran out of time.
Abort(c) ==
    /\ call[c].pc \in RequestSteps \cup {"ready"}
    /\ Fail(c, "failed")
    /\ UNCHANGED <<now, githubVars, cacheVars>>

------------------------------------------------------------------------------
(* The app's installations, and the clock *)

\* The app is removed from an account.
Uninstall(o) ==
    /\ installation[o].on
    /\ installation[o].id < MaxInstallations
    /\ installation' = [installation EXCEPT ![o].on = FALSE]
    /\ since' = [since EXCEPT ![o] = now]
    /\ UNCHANGED <<now, minted, cacheVars, flightVars, call>>

\* It is installed again, under another id.
Install(o) ==
    /\ ~installation[o].on
    /\ installation' = [installation EXCEPT ![o] = [id |-> @.id + 1, on |-> TRUE]]
    /\ since' = [since EXCEPT ![o] = now]
    /\ UNCHANGED <<now, minted, cacheVars, flightVars, call>>

\* Time passes, unless a call would outlast its request.
Tick ==
    /\ now < MaxTime
    /\ \A c \in Calls : ~At(c, "idle") => now < call[c].began + RequestTime
    /\ now' = now + 1
    /\ UNCHANGED <<githubVars, cacheVars, flightVars, call>>

------------------------------------------------------------------------------
Init ==
    /\ now = 0
    /\ installation = [o \in Owners |-> [id |-> 1, on |-> TRUE]]
    /\ since = [o \in Owners |-> 0]
    /\ minted = 0
    /\ installations = [o \in Owners |-> NoEntry]
    /\ tokens = [o \in Owners |-> NoEntry]
    /\ lookupLeader = [o \in Owners |-> NoCall]
    /\ mintLeader = [o \in Owners |-> NoCall]
    /\ call = [c \in Calls |-> Idle]

CallStep(c) ==
    \/ GetToken(c) \/ DropToken(c) \/ JoinMint(c) \/ GetTokenAgain(c)
    \/ GetId(c) \/ DropId(c) \/ JoinLookup(c) \/ GetIdAgain(c)
    \/ Find(c) \/ NotInstalled(c) \/ StoreId(c)
    \/ CreateToken(c) \/ CreateRefused(c) \/ StoreToken(c) \/ Land(c)
    \/ Answered(c) \/ Refused(c)
    \/ Retry(c) \/ Abort(c)

Next ==
    \/ \E c \in Calls, kind \in {"contents", "token"}, o \in Owners : Begin(c, kind, o)
    \/ \E c \in Calls : Malformed(c) \/ CallStep(c)
    \/ \E o \in Owners : Uninstall(o) \/ Install(o) \/ Evict(o)
    \/ Tick

Spec == Init /\ [][Next]_vars

------------------------------------------------------------------------------
(* Properties *)

\* A token that GetContents sends has not expired, although it is checked
\* when it leaves the cache, then shared with the calls that wait for a flight
\* and sent later, if the buffer covers two requests (types.go:147;
\* client.go:206, 214, 169).
SentBeforeExpiry ==
    \A c \in Calls : At(c, "contents") => now < call[c].token.expiresAt

\* A cached token that is not about to expire leaves the cache for three
\* reasons only: a call was refused with a token, a newer token takes its
\* place, or a full cache gives it up, which is no step of a call for this
\* account.  A call that saw the expired token before it does not remove it
\* (types.go:147-154; client.go:204).
FreshTokensStay ==
    [][\A o \in Owners :
         (tokens[o] # NoEntry /\ ~TokenExpired(tokens[o]) /\ tokens'[o] # tokens[o]) =>
            \/ \E c \in Calls : At(c, "get") /\ call[c].skipCache /\ Owner(c) = o
            \/ tokens'[o] # NoEntry /\ tokens'[o].n > tokens[o].n
            \/ call' = call]_vars

\* Once a call was refused with a token, and until it ends, no other call
\* finds that token in the cache: neither a flight that was under way nor a
\* late store brings it back (client.go:174, 204, 232).
RefusedTokenIsGone ==
    \A c \in Calls :
        (call[c].skipCache /\ ~At(c, "get")) =>
            tokens[Owner(c)] = NoEntry \/ tokens[Owner(c)].n # call[c].refused

\* The installation a token is asked for was the account's at most the
\* lifetime of a cache entry and two requests ago: an entry is dated when it
\* is stored, and a lookup is shared with calls that come to wait for it
\* (types.go:71-91, 112-115; client.go:247-252, 278).
InstallationIsRecent ==
    \A c \in Calls :
        At(c, "mint") =>
            LET i == installation[Owner(c)] IN
            \/ i = [id |-> call[c].id, on |-> TRUE]
            \/ now <= since[Owner(c)] + InstallationTTL + 2 * RequestTime

\* A call that waits for a flight has a leader that is inside that flight,
\* whether it waits for a mint or, perhaps in the middle of one, for a
\* lookup; a lookup never waits for a mint, so calls do not wait for each
\* other (client.go:208, 250).
WaitersHaveLeaders ==
    \A c \in Calls :
        /\ At(c, "wait") =>
              LET l == mintLeader[Owner(c)] IN
              l # NoCall /\ l # c /\ Owner(l) = Owner(c) /\ call[l].pc \in MintSteps
        /\ At(c, "wait_id") =>
              LET l == lookupLeader[Owner(c)] IN
              l # NoCall /\ l # c /\ Owner(l) = Owner(c) /\ call[l].pc \in LookupSteps

\* ErrInstallationNotFound "is returned when no GitHub App installation exists
\* for the given owner" (errors.go:30-31): none existed during the call, or
\* during the one before it whose answer it may share.
NotFoundMeansNotInstalled ==
    [][\A c \in Calls :
         (~At(c, "idle") /\ call'[c].result = "installation_not_found") =>
            \/ ~installation[Owner(c)].on
            \/ since[Owner(c)] >= call[c].began - RequestTime]_vars
==============================================================================
