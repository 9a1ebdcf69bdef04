------------------------- MODULE GitHubClientProofs -------------------------
(***************************************************************************)
(* Proofs about GitHubClient, for any number of calls and accounts, any    *)
(* lifetimes of cache entries and tokens, any number of retries, and any   *)
(* bounds.                                                                 *)
(***************************************************************************)
EXTENDS GitHubClient, TLAPS

------------------------------------------------------------------------------
(* The inductive invariant, by parts. *)

\* What TypeOK alone cannot say: an installation that was removed is not the
\* last one, and a call under way is for some account.
MoreInstallations ==
    \A o \in Owners : ~installation[o].on => installation[o].id < MaxInstallations
TypeInv == TypeOK /\ MoreInstallations
HasOwner == \A c \in Calls : ~At(c, "idle") => Owner(c) \in Owners

\* RequestToken has no part in the cache of contents tokens and its flights.
TokenSteps == {"get_id", "drop_id", "join_id", "wait_id", "mint"} \cup LookupSteps
KindInv == \A c \in Calls : call[c].kind = "token" => call[c].pc \in TokenSteps

\* A call under way is within its request's time.
TimeInv ==
    \A c \in Calls : ~At(c, "idle") =>
        call[c].began <= now /\ now <= call[c].began + RequestTime

\* The leader of a mint is inside it, and whoever is inside it leads it.
MintFlights ==
    /\ \A o \in Owners : mintLeader[o] # NoCall =>
          LET l == mintLeader[o] IN
          Owner(l) = o /\ call[l].pc \in MintSteps /\ call[l].kind = "contents"
    /\ \A c \in Calls :
          (call[c].kind = "contents" /\ call[c].pc \in MintSteps) => mintLeader[Owner(c)] = c

\* The leader of a lookup is inside it.
LookupFlights ==
    \A o \in Owners : lookupLeader[o] # NoCall =>
        LET l == lookupLeader[o] IN Owner(l) = o /\ call[l].pc \in LookupSteps

\* A flight somebody waits for is under way.
Waits ==
    \A c \in Calls :
        /\ At(c, "wait") => mintLeader[Owner(c)] # NoCall
        /\ At(c, "wait_id") => lookupLeader[Owner(c)] # NoCall

FlightInv == HasOwner /\ KindInv /\ TimeInv /\ MintFlights /\ LookupFlights /\ Waits

\* A token to be sent outlives the request of its sender; one to be shared
\* outlives the requests of all who may come to wait for it.
TokenInv ==
    \A c \in Calls :
        /\ At(c, "contents") => call[c].token.expiresAt > call[c].began + RequestTime
        /\ call[c].pc \in {"ready", "land"} =>
              call[c].token.expiresAt > call[c].began + 2 * RequestTime

\* Token numbers are those of minted tokens.
NumberInv ==
    /\ \A o \in Owners : tokens[o] # NoEntry => tokens[o].n \in 1 .. minted
    /\ \A c \in Calls :
          /\ call[c].token.n <= minted /\ call[c].refused <= minted
          /\ call[c].pc \in {"ready", "land", "contents"} => call[c].token.n >= 1

\* A token that is not yet stored is its minter's alone, and newer than the
\* one it will replace.
FreshInv ==
    \A c \in Calls : At(c, "ready") =>
        /\ \A d \in Calls : call[d].refused # call[c].token.n
        /\ \A d \in Calls : d # c => call[d].token.n # call[c].token.n
        /\ \A o \in Owners : tokens[o] # NoEntry => tokens[o].n # call[c].token.n
        /\ tokens[Owner(c)] # NoEntry => tokens[Owner(c)].n < call[c].token.n

\* A call that has returned asks for no second token.
SkipInv == \A c \in Calls : call[c].skipCache => ~At(c, "idle")

CacheInv == NumberInv /\ FreshInv /\ SkipInv /\ RefusedTokenIsGone

Current(o, id) == installation[o] = [id |-> id, on |-> TRUE]

\* How old an installation that is no longer current may be: in the cache, in
\* the hands of the call that looked it up, and where a token is asked for.
IdInv ==
    /\ \A o \in Owners : since[o] <= now
    /\ \A o \in Owners : installations[o] # NoEntry =>
          /\ installations[o].fetched <= now
          /\ Current(o, installations[o].id) \/ installations[o].fetched <= since[o] + RequestTime
    /\ \A c \in Calls :
          /\ At(c, "found") => Current(Owner(c), call[c].id) \/ call[c].began <= since[Owner(c)]
          /\ At(c, "mint") =>
                \/ Current(Owner(c), call[c].id)
                \/ call[c].began <= since[Owner(c)] + InstallationTTL + RequestTime

------------------------------------------------------------------------------
(* What the steps do to the calls *)

\* What no step changes while a call is under way, but for a refusal.
Keeps(d) ==
    /\ call'[d].kind = call[d].kind /\ call'[d].owner = call[d].owner
    /\ call'[d].began = call[d].began
    /\ call'[d].refused = call[d].refused /\ call'[d].skipCache = call[d].skipCache

\* Only c moves: to step pc, with this id and this token.
Becomes(c, pc, id, token) ==
    /\ \A d \in Calls : d # c => call'[d] = call[d]
    /\ Keeps(c) /\ call'[c].pc = pc /\ call'[c].id = id /\ call'[c].token = token

Moves(c, pc) == Becomes(c, pc, call[c].id, call[c].token)

\* The calls in S return, and forget what they held.
Return(S) ==
    /\ \A d \in Calls : d \notin S => call'[d] = call[d]
    /\ \A d \in Calls : d \in S =>
          /\ call'[d].pc = "idle" /\ call'[d].kind = "contents" /\ ~call'[d].skipCache
          /\ call'[d].token.n = 0 /\ call'[d].refused = 0

\* Goto moves one call.
LEMMA GotoEffect ==
    ASSUME call \in [Calls -> Call], NEW c \in Calls, NEW s, Goto(c, s)
    PROVE  Moves(c, s)
  BY DEF Goto, Call, Keeps, Becomes, Moves

\* A call that returns is the only one to move.
LEMMA EndedEffect ==
    ASSUME call \in [Calls -> Call], NEW c \in Calls, NEW result,
           call' = [call EXCEPT ![c] = Ended(result)]
    PROVE  Return({c})
  BY DEF Ended, Idle, NoToken, Call, Return

\* An error is returned by the call and by all who share it (Fail).
LEMMA FailEffect ==
    ASSUME call \in [Calls -> Call], NEW c \in Calls, NEW code, Fail(c, code)
    PROVE  Return(Failing(c))
  BY DEF Fail, Ended, Idle, NoToken, Call, Return

\* A lookup hands its id to the leader and to all who wait (EndLookup).
LEMMA EndLookupEffect ==
    ASSUME call \in [Calls -> Call], NEW c \in Calls, NEW id, EndLookup(c, id)
    PROVE  /\ \A d \in Calls : d \notin {c} \cup LookupWaiters(c) => call'[d] = call[d]
           /\ \A d \in Calls : d \in {c} \cup LookupWaiters(c) =>
                 /\ Keeps(d) /\ call'[d].token = call[d].token
                 /\ call'[d].pc = "mint" /\ call'[d].id = id
  BY DEF EndLookup, Call, Keeps

\* A mint hands its token to the leader and to all who wait (Land).
LEMMA LandEffect ==
    ASSUME call \in [Calls -> Call], NEW c \in Calls, Land(c)
    PROVE  /\ \A d \in Calls : d \notin {c} \cup MintWaiters(c) => call'[d] = call[d]
           /\ \A d \in Calls : d \in {c} \cup MintWaiters(c) =>
                 /\ Keeps(d) /\ call'[d].id = call[d].id
                 /\ call'[d].pc = "contents" /\ call'[d].token = call[c].token
  BY DEF Land, Call, Keeps

\* A call begins for an account, now (Begin).
LEMMA BeginEffect ==
    ASSUME call \in [Calls -> Call], NEW c \in Calls, NEW kind, NEW o, Begin(c, kind, o)
    PROVE  /\ \A d \in Calls : d # c => call'[d] = call[d]
           /\ call'[c].kind = kind /\ call'[c].owner = o /\ call'[c].began = now
           /\ call'[c].refused = 0 /\ ~call'[c].skipCache /\ call'[c].token.n = 0
           /\ call'[c].pc = IF kind = "contents" THEN "get" ELSE "get_id"
  BY DEF Begin, Idle, NoToken, Call

\* tokenMintSF.Do
LEMMA JoinMintEffect ==
    ASSUME call \in [Calls -> Call], NEW c \in Calls, JoinMint(c)
    PROVE  \/ /\ mintLeader[Owner(c)] # NoCall /\ Moves(c, "wait") /\ mintLeader' = mintLeader
           \/ /\ mintLeader[Owner(c)] = NoCall
              /\ Moves(c, "get_id") \/ Moves(c, "get_again")
              /\ mintLeader' = [mintLeader EXCEPT ![Owner(c)] = c]
  BY GotoEffect DEF JoinMint

\* installationSF.Do
LEMMA JoinLookupEffect ==
    ASSUME call \in [Calls -> Call], NEW c \in Calls, JoinLookup(c)
    PROVE  \/ /\ lookupLeader[Owner(c)] # NoCall /\ Moves(c, "wait_id")
              /\ lookupLeader' = lookupLeader
           \/ /\ lookupLeader[Owner(c)] = NoCall /\ Moves(c, "get_id_again")
              /\ lookupLeader' = [lookupLeader EXCEPT ![Owner(c)] = c]
  BY GotoEffect DEF JoinLookup

\* The look into the token cache (mintToken).
LEMMA GetTokenEffect ==
    ASSUME call \in [Calls -> Call], NEW c \in Calls, GetToken(c)
    PROVE  \/ /\ Moves(c, "join") /\ call[c].skipCache
              /\ tokens' = [tokens EXCEPT ![Owner(c)] = NoEntry]
           \/ /\ Moves(c, "join") \/ Moves(c, "drop")
              /\ tokens' = tokens /\ ~call[c].skipCache
           \/ /\ Becomes(c, "contents", call[c].id, tokens[Owner(c)])
              /\ tokens' = tokens /\ ~call[c].skipCache
              /\ tokens[Owner(c)] # NoEntry /\ ~TokenExpired(tokens[Owner(c)])
  BY DEF GetToken, Goto, Call, Keeps, Becomes, Moves

\* The leader's second look into the token cache (mintToken).
LEMMA GetTokenAgainEffect ==
    ASSUME call \in [Calls -> Call], NEW c \in Calls, GetTokenAgain(c)
    PROVE  \/ Moves(c, "get_id") \/ Moves(c, "drop_again")
           \/ /\ Becomes(c, "land", call[c].id, tokens[Owner(c)])
              /\ tokens[Owner(c)] # NoEntry /\ ~TokenExpired(tokens[Owner(c)])
  BY DEF GetTokenAgain, Goto, Call, Keeps, Becomes, Moves

\* The look into the cache of installation ids (getInstallationID).
LEMMA GetIdEffect ==
    ASSUME call \in [Calls -> Call], NEW c \in Calls, GetId(c)
    PROVE  \/ Moves(c, "join_id") \/ Moves(c, "drop_id")
           \/ /\ Becomes(c, "mint", installations[Owner(c)].id, call[c].token)
              /\ installations[Owner(c)] # NoEntry /\ ~IdExpired(Owner(c))
  BY DEF GetId, Goto, Call, Keeps, Becomes, Moves

\* The second look at an expired id (installationCache.get).
LEMMA DropIdEffect ==
    ASSUME call \in [Calls -> Call], NEW c \in Calls, DropId(c)
    PROVE  Moves(c, IF At(c, "drop_id") THEN "join_id" ELSE "org")
  BY DEF DropId, At, Call, Keeps, Becomes, Moves

\* GitHub's answer to a lookup (FindOrganizationInstallation, FindUserInstallation).
LEMMA FindEffect ==
    ASSUME call \in [Calls -> Call], NEW c \in Calls, Find(c)
    PROVE  Becomes(c, "found", installation[Owner(c)].id, call[c].token)
  BY DEF Find, Call, Keeps, Becomes

\* 404 for an organization: the lookup goes on with the user.
LEMMA NotInstalledEffect ==
    ASSUME call \in [Calls -> Call], NEW c \in Calls, NotInstalled(c)
    PROVE  \/ At(c, "org") /\ Moves(c, "user") /\ UNCHANGED flightVars
           \/ At(c, "user") /\ Fail(c, "installation_not_found")
  <1>1. CASE At(c, "org")
    BY <1>1 DEF NotInstalled, At, Call, Keeps, Becomes, Moves
  <1>2. CASE ~At(c, "org")
    BY <1>2 DEF NotInstalled, At
  <1> QED
    BY <1>1, <1>2

\* GitHub mints a token (createInstallationToken).
LEMMA CreateTokenEffect ==
    ASSUME call \in [Calls -> Call], NEW c \in Calls, CreateToken(c)
    PROVE  \/ /\ call[c].kind = "contents"
              /\ Becomes(c, "ready", 0, [n |-> minted + 1, id |-> call[c].id,
                                         expiresAt |-> now + TokenLifetime])
           \/ call[c].kind = "token" /\ Return({c})
  <1>1. CASE call[c].kind = "contents"
    BY <1>1 DEF CreateToken, Call, Keeps, Becomes
  <1>2. CASE call[c].kind # "contents"
    <2>1. call[c].kind = "token"
      BY <1>2 DEF Call
    <2> QED
      BY <1>2, <2>1, EndedEffect DEF CreateToken
  <1> QED
    BY <1>1, <1>2

\* 401 or 403: start over without the cache, or give up (GetContents).
LEMMA RefusedEffect ==
    ASSUME call \in [Calls -> Call], NEW c \in Calls, Refused(c)
    PROVE  \/ call[c].skipCache /\ Return({c})
           \/ /\ \A d \in Calls : d # c => call'[d] = call[d]
              /\ call'[c].kind = call[c].kind /\ call'[c].owner = call[c].owner
              /\ call'[c].began = call[c].began /\ call'[c].pc = "get"
              /\ call'[c].skipCache /\ call'[c].refused = call[c].token.n
              /\ call'[c].token.n = 0
  <1>1. CASE call[c].skipCache
    BY <1>1, EndedEffect DEF Refused
  <1>2. CASE ~call[c].skipCache
    BY <1>2 DEF Refused, NoToken, Call
  <1> QED
    BY <1>1, <1>2

\* A request is tried again (RoundTrip).
LEMMA RetryEffect ==
    ASSUME call \in [Calls -> Call], NEW c \in Calls, Retry(c)
    PROVE  Moves(c, call[c].pc)
  BY DEF Retry, Call, Keeps, Becomes, Moves

------------------------------------------------------------------------------
(* Types *)

\* Each field of a call can be assigned by itself.
LEMMA CallUpdates ==
    ASSUME NEW r \in Call
    PROVE  /\ \A x \in Steps : [r EXCEPT !.pc = x] \in Call
           /\ \A x \in Ids : [r EXCEPT !.id = x] \in Call
           /\ \A x \in Token : [r EXCEPT !.token = x] \in Call
           /\ \A x \in 0 .. MaxTokens : [r EXCEPT !.refused = x] \in Call
           /\ \A x \in 1 .. MaxAttempts : [r EXCEPT !.attempt = x] \in Call
           /\ [r EXCEPT !.skipCache = TRUE] \in Call
           /\ \A x \in {"contents", "token"} : [r EXCEPT !.kind = x] \in Call
           /\ \A x \in Owners : [r EXCEPT !.owner = x] \in Call
           /\ \A x \in Nat : [r EXCEPT !.began = x] \in Call
           /\ \A x \in {"none", "ok", "invalid_repository", "installation_not_found",
                        "repository_not_found", "file_not_found", "failed"} :
                 [r EXCEPT !.result = x] \in Call
  BY DEF Call

\* The steps of a call are among Steps, and 1 is a first attempt.
LEMMA StepsAndAttempts ==
    /\ {"idle", "get", "drop", "join", "wait", "contents"} \subseteq Steps
    /\ MintSteps \subseteq Steps /\ LookupSteps \subseteq MintSteps
    /\ 1 \in 1 .. MaxAttempts /\ NoToken \in Token /\ 0 \in Ids /\ Idle \in Call
  <1>1. 1 \in 1 .. MaxAttempts /\ NoToken \in Token /\ 0 \in Ids
    BY GitHubClientConstants DEF NoToken, Token, Ids
  <1>2. /\ {"idle", "get", "drop", "join", "wait", "contents"} \subseteq Steps
        /\ MintSteps \subseteq Steps /\ LookupSteps \subseteq MintSteps
    BY DEF Steps, MintSteps
  <1>3. Idle \in Call
    BY <1>1, <1>2, GitHubClientConstants DEF Idle, Call
  <1> QED
    BY <1>1, <1>2, <1>3

\* A call that has returned is idle, whatever error or answer it returned.
LEMMA EndedIsCall ==
    ASSUME NEW result \in {"none", "ok", "invalid_repository", "installation_not_found",
                           "repository_not_found", "file_not_found", "failed"}
    PROVE  Ended(result) \in Call
  BY StepsAndAttempts, CallUpdates DEF Ended

\* The program counter can be assigned together with another field.
LEMMA PairType ==
    ASSUME call \in [Calls -> Call], NEW c \in Calls, NEW s \in Steps
    PROVE  /\ \A x \in Ids : [call EXCEPT ![c].pc = s, ![c].id = x] \in [Calls -> Call]
           /\ \A x \in Token : [call EXCEPT ![c].pc = s, ![c].token = x] \in [Calls -> Call]
           /\ [call EXCEPT ![c].pc = s, ![c].attempt = 1] \in [Calls -> Call]
  BY CallUpdates, StepsAndAttempts

\* Goto changes the program counter of one call only.
LEMMA GotoType ==
    ASSUME call \in [Calls -> Call], NEW c \in Calls, NEW step \in Steps, Goto(c, step)
    PROVE  call' \in [Calls -> Call]
  BY CallUpdates DEF Goto

\* Fail keeps the types: all who share the error return it.
LEMMA FailType ==
    ASSUME TypeOK, NEW c \in Calls,
           NEW code \in {"installation_not_found", "repository_not_found", "failed"},
           Fail(c, code)
    PROVE  /\ call' \in [Calls -> Call]
           /\ lookupLeader' \in [Owners -> Calls \cup {NoCall}]
           /\ mintLeader' \in [Owners -> Calls \cup {NoCall}]
  BY EndedIsCall DEF TypeOK, Fail, Without

\* EndLookup keeps the types: all who share the lookup get its id.
LEMMA EndLookupType ==
    ASSUME TypeOK, NEW c \in Calls, NEW id \in Ids, EndLookup(c, id)
    PROVE  /\ call' \in [Calls -> Call]
           /\ lookupLeader' \in [Owners -> Calls \cup {NoCall}]
           /\ mintLeader' \in [Owners -> Calls \cup {NoCall}]
  <1>1. "mint" \in Steps
    BY DEF Steps, MintSteps
  <1>2. \A d \in Calls : [call[d] EXCEPT !.pc = "mint", !.id = id, !.attempt = 1] \in Call
    BY <1>1, CallUpdates, StepsAndAttempts DEF TypeOK
  <1> QED
    BY <1>2 DEF TypeOK, EndLookup, Without

\* The client starts with empty caches and no calls.
LEMMA TypeInit == Init => TypeInv
  BY StepsAndAttempts, GitHubClientConstants DEF Init, TypeInv, TypeOK, MoreInstallations, Ids

\* Every step of a call, of the caches, of GitHub and of the clock keeps the types.
LEMMA TypeStep == TypeInv /\ HasOwner /\ [Next]_vars => TypeInv'
  <1> SUFFICES ASSUME TypeInv, HasOwner, [Next]_vars PROVE TypeInv'
    OBVIOUS
  <1>0. call \in [Calls -> Call]
    BY DEF TypeInv, TypeOK
  <1> USE GitHubClientConstants DEF TypeInv, MoreInstallations, githubVars, cacheVars, flightVars
  <1>1. ASSUME NEW c \in Calls, NEW kind \in {"contents", "token"}, NEW o \in Owners,
               Begin(c, kind, o)
        PROVE  TypeInv'
    <2>1. call' \in [Calls -> Call]
      BY <1>1, CallUpdates, StepsAndAttempts DEF Begin, TypeOK, MintSteps
    <2> QED
      BY <1>1, <2>1 DEF Begin, TypeOK
  <1>2. ASSUME NEW c \in Calls, Malformed(c) PROVE TypeInv'
    BY <1>2, EndedIsCall DEF Malformed, TypeOK
  <1>3. ASSUME NEW c \in Calls, GetToken(c) PROVE TypeInv'
    <2>1. call' \in [Calls -> Call]
      <3>1. tokens[Owner(c)] # NoEntry => tokens[Owner(c)] \in Token
        BY <1>3 DEF GetToken, At, Owner, TypeOK, HasOwner
      <3>2. CASE \E s \in {"join", "drop"} : Goto(c, s)
        BY <1>0, <3>2, GotoType, StepsAndAttempts
      <3>3. CASE /\ tokens[Owner(c)] # NoEntry
                 /\ call' = [call EXCEPT ![c].pc = "contents", ![c].token = tokens[Owner(c)]]
        BY <1>0, <3>1, <3>3, PairType, StepsAndAttempts
      <3> QED
        BY <1>3, <3>2, <3>3 DEF GetToken
    <2>2. tokens' \in [Owners -> Token \cup {NoEntry}]
      BY <1>3 DEF GetToken, TypeOK
    <2> QED
      BY <1>3, <2>1, <2>2 DEF GetToken, TypeOK
  <1>4. ASSUME NEW c \in Calls, DropToken(c) PROVE TypeInv'
    <2>1. call' \in [Calls -> Call]
      BY <1>0, <1>4, GotoType DEF DropToken, Steps, MintSteps
    <2>2. tokens' \in [Owners -> Token \cup {NoEntry}]
      BY <1>4 DEF DropToken, TypeOK
    <2> QED
      BY <1>4, <2>1, <2>2 DEF DropToken, TypeOK
  <1>5. ASSUME NEW c \in Calls, JoinMint(c) PROVE TypeInv'
    <2>1. call' \in [Calls -> Call]
      BY <1>0, <1>5, GotoType DEF JoinMint, Steps, MintSteps
    <2>2. mintLeader' \in [Owners -> Calls \cup {NoCall}]
      BY <1>5 DEF JoinMint, TypeOK
    <2> QED
      BY <1>5, <2>1, <2>2 DEF JoinMint, TypeOK
  <1>6. ASSUME NEW c \in Calls, GetTokenAgain(c) PROVE TypeInv'
    <2>1. call' \in [Calls -> Call]
      <3>1. tokens[Owner(c)] # NoEntry => tokens[Owner(c)] \in Token
        BY <1>6 DEF GetTokenAgain, At, Owner, TypeOK, HasOwner
      <3>2. CASE \E s \in {"get_id", "drop_again"} : Goto(c, s)
        BY <1>0, <3>2, GotoType, StepsAndAttempts DEF MintSteps
      <3>3. CASE /\ tokens[Owner(c)] # NoEntry
                 /\ call' = [call EXCEPT ![c].pc = "land", ![c].token = tokens[Owner(c)]]
        <4>1. "land" \in Steps
          BY StepsAndAttempts DEF MintSteps
        <4> QED
          BY <1>0, <3>1, <3>3, <4>1, PairType
      <3> QED
        BY <1>6, <3>2, <3>3 DEF GetTokenAgain
    <2> QED
      BY <1>6, <2>1 DEF GetTokenAgain, TypeOK
  <1>7. ASSUME NEW c \in Calls, GetId(c) PROVE TypeInv'
    <2>1. call' \in [Calls -> Call]
      <3>1. installations[Owner(c)] # NoEntry => installations[Owner(c)].id \in Ids
        BY <1>7 DEF GetId, At, Owner, TypeOK, HasOwner
      <3>2. CASE \E s \in {"join_id", "drop_id"} : Goto(c, s)
        BY <1>0, <3>2, GotoType, StepsAndAttempts DEF MintSteps
      <3>3. CASE /\ installations[Owner(c)] # NoEntry
                 /\ call' = [call EXCEPT ![c].pc = "mint", ![c].id = installations[Owner(c)].id]
        <4>1. "mint" \in Steps
          BY StepsAndAttempts DEF MintSteps
        <4> QED
          BY <1>0, <3>1, <3>3, <4>1, PairType
      <3> QED
        BY <1>7, <3>2, <3>3 DEF GetId
    <2> QED
      BY <1>7, <2>1 DEF GetId, TypeOK
  <1>8. ASSUME NEW c \in Calls, DropId(c) PROVE TypeInv'
    <2>1. call' \in [Calls -> Call]
      BY <1>8, CallUpdates, StepsAndAttempts DEF DropId, TypeOK, MintSteps, LookupSteps
    <2>2. installations' \in [Owners -> [id: Ids, fetched: Nat] \cup {NoEntry}]
      BY <1>8 DEF DropId, TypeOK
    <2> QED
      BY <1>8, <2>1, <2>2 DEF DropId, TypeOK
  <1>9. ASSUME NEW c \in Calls, JoinLookup(c) PROVE TypeInv'
    <2>1. call' \in [Calls -> Call]
      BY <1>0, <1>9, GotoType DEF JoinLookup, Steps, MintSteps, LookupSteps
    <2>2. lookupLeader' \in [Owners -> Calls \cup {NoCall}]
      BY <1>9 DEF JoinLookup, TypeOK
    <2> QED
      BY <1>9, <2>1, <2>2 DEF JoinLookup, TypeOK
  <1>10. ASSUME NEW c \in Calls, GetIdAgain(c) PROVE TypeInv'
    <2> DEFINE e == installations[Owner(c)]
    <2>1. CASE e # NoEntry /\ ~IdExpired(Owner(c))
      <3>1. e.id \in Ids
        BY <1>10, <2>1 DEF GetIdAgain, At, Owner, TypeOK, HasOwner
      <3>2. EndLookup(c, e.id)
        BY <1>10, <2>1 DEF GetIdAgain
      <3> QED
        BY <1>10, <3>1, <3>2, EndLookupType DEF GetIdAgain, TypeOK
    <2>2. CASE ~(e # NoEntry /\ ~IdExpired(Owner(c)))
      <3>1. call' \in [Calls -> Call]
        BY <1>0, <1>10, <2>2, GotoType DEF GetIdAgain, Steps, MintSteps, LookupSteps
      <3> QED
        BY <1>10, <2>2, <3>1 DEF GetIdAgain, TypeOK
    <2> QED
      BY <2>1, <2>2
  <1>11. ASSUME NEW c \in Calls, Find(c) PROVE TypeInv'
    <2>1. call' \in [Calls -> Call]
      BY <1>11, CallUpdates, StepsAndAttempts DEF Find, At, Owner, TypeOK, HasOwner, LookupSteps
    <2> QED
      BY <1>11, <2>1 DEF Find, TypeOK
  <1>12. ASSUME NEW c \in Calls, NotInstalled(c) PROVE TypeInv'
    <2>1. CASE At(c, "org")
      <3>1. call' \in [Calls -> Call]
        <4>1. "user" \in Steps
          BY StepsAndAttempts DEF LookupSteps
        <4>2. call' = [call EXCEPT ![c].pc = "user", ![c].attempt = 1]
          BY <1>12, <2>1 DEF NotInstalled
        <4> QED
          BY <1>0, <4>1, <4>2, PairType
      <3> QED
        BY <1>12, <2>1, <3>1 DEF NotInstalled, TypeOK
    <2>2. CASE ~At(c, "org")
      BY <1>12, <2>2, FailType DEF NotInstalled, TypeOK
    <2> QED
      BY <2>1, <2>2
  <1>13. ASSUME NEW c \in Calls, StoreId(c) PROVE TypeInv'
    <2>1. call[c].id \in Ids
      BY DEF TypeOK, Call
    <2>2. installations' \in [Owners -> [id: Ids, fetched: Nat] \cup {NoEntry}]
      BY <1>13, <2>1 DEF StoreId, SetId, TypeOK
    <2> QED
      BY <1>13, <2>1, <2>2, EndLookupType DEF StoreId, TypeOK
  <1>14. ASSUME NEW c \in Calls, CreateToken(c) PROVE TypeInv'
    <2>1. [n |-> minted + 1, id |-> call[c].id, expiresAt |-> now + TokenLifetime] \in Token
      BY <1>14 DEF CreateToken, TypeOK, Call, Token
    <2>2. call' \in [Calls -> Call]
      BY <1>14, <2>1, CallUpdates, StepsAndAttempts, EndedIsCall
      DEF CreateToken, TypeOK, MintSteps
    <2> QED
      BY <1>14, <2>2 DEF CreateToken, TypeOK
  <1>15. ASSUME NEW c \in Calls, CreateRefused(c) PROVE TypeInv'
    BY <1>15, FailType DEF CreateRefused, TypeOK
  <1>16. ASSUME NEW c \in Calls, StoreToken(c) PROVE TypeInv'
    <2>1. call' \in [Calls -> Call]
      BY <1>0, <1>16, GotoType DEF StoreToken, Steps, MintSteps
    <2>2. tokens' \in [Owners -> Token \cup {NoEntry}]
      BY <1>16 DEF StoreToken, SetToken, TypeOK, Call
    <2> QED
      BY <1>16, <2>1, <2>2 DEF StoreToken, TypeOK
  <1>17. ASSUME NEW c \in Calls, Land(c) PROVE TypeInv'
    <2>1. \A d \in Calls :
            [call[d] EXCEPT !.pc = "contents", !.token = call[c].token, !.attempt = 1] \in Call
      <3>1. call[c].token \in Token
        BY DEF TypeOK, Call
      <3> QED
        BY <3>1, CallUpdates, StepsAndAttempts DEF TypeOK
    <2>2. call' \in [Calls -> Call] /\ mintLeader' \in [Owners -> Calls \cup {NoCall}]
      BY <1>17, <2>1 DEF Land, Without, TypeOK
    <2> QED
      BY <1>17, <2>2 DEF Land, TypeOK
  <1>18. ASSUME NEW c \in Calls, Answered(c) PROVE TypeInv'
    BY <1>18, EndedIsCall DEF Answered, TypeOK
  <1>19. ASSUME NEW c \in Calls, Refused(c) PROVE TypeInv'
    <2>1. call' \in [Calls -> Call]
      <3>1. call[c].token.n \in 0 .. MaxTokens
        BY DEF TypeOK, Call, Token
      <3> QED
        BY <1>19, <3>1, CallUpdates, StepsAndAttempts, EndedIsCall DEF Refused, TypeOK
    <2> QED
      BY <1>19, <2>1 DEF Refused, TypeOK
  <1>20. ASSUME NEW c \in Calls, Retry(c) PROVE TypeInv'
    <2>1. call' \in [Calls -> Call]
      <3>1. call[c].attempt + 1 \in 1 .. MaxAttempts
        BY <1>20 DEF Retry, TypeOK, Call
      <3> QED
        BY <1>20, <3>1, CallUpdates DEF Retry, TypeOK
    <2> QED
      BY <1>20, <2>1 DEF Retry, TypeOK
  <1>21. ASSUME NEW c \in Calls, Abort(c) PROVE TypeInv'
    BY <1>21, FailType DEF Abort, TypeOK
  <1>22. ASSUME NEW o \in Owners, Uninstall(o) PROVE TypeInv'
    BY <1>22 DEF Uninstall, TypeOK
  <1>23. ASSUME NEW o \in Owners, Install(o) PROVE TypeInv'
    BY <1>23 DEF Install, TypeOK, MoreInstallations, Ids
  <1>24. ASSUME NEW o \in Owners, Evict(o) PROVE TypeInv'
    BY <1>24 DEF Evict, TypeOK
  <1>25. ASSUME Tick PROVE TypeInv'
    BY <1>25 DEF Tick, TypeOK
  <1>26. CASE UNCHANGED vars
    BY <1>26 DEF vars, TypeOK
  <1> QED
    BY <1>1, <1>2, <1>3, <1>4, <1>5, <1>6, <1>7, <1>8, <1>9, <1>10, <1>11, <1>12, <1>13,
       <1>14, <1>15, <1>16, <1>17, <1>18, <1>19, <1>20, <1>21, <1>22, <1>23, <1>24,
       <1>25, <1>26
    DEF Next, CallStep

------------------------------------------------------------------------------
(* Flights *)

\* What the argument about flights needs to know of the types.
FlightTypes ==
    /\ now \in Nat /\ call \in [Calls -> Call]
    /\ lookupLeader \in [Owners -> Calls \cup {NoCall}]
    /\ mintLeader \in [Owners -> Calls \cup {NoCall}]
    /\ \A c \in Calls : call[c].kind \in {"contents", "token"} /\ call[c].began \in Nat

\* The part of the types that the flights need.
LEMMA TypesForFlights == TypeInv => FlightTypes
  BY DEF TypeInv, TypeOK, FlightTypes, Call

\* Who waits, or has returned, is inside no flight.
LEMMA OutsideFlights ==
    /\ "idle" \notin MintSteps /\ "wait" \notin MintSteps /\ "contents" \notin MintSteps
    /\ "wait_id" \notin LookupSteps /\ "mint" \notin LookupSteps
    /\ "mint" \in MintSteps /\ "wait_id" \in MintSteps /\ LookupSteps \subseteq MintSteps
    /\ "wait" \notin LookupSteps /\ "idle" \notin LookupSteps /\ "contents" \notin LookupSteps
  BY DEF MintSteps, LookupSteps

\* A call that moves on inside its flight, or outside all flights, leaves the
\* flights as they are.
LEMMA FlightMove ==
    ASSUME FlightTypes, FlightInv, NEW c \in Calls, NEW s, NEW id, NEW token,
           Becomes(c, s, id, token), UNCHANGED <<now, flightVars>>,
           ~At(c, "idle"), s \notin {"idle", "wait", "wait_id"},
           call[c].pc \in MintSteps <=> s \in MintSteps,
           call[c].pc \in LookupSteps => s \in LookupSteps,
           call[c].kind = "token" => s \in TokenSteps
    PROVE  FlightInv'
  <1> USE DEF FlightTypes, FlightInv, Becomes, Keeps, At, Owner, flightVars
  <1>1. HasOwner'
    BY DEF HasOwner
  <1>2. KindInv'
    BY DEF KindInv
  <1>3. TimeInv'
    BY DEF TimeInv
  <1>4. MintFlights'
    BY DEF MintFlights
  <1>5. LookupFlights'
    BY DEF LookupFlights
  <1>6. Waits'
    BY DEF Waits
  <1> QED
    BY <1>1, <1>2, <1>3, <1>4, <1>5, <1>6

\* A call outside all flights may return.
LEMMA FlightEnd ==
    ASSUME FlightTypes, FlightInv, NEW c \in Calls, Return({c}),
           UNCHANGED <<now, flightVars>>,
           call[c].pc \notin MintSteps \/ call[c].kind = "token", call[c].pc \notin LookupSteps
    PROVE  FlightInv'
  <1> USE DEF FlightTypes, FlightInv, Return, At, Owner, flightVars
  <1>1. HasOwner'
    BY DEF HasOwner
  <1>2. KindInv'
    BY DEF KindInv
  <1>3. TimeInv'
    BY DEF TimeInv
  <1>4. MintFlights'
    BY OutsideFlights DEF MintFlights
  <1>5. LookupFlights'
    BY DEF LookupFlights
  <1>6. Waits'
    BY DEF Waits
  <1> QED
    BY <1>1, <1>2, <1>3, <1>4, <1>5, <1>6

\* A call leads a mint if nobody does, and waits otherwise (tokenMintSF.Do).
LEMMA FlightJoinMint ==
    ASSUME FlightTypes, FlightInv, NEW c \in Calls, JoinMint(c)
    PROVE  FlightInv'
  <1> USE DEF FlightTypes, FlightInv, Becomes, Moves, Keeps, At, Owner
  <1>1. /\ At(c, "join") /\ call[c].kind = "contents" /\ Owner(c) \in Owners
        /\ now' = now /\ lookupLeader' = lookupLeader
    BY DEF JoinMint, KindInv, HasOwner, TokenSteps, LookupSteps
  <1>2. \E s \in {"wait", "get_id", "get_again"} : Moves(c, s)
    BY JoinMintEffect
  <1>3. HasOwner'
    BY <1>1, <1>2 DEF HasOwner
  <1>4. KindInv'
    BY <1>1, <1>2 DEF KindInv
  <1>5. TimeInv'
    BY <1>1, <1>2 DEF TimeInv
  <1>6. MintFlights'
    <2>1. "get_id" \in MintSteps /\ "get_again" \in MintSteps /\ "join" \notin MintSteps
      BY DEF MintSteps, LookupSteps
    <2>2. CASE Moves(c, "wait") /\ mintLeader' = mintLeader
      BY <1>1, <2>1, <2>2, OutsideFlights DEF MintFlights
    <2>3. CASE /\ mintLeader[Owner(c)] = NoCall
               /\ Moves(c, "get_id") \/ Moves(c, "get_again")
               /\ mintLeader' = [mintLeader EXCEPT ![Owner(c)] = c]
      <3>1. call'[c].pc \in MintSteps /\ call'[c].kind = "contents"
        BY <1>1, <2>1, <2>3
      <3>2. \A d \in Calls : mintLeader[Owner(c)] # d
        BY <2>3, GitHubClientConstants
      <3>3. \A d \in Calls : d # c /\ call[d].kind = "contents" /\ call[d].pc \in MintSteps =>
               Owner(d) # Owner(c)
        BY <3>2 DEF MintFlights
      <3>4. \A o \in Owners : o # Owner(c) => mintLeader[o] # c
        BY <1>1, <2>1, GitHubClientConstants DEF MintFlights
      <3>5. \A o \in Owners : mintLeader'[o] # NoCall =>
               LET l == mintLeader'[o] IN
               call'[l].owner = o /\ call'[l].pc \in MintSteps /\ call'[l].kind = "contents"
        BY <1>1, <2>3, <3>1, <3>4 DEF MintFlights
      <3>6. \A d \in Calls : (call'[d].kind = "contents" /\ call'[d].pc \in MintSteps) =>
               mintLeader'[call'[d].owner] = d
        BY <1>1, <2>3, <3>1, <3>3 DEF MintFlights
      <3> QED
        BY <3>5, <3>6 DEF MintFlights
    <2> QED
      BY <2>2, <2>3, JoinMintEffect
  <1>7. LookupFlights'
    <2>1. "join" \notin LookupSteps
      BY DEF LookupSteps
    <2> QED
      BY <1>1, <1>2, <2>1 DEF LookupFlights
  <1>8. Waits'
    <2>1. \A o \in Owners : mintLeader[o] # NoCall => mintLeader'[o] # NoCall
      BY <1>1, JoinMintEffect, GitHubClientConstants
    <2>2. At(c, "wait")' => mintLeader'[Owner(c)] # NoCall
      BY <1>1, JoinMintEffect
    <2> QED
      BY <1>1, <1>2, <2>1, <2>2 DEF Waits, HasOwner
  <1> QED
    BY <1>3, <1>4, <1>5, <1>6, <1>7, <1>8

\* The same for a lookup, which may be part of a mint (installationSF.Do).
LEMMA FlightJoinLookup ==
    ASSUME FlightTypes, FlightInv, NEW c \in Calls, JoinLookup(c)
    PROVE  FlightInv'
  <1> USE DEF FlightTypes, FlightInv, Becomes, Moves, Keeps, At, Owner
  <1>1. At(c, "join_id") /\ Owner(c) \in Owners /\ now' = now /\ mintLeader' = mintLeader
    BY DEF JoinLookup, HasOwner
  <1>2. \E s \in {"wait_id", "get_id_again"} : Moves(c, s)
    BY JoinLookupEffect
  <1>3. HasOwner'
    BY <1>1, <1>2 DEF HasOwner
  <1>4. KindInv'
    BY <1>1, <1>2 DEF KindInv, TokenSteps, LookupSteps
  <1>5. TimeInv'
    BY <1>1, <1>2 DEF TimeInv
  <1>6. MintFlights'
    <2>1. "get_id_again" \in MintSteps /\ "join_id" \in MintSteps
      BY DEF MintSteps, LookupSteps
    <2> QED
      BY <1>1, <1>2, <2>1, OutsideFlights DEF MintFlights
  <1>7. LookupFlights'
    <2>1. "join_id" \notin LookupSteps /\ "get_id_again" \in LookupSteps
      BY DEF LookupSteps
    <2> QED
      BY <1>1, <2>1, JoinLookupEffect DEF LookupFlights
  <1>8. Waits'
    <2>1. \A o \in Owners : lookupLeader[o] # NoCall => lookupLeader'[o] # NoCall
      BY <1>1, JoinLookupEffect, GitHubClientConstants
    <2>2. At(c, "wait_id")' => lookupLeader'[Owner(c)] # NoCall
      BY <1>1, JoinLookupEffect
    <2> QED
      BY <1>1, <1>2, <2>1, <2>2 DEF Waits, HasOwner
  <1> QED
    BY <1>3, <1>4, <1>5, <1>6, <1>7, <1>8

\* A lookup ends for its leader and for all who wait for it: nobody is left
\* waiting (EndLookup).
LEMMA FlightEndLookup ==
    ASSUME FlightTypes, FlightInv, NEW c \in Calls, NEW id, EndLookup(c, id), UNCHANGED now,
           call[c].pc \in LookupSteps
    PROVE  FlightInv'
  <1> DEFINE S == {c} \cup LookupWaiters(c)
  <1> USE DEF FlightTypes, FlightInv, Keeps, At, Owner
  <1>1. /\ \A d \in Calls : d \notin S => call'[d] = call[d]
        /\ \A d \in Calls : d \in S => Keeps(d) /\ call'[d].pc = "mint"
        /\ \A d \in Calls : d \in S => d = c \/ At(d, "wait_id")
        /\ mintLeader' = mintLeader /\ lookupLeader' = Without(lookupLeader, {c})
    <2>1. \A d \in Calls : d \in S => d = c \/ At(d, "wait_id")
      BY DEF LookupWaiters
    <2>2. /\ \A d \in Calls : d \notin S => call'[d] = call[d]
          /\ \A d \in Calls : d \in S => Keeps(d) /\ call'[d].pc = "mint"
      BY EndLookupEffect
    <2> QED
      BY <2>1, <2>2 DEF EndLookup
  <1>2. \A d \in Calls : d \in S => call[d].pc \in MintSteps
    BY <1>1, OutsideFlights
  <1>3. HasOwner'
    BY <1>1, <1>2, OutsideFlights DEF HasOwner
  <1>4. KindInv'
    BY <1>1 DEF KindInv, TokenSteps
  <1>5. TimeInv'
    BY <1>1, <1>2, OutsideFlights DEF TimeInv
  <1>6. MintFlights'
    BY <1>1, <1>2, OutsideFlights DEF MintFlights
  <1>7. LookupFlights'
    BY <1>1, OutsideFlights DEF LookupFlights, Without
  <1>8. Waits'
    <2> SUFFICES ASSUME NEW d \in Calls
                 PROVE  /\ At(d, "wait")' => mintLeader'[Owner(d)'] # NoCall
                        /\ At(d, "wait_id")' => lookupLeader'[Owner(d)'] # NoCall
      BY DEF Waits
    <2>1. CASE d \in S
      BY <1>1, <2>1
    <2>2. CASE d \notin S
      <3>1. call'[d] = call[d]
        BY <1>1, <2>2
      <3>2. At(d, "wait_id") => Owner(d) \in Owners /\ lookupLeader[Owner(d)] # c
        BY <2>2 DEF LookupWaiters, HasOwner
      <3> QED
        BY <1>1, <3>1, <3>2 DEF Waits, Without
    <2> QED
      BY <2>1, <2>2
  <1> QED
    BY <1>3, <1>4, <1>5, <1>6, <1>7, <1>8

\* An error ends the call, the lookup or mint it leads, and all who wait for
\* them, those behind a call that waits in the middle of its mint too (Fail).
LEMMA FlightFail ==
    ASSUME FlightTypes, FlightInv, NEW c \in Calls, NEW code, Fail(c, code), UNCHANGED now
    PROVE  FlightInv'
  <1> USE DEF FlightTypes, FlightInv, At, Owner
  <1>1. /\ \A d \in Calls : d \notin Failing(c) => call'[d] = call[d]
        /\ \A d \in Calls : d \in Failing(c) => call'[d].pc = "idle" /\ call'[d].kind = "contents"
        /\ mintLeader' = Without(mintLeader, Failing(c))
        /\ lookupLeader' = Without(lookupLeader, Failing(c))
    BY FailEffect DEF Fail, Return
  <1>2. HasOwner'
    BY <1>1 DEF HasOwner
  <1>3. KindInv'
    BY <1>1 DEF KindInv
  <1>4. TimeInv'
    BY <1>1 DEF TimeInv
  <1>5. MintFlights'
    BY <1>1, OutsideFlights DEF MintFlights, HasOwner, Without
  <1>6. LookupFlights'
    BY <1>1 DEF LookupFlights, Without
  <1>7. Waits'
    <2> SUFFICES ASSUME NEW d \in Calls, d \notin Failing(c)
                 PROVE  /\ At(d, "wait") => mintLeader'[Owner(d)] # NoCall
                        /\ At(d, "wait_id") => lookupLeader'[Owner(d)] # NoCall
      BY <1>1 DEF Waits
    <2>1. ASSUME At(d, "wait") PROVE mintLeader'[Owner(d)] # NoCall
      <3> DEFINE l == mintLeader[Owner(d)]
      <3>1. Owner(d) \in Owners /\ l # NoCall /\ l \in Calls /\ call[l].pc \in MintSteps
        BY <2>1 DEF HasOwner, Waits, MintFlights
      <3>2. l # c /\ l \notin LookupWaiters(c)
        BY <2>1, <3>1 DEF Failing, MintWaiters
      <3>3. \A e : l \notin MintWaiters(e)
        BY <3>1, OutsideFlights DEF MintWaiters
      <3>4. l \notin Failing(c)
        BY <3>2, <3>3 DEF Failing
      <3> QED
        BY <1>1, <3>1, <3>4 DEF Without
    <2>2. ASSUME At(d, "wait_id") PROVE lookupLeader'[Owner(d)] # NoCall
      <3> DEFINE l == lookupLeader[Owner(d)]
      <3>1. Owner(d) \in Owners /\ l # NoCall /\ l \in Calls /\ call[l].pc \in LookupSteps
        BY <2>2 DEF HasOwner, Waits, LookupFlights
      <3>2. l # c
        BY <2>2, <3>1 DEF Failing, LookupWaiters
      <3>3. l \notin LookupWaiters(c) /\ \A e : l \notin MintWaiters(e)
        BY <3>1, OutsideFlights DEF MintWaiters, LookupWaiters
      <3>4. l \notin Failing(c)
        BY <3>2, <3>3 DEF Failing
      <3> QED
        BY <1>1, <3>1, <3>4 DEF Without
    <2> QED
      BY <2>1, <2>2
  <1> QED
    BY <1>2, <1>3, <1>4, <1>5, <1>6, <1>7

\* A mint ends for its leader and for all who wait for it (Land).
LEMMA FlightLand ==
    ASSUME FlightTypes, FlightInv, NEW c \in Calls, Land(c)
    PROVE  FlightInv'
  <1> DEFINE S == {c} \cup MintWaiters(c)
  <1> USE DEF FlightTypes, FlightInv, Keeps, At, Owner
  <1>1. /\ \A d \in Calls : d \notin S => call'[d] = call[d]
        /\ \A d \in Calls : d \in S => Keeps(d) /\ call'[d].pc = "contents"
        /\ At(c, "land") /\ \A d \in Calls : d \in S => d = c \/ At(d, "wait")
        /\ mintLeader' = Without(mintLeader, {c}) /\ UNCHANGED <<now, lookupLeader>>
    BY LandEffect DEF Land, MintWaiters
  <1>2. \A d \in Calls : d \in S => call[d].kind = "contents"
    BY <1>1 DEF KindInv, TokenSteps, LookupSteps
  <1>3. HasOwner'
    BY <1>1 DEF HasOwner
  <1>4. KindInv'
    BY <1>1, <1>2 DEF KindInv
  <1>5. TimeInv'
    BY <1>1 DEF TimeInv
  <1>6. MintFlights'
    <2>1. \A d \in Calls : d \in S => call'[d].pc \notin MintSteps
      BY <1>1, OutsideFlights
    <2>2. \A d \in Calls : d \in S /\ d # c => call[d].pc \notin MintSteps
      BY <1>1, OutsideFlights
    <2>3. ASSUME NEW o \in Owners, mintLeader'[o] # NoCall
          PROVE  /\ mintLeader'[o] \in Calls \ S /\ mintLeader'[o] = mintLeader[o]
      BY <1>1, <2>2, <2>3 DEF MintFlights, Without
    <2>4. \A o \in Owners : mintLeader'[o] # NoCall =>
             LET l == mintLeader'[o] IN
             call'[l].owner = o /\ call'[l].pc \in MintSteps /\ call'[l].kind = "contents"
      <3> SUFFICES ASSUME NEW o \in Owners, mintLeader'[o] # NoCall
                   PROVE  LET l == mintLeader'[o] IN
                          call'[l].owner = o /\ call'[l].pc \in MintSteps /\ call'[l].kind = "contents"
        OBVIOUS
      <3>1. /\ mintLeader[o] \in Calls /\ mintLeader[o] # NoCall /\ mintLeader[o] \notin S
            /\ mintLeader'[o] = mintLeader[o]
        BY <2>3
      <3>2. call'[mintLeader[o]] = call[mintLeader[o]]
        BY <1>1, <3>1
      <3> QED
        BY <3>1, <3>2 DEF MintFlights
    <2>5. ASSUME NEW d \in Calls, call'[d].kind = "contents", call'[d].pc \in MintSteps
          PROVE  mintLeader'[call'[d].owner] = d
      <3>1. d \notin S /\ call'[d] = call[d] /\ d # c
        BY <1>1, <2>1, <2>5
      <3>2. Owner(d) \in Owners /\ mintLeader[Owner(d)] = d
        BY <2>5, <3>1, OutsideFlights DEF MintFlights, HasOwner
      <3> QED
        BY <1>1, <3>1, <3>2 DEF Without
    <2> QED
      BY <2>4, <2>5 DEF MintFlights
  <1>7. LookupFlights'
    <2>1. \A d \in Calls : d \in S => call[d].pc \notin LookupSteps
      BY <1>1 DEF LookupSteps
    <2> QED
      BY <1>1, <2>1 DEF LookupFlights
  <1>8. Waits'
    <2> SUFFICES ASSUME NEW d \in Calls
                 PROVE  /\ At(d, "wait")' => mintLeader'[Owner(d)'] # NoCall
                        /\ At(d, "wait_id")' => lookupLeader'[Owner(d)'] # NoCall
      BY DEF Waits
    <2>1. CASE d \in S
      BY <1>1, <2>1
    <2>2. CASE d \notin S
      <3>1. call'[d] = call[d]
        BY <1>1, <2>2
      <3>2. At(d, "wait") => Owner(d) \in Owners /\ mintLeader[Owner(d)] # c
        BY <2>2 DEF MintWaiters, HasOwner
      <3> QED
        BY <1>1, <3>1, <3>2 DEF Waits, Without
    <2> QED
      BY <2>1, <2>2
  <1> QED
    BY <1>3, <1>4, <1>5, <1>6, <1>7, <1>8

\* A call begins outside all flights (Begin).
LEMMA FlightBegin ==
    ASSUME FlightTypes, FlightInv, NEW c \in Calls, NEW kind \in {"contents", "token"},
           NEW o \in Owners, Begin(c, kind, o)
    PROVE  FlightInv'
  <1> USE DEF FlightTypes, FlightInv, At, Owner
  <1>1. /\ \A d \in Calls : d # c => call'[d] = call[d]
        /\ call'[c].kind = kind /\ call'[c].owner = o /\ call'[c].began = now
        /\ call'[c].pc = IF kind = "contents" THEN "get" ELSE "get_id"
        /\ At(c, "idle") /\ UNCHANGED <<now, mintLeader, lookupLeader>>
    BY BeginEffect DEF Begin, flightVars
  <1>2. HasOwner'
    BY <1>1 DEF HasOwner
  <1>3. KindInv'
    BY <1>1 DEF KindInv, TokenSteps
  <1>4. TimeInv'
    BY <1>1, GitHubClientConstants DEF TimeInv
  <1>5. MintFlights'
    <2>1. "get" \notin MintSteps
      BY DEF MintSteps, LookupSteps
    <2> QED
      BY <1>1, <2>1, OutsideFlights DEF MintFlights
  <1>6. LookupFlights'
    BY <1>1, OutsideFlights DEF LookupFlights
  <1>7. Waits'
    BY <1>1 DEF Waits
  <1> QED
    BY <1>2, <1>3, <1>4, <1>5, <1>6, <1>7

\* A refusal is met outside all flights (GetContents).
LEMMA FlightRefused ==
    ASSUME FlightTypes, FlightInv, NEW c \in Calls, Refused(c)
    PROVE  FlightInv'
  <1> USE DEF FlightTypes, FlightInv, At, Owner
  <1>1. At(c, "contents") /\ UNCHANGED <<now, mintLeader, lookupLeader>>
    BY DEF Refused, flightVars
  <1>2. CASE Return({c})
    BY <1>1, <1>2, FlightEnd, OutsideFlights DEF flightVars
  <1>3. CASE ~Return({c})
    <2>1. /\ \A d \in Calls : d # c => call'[d] = call[d]
          /\ call'[c].kind = call[c].kind /\ call'[c].owner = call[c].owner
          /\ call'[c].began = call[c].began /\ call'[c].pc = "get"
      BY <1>3, RefusedEffect
    <2>2. HasOwner' /\ TimeInv'
      BY <1>1, <2>1 DEF HasOwner, TimeInv
    <2>3. KindInv'
      <3>1. call[c].kind # "token"
        BY <1>1 DEF KindInv, TokenSteps, LookupSteps
      <3> QED
        BY <2>1, <3>1 DEF KindInv
    <2>4. MintFlights'
      <3>1. "get" \notin MintSteps
        BY DEF MintSteps, LookupSteps
      <3> QED
        BY <1>1, <2>1, <3>1, OutsideFlights DEF MintFlights
    <2>5. LookupFlights'
      BY <1>1, <2>1, OutsideFlights DEF LookupFlights
    <2>6. Waits'
      BY <1>1, <2>1 DEF Waits
    <2> QED
      BY <2>2, <2>3, <2>4, <2>5, <2>6
  <1> QED
    BY <1>2, <1>3

\* Flights and waiters, through every step of every call.
LEMMA FlightStep == TypeInv /\ FlightInv /\ [Next]_vars => FlightInv'
  <1> SUFFICES ASSUME TypeInv, FlightInv, [Next]_vars PROVE FlightInv'
    OBVIOUS
  <1> USE DEF githubVars, cacheVars, flightVars
  <1>0. FlightTypes /\ call \in [Calls -> Call]
    BY TypesForFlights DEF FlightTypes
  <1>1. ASSUME NEW c \in Calls, NEW kind \in {"contents", "token"}, NEW o \in Owners,
               Begin(c, kind, o)
        PROVE  FlightInv'
    BY <1>0, <1>1, FlightBegin
  <1>2. ASSUME NEW c \in Calls, Malformed(c) PROVE FlightInv'
    BY <1>0, <1>2, EndedEffect, FlightEnd, OutsideFlights DEF Malformed, At
  <1>3. ASSUME NEW c \in Calls, CallStep(c) PROVE FlightInv'
    <2> USE <1>0, OutsideFlights DEF At, Moves
    <2>0. /\ "get" \notin MintSteps /\ "drop" \notin MintSteps /\ "join" \notin MintSteps
          /\ "get" \notin TokenSteps /\ "drop" \notin TokenSteps /\ "join" \notin TokenSteps
          /\ {"drop_again", "get_again", "get_id", "drop_id", "join_id", "ready", "land"} \subseteq MintSteps
          /\ {"drop_again", "get_again", "ready", "land", "contents"} \cap TokenSteps = {}
          /\ {"get_id", "drop_id", "join_id", "mint"} \subseteq TokenSteps
          /\ {"drop_again", "get_again", "get_id", "drop_id", "join_id", "ready", "land"} \cap LookupSteps = {}
          /\ {"get_id_again", "drop_id_again", "org", "user", "found"} \subseteq LookupSteps
          /\ LookupSteps \subseteq TokenSteps
      BY DEF MintSteps, TokenSteps, LookupSteps
    <2>1. CASE GetToken(c)
      <3>1. At(c, "get") /\ call[c].kind # "token"
        BY <2>0, <2>1 DEF GetToken, FlightInv, KindInv
      <3> QED
        BY <2>0, <2>1, <3>1, GetTokenEffect, FlightMove DEF GetToken
    <2>2. CASE DropToken(c)
      <3>1. call[c].kind # "token"
        BY <2>0, <2>2 DEF DropToken, FlightInv, KindInv
      <3> QED
        BY <2>0, <2>2, <3>1, GotoEffect, FlightMove DEF DropToken
    <2>3. CASE JoinMint(c)
      BY <2>3, FlightJoinMint
    <2>4. CASE GetTokenAgain(c)
      <3>1. call[c].kind # "token"
        BY <2>0, <2>4 DEF GetTokenAgain, FlightInv, KindInv
      <3> QED
        BY <2>0, <2>4, <3>1, GetTokenAgainEffect, FlightMove DEF GetTokenAgain
    <2>5. CASE GetId(c)
      BY <2>0, <2>5, GetIdEffect, FlightMove DEF GetId
    <2>6. CASE DropId(c)
      BY <2>0, <2>6, DropIdEffect, FlightMove DEF DropId
    <2>7. CASE JoinLookup(c)
      BY <2>7, FlightJoinLookup
    <2>8. CASE GetIdAgain(c)
      BY <2>0, <2>8, GotoEffect, FlightEndLookup, FlightMove DEF GetIdAgain
    <2>9. CASE Find(c)
      BY <2>0, <2>9, FindEffect, FlightMove DEF Find
    <2>10. CASE NotInstalled(c)
      BY <2>0, <2>10, NotInstalledEffect, FlightFail, FlightMove DEF NotInstalled
    <2>11. CASE StoreId(c)
      BY <2>0, <2>11, FlightEndLookup DEF StoreId
    <2>12. CASE CreateToken(c)
      BY <2>0, <2>12, CreateTokenEffect, FlightMove, FlightEnd DEF CreateToken
    <2>13. CASE CreateRefused(c)
      BY <2>13, FlightFail DEF CreateRefused
    <2>14. CASE StoreToken(c)
      <3>1. call[c].kind # "token"
        BY <2>0, <2>14 DEF StoreToken, FlightInv, KindInv
      <3> QED
        BY <2>0, <2>14, <3>1, GotoEffect, FlightMove DEF StoreToken
    <2>15. CASE Land(c)
      BY <2>15, FlightLand
    <2>16. CASE Answered(c)
      BY <2>16, EndedEffect, FlightEnd DEF Answered
    <2>17. CASE Refused(c)
      BY <2>17, FlightRefused
    <2>18. CASE Retry(c)
      <3>1. /\ call[c].pc \in RequestSteps /\ call[c].pc \notin {"idle", "wait", "wait_id"}
            /\ call[c].kind = "token" => call[c].pc \in TokenSteps
        BY <2>18 DEF Retry, RequestSteps, FlightInv, KindInv
      <3> QED
        BY <2>18, <3>1, RetryEffect, FlightMove DEF Retry
    <2>19. CASE Abort(c)
      BY <2>19, FlightFail DEF Abort
    <2> QED
      BY <1>3, <2>1, <2>2, <2>3, <2>4, <2>5, <2>6, <2>7, <2>8, <2>9, <2>10, <2>11, <2>12,
         <2>13, <2>14, <2>15, <2>16, <2>17, <2>18, <2>19 DEF CallStep
  <1>4. ASSUME NEW o \in Owners, Uninstall(o) \/ Install(o) \/ Evict(o) PROVE FlightInv'
    BY <1>4 DEF Uninstall, Install, Evict, FlightInv, HasOwner, KindInv, TimeInv, MintFlights,
                LookupFlights, Waits, At, Owner
  <1>5. ASSUME Tick PROVE FlightInv'
    BY <1>0, <1>5, GitHubClientConstants
    DEF Tick, FlightTypes, FlightInv, HasOwner, KindInv, TimeInv, MintFlights,
        LookupFlights, Waits, At, Owner
  <1>6. CASE UNCHANGED vars
    BY <1>6 DEF vars, FlightInv, HasOwner, KindInv, TimeInv, MintFlights, LookupFlights,
                Waits, At, Owner
  <1> QED
    BY <1>1, <1>2, <1>3, <1>4, <1>5, <1>6 DEF Next

\* At the start nobody calls and nobody leads.
LEMMA FlightInit == Init => FlightInv
  BY GitHubClientConstants
  DEF Init, FlightInv, HasOwner, KindInv, TimeInv, MintFlights, LookupFlights, Waits, At, Owner,
      Idle, MintSteps, LookupSteps, TokenSteps

\* Types and flights hold in every state.
LEMMA Flights == Spec => [](TypeInv /\ FlightInv)
  <1>1. Init => TypeInv /\ FlightInv
    BY TypeInit, FlightInit
  <1>2. TypeInv /\ FlightInv /\ [Next]_vars => TypeInv' /\ FlightInv'
    BY TypeStep, FlightStep DEF FlightInv
  <1> QED
    BY <1>1, <1>2, PTL DEF Spec

\* Every state of the client is well typed: in particular a request is never
\* tried more than MaxAttempts times (RoundTrip).
THEOREM TypeCorrect == Spec => []TypeOK
  BY Flights, PTL DEF TypeInv

\* However many calls share the two nested groups, nobody waits for a flight
\* that nobody leads, and calls never wait for each other in a circle
\* (singleflight.Do in mintToken and getInstallationID).
THEOREM WaitersHaveLeadersAlways == Spec => []WaitersHaveLeaders
  <1>1. TypeInv /\ FlightInv => WaitersHaveLeaders
    <2> SUFFICES ASSUME FlightTypes, FlightInv, NEW c \in Calls
                 PROVE  /\ At(c, "wait") =>
                              LET l == mintLeader[Owner(c)] IN
                              l # NoCall /\ l # c /\ Owner(l) = Owner(c) /\ call[l].pc \in MintSteps
                        /\ At(c, "wait_id") =>
                              LET l == lookupLeader[Owner(c)] IN
                              l # NoCall /\ l # c /\ Owner(l) = Owner(c) /\ call[l].pc \in LookupSteps
      BY TypesForFlights DEF WaitersHaveLeaders
    <2>1. At(c, "wait") \/ At(c, "wait_id") => Owner(c) \in Owners
      BY DEF FlightInv, HasOwner, At
    <2>2. ASSUME At(c, "wait")
          PROVE  LET l == mintLeader[Owner(c)] IN
                 l # NoCall /\ l # c /\ Owner(l) = Owner(c) /\ call[l].pc \in MintSteps
      BY <2>1, <2>2, OutsideFlights DEF FlightTypes, FlightInv, MintFlights, Waits, At
    <2>3. ASSUME At(c, "wait_id")
          PROVE  LET l == lookupLeader[Owner(c)] IN
                 l # NoCall /\ l # c /\ Owner(l) = Owner(c) /\ call[l].pc \in LookupSteps
      BY <2>1, <2>3, OutsideFlights DEF FlightTypes, FlightInv, LookupFlights, Waits, At
    <2> QED
      BY <2>2, <2>3
  <1> QED
    BY <1>1, Flights, PTL

------------------------------------------------------------------------------
(* Tokens *)

\* What the argument about tokens needs to know of the types.
TokenTypes ==
    /\ now \in Nat /\ minted \in Nat /\ call \in [Calls -> Call]
    /\ tokens \in [Owners -> Token \cup {NoEntry}]
    /\ \A t \in Token : t.n \in Nat /\ t.expiresAt \in Nat
    /\ \A c \in Calls : /\ call[c].began \in Nat /\ call[c].refused \in Nat
                        /\ call[c].token \in Token

\* The part of the types that the life of tokens needs.
LEMMA TypesForTokens == TypeInv => TokenTypes
  BY DEF TypeInv, TypeOK, TokenTypes, Token, Call

\* A token that is fit to be sent by c, and one that is fit to be shared.
Fit(c, token) == token.expiresAt > call[c].began + RequestTime
FitToShare(c, token) == token.expiresAt > call[c].began + 2 * RequestTime

\* A token that leaves the cache outlives this request and the requests of
\* all who wait for it: the expiry buffer is longer than two requests
\* (tokenCache.get).
LEMMA CachedIsFit ==
    ASSUME BufferCoversRequests, TokenTypes, FlightInv, NEW c \in Calls, ~At(c, "idle"),
           tokens[Owner(c)] # NoEntry, ~TokenExpired(tokens[Owner(c)])
    PROVE  Fit(c, tokens[Owner(c)]) /\ FitToShare(c, tokens[Owner(c)])
  <1>1. Owner(c) \in Owners /\ call[c].began <= now
    BY DEF FlightInv, HasOwner, TimeInv
  <1>2. tokens[Owner(c)].expiresAt \in Nat
    BY <1>1 DEF TokenTypes
  <1> QED
    BY <1>1, <1>2, GitHubClientConstants
       DEF BufferCoversRequests, TokenTypes, TokenExpired, Fit, FitToShare

\* Only what c holds matters when only c moves.
LEMMA TokenMove ==
    ASSUME TokenTypes, TokenInv, NEW c \in Calls, NEW s, NEW id, NEW token,
           Becomes(c, s, id, token),
           s = "contents" => token.expiresAt > call[c].began + RequestTime,
           s \in {"ready", "land"} => token.expiresAt > call[c].began + 2 * RequestTime
    PROVE  TokenInv'
  BY DEF TokenInv, Becomes, Keeps, At

\* Calls that return hold nothing.
LEMMA TokenReturn ==
    ASSUME TokenTypes, TokenInv, NEW S, Return(S)
    PROVE  TokenInv'
  BY DEF TokenInv, Return, At

\* A lookup hands out no token.
LEMMA TokenEndLookup ==
    ASSUME TokenTypes, TokenInv, NEW c \in Calls, NEW id, EndLookup(c, id)
    PROVE  TokenInv'
  BY EndLookupEffect DEF TokenTypes, TokenInv, At

\* No step makes a call hold a token longer than its buffer allows.
LEMMA TokenStep ==
    ASSUME BufferCoversRequests
    PROVE  TypeInv /\ FlightInv /\ TokenInv /\ [Next]_vars => TokenInv'
  <1> SUFFICES ASSUME TypeInv, FlightInv, TokenInv, [Next]_vars PROVE TokenInv'
    OBVIOUS
  <1>0. TokenTypes /\ call \in [Calls -> Call]
    BY TypesForTokens DEF TokenTypes
  <1>1. ASSUME NEW c \in Calls, NEW kind \in {"contents", "token"}, NEW o \in Owners,
               Begin(c, kind, o)
        PROVE  TokenInv'
    BY <1>0, <1>1, BeginEffect DEF TokenInv, At
  <1>2. ASSUME NEW c \in Calls, Malformed(c) PROVE TokenInv'
    BY <1>0, <1>2, EndedEffect, TokenReturn DEF Malformed
  <1>3. ASSUME NEW c \in Calls, CallStep(c) PROVE TokenInv'
    <2> USE <1>0 DEF Moves
    <2>1. CASE GetToken(c)
      <3>1. ~At(c, "idle")
        BY <2>1 DEF GetToken, At
      <3> QED
        BY <2>1, <3>1, GetTokenEffect, CachedIsFit, TokenMove DEF Fit
    <2>2. CASE DropToken(c)
      BY <2>2, GotoEffect, TokenMove DEF DropToken
    <2>3. CASE JoinMint(c)
      BY <2>3, JoinMintEffect, TokenMove
    <2>4. CASE GetTokenAgain(c)
      <3>1. ~At(c, "idle")
        BY <2>4 DEF GetTokenAgain, At
      <3> QED
        BY <2>4, <3>1, GetTokenAgainEffect, CachedIsFit, TokenMove DEF FitToShare
    <2>5. CASE GetId(c)
      BY <2>5, GetIdEffect, TokenMove
    <2>6. CASE DropId(c)
      BY <2>6, DropIdEffect, TokenMove
    <2>7. CASE JoinLookup(c)
      BY <2>7, JoinLookupEffect, TokenMove
    <2>8. CASE GetIdAgain(c)
      BY <2>8, GotoEffect, TokenEndLookup, TokenMove DEF GetIdAgain
    <2>9. CASE Find(c)
      BY <2>9, FindEffect, TokenMove
    <2>10. CASE NotInstalled(c)
      BY <2>10, NotInstalledEffect, FailEffect, TokenReturn, TokenMove
    <2>11. CASE StoreId(c)
      BY <2>11, TokenEndLookup DEF StoreId
    <2>12. CASE CreateToken(c)
      <3>1. now + TokenLifetime > call[c].began + 2 * RequestTime
        <4>1. call[c].began <= now
          BY <2>12 DEF CreateToken, FlightInv, TimeInv, At
        <4> QED
          BY <4>1, GitHubClientConstants DEF BufferCoversRequests, TokenTypes
      <3> QED
        BY <2>12, <3>1, CreateTokenEffect, TokenReturn, TokenMove
    <2>13. CASE CreateRefused(c)
      BY <2>13, FailEffect, TokenReturn DEF CreateRefused
    <2>14. CASE StoreToken(c)
      <3>1. call[c].token.expiresAt > call[c].began + 2 * RequestTime
        BY <2>14 DEF StoreToken, TokenInv, At
      <3> QED
        BY <2>14, <3>1, GotoEffect, TokenMove DEF StoreToken
    <2>15. CASE Land(c)
      <3>1. /\ call[c].token.expiresAt > call[c].began + 2 * RequestTime
            /\ now <= call[c].began + RequestTime
        BY <2>15 DEF Land, TokenInv, FlightInv, TimeInv, At
      <3>2. \A d \in Calls : d \in {c} \cup MintWaiters(c) => call[d].began <= now
        BY <2>15 DEF Land, MintWaiters, FlightInv, TimeInv, At
      <3>3. \A d \in Calls : d \in {c} \cup MintWaiters(c) =>
               call[c].token.expiresAt > call[d].began + RequestTime
        BY <3>1, <3>2, GitHubClientConstants DEF TokenTypes
      <3> QED
        BY <2>15, <3>3, LandEffect DEF TokenInv, Keeps, At
    <2>16. CASE Answered(c)
      BY <2>16, EndedEffect, TokenReturn DEF Answered
    <2>17. CASE Refused(c)
      <3>1. Return({c}) => TokenInv'
        BY TokenReturn
      <3> QED
        BY <2>17, <3>1, RefusedEffect DEF TokenInv, At
    <2>18. CASE Retry(c)
      BY <2>18, RetryEffect, TokenMove DEF TokenInv, At
    <2>19. CASE Abort(c)
      BY <2>19, FailEffect, TokenReturn DEF Abort
    <2> QED
      BY <1>3, <2>1, <2>2, <2>3, <2>4, <2>5, <2>6, <2>7, <2>8, <2>9, <2>10, <2>11, <2>12,
         <2>13, <2>14, <2>15, <2>16, <2>17, <2>18, <2>19 DEF CallStep
  <1>4. ASSUME NEW o \in Owners, Uninstall(o) \/ Install(o) \/ Evict(o) PROVE TokenInv'
    BY <1>4 DEF Uninstall, Install, Evict, TokenInv, At
  <1>5. ASSUME Tick PROVE TokenInv'
    BY <1>5 DEF Tick, TokenInv, At
  <1>6. CASE UNCHANGED vars
    BY <1>6 DEF vars, TokenInv, At
  <1> QED
    BY <1>1, <1>2, <1>3, <1>4, <1>5, <1>6 DEF Next

\* A token that GetContents sends has not expired, for any number of calls
\* that share it and however late they send it, if tokenCacheExpiryBuffer is
\* longer than two requests, as it is with the default request timeout.
THEOREM SentBeforeExpiryAlways ==
    ASSUME BufferCoversRequests
    PROVE  Spec => []SentBeforeExpiry
  <1>1. Init => TokenInv
    <2>1. Idle.pc = "idle"
      BY DEF Idle
    <2> QED
      BY <2>1 DEF Init, TokenInv, At
  <1>2. TypeInv /\ FlightInv /\ TokenInv => SentBeforeExpiry
    <2> SUFFICES ASSUME TokenTypes, FlightInv, TokenInv, NEW c \in Calls, At(c, "contents")
                 PROVE  now < call[c].token.expiresAt
      BY TypesForTokens DEF SentBeforeExpiry
    <2>1. /\ call[c].token.expiresAt > call[c].began + RequestTime
          /\ now <= call[c].began + RequestTime
      BY DEF TokenInv, FlightInv, TimeInv, At
    <2> QED
      BY <2>1, GitHubClientConstants DEF TokenTypes
  <1>3. TypeInv /\ FlightInv /\ TokenInv /\ [Next]_vars => TokenInv'
    BY TokenStep
  <1> QED
    BY <1>1, <1>2, <1>3, Flights, PTL DEF Spec

------------------------------------------------------------------------------
(* The token cache *)

\* When only c moves, and the cache only loses entries, nothing new comes out
\* of it: the token c holds is the one it had, or one from the cache.
LEMMA CacheMove ==
    ASSUME TokenTypes, CacheInv, NEW c \in Calls, NEW s, NEW id, NEW token,
           Becomes(c, s, id, token), minted' = minted,
           \A o \in Owners : tokens'[o] = tokens[o] \/ tokens'[o] = NoEntry,
           HasOwner, ~At(c, "idle"), s # "idle", s # "ready" \/ At(c, "ready"),
           \/ token = call[c].token /\ (s \in {"land", "contents"} => call[c].pc = s)
           \/ tokens[Owner(c)] # NoEntry /\ token = tokens[Owner(c)] /\ s # "ready",
           s = "get" => At(c, "get"),
           At(c, "get") /\ call[c].skipCache => tokens'[Owner(c)] = NoEntry
    PROVE  CacheInv'
  <1> USE DEF TokenTypes, CacheInv, Becomes, Keeps, At, Owner, HasOwner
  <1>1. NumberInv'
    BY DEF NumberInv
  <1>2. FreshInv'
    <2> SUFFICES ASSUME NEW d \in Calls, At(d, "ready")'
                 PROVE  /\ \A e \in Calls : call'[e].refused # call'[d].token.n
                        /\ \A e \in Calls : e # d => call'[e].token.n # call'[d].token.n
                        /\ \A o \in Owners : tokens'[o] # NoEntry => tokens'[o].n # call'[d].token.n
                        /\ tokens'[Owner(d)'] # NoEntry => tokens'[Owner(d)'].n < call'[d].token.n
      BY DEF FreshInv
    <2>1. At(d, "ready") /\ call'[d].token = call[d].token /\ Owner(d)' = Owner(d)
      OBVIOUS
    <2>2. \A e \in Calls : call'[e].refused # call[d].token.n
      BY <2>1 DEF FreshInv
    <2>3. \A e \in Calls : e # d => call'[e].token.n # call[d].token.n
      BY <2>1 DEF FreshInv
    <2>4. Owner(d) \in Owners
      BY <2>1
    <2> QED
      BY <2>1, <2>2, <2>3, <2>4 DEF FreshInv
  <1>3. SkipInv'
    BY DEF SkipInv
  <1>4. RefusedTokenIsGone'
    <2> SUFFICES ASSUME NEW d \in Calls, call'[d].skipCache, ~At(d, "get")'
                 PROVE  \/ tokens'[Owner(d)'] = NoEntry
                        \/ tokens'[Owner(d)'].n # call'[d].refused
      BY DEF RefusedTokenIsGone
    <2>1. /\ call[d].skipCache /\ Owner(d)' = Owner(d) /\ Owner(d) \in Owners
          /\ call'[d].refused = call[d].refused
      BY DEF SkipInv
    <2>2. CASE At(d, "get")
      BY <2>1, <2>2
    <2>3. CASE ~At(d, "get")
      BY <2>1, <2>3 DEF RefusedTokenIsGone
    <2> QED
      BY <2>2, <2>3
  <1> QED
    BY <1>1, <1>2, <1>3, <1>4

\* Calls that return take their numbers with them.
LEMMA CacheReturn ==
    ASSUME TokenTypes, CacheInv, NEW S, Return(S), tokens' = tokens, minted' \in Nat,
           minted' >= minted, HasOwner
    PROVE  CacheInv'
  <1> USE DEF TokenTypes, CacheInv, Return, At, Owner, HasOwner
  <1>1. NumberInv'
    BY DEF NumberInv
  <1>2. FreshInv'
    <2> SUFFICES ASSUME NEW d \in Calls, At(d, "ready")'
                 PROVE  /\ \A e \in Calls : call'[e].refused # call'[d].token.n
                        /\ \A e \in Calls : e # d => call'[e].token.n # call'[d].token.n
                        /\ \A o \in Owners : tokens'[o] # NoEntry => tokens'[o].n # call'[d].token.n
                        /\ tokens'[Owner(d)'] # NoEntry => tokens'[Owner(d)'].n < call'[d].token.n
      BY DEF FreshInv
    <2>1. At(d, "ready") /\ call'[d] = call[d] /\ call[d].token.n >= 1
      BY DEF NumberInv
    <2> QED
      BY <2>1 DEF FreshInv
  <1>3. SkipInv'
    BY DEF SkipInv
  <1>4. RefusedTokenIsGone'
    BY DEF RefusedTokenIsGone
  <1> QED
    BY <1>1, <1>2, <1>3, <1>4

\* A lookup hands out no token.
LEMMA CacheEndLookup ==
    ASSUME TokenTypes, CacheInv, NEW c \in Calls, NEW id, EndLookup(c, id),
           UNCHANGED <<tokens, minted>>, call[c].pc \in LookupSteps
    PROVE  CacheInv'
  <1> USE DEF TokenTypes, CacheInv, At, Owner
  <1>1. /\ \A d \in Calls : Keeps(d) /\ call'[d].token = call[d].token
        /\ \A d \in Calls : call'[d].pc = call[d].pc \/ call'[d].pc = "mint"
        /\ \A d \in Calls : call'[d].pc # call[d].pc => call[d].pc # "get" /\ call[d].pc # "idle"
    <2>1. \A d \in Calls : d \in {c} \cup LookupWaiters(c) => call[d].pc # "get" /\ call[d].pc # "idle"
      BY DEF LookupSteps, LookupWaiters
    <2> QED
      BY <2>1, EndLookupEffect DEF Keeps
  <1>2. NumberInv'
    BY <1>1 DEF NumberInv, Keeps
  <1>3. FreshInv'
    BY <1>1 DEF FreshInv, Keeps
  <1>4. SkipInv'
    BY <1>1 DEF SkipInv, Keeps
  <1>5. RefusedTokenIsGone'
    BY <1>1 DEF RefusedTokenIsGone, Keeps
  <1> QED
    BY <1>2, <1>3, <1>4, <1>5

\* A new token has a number nobody knows (createInstallationToken).
LEMMA CacheCreate ==
    ASSUME TokenTypes, CacheInv, HasOwner, NEW c \in Calls, CreateToken(c)
    PROVE  CacheInv'
  <1> DEFINE token == [n |-> minted + 1, id |-> call[c].id, expiresAt |-> now + TokenLifetime]
  <1>1. /\ tokens' = tokens /\ minted' = minted + 1 /\ At(c, "mint")
    BY DEF CreateToken, cacheVars
  <1>2. CASE Return({c})
    BY <1>1, <1>2, CacheReturn DEF TokenTypes
  <1>3. CASE Becomes(c, "ready", 0, token)
    <2> USE DEF TokenTypes, CacheInv, At, Owner, HasOwner
    <2>1. /\ \A d \in Calls : d # c => call'[d] = call[d]
          /\ Keeps(c) /\ call'[c].pc = "ready" /\ call'[c].token.n = minted + 1
      BY <1>3 DEF Becomes
    <2>2. NumberInv'
      BY <1>1, <2>1 DEF NumberInv, Keeps
    <2>3. FreshInv'
      <3>1. /\ \A d \in Calls : call[d].token.n < minted + 1 /\ call[d].refused < minted + 1
            /\ \A o \in Owners : tokens[o] # NoEntry => tokens[o].n < minted + 1
        BY DEF NumberInv
      <3>2. \A d \in Calls : call'[d].refused = call[d].refused /\ Owner(d)' = Owner(d)
        BY <2>1 DEF Keeps
      <3>3. Owner(c) \in Owners
        BY <1>1
      <3>4. ASSUME NEW d \in Calls, At(d, "ready")'
            PROVE  /\ \A e \in Calls : call'[e].refused # call'[d].token.n
                   /\ \A e \in Calls : e # d => call'[e].token.n # call'[d].token.n
                   /\ \A o \in Owners : tokens[o] # NoEntry => tokens[o].n # call'[d].token.n
                   /\ tokens[Owner(d)] # NoEntry => tokens[Owner(d)].n < call'[d].token.n
        <4>1. CASE d = c
          BY <2>1, <3>1, <3>2, <3>3, <4>1
        <4>2. CASE d # c
          <5>1. call'[d] = call[d] /\ At(d, "ready")
            BY <2>1, <3>4, <4>2
          <5>2. call'[c].token.n # call[d].token.n
            BY <2>1, <3>1
          <5> QED
            BY <2>1, <3>2, <5>1, <5>2 DEF FreshInv
        <4> QED
          BY <4>1, <4>2
      <3> QED
        BY <1>1, <3>2, <3>4 DEF FreshInv
    <2>4. SkipInv'
      BY <1>1, <2>1 DEF SkipInv, Keeps
    <2>5. RefusedTokenIsGone'
      BY <1>1, <2>1 DEF RefusedTokenIsGone, Keeps
    <2> QED
      BY <2>2, <2>3, <2>4, <2>5
  <1> QED
    BY <1>2, <1>3, CreateTokenEffect DEF TokenTypes

\* The token that is stored has been refused to nobody, and nobody else is
\* about to store one for the same account (tokenCache.set).
LEMMA CacheStore ==
    ASSUME TokenTypes, CacheInv, FlightInv, NEW c \in Calls, StoreToken(c)
    PROVE  CacheInv'
  <1> USE DEF TokenTypes, CacheInv, At, Owner
  <1>1. /\ tokens' = [tokens EXCEPT ![Owner(c)] = call[c].token] /\ minted' = minted
        /\ At(c, "ready") /\ Moves(c, "land") /\ Owner(c) \in Owners
    BY GotoEffect DEF StoreToken, SetToken, githubVars, FlightInv, HasOwner
  <1>2. /\ \A d \in Calls : d # c => call'[d] = call[d]
        /\ Keeps(c) /\ call'[c].pc = "land" /\ call'[c].token = call[c].token
    BY <1>1 DEF Moves, Becomes
  <1>3. /\ tokens'[Owner(c)] = call[c].token /\ call[c].token.n \in 1 .. minted
        /\ \A o \in Owners : o # Owner(c) => tokens'[o] = tokens[o]
    BY <1>1 DEF NumberInv
  <1>4. NumberInv'
    BY <1>1, <1>2, <1>3 DEF NumberInv, Keeps
  <1>5. \A d \in Calls : At(d, "ready") /\ d # c => Owner(d) # Owner(c)
    <2>1. \A d \in Calls : At(d, "ready") => call[d].kind = "contents" /\ call[d].pc \in MintSteps
      BY DEF FlightInv, KindInv, TokenSteps, LookupSteps, MintSteps, Call
    <2> QED
      BY <1>1, <2>1 DEF FlightInv, MintFlights
  <1>6. FreshInv'
    <2>1. ASSUME NEW d \in Calls, At(d, "ready")'
          PROVE  /\ \A e \in Calls : call'[e].refused # call'[d].token.n
                 /\ \A e \in Calls : e # d => call'[e].token.n # call'[d].token.n
                 /\ \A o \in Owners : tokens'[o] # NoEntry => tokens'[o].n # call'[d].token.n
                 /\ tokens'[Owner(d)'] # NoEntry => tokens'[Owner(d)'].n < call'[d].token.n
      <3>1. d # c /\ call'[d] = call[d] /\ At(d, "ready")
        BY <1>2, <2>1
      <3>2. /\ \A e \in Calls : call'[e].refused = call[e].refused
            /\ \A e \in Calls : call'[e].token = call[e].token
        BY <1>2 DEF Keeps
      <3>3. Owner(d) \in Owners /\ Owner(d) # Owner(c)
        BY <1>5, <3>1 DEF FlightInv, HasOwner
      <3>4. call[c].token.n # call[d].token.n
        BY <3>1 DEF FreshInv
      <3> QED
        BY <1>3, <3>1, <3>2, <3>3, <3>4 DEF FreshInv
    <2> QED
      BY <2>1 DEF FreshInv
  <1>7. SkipInv'
    BY <1>1, <1>2 DEF SkipInv, Keeps
  <1>8. RefusedTokenIsGone'
    <2>1. ASSUME NEW d \in Calls, call'[d].skipCache, ~At(d, "get")'
          PROVE  tokens'[Owner(d)'] = NoEntry \/ tokens'[Owner(d)'].n # call'[d].refused
      <3>1. /\ call[d].skipCache /\ ~At(d, "get") /\ Owner(d)' = Owner(d)
            /\ call'[d].refused = call[d].refused
        BY <1>1, <1>2, <2>1 DEF Keeps
      <3>2. Owner(d) \in Owners
        BY <3>1 DEF SkipInv, FlightInv, HasOwner
      <3>3. call[c].token.n # call[d].refused
        BY <1>1 DEF FreshInv
      <3> QED
        BY <1>3, <3>1, <3>2, <3>3 DEF RefusedTokenIsGone
    <2> QED
      BY <2>1 DEF RefusedTokenIsGone
  <1> QED
    BY <1>4, <1>6, <1>7, <1>8

\* Sharing a token gives nobody a token that is yet to be stored (Land).
LEMMA CacheLand ==
    ASSUME TokenTypes, CacheInv, NEW c \in Calls, Land(c)
    PROVE  CacheInv'
  <1> USE DEF TokenTypes, CacheInv, At, Owner
  <1>1. /\ UNCHANGED <<tokens, minted>> /\ At(c, "land")
        /\ \A d \in Calls : Keeps(d)
        /\ \A d \in Calls : \/ call'[d] = call[d]
                            \/ /\ call'[d].pc = "contents" /\ call'[d].token = call[c].token
                               /\ call[d].pc \in {"land", "wait"}
    <2>1. \A d \in Calls : d \in {c} \cup MintWaiters(c) => call[d].pc \in {"land", "wait"}
      BY DEF Land, MintWaiters
    <2> QED
      BY <2>1, LandEffect DEF Land, Keeps, githubVars, cacheVars
  <1>2. NumberInv'
    BY <1>1 DEF NumberInv, Keeps
  <1>3. FreshInv'
    <2>1. ASSUME NEW d \in Calls, At(d, "ready")'
          PROVE  /\ \A e \in Calls : call'[e].refused # call'[d].token.n
                 /\ \A e \in Calls : e # d => call'[e].token.n # call'[d].token.n
                 /\ \A o \in Owners : tokens'[o] # NoEntry => tokens'[o].n # call'[d].token.n
                 /\ tokens'[Owner(d)'] # NoEntry => tokens'[Owner(d)'].n < call'[d].token.n
      <3>1. call'[d] = call[d] /\ At(d, "ready") /\ d # c
        BY <1>1, <2>1
      <3>2. \A e \in Calls : e # d => call'[e].token.n # call[d].token.n
        BY <1>1, <3>1 DEF FreshInv
      <3>3. \A e \in Calls : call'[e].refused # call[d].token.n
        BY <1>1, <3>1 DEF FreshInv, Keeps
      <3> QED
        BY <1>1, <3>1, <3>2, <3>3 DEF FreshInv
    <2> QED
      BY <2>1 DEF FreshInv
  <1>4. SkipInv'
    BY <1>1 DEF SkipInv, Keeps
  <1>5. RefusedTokenIsGone'
    BY <1>1 DEF RefusedTokenIsGone, Keeps
  <1> QED
    BY <1>2, <1>3, <1>4, <1>5

\* A refused token was stored before it was sent (GetContents).
LEMMA CacheRefused ==
    ASSUME TokenTypes, CacheInv, HasOwner, NEW c \in Calls, Refused(c)
    PROVE  CacheInv'
  <1>1. UNCHANGED <<tokens, minted>> /\ At(c, "contents")
    BY DEF Refused, githubVars, cacheVars
  <1>2. CASE Return({c})
    BY <1>1, <1>2, CacheReturn DEF TokenTypes
  <1>3. CASE ~Return({c})
    <2> USE DEF TokenTypes, CacheInv, At, Owner
    <2>1. /\ \A d \in Calls : d # c => call'[d] = call[d]
          /\ call'[c].owner = call[c].owner /\ call'[c].pc = "get"
          /\ call'[c].refused = call[c].token.n /\ call'[c].token.n = 0
      BY <1>3, RefusedEffect
    <2>2. NumberInv'
      BY <1>1, <2>1 DEF NumberInv
    <2>3. FreshInv'
      <3>1. ASSUME NEW d \in Calls, At(d, "ready")'
            PROVE  /\ \A e \in Calls : call'[e].refused # call'[d].token.n
                   /\ \A e \in Calls : e # d => call'[e].token.n # call'[d].token.n
                   /\ \A o \in Owners : tokens'[o] # NoEntry => tokens'[o].n # call'[d].token.n
                   /\ tokens'[Owner(d)'] # NoEntry => tokens'[Owner(d)'].n < call'[d].token.n
        <4>1. d # c /\ call'[d] = call[d] /\ At(d, "ready") /\ call[d].token.n >= 1
          BY <2>1, <3>1 DEF NumberInv
        <4>2. \A e \in Calls : e # d => call'[e].token.n # call[d].token.n
          BY <2>1, <4>1 DEF FreshInv
        <4>3. \A e \in Calls : call'[e].refused # call[d].token.n
          BY <2>1, <4>1 DEF FreshInv
        <4> QED
          BY <1>1, <4>1, <4>2, <4>3 DEF FreshInv
      <3> QED
        BY <3>1 DEF FreshInv
    <2>4. SkipInv'
      BY <2>1 DEF SkipInv
    <2>5. RefusedTokenIsGone'
      BY <1>1, <2>1 DEF RefusedTokenIsGone
    <2> QED
      BY <2>2, <2>3, <2>4, <2>5
  <1> QED
    BY <1>2, <1>3

\* No step puts a refused token back into the cache.
LEMMA CacheStep == TypeInv /\ FlightInv /\ CacheInv /\ [Next]_vars => CacheInv'
  <1> SUFFICES ASSUME TypeInv, FlightInv, CacheInv, [Next]_vars PROVE CacheInv'
    OBVIOUS
  <1>0. TokenTypes /\ call \in [Calls -> Call] /\ HasOwner
    BY TypesForTokens DEF TokenTypes, FlightInv
  <1>1. ASSUME NEW c \in Calls, NEW kind \in {"contents", "token"}, NEW o \in Owners,
               Begin(c, kind, o)
        PROVE  CacheInv'
    <2> USE DEF TokenTypes, CacheInv, At, Owner
    <2>1. /\ \A d \in Calls : d # c => call'[d] = call[d]
          /\ call'[c].refused = 0 /\ ~call'[c].skipCache /\ call'[c].token.n = 0
          /\ call'[c].pc \in {"get", "get_id"} /\ UNCHANGED <<tokens, minted>>
      BY <1>0, <1>1, BeginEffect DEF Begin, githubVars, cacheVars
    <2>2. NumberInv'
      BY <1>0, <2>1 DEF NumberInv
    <2>3. FreshInv'
      BY <1>0, <2>1 DEF FreshInv, NumberInv
    <2>4. SkipInv' /\ RefusedTokenIsGone'
      BY <2>1 DEF SkipInv, RefusedTokenIsGone
    <2> QED
      BY <2>2, <2>3, <2>4
  <1>2. ASSUME NEW S, Return(S), UNCHANGED <<githubVars, cacheVars>> PROVE CacheInv'
    BY <1>0, <1>2, CacheReturn DEF TokenTypes, githubVars, cacheVars
  <1>3. ASSUME NEW c \in Calls, NEW s, Moves(c, s), ~At(c, "idle"), UNCHANGED minted,
               \A o \in Owners : tokens'[o] = tokens[o] \/ tokens'[o] = NoEntry,
               s \notin {"idle", "get", "ready", "land", "contents"} \/ s = call[c].pc,
               At(c, "get") /\ call[c].skipCache => tokens'[Owner(c)] = NoEntry
        PROVE  CacheInv'
    BY <1>0, <1>3, CacheMove DEF Moves, At
  <1>4. ASSUME NEW c \in Calls, CallStep(c) PROVE CacheInv'
    <2> USE <1>0 DEF At, githubVars, cacheVars
    <2>1. CASE GetToken(c)
      <3>1. At(c, "get") /\ Owner(c) \in Owners /\ minted' = minted
        BY <2>1 DEF GetToken, HasOwner
      <3>2. CASE /\ Moves(c, "join") /\ call[c].skipCache
                 /\ tokens' = [tokens EXCEPT ![Owner(c)] = NoEntry]
        BY <1>3, <3>1, <3>2 DEF TokenTypes
      <3>3. CASE (Moves(c, "join") \/ Moves(c, "drop")) /\ tokens' = tokens /\ ~call[c].skipCache
        BY <1>3, <3>1, <3>3
      <3>4. CASE /\ Becomes(c, "contents", call[c].id, tokens[Owner(c)])
                 /\ tokens' = tokens /\ ~call[c].skipCache /\ tokens[Owner(c)] # NoEntry
        BY <3>1, <3>4, CacheMove
      <3> QED
        BY <2>1, <3>2, <3>3, <3>4, GetTokenEffect
    <2>2. CASE DropToken(c)
      <3>1. \A o \in Owners : tokens'[o] = tokens[o] \/ tokens'[o] = NoEntry
        BY <2>2 DEF DropToken, TokenTypes
      <3> QED
        BY <1>3, <2>2, <3>1, GotoEffect DEF DropToken
    <2>3. CASE JoinMint(c)
      BY <1>3, <2>3, JoinMintEffect DEF JoinMint
    <2>4. CASE GetTokenAgain(c)
      <3>1. At(c, "get_again") /\ UNCHANGED <<tokens, minted>>
        BY <2>4 DEF GetTokenAgain
      <3>2. CASE Moves(c, "get_id") \/ Moves(c, "drop_again")
        BY <1>3, <3>1, <3>2
      <3>3. CASE /\ Becomes(c, "land", call[c].id, tokens[Owner(c)])
                 /\ tokens[Owner(c)] # NoEntry
        BY <3>1, <3>3, CacheMove
      <3> QED
        BY <2>4, <3>2, <3>3, GetTokenAgainEffect
    <2>5. CASE GetId(c)
      <3>1. At(c, "get_id") /\ UNCHANGED <<tokens, minted>>
        BY <2>5 DEF GetId
      <3>2. CASE Moves(c, "join_id") \/ Moves(c, "drop_id")
        BY <1>3, <3>1, <3>2
      <3>3. CASE Becomes(c, "mint", installations[Owner(c)].id, call[c].token)
        BY <3>1, <3>3, CacheMove
      <3> QED
        BY <2>5, <3>2, <3>3, GetIdEffect
    <2>6. CASE DropId(c)
      BY <1>3, <2>6, DropIdEffect DEF DropId
    <2>7. CASE JoinLookup(c)
      BY <1>3, <2>7, JoinLookupEffect DEF JoinLookup
    <2>8. CASE GetIdAgain(c)
      <3>1. At(c, "get_id_again") /\ UNCHANGED <<tokens, minted>> /\ call[c].pc \in LookupSteps
        BY <2>8 DEF GetIdAgain, LookupSteps
      <3> QED
        BY <1>3, <2>8, <3>1, GotoEffect, CacheEndLookup DEF GetIdAgain
    <2>9. CASE Find(c)
      <3>1. call[c].pc \in {"org", "user"} /\ UNCHANGED <<tokens, minted>>
        BY <2>9 DEF Find
      <3> QED
        BY <2>9, <3>1, FindEffect, CacheMove
    <2>10. CASE NotInstalled(c)
      BY <1>2, <1>3, <2>10, NotInstalledEffect, FailEffect DEF NotInstalled
    <2>11. CASE StoreId(c)
      <3>1. UNCHANGED <<tokens, minted>> /\ call[c].pc \in LookupSteps
        BY <2>11 DEF StoreId, LookupSteps
      <3> QED
        BY <2>11, <3>1, CacheEndLookup DEF StoreId
    <2>12. CASE CreateToken(c)
      BY <2>12, CacheCreate
    <2>13. CASE CreateRefused(c)
      BY <1>2, <2>13, FailEffect DEF CreateRefused
    <2>14. CASE StoreToken(c)
      BY <2>14, CacheStore
    <2>15. CASE Land(c)
      BY <2>15, CacheLand
    <2>16. CASE Answered(c)
      BY <1>2, <2>16, EndedEffect DEF Answered
    <2>17. CASE Refused(c)
      BY <2>17, CacheRefused
    <2>18. CASE Retry(c)
      <3>1. ~At(c, "idle") /\ ~At(c, "get") /\ UNCHANGED <<tokens, minted>>
        BY <2>18 DEF Retry, RequestSteps
      <3> QED
        BY <1>3, <2>18, <3>1, RetryEffect
    <2>19. CASE Abort(c)
      BY <1>2, <2>19, FailEffect DEF Abort
    <2> QED
      BY <1>4, <2>1, <2>2, <2>3, <2>4, <2>5, <2>6, <2>7, <2>8, <2>9, <2>10, <2>11, <2>12,
         <2>13, <2>14, <2>15, <2>16, <2>17, <2>18, <2>19 DEF CallStep
  <1>5. ASSUME NEW c \in Calls, Malformed(c) PROVE CacheInv'
    BY <1>0, <1>2, <1>5, EndedEffect DEF Malformed
  <1>6. ASSUME NEW o \in Owners, Evict(o) PROVE CacheInv'
    <2>1. /\ UNCHANGED <<call, minted>>
          /\ \A p \in Owners : tokens'[p] = tokens[p] \/ tokens'[p] = NoEntry
      BY <1>0, <1>6 DEF Evict, TokenTypes, githubVars
    <2>2. \A c \in Calls : call[c].skipCache => Owner(c) \in Owners
      BY <1>0 DEF CacheInv, SkipInv, HasOwner
    <2>3. \A c \in Calls : At(c, "ready") => Owner(c) \in Owners
      BY <1>0 DEF HasOwner, At
    <2>4. NumberInv' /\ SkipInv'
      BY <2>1 DEF CacheInv, NumberInv, SkipInv, At
    <2>5. FreshInv'
      BY <2>1, <2>3 DEF CacheInv, FreshInv, At, Owner
    <2>6. RefusedTokenIsGone'
      BY <2>1, <2>2 DEF CacheInv, RefusedTokenIsGone, At, Owner
    <2> QED
      BY <2>4, <2>5, <2>6 DEF CacheInv
  <1>7. CASE UNCHANGED <<call, tokens, minted>>
    BY <1>7 DEF CacheInv, NumberInv, FreshInv, SkipInv, RefusedTokenIsGone, At, Owner
  <1>8. (Tick \/ (\E o \in Owners : Uninstall(o) \/ Install(o)) \/ UNCHANGED vars) =>
           UNCHANGED <<call, tokens, minted>>
    BY DEF Tick, Uninstall, Install, vars, githubVars, cacheVars
  <1> QED
    BY <1>1, <1>4, <1>5, <1>6, <1>7, <1>8 DEF Next

\* Nothing is cached, sent or refused at the start.
LEMMA CacheInit == Init => CacheInv
  <1>1. /\ Idle.pc = "idle" /\ Idle.token.n = 0 /\ Idle.refused = 0 /\ Idle.skipCache = FALSE
    BY DEF Idle, NoToken
  <1> QED
    BY <1>1 DEF Init, CacheInv, NumberInv, FreshInv, SkipInv, RefusedTokenIsGone, At

\* The cache of contents tokens, in every state.
LEMMA Caches == Spec => [](TypeInv /\ FlightInv /\ CacheInv)
  BY CacheInit, CacheStep, Flights, PTL DEF Spec

\* However calls interleave, a token with which a call was refused stays out
\* of the cache until that call ends (GetContents, mintToken).
THEOREM RefusedTokenIsGoneAlways == Spec => []RefusedTokenIsGone
  BY Caches, PTL DEF CacheInv

\* A fresh token leaves the cache only because a call was refused, because a
\* newer one takes its place, or because the cache is full: never because a
\* call saw its expired predecessor (tokenCache.get).
THEOREM FreshTokensStayAlways == Spec => FreshTokensStay
  <1> DEFINE Stays ==
        \A o \in Owners :
            (tokens[o] # NoEntry /\ ~TokenExpired(tokens[o]) /\ tokens'[o] # tokens[o]) =>
               \/ \E c \in Calls : At(c, "get") /\ call[c].skipCache /\ Owner(c) = o
               \/ tokens'[o] # NoEntry /\ tokens'[o].n > tokens[o].n
               \/ call' = call
  <1>1. TypeInv /\ FlightInv /\ CacheInv /\ [Next]_vars => [Stays]_vars
    <2> SUFFICES ASSUME TypeInv, FlightInv, CacheInv, Next PROVE Stays
      OBVIOUS
    <2>0. TokenTypes
      BY TypesForTokens
    <2>1. ASSUME NEW c \in Calls, GetToken(c) PROVE Stays
      BY <2>0, <2>1 DEF GetToken, TokenTypes
    <2>2. ASSUME NEW c \in Calls, DropToken(c) PROVE Stays
      BY <2>0, <2>2 DEF DropToken, TokenTypes
    <2>3. ASSUME NEW c \in Calls, StoreToken(c) PROVE Stays
      <3>1. /\ tokens' = [tokens EXCEPT ![Owner(c)] = call[c].token]
            /\ At(c, "ready") /\ Owner(c) \in Owners
        BY <2>3 DEF StoreToken, SetToken, FlightInv, HasOwner, At
      <3>2. tokens[Owner(c)] # NoEntry => tokens[Owner(c)].n < call[c].token.n
        BY <3>1 DEF CacheInv, FreshInv
      <3>3. ASSUME NEW o \in Owners, tokens[o] # NoEntry, tokens'[o] # tokens[o]
            PROVE  tokens'[o] # NoEntry /\ tokens'[o].n > tokens[o].n
        <4>1. o = Owner(c) /\ tokens'[o] = call[c].token
          BY <2>0, <3>1, <3>3 DEF TokenTypes
        <4> QED
          BY <2>0, <3>2, <3>3, <4>1, NoEntryIsNoToken DEF TokenTypes
      <3> QED
        BY <3>3
    <2>4. ASSUME UNCHANGED tokens \/ UNCHANGED call PROVE Stays
      BY <2>4
    <2>5. ASSUME NEW c \in Calls, CallStep(c), ~GetToken(c), ~DropToken(c), ~StoreToken(c)
          PROVE  UNCHANGED tokens
      BY <2>5
      DEF CallStep, JoinMint, GetTokenAgain, GetId, DropId, JoinLookup, GetIdAgain, Find,
          NotInstalled, StoreId, CreateToken, CreateRefused, Land, Answered, Refused, Retry,
          Abort, cacheVars
    <2>6. ASSUME NEW c \in Calls, NEW kind, NEW o, Begin(c, kind, o) \/ Malformed(c)
          PROVE  UNCHANGED tokens
      BY <2>6 DEF Begin, Malformed, cacheVars
    <2>7. ASSUME NEW o \in Owners, Uninstall(o) \/ Install(o) \/ Evict(o) PROVE UNCHANGED call
      BY <2>7 DEF Uninstall, Install, Evict
    <2>8. Tick => UNCHANGED call
      BY DEF Tick
    <2> QED
      BY <2>1, <2>2, <2>3, <2>4, <2>5, <2>6, <2>7, <2>8 DEF Next
  <1> QED
    BY <1>1, Caches, PTL DEF Spec, FreshTokensStay

------------------------------------------------------------------------------
(* Installation ids *)

\* What the argument about ids needs to know of the types.
IdTypes ==
    /\ now \in Nat /\ call \in [Calls -> Call] /\ since \in [Owners -> Nat]
    /\ installation \in [Owners -> [id: Ids, on: BOOLEAN]]
    /\ installations \in [Owners -> [id: Ids, fetched: Nat] \cup {NoEntry}]
    /\ \A c \in Calls : call[c].began \in Nat

\* The part of the types that installation ids need.
LEMMA TypesForIds == TypeInv => IdTypes
  BY DEF TypeInv, TypeOK, IdTypes, Call

\* When GitHub and the cache of ids stay as they are, only the ids that calls
\* hold matter.
LEMMA IdMove ==
    ASSUME IdInv, NEW c \in Calls, NEW s, NEW id, NEW token, Becomes(c, s, id, token),
           UNCHANGED <<now, installation, since, installations>>,
           s = "found" => Current(Owner(c), id) \/ call[c].began <= since[Owner(c)],
           s = "mint" =>
              \/ Current(Owner(c), id)
              \/ call[c].began <= since[Owner(c)] + InstallationTTL + RequestTime
    PROVE  IdInv'
  BY DEF IdInv, Becomes, Keeps, At, Owner, Current

\* Calls that return hold no id.
LEMMA IdReturn ==
    ASSUME IdInv, NEW S, Return(S), UNCHANGED <<now, installation, since, installations>>
    PROVE  IdInv'
  BY DEF IdInv, Return, At, Owner, Current

\* A lookup ends for calls for one account, none of which began after now: if
\* the id is current, or was at most an entry's lifetime and a request ago, it
\* is good for all of them (EndLookup).
LEMMA IdEndLookup ==
    ASSUME IdTypes, FlightTypes, FlightInv, IdInv, NEW c \in Calls, NEW id, EndLookup(c, id),
           call[c].pc \in LookupSteps, UNCHANGED <<now, installation, since>>,
           \A o \in Owners :
              \/ installations'[o] = installations[o]
              \/ /\ installations'[o].fetched <= now
                 /\ \/ Current(o, installations'[o].id)
                    \/ installations'[o].fetched <= since[o] + RequestTime,
           \/ Current(Owner(c), id)
           \/ now <= since[Owner(c)] + InstallationTTL + RequestTime
    PROVE  IdInv'
  <1> DEFINE S == {c} \cup LookupWaiters(c)
  <1>1. /\ \A d \in Calls : d \notin S => call'[d] = call[d]
        /\ \A d \in Calls : d \in S => Keeps(d) /\ call'[d].pc = "mint" /\ call'[d].id = id
    BY EndLookupEffect DEF IdTypes
  <1>2. \A d \in Calls : d \in S =>
           Owner(d) = Owner(c) /\ Owner(d) \in Owners /\ call[d].began <= now
    <2>1. \A d \in Calls : d \in S => ~At(d, "idle")
      BY OutsideFlights DEF LookupWaiters, At
    <2>2. \A d \in Calls : d \in LookupWaiters(c) => Owner(d) = Owner(c)
      BY <2>1, GitHubClientConstants DEF LookupWaiters, FlightInv, LookupFlights, HasOwner
    <2> QED
      BY <2>1, <2>2 DEF FlightInv, HasOwner, TimeInv
  <1>3. ASSUME NEW d \in Calls, d \in S
        PROVE  \/ Current(Owner(d), id)
               \/ call[d].began <= since[Owner(d)] + InstallationTTL + RequestTime
    <2>1. since[Owner(c)] \in Nat
      BY <1>2, <1>3 DEF IdTypes
    <2> QED
      BY <1>2, <1>3, <2>1, GitHubClientConstants DEF IdTypes
  <1>4. ASSUME NEW d \in Calls
        PROVE  /\ At(d, "found")' =>
                     Current(Owner(d), call[d].id)' \/ call'[d].began <= since'[Owner(d)']
               /\ At(d, "mint")' =>
                     \/ Current(Owner(d), call[d].id)'
                     \/ call'[d].began <= since'[Owner(d)'] + InstallationTTL + RequestTime
    <2>1. CASE d \in S
      BY <1>1, <1>3, <2>1 DEF Keeps, At, Owner, Current
    <2>2. CASE d \notin S
      BY <1>1, <2>2 DEF IdInv, At, Owner, Current
    <2> QED
      BY <2>1, <2>2
  <1> QED
    BY <1>4 DEF IdInv, Current

\* No step lets an installation id grow older than an entry and two requests.
LEMMA IdStep == TypeInv /\ FlightInv /\ IdInv /\ [Next]_vars => IdInv'
  <1> SUFFICES ASSUME TypeInv, FlightInv, IdInv, [Next]_vars PROVE IdInv'
    OBVIOUS
  <1>0. IdTypes /\ FlightTypes /\ call \in [Calls -> Call] /\ HasOwner
    BY TypesForIds, TypesForFlights DEF IdTypes, FlightInv
  <1>1. ASSUME NEW c \in Calls, NEW kind \in {"contents", "token"}, NEW o \in Owners,
               Begin(c, kind, o)
        PROVE  IdInv'
    <2>1. UNCHANGED <<now, installation, since, installations>>
      BY <1>1 DEF Begin, githubVars, cacheVars
    <2>2. /\ \A d \in Calls : d # c => call'[d] = call[d]
          /\ call'[c].pc \in {"get", "get_id"}
      BY <1>0, <1>1, BeginEffect
    <2> QED
      BY <2>1, <2>2 DEF IdInv, At, Owner, Current
  <1>2. ASSUME NEW S, Return(S), UNCHANGED <<now, githubVars, cacheVars>> PROVE IdInv'
    BY <1>2, IdReturn DEF githubVars, cacheVars
  <1>3. ASSUME NEW c \in Calls, NEW s, Moves(c, s), UNCHANGED <<now, githubVars, installations>>,
               s \notin {"found", "mint"} \/ s = call[c].pc
        PROVE  IdInv'
    BY <1>3, IdMove DEF Moves, IdInv, At, githubVars
  <1>4. ASSUME NEW c \in Calls, CallStep(c) PROVE IdInv'
    <2> USE <1>0 DEF At, githubVars, cacheVars
    <2>1. CASE GetToken(c)
      <3>1. CASE Becomes(c, "contents", call[c].id, tokens[Owner(c)])
        BY <2>1, <3>1, IdMove DEF GetToken
      <3> QED
        BY <1>3, <2>1, <3>1, GetTokenEffect DEF GetToken
    <2>2. CASE DropToken(c)
      BY <1>3, <2>2, GotoEffect DEF DropToken
    <2>3. CASE JoinMint(c)
      BY <1>3, <2>3, JoinMintEffect DEF JoinMint
    <2>4. CASE GetTokenAgain(c)
      <3>1. CASE Becomes(c, "land", call[c].id, tokens[Owner(c)])
        BY <2>4, <3>1, IdMove DEF GetTokenAgain
      <3> QED
        BY <1>3, <2>4, <3>1, GetTokenAgainEffect DEF GetTokenAgain
    <2>5. CASE GetId(c)
      <3>1. /\ At(c, "get_id") /\ Owner(c) \in Owners /\ call[c].began <= now
            /\ UNCHANGED <<now, githubVars, installations>>
        BY <2>5 DEF GetId, FlightInv, HasOwner, TimeInv
      <3>2. CASE /\ Becomes(c, "mint", installations[Owner(c)].id, call[c].token)
                 /\ installations[Owner(c)] # NoEntry /\ ~IdExpired(Owner(c))
        <4> DEFINE e == installations[Owner(c)]
        <4>1. /\ e.fetched \in Nat /\ since[Owner(c)] \in Nat
              /\ now <= e.fetched + InstallationTTL
          BY <3>1, <3>2, GitHubClientConstants DEF IdTypes, IdExpired
        <4>2. Current(Owner(c), e.id) \/ e.fetched <= since[Owner(c)] + RequestTime
          BY <3>1, <3>2 DEF IdInv
        <4>3. \/ Current(Owner(c), e.id)
              \/ call[c].began <= since[Owner(c)] + InstallationTTL + RequestTime
          BY <3>1, <4>1, <4>2, GitHubClientConstants DEF IdTypes
        <4> QED
          BY <3>1, <3>2, <4>3, IdMove
      <3> QED
        BY <1>3, <2>5, <3>1, <3>2, GetIdEffect
    <2>6. CASE DropId(c)
      <3>1. /\ UNCHANGED <<now, githubVars>>
            /\ \A o \in Owners : installations'[o] = installations[o] \/ installations'[o] = NoEntry
        BY <2>6 DEF DropId, IdTypes
      <3>2. \E s \in {"join_id", "org"} : Moves(c, s)
        BY <2>6, DropIdEffect
      <3> QED
        BY <3>1, <3>2 DEF IdInv, Moves, Becomes, Keeps, Owner, Current
    <2>7. CASE JoinLookup(c)
      BY <1>3, <2>7, JoinLookupEffect DEF JoinLookup
    <2>8. CASE GetIdAgain(c)
      <3> DEFINE e == installations[Owner(c)]
      <3>1. /\ At(c, "get_id_again") /\ call[c].pc \in LookupSteps /\ Owner(c) \in Owners
            /\ UNCHANGED <<now, githubVars, installations>>
        BY <2>8 DEF GetIdAgain, LookupSteps, HasOwner
      <3>2. CASE e # NoEntry /\ ~IdExpired(Owner(c)) /\ EndLookup(c, e.id)
        <4>1. /\ e.fetched \in Nat /\ since[Owner(c)] \in Nat
              /\ now <= e.fetched + InstallationTTL
          BY <3>1, <3>2, GitHubClientConstants DEF IdTypes, IdExpired
        <4>2. Current(Owner(c), e.id) \/ e.fetched <= since[Owner(c)] + RequestTime
          BY <3>1, <3>2 DEF IdInv
        <4>3. Current(Owner(c), e.id) \/ now <= since[Owner(c)] + InstallationTTL + RequestTime
          BY <4>1, <4>2, GitHubClientConstants DEF IdTypes
        <4> QED
          BY <3>1, <3>2, <4>3, IdEndLookup
      <3> QED
        BY <1>3, <2>8, <3>1, <3>2, GotoEffect DEF GetIdAgain
    <2>9. CASE Find(c)
      <3>1. /\ installation[Owner(c)].on /\ Owner(c) \in Owners
            /\ UNCHANGED <<now, githubVars, installations>>
        BY <2>9 DEF Find, Installed, HasOwner
      <3>2. Current(Owner(c), installation[Owner(c)].id)
        BY <3>1 DEF IdTypes, Current
      <3> QED
        BY <2>9, <3>1, <3>2, FindEffect, IdMove
    <2>10. CASE NotInstalled(c)
      BY <1>2, <1>3, <2>10, NotInstalledEffect, FailEffect DEF NotInstalled
    <2>11. CASE StoreId(c)
      <3>1. /\ At(c, "found") /\ call[c].pc \in LookupSteps /\ Owner(c) \in Owners
            /\ UNCHANGED <<now, githubVars>> /\ EndLookup(c, call[c].id)
            /\ installations' = [installations EXCEPT ![Owner(c)] =
                                    [id |-> call[c].id, fetched |-> now]]
        BY <2>11 DEF StoreId, SetId, LookupSteps, HasOwner
      <3>2. Current(Owner(c), call[c].id) \/ now <= since[Owner(c)] + RequestTime
        <4>1. now <= call[c].began + RequestTime
          BY <3>1 DEF FlightInv, TimeInv
        <4>2. Current(Owner(c), call[c].id) \/ call[c].began <= since[Owner(c)]
          BY <3>1 DEF IdInv
        <4>3. since[Owner(c)] \in Nat
          BY <3>1 DEF IdTypes
        <4> QED
          BY <4>1, <4>2, <4>3, GitHubClientConstants DEF IdTypes
      <3>3. Current(Owner(c), call[c].id) \/ now <= since[Owner(c)] + InstallationTTL + RequestTime
        <4>1. since[Owner(c)] \in Nat
          BY <3>1 DEF IdTypes
        <4> QED
          BY <3>2, <4>1, GitHubClientConstants DEF IdTypes
      <3>4. \A o \in Owners :
               \/ installations'[o] = installations[o]
               \/ /\ installations'[o].fetched <= now
                  /\ \/ Current(o, installations'[o].id)
                     \/ installations'[o].fetched <= since[o] + RequestTime
        <4>1. \A o \in Owners : o # Owner(c) => installations'[o] = installations[o]
          BY <3>1 DEF IdTypes
        <4>2. /\ installations'[Owner(c)].fetched = now
              /\ installations'[Owner(c)].id = call[c].id
          BY <3>1 DEF IdTypes
        <4> QED
          BY <3>2, <4>1, <4>2 DEF IdTypes
      <3> QED
        BY <3>1, <3>3, <3>4, IdEndLookup
    <2>12. CASE CreateToken(c)
      <3>1. UNCHANGED <<now, installation, since, installations>>
        BY <2>12 DEF CreateToken
      <3>2. CASE Return({c})
        BY <3>1, <3>2, IdReturn
      <3>3. ASSUME NEW token, Becomes(c, "ready", 0, token) PROVE IdInv'
        BY <3>1, <3>3, IdMove
      <3> QED
        BY <2>12, <3>1, <3>2, <3>3, CreateTokenEffect
    <2>13. CASE CreateRefused(c)
      BY <1>2, <2>13, FailEffect DEF CreateRefused
    <2>14. CASE StoreToken(c)
      BY <1>3, <2>14, GotoEffect DEF StoreToken
    <2>15. CASE Land(c)
      <3>1. UNCHANGED <<now, installation, since, installations>>
        BY <2>15 DEF Land
      <3> QED
        BY <2>15, <3>1, LandEffect DEF IdInv, Owner, Current
    <2>16. CASE Answered(c)
      BY <1>2, <2>16, EndedEffect DEF Answered
    <2>17. CASE Refused(c)
      <3>1. UNCHANGED <<now, installation, since, installations>>
        BY <2>17 DEF Refused
      <3>2. Return({c}) => IdInv'
        BY <3>1, IdReturn
      <3> QED
        BY <2>17, <3>1, <3>2, RefusedEffect DEF IdInv, Owner, Current
    <2>18. CASE Retry(c)
      BY <1>3, <2>18, RetryEffect DEF Retry
    <2>19. CASE Abort(c)
      BY <1>2, <2>19, FailEffect DEF Abort
    <2> QED
      BY <1>4, <2>1, <2>2, <2>3, <2>4, <2>5, <2>6, <2>7, <2>8, <2>9, <2>10, <2>11, <2>12,
         <2>13, <2>14, <2>15, <2>16, <2>17, <2>18, <2>19 DEF CallStep
  <1>5. ASSUME NEW c \in Calls, Malformed(c) PROVE IdInv'
    BY <1>0, <1>2, <1>5, EndedEffect DEF Malformed
  <1>6. ASSUME NEW o \in Owners, Uninstall(o) \/ Install(o) PROVE IdInv'
    <2>1. /\ since' = [since EXCEPT ![o] = now] /\ UNCHANGED <<now, installations, call>>
          /\ \A p \in Owners : p # o => installation'[p] = installation[p]
      BY <1>0, <1>6 DEF Uninstall, Install, IdTypes, cacheVars
    <2>2. \A p \in Owners : since'[p] >= since[p] /\ since'[p] <= now /\ since'[p] \in Nat
      BY <1>0, <2>1 DEF IdTypes, IdInv
    <2>3. \A p \in Owners : p # o => since'[p] = since[p]
      BY <1>0, <2>1 DEF IdTypes
    <2>4. since'[o] = now
      BY <1>0, <2>1 DEF IdTypes
    <2>5. \A p \in Owners : installations[p] # NoEntry =>
             /\ installations[p].fetched <= now
             /\ \/ Current(p, installations[p].id)'
                \/ installations[p].fetched <= since'[p] + RequestTime
      <3> SUFFICES ASSUME NEW p \in Owners, installations[p] # NoEntry
                   PROVE  /\ installations[p].fetched <= now
                          /\ \/ Current(p, installations[p].id)'
                             \/ installations[p].fetched <= since'[p] + RequestTime
        OBVIOUS
      <3>1. installations[p].fetched \in Nat /\ installations[p].fetched <= now
        BY <1>0 DEF IdTypes, IdInv
      <3>2. CASE p = o
        BY <1>0, <2>4, <3>1, <3>2, GitHubClientConstants DEF IdTypes
      <3>3. CASE p # o
        BY <2>1, <2>3, <3>1, <3>3 DEF IdInv, Current
      <3> QED
        BY <3>2, <3>3
    <2>6. ASSUME NEW c \in Calls
          PROVE  /\ At(c, "found") =>
                      Current(Owner(c), call[c].id)' \/ call[c].began <= since'[Owner(c)]
                 /\ At(c, "mint") =>
                      \/ Current(Owner(c), call[c].id)'
                      \/ call[c].began <= since'[Owner(c)] + InstallationTTL + RequestTime
      <3>1. CASE At(c, "found") \/ At(c, "mint")
        <4>1. Owner(c) \in Owners /\ call[c].began <= now /\ call[c].began \in Nat
          BY <1>0, <3>1 DEF FlightInv, TimeInv, HasOwner, At, IdTypes
        <4>2. CASE Owner(c) = o
          BY <1>0, <2>4, <4>1, <4>2, GitHubClientConstants DEF IdTypes
        <4>3. CASE Owner(c) # o
          BY <2>1, <2>3, <4>1, <4>3 DEF IdInv, Current, Owner
        <4> QED
          BY <4>2, <4>3
      <3> QED
        BY <3>1
    <2> QED
      BY <2>1, <2>2, <2>5, <2>6 DEF IdInv, At, Owner, Current
  <1>7. ASSUME NEW o \in Owners, Evict(o) PROVE IdInv'
    <2>1. /\ UNCHANGED <<now, githubVars, call>>
          /\ \A p \in Owners : installations'[p] = installations[p] \/ installations'[p] = NoEntry
      BY <1>0, <1>7 DEF Evict, IdTypes
    <2> QED
      BY <2>1 DEF IdInv, At, Owner, Current, githubVars
  <1>8. ASSUME Tick PROVE IdInv'
    <2>1. now' = now + 1 /\ UNCHANGED <<githubVars, installations, call>>
      BY <1>8 DEF Tick, cacheVars
    <2>2. \A o \in Owners : since[o] \in Nat /\ since[o] <= now'
      BY <1>0, <2>1 DEF IdTypes, IdInv
    <2>3. \A o \in Owners : installations[o] # NoEntry => installations[o].fetched <= now'
      BY <1>0, <2>1 DEF IdTypes, IdInv
    <2> QED
      BY <2>1, <2>2, <2>3 DEF IdInv, At, Owner, Current, githubVars
  <1>9. CASE UNCHANGED vars
    BY <1>9 DEF vars, IdInv, At, Owner, Current, githubVars, cacheVars
  <1> QED
    BY <1>1, <1>4, <1>5, <1>6, <1>7, <1>8, <1>9 DEF Next

\* The installation a token is asked for was the account's at most an entry's
\* lifetime and two requests ago, for any number of calls that share a lookup
\* (getInstallationID, installationCache).
THEOREM InstallationIsRecentAlways == Spec => []InstallationIsRecent
  <1>1. Init => IdInv
    <2>1. Idle.pc = "idle"
      BY DEF Idle
    <2> QED
      BY <2>1 DEF Init, IdInv, At
  <1>2. TypeInv /\ FlightInv /\ IdInv => InstallationIsRecent
    <2> SUFFICES ASSUME IdTypes, FlightInv, IdInv, NEW c \in Calls, At(c, "mint")
                 PROVE  \/ Current(Owner(c), call[c].id)
                        \/ now <= since[Owner(c)] + InstallationTTL + 2 * RequestTime
      BY TypesForIds DEF InstallationIsRecent, Current
    <2>1. Owner(c) \in Owners /\ now <= call[c].began + RequestTime
      BY DEF FlightInv, HasOwner, TimeInv, At
    <2>2. since[Owner(c)] \in Nat /\ call[c].began \in Nat
      BY <2>1 DEF IdTypes
    <2> QED
      BY <2>1, <2>2, GitHubClientConstants DEF IdInv, IdTypes
  <1> QED
    BY <1>1, <1>2, IdStep, Flights, PTL DEF Spec

==============================================================================
