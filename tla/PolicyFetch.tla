----------------------------- MODULE PolicyFetch -----------------------------
(***************************************************************************)
(* How a trust policy file reaches the authorizer: Authorizer.fetchPolicy  *)
(* with its in-memory policyCache and its singleflight group, while the    *)
(* file is edited in the repository.  A call that misses the cache either  *)
(* leads a fetch for its key or waits for the call that already does.      *)
(*                                                                         *)
(* A key is a repository with its resolved path.  A policy file is the     *)
(* number of the edit that wrote it.                                       *)
(***************************************************************************)
EXTENDS Integers, FiniteSets, Sequences

CONSTANTS
    Calls,          \* concurrent calls of fetchPolicy
    Keys,           \* cache keys
    NoEntry,        \* no cache entry
    NoKey,          \* key of a call that has not begun
    NoCall,         \* no flight under way
    Extension,      \* extension of trust_policy_path: "yaml", "yml" or "none"
    CacheTTL,       \* defaultPolicyCacheTTL
    MaxEntries,     \* maxPolicyCacheEntries
    FetchTime,      \* longest a fetch takes (HTTP and request timeouts)
    MaxVersion,     \* bound on the edits of a file
    MaxTime         \* bound on the clock

ASSUME PolicyFetchConstants ==
    /\ NoCall \notin Calls
    /\ NoKey \notin Keys
    /\ IsFiniteSet(Keys)
    /\ Extension \in {"yaml", "yml", "none"}
    /\ CacheTTL \in Nat
    /\ MaxEntries \in Nat \ {0}
    /\ FetchTime \in Nat
    /\ MaxVersion \in Nat
    /\ MaxTime \in Nat

VARIABLES
    now,        \* the clock
    file,       \* what is in the repository: [version, content]
    replaced,   \* when each version of a file was replaced by the next
    cache,      \* policyCache.entries: [policy, fetchedAt], or NoEntry
    leader,     \* fetchSF: the call that runs the fetch of a key
    began,      \* when that fetch began
    pc,         \* what each call is about to do
    key,        \* the key it was made for
    path,       \* index of the path variant it tries
    read,       \* the file content it holds
    result      \* what the call returned

fileVars == <<file, replaced>>
flightVars == <<leader, began>>
callVars == <<pc, key, path, read, result>>
vars == <<now, fileVars, cache, flightVars, callVars>>

Versions == 0 .. MaxVersion
\* good and bad: a file parseAndValidate accepts or refuses; none: no file;
\* denied: the app has no access to the repository.
Contents ==
    [kind: {"good", "bad"}, ext: {"yaml", "yml"}] \cup [kind: {"none", "denied"}, ext: {"yaml"}]
Files == [version: Versions, content: Contents]
Entries == [policy: Versions, fetchedAt: Nat]
Results == [code: {"none", "ok", "not_accessible", "not_found", "failed"}, policy: Versions]

NoFile == [version |-> 0, content |-> [kind |-> "none", ext |-> "yaml"]]
NoResult == [code |-> "none", policy |-> 0]
Policy(v) == [code |-> "ok", policy |-> v]
Failure(code) == [code |-> code, policy |-> 0]

LeaderSteps == {"leading", "selecting", "fetching", "parsing", "landing"}

\* Type invariant.
TypeOK ==
    /\ now \in Nat
    /\ file \in [Keys -> Files]
    /\ replaced \in [Keys -> [Versions -> Nat]]
    /\ cache \in [Keys -> Entries \cup {NoEntry}]
    /\ leader \in [Keys -> Calls \cup {NoCall}]
    /\ began \in [Keys -> Nat]
    /\ pc \in [Calls -> {"idle", "calling", "missed", "waiting", "done"} \cup LeaderSteps]
    /\ key \in [Calls -> Keys \cup {NoKey}]
    /\ path \in [Calls -> 1 .. 2]
    /\ read \in [Calls -> Files]
    /\ result \in [Calls -> Results]

------------------------------------------------------------------------------
(* The cache *)

Cached == {k \in Keys : cache[k] # NoEntry}

Get_NoExpiry(k) == cache[k] # NoEntry

\* policyCache.get finds an entry that is not older than the TTL.
Get(k) == cache[k] # NoEntry /\ now - cache[k].fetchedAt <= CacheTTL

\* The entries policyCache.set may evict for k: none, or one of the oldest.
Victims(k) ==
    IF cache[k] = NoEntry /\ Cardinality(Cached) >= MaxEntries
    THEN {{v} : v \in {o \in Cached : \A j \in Cached :
                                         cache[o].fetchedAt <= cache[j].fetchedAt}}
    ELSE {{}}

Set_NoEviction(k, version) ==
    cache' = [cache EXCEPT ![k] = [policy |-> version, fetchedAt |-> now]]

\* policyCache.set: the age of the entry counts from here, not from the read.
Set(k, version) ==
    \E evicted \in Victims(k) :
        cache' = [j \in Keys |-> IF j = k THEN [policy |-> version, fetchedAt |-> now]
                                 ELSE IF j \in evicted THEN NoEntry ELSE cache[j]]

------------------------------------------------------------------------------
(* One call of fetchPolicy *)

\* A request for a repository of the right form (validateRequest).
Begin(c, k) ==
    /\ pc[c] = "idle"
    /\ pc' = [pc EXCEPT ![c] = "calling"]
    /\ key' = [key EXCEPT ![c] = k]
    /\ UNCHANGED <<now, fileVars, cache, flightVars, path, read, result>>

\* The first look into the cache.
LookUp(c) ==
    /\ pc[c] = "calling"
    /\ IF Get(key[c])
       THEN /\ pc' = [pc EXCEPT ![c] = "done"]
            /\ result' = [result EXCEPT ![c] = Policy(cache[key[c]].policy)]
       ELSE pc' = [pc EXCEPT ![c] = "missed"] /\ UNCHANGED result
    /\ UNCHANGED <<now, fileVars, cache, flightVars, key, path, read>>

Join_NoGroup(c) ==
    /\ pc[c] = "missed"
    /\ pc' = [pc EXCEPT ![c] = "leading"]
    /\ leader' = [leader EXCEPT ![key[c]] = c]
    /\ began' = [began EXCEPT ![key[c]] = now]
    /\ UNCHANGED <<now, fileVars, cache, key, path, read, result>>

\* fetchSF.Do: lead a flight for the key, or wait for the one under way.
Join(c) ==
    /\ pc[c] = "missed"
    /\ IF leader[key[c]] = NoCall
       THEN /\ pc' = [pc EXCEPT ![c] = "leading"]
            /\ leader' = [leader EXCEPT ![key[c]] = c]
            /\ began' = [began EXCEPT ![key[c]] = now]
       ELSE pc' = [pc EXCEPT ![c] = "waiting"] /\ UNCHANGED flightVars
    /\ UNCHANGED <<now, fileVars, cache, key, path, read, result>>

Waiting(k) == {c \in Calls : pc[c] = "waiting" /\ key[c] = k}

\* The function given to Do returned: leader and waiters get its result, an
\* error of the leader's own request context included.
EndFlight(c, r) ==
    LET shared == {c} \cup Waiting(key[c]) IN
    /\ pc' = [d \in Calls |-> IF d \in shared THEN "done" ELSE pc[d]]
    /\ result' = [d \in Calls |-> IF d \in shared THEN r ELSE result[d]]
    /\ leader' = [leader EXCEPT ![key[c]] = NoCall]
    /\ began' = [began EXCEPT ![key[c]] = 0]

\* The second look into the cache, by the leader.
LookUpAgain(c) ==
    /\ pc[c] = "leading"
    /\ IF Get(key[c])
       THEN EndFlight(c, Policy(cache[key[c]].policy))
       ELSE pc' = [pc EXCEPT ![c] = "selecting"] /\ UNCHANGED <<flightVars, result>>
    /\ UNCHANGED <<now, fileVars, cache, key, path, read>>

\* fetchPolicyFromGitHub selects an app; a failure, exhausted apps included,
\* ends the fetch.
SelectApp(c) ==
    /\ pc[c] = "selecting"
    /\ \/ /\ pc' = [pc EXCEPT ![c] = "fetching"]
          /\ path' = [path EXCEPT ![c] = 1]
          /\ UNCHANGED <<flightVars, result>>
       \/ EndFlight(c, Failure("failed")) /\ UNCHANGED path
    /\ UNCHANGED <<now, fileVars, cache, key, read>>

\* extensionVariants: the extensions tried, in order.
ExtensionVariants ==
    IF Extension = "none" THEN <<"yaml", "yml">> ELSE <<Extension>>

AtPath(f, i) ==
    f.content.kind \in {"good", "bad"} /\ f.content.ext = ExtensionVariants[i]

\* client.GetContents answers with the file as it is now.
GetContents(c) ==
    LET f == file[key[c]] IN
    /\ pc[c] = "fetching"
    /\ AtPath(f, path[c])
    /\ pc' = [pc EXCEPT ![c] = "parsing"]
    /\ read' = [read EXCEPT ![c] = f]
    /\ UNCHANGED <<now, fileVars, cache, flightVars, key, path, result>>

FileNotFound_OffByOne(c) ==
    LET f == file[key[c]] IN
    /\ pc[c] = "fetching"
    /\ f.content.kind # "denied" /\ ~AtPath(f, path[c])
    /\ IF path[c] <= Len(ExtensionVariants)
       THEN path' = [path EXCEPT ![c] = @ + 1] /\ UNCHANGED <<pc, flightVars, result>>
       ELSE EndFlight(c, Failure("not_found")) /\ UNCHANGED path
    /\ UNCHANGED <<now, fileVars, cache, key, read>>

\* ErrFileNotFound: the next variant is tried, or there is no policy file.
FileNotFound(c) ==
    LET f == file[key[c]] IN
    /\ pc[c] = "fetching"
    /\ f.content.kind # "denied" /\ ~AtPath(f, path[c])
    /\ IF path[c] < Len(ExtensionVariants)
       THEN path' = [path EXCEPT ![c] = @ + 1] /\ UNCHANGED <<pc, flightVars, result>>
       ELSE EndFlight(c, Failure("not_found")) /\ UNCHANGED path
    /\ UNCHANGED <<now, fileVars, cache, key, read>>

\* ErrInstallationNotFound or ErrRepositoryNotFound.
NotAccessible(c) ==
    /\ pc[c] = "fetching"
    /\ file[key[c]].content.kind = "denied"
    /\ EndFlight(c, Failure("not_accessible"))
    /\ UNCHANGED <<now, fileVars, cache, key, path, read>>

\* Any other error of GetContents: GitHub's, the network's, or that the
\* leader's request was cancelled.
FetchFails(c) ==
    /\ pc[c] = "fetching"
    /\ EndFlight(c, Failure("failed"))
    /\ UNCHANGED <<now, fileVars, cache, key, path, read>>

\* parseAndValidate, then cache.set: only a valid file is cached.
Store(c) ==
    /\ pc[c] = "parsing"
    /\ IF read[c].content.kind = "good"
       THEN /\ Set(key[c], read[c].version)
            /\ pc' = [pc EXCEPT ![c] = "landing"]
            /\ UNCHANGED <<flightVars, result>>
       ELSE EndFlight(c, Failure("failed")) /\ UNCHANGED cache
    /\ UNCHANGED <<now, fileVars, key, path, read>>

\* The flight ends with the policy just cached.
Land(c) ==
    /\ pc[c] = "landing"
    /\ EndFlight(c, Policy(read[c].version))
    /\ UNCHANGED <<now, fileVars, cache, key, path, read>>

\* fetchPolicy has returned; the next request comes in.
Return(c) ==
    /\ pc[c] = "done"
    /\ pc' = [pc EXCEPT ![c] = "idle"]
    /\ key' = [key EXCEPT ![c] = NoKey]
    /\ path' = [path EXCEPT ![c] = 1]
    /\ read' = [read EXCEPT ![c] = NoFile]
    /\ result' = [result EXCEPT ![c] = NoResult]
    /\ UNCHANGED <<now, fileVars, cache, flightVars>>

------------------------------------------------------------------------------
(* The repository and the clock *)

\* A commit, or a change of the app's access.
Edit(k, content) ==
    /\ file[k].version < MaxVersion
    /\ replaced' = [replaced EXCEPT ![k][file[k].version] = now]
    /\ file' = [file EXCEPT ![k] = [version |-> @.version + 1, content |-> content]]
    /\ UNCHANGED <<now, cache, flightVars, callVars>>

\* Time passes, unless a fetch would outlast its timeouts.
Tick ==
    /\ now < MaxTime
    /\ \A k \in Keys : leader[k] # NoCall => now < began[k] + FetchTime
    /\ now' = now + 1
    /\ UNCHANGED <<fileVars, cache, flightVars, callVars>>

------------------------------------------------------------------------------
Init ==
    /\ now = 0
    /\ file = [k \in Keys |-> [NoFile EXCEPT !.content.kind = "good"]]
    /\ replaced = [k \in Keys |-> [v \in Versions |-> 0]]
    /\ cache = [k \in Keys |-> NoEntry]
    /\ leader = [k \in Keys |-> NoCall]
    /\ began = [k \in Keys |-> 0]
    /\ pc = [c \in Calls |-> "idle"]
    /\ key = [c \in Calls |-> NoKey]
    /\ path = [c \in Calls |-> 1]
    /\ read = [c \in Calls |-> NoFile]
    /\ result = [c \in Calls |-> NoResult]

CallStep(c) ==
    \/ LookUp(c)
    \/ Join(c)
    \/ LookUpAgain(c)
    \/ SelectApp(c)
    \/ GetContents(c)
    \/ FileNotFound(c)
    \/ NotAccessible(c)
    \/ FetchFails(c)
    \/ Store(c)
    \/ Land(c)

Next ==
    \/ \E c \in Calls, k \in Keys : Begin(c, k)
    \/ \E c \in Calls : CallStep(c) \/ Return(c)
    \/ \E k \in Keys, content \in Contents : Edit(k, content)
    \/ Tick

Spec == Init /\ [][Next]_vars

------------------------------------------------------------------------------
(* Properties *)

\* A policy handed to the authorizer was the repository's file at most
\* CacheTTL + FetchTime ago, although entries are dated when they are stored
\* and waiters share what a leader read before they asked
\* (policy_cache.go:58, 83; policy_fetch.go:44-49, 76-82).
ServedIsRecent ==
    [][\A c \in Calls :
         (result[c] = NoResult /\ result'[c].code = "ok") =>
            LET v == result'[c].policy IN
            \/ v = file[key[c]].version
            \/ now <= replaced[key[c]][v] + CacheTTL + FetchTime]_vars

\* What is cached for a key never goes back to an older version of its file:
\* what a fetch is about to store is no older than the entry it would replace,
\* because one key has one fetch at a time (policy_fetch.go:44, 82).
CacheNeverGoesBack ==
    \A c \in Calls :
        (pc[c] = "parsing" /\ cache[key[c]] # NoEntry)
            => cache[key[c]].policy <= read[c].version

\* The cache never holds more than its maximum, whatever is stored
\* concurrently (policy_cache.go:69-81).
CacheWithinCapacity == Cardinality(Cached) <= MaxEntries
==============================================================================
