------------------------- MODULE PolicyFetchProofs -------------------------
(***************************************************************************)
(* Proofs about PolicyFetch, for any number of calls and keys, any         *)
(* capacity and lifetimes of the cache, and any bounds.                    *)
(***************************************************************************)
EXTENDS PolicyFetch, FiniteSetTheorems, TLAPS

------------------------------------------------------------------------------
(* The inductive invariant, by parts. *)

\* A call under way has a key.
HasKey == \A c \in Calls : pc[c] # "idle" => key[c] \in Keys

\* The leader of a key is inside the fetch of that key, and whoever is inside
\* it leads it.
Leads ==
    /\ \A k \in Keys : leader[k] # NoCall =>
          pc[leader[k]] \in LeaderSteps /\ key[leader[k]] = k
    /\ \A c \in Calls : pc[c] \in LeaderSteps => leader[key[c]] = c

Waits == \A c \in Calls : pc[c] = "waiting" => leader[key[c]] # NoCall

\* A fetch is within its time.
FlightTime ==
    \A k \in Keys : leader[k] # NoCall => began[k] <= now /\ now <= began[k] + FetchTime

FlightInv == HasKey /\ Leads /\ Waits /\ FlightTime

\* What is cached, and what a leader has read, was in the repository.
VersionInv ==
    /\ \A k \in Keys : cache[k] # NoEntry => cache[k].policy <= file[k].version
    /\ \A c \in Calls :
          pc[c] \in {"parsing", "landing"} => read[c].version <= file[key[c]].version
    /\ CacheNeverGoesBack

\* How old a version that was replaced may be: in the cache, and in the hands
\* of the call that read it.
AgeInv ==
    /\ \A k \in Keys : cache[k] # NoEntry =>
          /\ cache[k].fetchedAt <= now
          /\ \/ cache[k].policy = file[k].version
             \/ cache[k].fetchedAt <= replaced[k][cache[k].policy] + FetchTime
    /\ \A c \in Calls : pc[c] \in {"parsing", "landing"} =>
          \/ read[c].version = file[key[c]].version
          \/ began[key[c]] <= replaced[key[c]][read[c].version]

------------------------------------------------------------------------------
(* Types *)

\* The end of a flight keeps the types (singleflight.Do returns).
LEMMA EndFlightType ==
    ASSUME TypeOK, NEW c \in Calls, NEW r \in Results, EndFlight(c, r)
    PROVE  /\ pc' \in [Calls -> {"idle", "calling", "missed", "waiting", "done"} \cup LeaderSteps]
           /\ result' \in [Calls -> Results]
           /\ leader' \in [Keys -> Calls \cup {NoCall}] /\ began' \in [Keys -> Nat]
  BY DEF TypeOK, EndFlight

\* What calls return are results, for every error the fetch may meet.
LEMMA ResultTypes ==
    /\ NoResult \in Results
    /\ \A code \in {"failed", "not_found", "not_accessible"} : Failure(code) \in Results
    /\ \A v \in Versions : Policy(v) \in Results
    /\ NoFile \in Files /\ [NoFile EXCEPT !.content.kind = "good"] \in Files
  <1>1. 0 \in Versions
    BY PolicyFetchConstants DEF Versions
  <1> QED
    BY <1>1 DEF NoResult, Failure, Policy, Results, NoFile, Files, Contents

\* The cache starts empty, and no call has begun.
LEMMA TypeInit == Init => TypeOK
  BY ResultTypes DEF Init, TypeOK

\* Every step of a call, edit and tick keeps the types.
LEMMA TypeStep == TypeOK /\ HasKey /\ [Next]_vars => TypeOK'
  <1> SUFFICES ASSUME TypeOK, HasKey, [Next]_vars PROVE TypeOK'
    OBVIOUS
  <1> USE DEF HasKey, fileVars, flightVars, callVars
  <1>0. \A code \in {"failed", "not_found", "not_accessible"} : Failure(code) \in Results
    BY ResultTypes
  <1>1. ASSUME NEW c \in Calls, NEW k \in Keys, Begin(c, k) PROVE TypeOK'
    BY <1>1 DEF Begin, TypeOK
  <1>2. ASSUME NEW c \in Calls, Get(key[c]), pc[c] # "idle" PROVE Policy(cache[key[c]].policy) \in Results
    BY <1>2, ResultTypes DEF Get, TypeOK, Entries
  <1>3. ASSUME NEW c \in Calls, LookUp(c) PROVE TypeOK'
    BY <1>2, <1>3 DEF LookUp, TypeOK
  <1>4. ASSUME NEW c \in Calls, Join(c) PROVE TypeOK'
    BY <1>4 DEF Join, TypeOK, LeaderSteps
  <1>5. ASSUME NEW c \in Calls, LookUpAgain(c) PROVE TypeOK'
    <2>1. CASE Get(key[c])
      BY <1>2, <1>5, <2>1, EndFlightType DEF LookUpAgain, TypeOK
    <2>2. CASE ~Get(key[c])
      BY <1>5, <2>2 DEF LookUpAgain, TypeOK, LeaderSteps
    <2> QED
      BY <2>1, <2>2
  <1>6. ASSUME NEW c \in Calls, SelectApp(c) PROVE TypeOK'
    <2>1. CASE EndFlight(c, Failure("failed"))
      BY <1>0, <1>6, <2>1, EndFlightType DEF SelectApp, TypeOK
    <2>2. CASE ~EndFlight(c, Failure("failed"))
      <3>1. /\ pc' = [pc EXCEPT ![c] = "fetching"] /\ path' = [path EXCEPT ![c] = 1]
            /\ UNCHANGED <<now, fileVars, cache, flightVars, key, read, result>>
        BY <1>6, <2>2 DEF SelectApp
      <3>2. pc' \in [Calls -> {"idle", "calling", "missed", "waiting", "done"} \cup LeaderSteps]
        BY <3>1 DEF TypeOK, LeaderSteps
      <3> QED
        BY <3>1, <3>2 DEF TypeOK
    <2> QED
      BY <2>1, <2>2
  <1>7. ASSUME NEW c \in Calls, GetContents(c) PROVE TypeOK'
    BY <1>7 DEF GetContents, TypeOK, LeaderSteps
  <1>8. ASSUME NEW c \in Calls, FileNotFound(c) PROVE TypeOK'
    <2>1. CASE path[c] < Len(ExtensionVariants)
      <3>1. path[c] + 1 \in 1 .. 2
        BY <2>1 DEF ExtensionVariants, TypeOK
      <3> QED
        BY <1>8, <2>1, <3>1 DEF FileNotFound, TypeOK
    <2>2. CASE ~(path[c] < Len(ExtensionVariants))
      BY <1>0, <1>8, <2>2, EndFlightType DEF FileNotFound, TypeOK
    <2> QED
      BY <2>1, <2>2
  <1>9. ASSUME NEW c \in Calls, NotAccessible(c) PROVE TypeOK'
    BY <1>0, <1>9, EndFlightType DEF NotAccessible, TypeOK
  <1>10. ASSUME NEW c \in Calls, FetchFails(c) PROVE TypeOK'
    BY <1>0, <1>10, EndFlightType DEF FetchFails, TypeOK
  <1>11. ASSUME NEW c \in Calls, Store(c) PROVE TypeOK'
    <2>1. CASE read[c].content.kind = "good"
      <3>1. [policy |-> read[c].version, fetchedAt |-> now] \in Entries
        BY DEF TypeOK, Files, Entries
      <3>2. cache' \in [Keys -> Entries \cup {NoEntry}]
        BY <1>11, <2>1, <3>1 DEF Store, Set, TypeOK
      <3> QED
        BY <1>11, <2>1, <3>2 DEF Store, TypeOK, LeaderSteps
    <2>2. CASE read[c].content.kind # "good"
      BY <1>0, <1>11, <2>2, EndFlightType DEF Store, TypeOK
    <2> QED
      BY <2>1, <2>2
  <1>12. ASSUME NEW c \in Calls, Land(c) PROVE TypeOK'
    <2>1. Policy(read[c].version) \in Results
      BY ResultTypes DEF TypeOK, Files
    <2> QED
      BY <1>12, <2>1, EndFlightType DEF Land, TypeOK
  <1>13. ASSUME NEW c \in Calls, Return(c) PROVE TypeOK'
    BY <1>13, ResultTypes DEF Return, TypeOK
  <1>14. ASSUME NEW k \in Keys, NEW content \in Contents, Edit(k, content) PROVE TypeOK'
    <2>1. file[k].version \in Versions /\ file[k].version + 1 \in Versions
      BY <1>14, PolicyFetchConstants DEF Edit, TypeOK, Files, Versions
    <2>2. [version |-> file[k].version + 1, content |-> content] \in Files
      BY <2>1 DEF Files
    <2>3. file' \in [Keys -> Files] /\ replaced' \in [Keys -> [Versions -> Nat]]
      BY <1>14, <2>1, <2>2 DEF Edit, TypeOK
    <2> QED
      BY <1>14, <2>3 DEF Edit, TypeOK
  <1>15. ASSUME Tick PROVE TypeOK'
    BY <1>15 DEF Tick, TypeOK
  <1>16. CASE UNCHANGED vars
    BY <1>16 DEF vars, TypeOK
  <1> QED
    BY <1>1, <1>3, <1>4, <1>5, <1>6, <1>7, <1>8, <1>9, <1>10, <1>11, <1>12, <1>13, <1>14,
       <1>15, <1>16 DEF Next, CallStep

------------------------------------------------------------------------------
(* Flights *)

\* A call that moves on inside its flight, or outside all flights, leaves the
\* flights as they are.
LEMMA FlightMove ==
    ASSUME TypeOK, FlightInv, NEW c \in Calls, NEW s, pc' = [pc EXCEPT ![c] = s],
           UNCHANGED <<now, key, flightVars>>, pc[c] # "idle", s # "waiting",
           pc[c] \in LeaderSteps <=> s \in LeaderSteps
    PROVE  FlightInv'
  <1> USE DEF TypeOK, FlightInv, flightVars
  <1>1. HasKey'
    BY DEF HasKey
  <1>2. Leads'
    BY PolicyFetchConstants DEF Leads, HasKey
  <1>3. Waits'
    BY DEF Waits
  <1>4. FlightTime'
    BY DEF FlightTime
  <1> QED
    BY <1>1, <1>2, <1>3, <1>4

\* When a flight ends, nobody is left waiting for it (EndFlight).
LEMMA FlightEnd ==
    ASSUME TypeOK, FlightInv, NEW c \in Calls, NEW r, EndFlight(c, r), pc[c] \in LeaderSteps,
           UNCHANGED <<now, key>>
    PROVE  FlightInv'
  <1> DEFINE S == {c} \cup Waiting(key[c])
  <1> USE DEF TypeOK, FlightInv
  <1>1. /\ \A d \in Calls : pc'[d] = IF d \in S THEN "done" ELSE pc[d]
        /\ \A k \in Keys : k # key[c] => leader'[k] = leader[k] /\ began'[k] = began[k]
        /\ key[c] \in Keys /\ leader'[key[c]] = NoCall
    BY DEF EndFlight, HasKey, LeaderSteps
  <1>2. /\ "done" \notin LeaderSteps /\ "waiting" \notin LeaderSteps /\ "idle" \notin LeaderSteps
    BY DEF LeaderSteps
  <1>3. \A d \in Calls : d \in S => d = c \/ pc[d] = "waiting"
    BY DEF Waiting
  <1>4. HasKey'
    BY <1>1, <1>2, <1>3 DEF HasKey
  <1>5. Leads'
    <2>1. \A k \in Keys : leader'[k] # NoCall =>
             /\ k # key[c] /\ leader'[k] = leader[k] /\ leader[k] \in Calls /\ leader[k] \notin S
      BY <1>1, <1>2, <1>3 DEF Leads
    <2>2. \A d \in Calls : pc'[d] \in LeaderSteps => d \notin S /\ pc'[d] = pc[d] /\ d # c
      BY <1>1, <1>2
    <2>3. \A d \in Calls : pc'[d] \in LeaderSteps => key[d] \in Keys /\ key[d] # key[c]
      BY <1>2, <2>2 DEF Leads, HasKey
    <2> QED
      BY <1>1, <2>1, <2>2, <2>3 DEF Leads
  <1>6. Waits'
    <2>1. \A d \in Calls : pc'[d] = "waiting" =>
             pc[d] = "waiting" /\ key[d] \in Keys /\ key[d] # key[c]
      BY <1>1 DEF Waiting, HasKey
    <2> QED
      BY <1>1, <2>1 DEF Waits
  <1>7. FlightTime'
    BY <1>1 DEF FlightTime
  <1> QED
    BY <1>4, <1>5, <1>6, <1>7

\* One call leads, the others wait (singleflight.Do begins).
LEMMA FlightJoin ==
    ASSUME TypeOK, FlightInv, NEW c \in Calls, Join(c)
    PROVE  FlightInv'
  <1> USE DEF TypeOK, FlightInv
  <1>1. key[c] \in Keys /\ pc[c] = "missed" /\ UNCHANGED <<now, key>>
    BY DEF Join, HasKey
  <1>2. "missed" \notin LeaderSteps /\ "waiting" \notin LeaderSteps /\ "leading" \in LeaderSteps
    BY DEF LeaderSteps
  <1>3. CASE leader[key[c]] = NoCall
    <2>1. /\ pc' = [pc EXCEPT ![c] = "leading"] /\ leader' = [leader EXCEPT ![key[c]] = c]
          /\ began' = [began EXCEPT ![key[c]] = now]
      BY <1>3 DEF Join
    <2>2. HasKey'
      BY <1>1, <2>1 DEF HasKey
    <2>3. Leads'
      BY <1>1, <1>2, <1>3, <2>1, PolicyFetchConstants DEF Leads
    <2>4. Waits'
      BY <1>1, <2>1, PolicyFetchConstants DEF Waits
    <2>5. FlightTime'
      BY <1>1, <2>1, PolicyFetchConstants DEF FlightTime
    <2> QED
      BY <2>2, <2>3, <2>4, <2>5
  <1>4. CASE leader[key[c]] # NoCall
    <2>1. pc' = [pc EXCEPT ![c] = "waiting"] /\ UNCHANGED <<leader, began>>
      BY <1>4 DEF Join, flightVars
    <2>2. HasKey'
      BY <1>1, <2>1 DEF HasKey
    <2>3. Leads'
      BY <1>1, <1>2, <2>1 DEF Leads
    <2>4. Waits'
      BY <1>1, <1>4, <2>1 DEF Waits
    <2>5. FlightTime'
      BY <1>1, <2>1 DEF FlightTime
    <2> QED
      BY <2>2, <2>3, <2>4, <2>5
  <1> QED
    BY <1>3, <1>4

\* No flight is under way at the start.
LEMMA FlightInit == Init => FlightInv
  BY PolicyFetchConstants
  DEF Init, FlightInv, HasKey, Leads, Waits, FlightTime, LeaderSteps

\* Joining, leading and ending a flight keep the flights right.
LEMMA FlightStep == TypeOK /\ FlightInv /\ [Next]_vars => FlightInv'
  <1> SUFFICES ASSUME TypeOK, FlightInv, [Next]_vars PROVE FlightInv'
    OBVIOUS
  <1> USE DEF fileVars, callVars
  <1>0. /\ "done" \notin LeaderSteps /\ "waiting" \notin LeaderSteps /\ "idle" \notin LeaderSteps
        /\ "calling" \notin LeaderSteps /\ "missed" \notin LeaderSteps
        /\ "leading" \in LeaderSteps /\ "selecting" \in LeaderSteps /\ "fetching" \in LeaderSteps
        /\ "parsing" \in LeaderSteps /\ "landing" \in LeaderSteps
    BY DEF LeaderSteps
  <1>1. ASSUME NEW c \in Calls, NEW k \in Keys, Begin(c, k) PROVE FlightInv'
    BY <1>0, <1>1
    DEF Begin, TypeOK, FlightInv, HasKey, Leads, Waits, FlightTime, flightVars
  <1>2. ASSUME NEW c \in Calls, LookUp(c) PROVE FlightInv'
    BY <1>0, <1>2, FlightMove DEF LookUp
  <1>3. ASSUME NEW c \in Calls, Join(c) PROVE FlightInv'
    BY <1>3, FlightJoin
  <1>4. ASSUME NEW c \in Calls, LookUpAgain(c) PROVE FlightInv'
    BY <1>0, <1>4, FlightMove, FlightEnd DEF LookUpAgain
  <1>5. ASSUME NEW c \in Calls, SelectApp(c) PROVE FlightInv'
    BY <1>0, <1>5, FlightMove, FlightEnd DEF SelectApp
  <1>6. ASSUME NEW c \in Calls, GetContents(c) PROVE FlightInv'
    BY <1>0, <1>6, FlightMove DEF GetContents
  <1>7. ASSUME NEW c \in Calls, FileNotFound(c) PROVE FlightInv'
    <2>1. CASE UNCHANGED <<pc, flightVars>>
      BY <1>7, <2>1
      DEF FileNotFound, FlightInv, HasKey, Leads, Waits, FlightTime, flightVars
    <2> QED
      BY <1>0, <1>7, <2>1, FlightEnd DEF FileNotFound
  <1>8. ASSUME NEW c \in Calls, NotAccessible(c) \/ FetchFails(c) \/ Land(c) PROVE FlightInv'
    BY <1>0, <1>8, FlightEnd DEF NotAccessible, FetchFails, Land
  <1>9. ASSUME NEW c \in Calls, Store(c) PROVE FlightInv'
    BY <1>0, <1>9, FlightMove, FlightEnd DEF Store
  <1>10. ASSUME NEW c \in Calls, Return(c) PROVE FlightInv'
    BY <1>0, <1>10
    DEF Return, TypeOK, FlightInv, HasKey, Leads, Waits, FlightTime, flightVars
  <1>11. ASSUME NEW k \in Keys, NEW content \in Contents, Edit(k, content) PROVE FlightInv'
    BY <1>11 DEF Edit, FlightInv, HasKey, Leads, Waits, FlightTime, flightVars
  <1>12. ASSUME Tick PROVE FlightInv'
    BY <1>12, PolicyFetchConstants
    DEF Tick, TypeOK, FlightInv, HasKey, Leads, Waits, FlightTime, flightVars
  <1>13. CASE UNCHANGED vars
    BY <1>13 DEF vars, FlightInv, HasKey, Leads, Waits, FlightTime, flightVars
  <1> QED
    BY <1>1, <1>2, <1>3, <1>4, <1>5, <1>6, <1>7, <1>8, <1>9, <1>10, <1>11, <1>12, <1>13
    DEF Next, CallStep

\* Types and flights hold in every state.
LEMMA Flights == Spec => [](TypeOK /\ FlightInv)
  <1>1. Init => TypeOK /\ FlightInv
    BY TypeInit, FlightInit
  <1>2. TypeOK /\ FlightInv /\ [Next]_vars => TypeOK' /\ FlightInv'
    BY TypeStep, FlightStep DEF FlightInv
  <1> QED
    BY <1>1, <1>2, PTL DEF Spec

\* Every state of the policy fetch is well typed: no more path variants are
\* tried than extensionVariants returns.
THEOREM TypeCorrect == Spec => []TypeOK
  BY Flights, PTL

------------------------------------------------------------------------------
(* Versions and ages *)

DataInv == VersionInv /\ AgeInv

\* What the argument about versions needs to know of the types.
DataTypes ==
    /\ now \in Nat /\ file \in [Keys -> Files] /\ read \in [Calls -> Files]
    /\ \A k \in Keys : file[k].version \in Versions
    /\ \A c \in Calls : read[c].version \in Versions
    /\ Versions \subseteq Nat
    /\ replaced \in [Keys -> [Versions -> Nat]] /\ began \in [Keys -> Nat]
    /\ cache \in [Keys -> Entries \cup {NoEntry}]
    /\ \A e \in Entries : e.policy \in Versions /\ e.fetchedAt \in Nat

\* The part of the types that versions and ages need.
LEMMA TypesForData == TypeOK => DataTypes
  BY DEF TypeOK, DataTypes, Files, Entries, Versions

\* Steps that leave the repository, the cache and the clock alone, and give
\* nobody a file, change nothing that was read or cached.
LEMMA DataSame ==
    ASSUME DataInv, UNCHANGED <<now, file, replaced, cache>>,
           \A c \in Calls : pc'[c] \in {"parsing", "landing"} =>
              /\ pc'[c] = pc[c] /\ read'[c] = read[c] /\ key'[c] = key[c]
              /\ began'[key[c]] = began[key[c]]
    PROVE  DataInv'
  BY DEF DataInv, VersionInv, AgeInv, CacheNeverGoesBack

\* The end of a flight gives nobody a file to parse (EndFlight).
LEMMA DataEnd ==
    ASSUME TypeOK, FlightInv, DataInv, NEW c \in Calls, NEW r, EndFlight(c, r),
           pc[c] \in LeaderSteps, UNCHANGED <<now, file, replaced, cache, key, read>>
    PROVE  DataInv'
  <1>1. ASSUME NEW d \in Calls, pc'[d] \in {"parsing", "landing"}
        PROVE  pc'[d] = pc[d] /\ began'[key[d]] = began[key[d]]
    <2>1. pc'[d] = pc[d] /\ d # c
      BY <1>1 DEF EndFlight
    <2>2. leader[key[d]] = d /\ leader[key[c]] = c /\ key[d] \in Keys
      BY <1>1, <2>1 DEF FlightInv, Leads, HasKey, LeaderSteps
    <2> QED
      BY <2>1, <2>2 DEF EndFlight, TypeOK
  <1> QED
    BY <1>1, DataSame

\* The leader of a key is the only one to store for it: what it stores is not
\* older than what is there, and was the file less than a fetch ago
\* (policyCache.set).
LEMMA DataStore ==
    ASSUME TypeOK, FlightInv, DataInv, NEW c \in Calls, pc[c] = "parsing",
           Set(key[c], read[c].version), pc' = [pc EXCEPT ![c] = "landing"],
           UNCHANGED <<now, file, replaced, key, read, began>>
    PROVE  DataInv'
  <1>0. DataTypes
    BY TypesForData
  <1>1. leader[key[c]] = c /\ key[c] \in Keys /\ "parsing" \in LeaderSteps
    BY DEF FlightInv, Leads, HasKey, LeaderSteps
  <1>2. began[key[c]] <= now /\ now <= began[key[c]] + FetchTime
    BY <1>1, PolicyFetchConstants DEF FlightInv, FlightTime
  <1>3. /\ cache'[key[c]] = [policy |-> read[c].version, fetchedAt |-> now]
        /\ \A k \in Keys : k # key[c] => cache'[k] = cache[k] \/ cache'[k] = NoEntry
    BY <1>1 DEF Set
  <1>4. \A d \in Calls : pc'[d] \in {"parsing", "landing"} /\ d # c =>
           pc'[d] = pc[d] /\ key[d] \in Keys /\ key[d] # key[c]
    BY <1>1 DEF FlightInv, Leads, HasKey, LeaderSteps, TypeOK
  <1>5. cache'[key[c]].policy = read[c].version /\ cache'[key[c]].fetchedAt = now
    BY <1>3
  <1>6. read[c].version <= file[key[c]].version
    BY DEF DataInv, VersionInv
  <1>7. VersionInv'
    <2>1. \A k \in Keys : cache'[k] # NoEntry => cache'[k].policy <= file[k].version
      BY <1>3, <1>5, <1>6 DEF DataInv, VersionInv
    <2>2. \A d \in Calls : pc'[d] \in {"parsing", "landing"} => read[d].version <= file[key[d]].version
      BY <1>4, <1>6 DEF DataInv, VersionInv
    <2>3. \A d \in Calls : (pc'[d] = "parsing" /\ cache'[key[d]] # NoEntry) =>
             cache'[key[d]].policy <= read[d].version
      <3>1. pc'[c] = "landing"
        BY DEF TypeOK
      <3> QED
        BY <1>3, <1>4, <3>1 DEF DataInv, VersionInv, CacheNeverGoesBack
    <2> QED
      BY <2>1, <2>2, <2>3 DEF VersionInv, CacheNeverGoesBack
  <1>8. AgeInv'
    <2>1. \/ read[c].version = file[key[c]].version
          \/ now <= replaced[key[c]][read[c].version] + FetchTime
      <3>1. replaced[key[c]][read[c].version] \in Nat /\ began[key[c]] \in Nat
        BY <1>0, <1>1 DEF DataTypes
      <3>2. \/ read[c].version = file[key[c]].version
            \/ began[key[c]] <= replaced[key[c]][read[c].version]
        BY DEF DataInv, AgeInv
      <3> QED
        BY <1>0, <1>2, <3>1, <3>2, PolicyFetchConstants DEF DataTypes
    <2>2. \A k \in Keys : cache'[k] # NoEntry =>
             /\ cache'[k].fetchedAt <= now
             /\ \/ cache'[k].policy = file[k].version
                \/ cache'[k].fetchedAt <= replaced[k][cache'[k].policy] + FetchTime
      BY <1>0, <1>3, <1>5, <2>1 DEF DataTypes, DataInv, AgeInv
    <2>3. \A d \in Calls : pc'[d] \in {"parsing", "landing"} =>
             \/ read[d].version = file[key[d]].version
             \/ began[key[d]] <= replaced[key[d]][read[d].version]
      BY <1>4 DEF DataInv, AgeInv
    <2> QED
      BY <2>2, <2>3 DEF AgeInv
  <1> QED
    BY <1>7, <1>8 DEF DataInv

\* An edit replaces the current version now: whoever holds it holds a version
\* that was current until now.
LEMMA DataEdit ==
    ASSUME TypeOK, FlightInv, DataInv, NEW k \in Keys, NEW content, Edit(k, content)
    PROVE  DataInv'
  <1>0. DataTypes
    BY TypesForData
  <1> DEFINE v == file[k].version
  <1>1. /\ UNCHANGED <<now, cache, began, leader, pc, key, read>>
        /\ file'[k].version = v + 1 /\ \A j \in Keys : j # k => file'[j] = file[j]
    BY <1>0 DEF Edit, DataTypes, flightVars, callVars
  <1>2. /\ replaced'[k][v] = now
        /\ \A w \in Versions : w # v => replaced'[k][w] = replaced[k][w]
        /\ \A j \in Keys : j # k => replaced'[j] = replaced[j]
    BY <1>0 DEF Edit, DataTypes
  <1>3. \A c \in Calls : pc[c] \in {"parsing", "landing"} =>
           key[c] \in Keys /\ began[key[c]] <= now
    BY PolicyFetchConstants DEF FlightInv, HasKey, Leads, FlightTime, LeaderSteps
  <1>4. VersionInv'
    <2>1. ASSUME NEW j \in Keys
          PROVE  /\ file[j].version \in Nat /\ file'[j].version \in Nat
                 /\ file[j].version <= file'[j].version
      <3>1. file[j].version \in Nat /\ v \in Nat
        BY <1>0 DEF DataTypes
      <3>2. CASE j = k
        BY <1>1, <3>1, <3>2
      <3>3. CASE j # k
        BY <1>1, <3>1, <3>3
      <3> QED
        BY <3>2, <3>3
    <2>2. ASSUME NEW a \in Nat, NEW b \in Nat, NEW d \in Nat, a <= b, b <= d PROVE a <= d
      BY <2>2
    <2>3. ASSUME NEW j \in Keys, cache[j] # NoEntry PROVE cache[j].policy <= file'[j].version
      <3>1. cache[j].policy \in Nat
        BY <1>0, <2>3 DEF DataTypes
      <3>2. cache[j].policy <= file[j].version
        BY <2>3 DEF DataInv, VersionInv
      <3> QED
        BY <2>1, <2>2, <3>1, <3>2
    <2>4. ASSUME NEW c \in Calls, pc[c] \in {"parsing", "landing"}
          PROVE  read[c].version <= file'[key[c]].version
      <3>1. read[c].version \in Nat /\ key[c] \in Keys
        BY <1>0, <1>3, <2>4 DEF DataTypes
      <3>2. read[c].version <= file[key[c]].version
        BY <2>4 DEF DataInv, VersionInv
      <3> QED
        BY <2>1, <2>2, <3>1, <3>2
    <2> QED
      BY <1>1, <2>3, <2>4 DEF DataInv, VersionInv, CacheNeverGoesBack
  <1>5. ASSUME NEW j \in Keys, cache[j] # NoEntry
        PROVE  /\ cache[j].fetchedAt <= now
               /\ \/ cache[j].policy = file'[j].version
                  \/ cache[j].fetchedAt <= replaced'[j][cache[j].policy] + FetchTime
    <2>1. cache[j].policy \in Versions /\ cache[j].fetchedAt \in Nat
      BY <1>0, <1>5 DEF DataTypes
    <2>2. CASE j # k
      BY <1>1, <1>2, <1>5, <2>2 DEF DataInv, AgeInv
    <2>3. CASE j = k /\ cache[j].policy = v
      BY <1>0, <1>2, <1>5, <2>1, <2>3, PolicyFetchConstants DEF DataTypes, DataInv, AgeInv
    <2>4. CASE j = k /\ cache[j].policy # v
      BY <1>2, <1>5, <2>1, <2>4 DEF DataInv, AgeInv
    <2> QED
      BY <2>2, <2>3, <2>4
  <1>6. ASSUME NEW c \in Calls, pc[c] \in {"parsing", "landing"}
        PROVE  \/ read[c].version = file'[key[c]].version
               \/ began[key[c]] <= replaced'[key[c]][read[c].version]
    <2>1. read[c].version \in Versions /\ key[c] \in Keys /\ began[key[c]] <= now
      BY <1>0, <1>3, <1>6 DEF DataTypes
    <2>2. CASE key[c] # k
      BY <1>1, <1>2, <1>6, <2>1, <2>2 DEF DataInv, AgeInv
    <2>3. CASE key[c] = k /\ read[c].version = v
      BY <1>2, <2>1, <2>3
    <2>4. CASE key[c] = k /\ read[c].version # v
      BY <1>2, <1>6, <2>1, <2>4 DEF DataInv, AgeInv
    <2> QED
      BY <2>2, <2>3, <2>4
  <1>7. AgeInv'
    BY <1>1, <1>5, <1>6 DEF AgeInv
  <1> QED
    BY <1>4, <1>7 DEF DataInv

\* No step of a fetch, an edit or the cache makes an old version look new.
LEMMA DataStep == TypeOK /\ FlightInv /\ DataInv /\ [Next]_vars => DataInv'
  <1> SUFFICES ASSUME TypeOK, FlightInv, DataInv, [Next]_vars PROVE DataInv'
    OBVIOUS
  <1>0. /\ "leading" \in LeaderSteps /\ "selecting" \in LeaderSteps /\ "fetching" \in LeaderSteps
        /\ "parsing" \in LeaderSteps /\ "landing" \in LeaderSteps
    BY DEF LeaderSteps
  <1> USE DEF fileVars, flightVars, callVars
  <1>1. ASSUME NEW c \in Calls, NEW k \in Keys, Begin(c, k) PROVE DataInv'
    BY <1>1, DataSame DEF Begin, TypeOK
  <1>2. ASSUME NEW c \in Calls, LookUp(c) PROVE DataInv'
    BY <1>2, DataSame DEF LookUp, TypeOK
  <1>3. ASSUME NEW c \in Calls, Join(c) PROVE DataInv'
    <2>1. ASSUME NEW d \in Calls, pc'[d] \in {"parsing", "landing"}
          PROVE  pc'[d] = pc[d] /\ began'[key[d]] = began[key[d]]
      <3>1. pc'[d] = pc[d] /\ d # c
        BY <1>3, <2>1 DEF Join, TypeOK
      <3>2. key[d] \in Keys /\ leader[key[d]] = d
        BY <2>1, <3>1 DEF FlightInv, HasKey, Leads, LeaderSteps
      <3> QED
        BY <1>3, <3>1, <3>2, PolicyFetchConstants DEF Join, TypeOK
    <2> QED
      BY <1>3, <2>1, DataSame DEF Join
  <1>4. ASSUME NEW c \in Calls, LookUpAgain(c) PROVE DataInv'
    <2>1. CASE ~Get(key[c])
      BY <1>4, <2>1, DataSame DEF LookUpAgain, TypeOK
    <2> QED
      BY <1>0, <1>4, <2>1, DataEnd DEF LookUpAgain
  <1>5. ASSUME NEW c \in Calls, SelectApp(c) PROVE DataInv'
    <2>1. CASE pc' = [pc EXCEPT ![c] = "fetching"] /\ UNCHANGED flightVars
      BY <1>5, <2>1, DataSame DEF SelectApp, TypeOK
    <2> QED
      BY <1>0, <1>5, <2>1, DataEnd DEF SelectApp
  <1>6. ASSUME NEW c \in Calls, GetContents(c) PROVE DataInv'
    <2>1. /\ pc' = [pc EXCEPT ![c] = "parsing"] /\ read' = [read EXCEPT ![c] = file[key[c]]]
          /\ UNCHANGED <<now, file, replaced, cache, began, key>> /\ pc[c] = "fetching"
      BY <1>6 DEF GetContents
    <2>2. key[c] \in Keys
      BY <2>1 DEF FlightInv, HasKey
    <2>3. /\ \A d \in Calls : d # c => pc'[d] = pc[d] /\ read'[d] = read[d]
          /\ read'[c] = file[key[c]]
      BY <2>1 DEF TypeOK
    <2>4. file[key[c]].version \in Nat
      BY <2>2, TypesForData DEF DataTypes
    <2>5. VersionInv'
      BY <2>1, <2>2, <2>3, <2>4 DEF DataInv, VersionInv, CacheNeverGoesBack
    <2>6. AgeInv'
      BY <2>1, <2>3 DEF DataInv, AgeInv
    <2> QED
      BY <2>5, <2>6 DEF DataInv
  <1>7. ASSUME NEW c \in Calls, FileNotFound(c) PROVE DataInv'
    <2>1. CASE UNCHANGED <<pc, flightVars>>
      BY <1>7, <2>1, DataSame DEF FileNotFound
    <2> QED
      BY <1>0, <1>7, <2>1, DataEnd DEF FileNotFound
  <1>8. ASSUME NEW c \in Calls, NotAccessible(c) \/ FetchFails(c) \/ Land(c) PROVE DataInv'
    BY <1>0, <1>8, DataEnd DEF NotAccessible, FetchFails, Land
  <1>9. ASSUME NEW c \in Calls, Store(c) PROVE DataInv'
    BY <1>0, <1>9, DataStore, DataEnd DEF Store
  <1>10. ASSUME NEW c \in Calls, Return(c) PROVE DataInv'
    BY <1>10, DataSame DEF Return, TypeOK
  <1>11. ASSUME NEW k \in Keys, NEW content \in Contents, Edit(k, content) PROVE DataInv'
    BY <1>11, DataEdit
  <1>12. ASSUME Tick PROVE DataInv'
    <2>1. \A k \in Keys : cache[k] # NoEntry => cache[k].fetchedAt <= now + 1
      BY TypesForData DEF DataTypes, DataInv, AgeInv
    <2> QED
      BY <1>12, <2>1 DEF Tick, DataInv, VersionInv, AgeInv, CacheNeverGoesBack
  <1>13. CASE UNCHANGED vars
    BY <1>13, DataSame DEF vars
  <1> QED
    BY <1>1, <1>2, <1>3, <1>4, <1>5, <1>6, <1>7, <1>8, <1>9, <1>10, <1>11, <1>12, <1>13
    DEF Next, CallStep

\* Flights, versions and ages, in every state.
LEMMA Data == Spec => [](TypeOK /\ FlightInv /\ DataInv)
  <1>1. Init => DataInv
    BY DEF Init, DataInv, VersionInv, AgeInv, CacheNeverGoesBack
  <1> QED
    BY <1>1, DataStep, Flights, PTL DEF Spec

\* What is cached for a key never goes back to an older version of its file,
\* however fetches, edits and evictions interleave (fetchPolicy).
THEOREM CacheNeverGoesBackAlways == Spec => []CacheNeverGoesBack
  BY Data, PTL DEF DataInv, VersionInv

\* A policy that is served was the file of the repository at most an entry's
\* lifetime and a fetch ago, to the leader, to those who wait and to those who
\* find it in the cache (policyCache.get, fetchPolicy).
THEOREM ServedIsRecentAlways == Spec => ServedIsRecent
  <1> DEFINE Recent(k, v) ==
        v = file[k].version \/ now <= replaced[k][v] + CacheTTL + FetchTime
      Served ==
        \A c \in Calls :
            (result[c] = NoResult /\ result'[c].code = "ok") =>
               LET v == result'[c].policy IN
               \/ v = file[key[c]].version
               \/ now <= replaced[key[c]][v] + CacheTTL + FetchTime
  <1>1. TypeOK /\ FlightInv /\ DataInv /\ [Next]_vars => [Served]_vars
    <2> SUFFICES ASSUME TypeOK, FlightInv, DataInv, Next PROVE Served
      OBVIOUS
    <2>0. DataTypes
      BY TypesForData
    <2>1. ASSUME NEW k \in Keys, Get(k) PROVE Recent(k, cache[k].policy)
      <3>1. /\ cache[k].policy \in Versions /\ cache[k].fetchedAt \in Nat
            /\ replaced[k][cache[k].policy] \in Nat
        BY <2>0, <2>1 DEF DataTypes, Get
      <3>2. now <= cache[k].fetchedAt + CacheTTL
        BY <2>0, <2>1, <3>1, PolicyFetchConstants DEF DataTypes, Get
      <3>3. \/ cache[k].policy = file[k].version
            \/ cache[k].fetchedAt <= replaced[k][cache[k].policy] + FetchTime
        BY <2>1 DEF Get, DataInv, AgeInv
      <3> QED
        BY <2>0, <3>1, <3>2, <3>3, PolicyFetchConstants DEF DataTypes
    <2>2. ASSUME NEW c \in Calls, pc[c] = "landing" PROVE Recent(key[c], read[c].version)
      <3>1. key[c] \in Keys /\ now <= began[key[c]] + FetchTime
        BY <2>2, PolicyFetchConstants DEF FlightInv, HasKey, Leads, FlightTime, LeaderSteps
      <3>2. replaced[key[c]][read[c].version] \in Nat /\ began[key[c]] \in Nat
        BY <2>0, <3>1 DEF DataTypes
      <3>3. \/ read[c].version = file[key[c]].version
            \/ began[key[c]] <= replaced[key[c]][read[c].version]
        BY <2>2 DEF DataInv, AgeInv
      <3> QED
        BY <2>0, <3>1, <3>2, <3>3, PolicyFetchConstants DEF DataTypes
    <2>3. ASSUME NEW c \in Calls, NEW r, EndFlight(c, r),
                 r.code = "ok" => Recent(key[c], r.policy)
          PROVE  Served
      <3>1. \A d \in Calls : (result'[d] = r /\ key[d] = key[c]) \/ result'[d] = result[d]
        BY <2>3 DEF EndFlight, Waiting
      <3>2. NoResult.code # "ok"
        BY DEF NoResult
      <3> QED
        BY <2>3, <3>1, <3>2
    <2>4. \A code \in {"failed", "not_found", "not_accessible"} : Failure(code).code # "ok"
      BY DEF Failure
    <2>5. \A v : Policy(v).policy = v
      BY DEF Policy
    <2>6. UNCHANGED result => Served
      BY DEF NoResult
    <2>7. ASSUME NEW c \in Calls, LookUp(c) PROVE Served
      <3>1. CASE Get(key[c])
        <4>1. key[c] \in Keys /\ result' = [result EXCEPT ![c] = Policy(cache[key[c]].policy)]
          BY <2>7, <3>1 DEF LookUp, FlightInv, HasKey
        <4>2. \A d \in Calls : d # c => result'[d] = result[d]
          BY <4>1 DEF TypeOK
        <4>3. result'[c].policy = cache[key[c]].policy
          BY <2>5, <4>1 DEF TypeOK
        <4> QED
          BY <2>1, <3>1, <4>1, <4>2, <4>3 DEF NoResult
      <3>2. CASE ~Get(key[c])
        BY <2>6, <2>7, <3>2 DEF LookUp
      <3> QED
        BY <3>1, <3>2
    <2>8. ASSUME NEW c \in Calls, LookUpAgain(c) PROVE Served
      <3>1. key[c] \in Keys
        BY <2>8 DEF LookUpAgain, FlightInv, HasKey
      <3> QED
        BY <2>1, <2>3, <2>5, <2>6, <2>8, <3>1 DEF LookUpAgain
    <2>9. ASSUME NEW c \in Calls, Land(c) PROVE Served
      BY <2>2, <2>3, <2>5, <2>9 DEF Land
    <2>10. ASSUME NEW c \in Calls,
                  SelectApp(c) \/ FileNotFound(c) \/ NotAccessible(c) \/ FetchFails(c) \/ Store(c)
           PROVE  Served
      BY <2>3, <2>4, <2>6, <2>10
      DEF SelectApp, FileNotFound, NotAccessible, FetchFails, Store
    <2>11. ASSUME NEW c \in Calls, Return(c) PROVE Served
      BY <2>11 DEF Return, TypeOK, NoResult
    <2>12. ASSUME NEW c \in Calls, Join(c) \/ GetContents(c) \/ \E k \in Keys : Begin(c, k)
           PROVE  Served
      BY <2>6, <2>12 DEF Join, GetContents, Begin
    <2>13. ASSUME Tick \/ \E k \in Keys, content \in Contents : Edit(k, content) PROVE Served
      BY <2>6, <2>13 DEF Tick, Edit, callVars
    <2> QED
      BY <2>7, <2>8, <2>9, <2>10, <2>11, <2>12, <2>13 DEF Next, CallStep
  <1> QED
    BY <1>1, Data, PTL DEF Spec, ServedIsRecent

------------------------------------------------------------------------------
(* The size of the cache *)

\* What policyCache.set does to the number of entries: one is added only
\* where there is room, or where another one goes.
LEMMA SetWithinCapacity ==
    ASSUME TypeOK, CacheWithinCapacity, NEW k \in Keys, NEW version, Set(k, version)
    PROVE  CacheWithinCapacity'
  <1>1. Cached \subseteq Keys /\ IsFiniteSet(Cached) /\ Cardinality(Cached) \in Nat
    BY PolicyFetchConstants, FS_Subset, FS_CardinalityType DEF Cached
  <1>2. PICK evicted \in Victims(k) :
          cache' = [j \in Keys |-> IF j = k THEN [policy |-> version, fetchedAt |-> now]
                                   ELSE IF j \in evicted THEN NoEntry ELSE cache[j]]
    BY DEF Set
  <1>3. Cached' \subseteq (Cached \ evicted) \cup {k}
    BY <1>2 DEF Cached
  <1>4. ASSUME NEW T, IsFiniteSet(T), Cached' \subseteq T, Cardinality(T) <= MaxEntries
        PROVE  CacheWithinCapacity'
    <2>1. Cardinality(Cached') <= Cardinality(T) /\ Cardinality(Cached') \in Nat
      BY <1>4, FS_Subset, FS_CardinalityType
    <2>2. Cardinality(T) \in Nat
      BY <1>4, FS_CardinalityType
    <2> QED
      BY <1>4, <2>1, <2>2, PolicyFetchConstants DEF CacheWithinCapacity
  <1>5. CASE cache[k] # NoEntry
    <2>1. Cached' \subseteq Cached
      BY <1>3, <1>5 DEF Cached
    <2> QED
      BY <1>1, <1>4, <2>1 DEF CacheWithinCapacity
  <1>6. CASE cache[k] = NoEntry /\ ~(Cardinality(Cached) >= MaxEntries)
    <2>1. Cached' \subseteq Cached \cup {k}
      BY <1>3
    <2>2. IsFiniteSet(Cached \cup {k}) /\ Cardinality(Cached \cup {k}) <= Cardinality(Cached) + 1
      <3>1. /\ IsFiniteSet(Cached \cup {k})
            /\ Cardinality(Cached \cup {k}) =
                 IF k \in Cached THEN Cardinality(Cached) ELSE Cardinality(Cached) + 1
        BY <1>1, FS_AddElement
      <3> QED
        BY <1>1, <3>1
    <2>3. Cardinality(Cached \cup {k}) \in Nat
      BY <2>2, FS_CardinalityType
    <2> QED
      BY <1>1, <1>4, <1>6, <2>1, <2>2, <2>3, PolicyFetchConstants
  <1>7. CASE cache[k] = NoEntry /\ Cardinality(Cached) >= MaxEntries
    <2>1. PICK v \in Cached : evicted = {v}
      BY <1>7 DEF Victims
    <2>2. /\ IsFiniteSet(Cached \ {v}) /\ Cardinality(Cached \ {v}) = Cardinality(Cached) - 1
      BY <1>1, FS_RemoveElement
    <2>3. /\ IsFiniteSet((Cached \ {v}) \cup {k})
          /\ Cardinality((Cached \ {v}) \cup {k}) <= Cardinality(Cached)
      <3> DEFINE T == Cached \ {v}
      <3>1. /\ IsFiniteSet(T \cup {k})
            /\ Cardinality(T \cup {k}) =
                 IF k \in T THEN Cardinality(T) ELSE Cardinality(T) + 1
        <4> HIDE DEF T
        <4> QED
          BY <2>2, FS_AddElement DEF T
      <3> QED
        BY <1>1, <2>2, <3>1
    <2>4. Cardinality((Cached \ {v}) \cup {k}) \in Nat
      BY <2>3, FS_CardinalityType
    <2>5. Cached' \subseteq (Cached \ {v}) \cup {k}
      BY <1>3, <2>1
    <2>6. Cardinality((Cached \ {v}) \cup {k}) <= MaxEntries
      BY <1>1, <2>3, <2>4, PolicyFetchConstants DEF CacheWithinCapacity
    <2> QED
      BY <1>4, <2>3, <2>5, <2>6
  <1> QED
    BY <1>5, <1>6, <1>7

\* The cache never holds more than maxPolicyCacheEntries, whatever the number
\* of repositories and of concurrent stores (policyCache.set).
THEOREM CacheWithinCapacityAlways == Spec => []CacheWithinCapacity
  <1>1. Init => CacheWithinCapacity
    <2>1. Init => Cached = {}
      BY DEF Init, Cached
    <2> QED
      BY <2>1, FS_EmptySet, PolicyFetchConstants DEF CacheWithinCapacity
  <1>2. TypeOK /\ FlightInv /\ CacheWithinCapacity /\ [Next]_vars => CacheWithinCapacity'
    <2> SUFFICES ASSUME TypeOK, FlightInv, CacheWithinCapacity, [Next]_vars
                 PROVE  CacheWithinCapacity'
      OBVIOUS
    <2>1. ASSUME NEW c \in Calls, Store(c) PROVE CacheWithinCapacity'
      <3>1. key[c] \in Keys
        BY <2>1 DEF Store, FlightInv, HasKey
      <3>2. CASE Set(key[c], read[c].version)
        BY <3>1, <3>2, SetWithinCapacity
      <3>3. CASE UNCHANGED cache
        BY <3>3 DEF CacheWithinCapacity, Cached
      <3> QED
        BY <2>1, <3>2, <3>3 DEF Store
    <2>2. CASE UNCHANGED cache
      BY <2>2 DEF CacheWithinCapacity, Cached
    <2>3. (Next /\ ~\E c \in Calls : Store(c)) \/ UNCHANGED vars => UNCHANGED cache
      BY DEF Next, CallStep, Begin, LookUp, Join, LookUpAgain, SelectApp, GetContents,
             FileNotFound, NotAccessible, FetchFails, Land, Return, Edit, Tick, vars
    <2> QED
      BY <2>1, <2>2, <2>3
  <1> QED
    BY <1>1, <1>2, Flights, PTL DEF Spec

==============================================================================
