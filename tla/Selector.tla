------------------------------ MODULE Selector ------------------------------
(***************************************************************************)
(* internal/sts/selector and its store backends: workers (exchange calls   *)
(* of any replica) choose a GitHub App by the rate limits the shared store *)
(* knows, use it, ask GitHub what is left and record the answer.  Reading, *)
(* using, asking and recording are separate steps, so answers are recorded *)
(* late and out of order.                                                  *)
(*                                                                         *)
(* Time is in ticks, TicksPerSecond to the second, because retry-after     *)
(* truncates to seconds.                                                   *)
(***************************************************************************)
EXTENDS Integers

CONSTANTS
    Apps,                \* GitHub Apps (client IDs)
    Organization,        \* [Apps -> organizations]
    Workers,             \* concurrent exchange calls
    Owners,              \* owners of the repositories that are asked for
    NoOwner,             \* no call under way
    NoState,             \* nothing is known about an app
    NoApp,               \* no app chosen
    Backends,            \* store backends a deployment may configure
    TTLBuffer,           \* ttlBuffer of the Redis store
    ItemTTL,             \* ttl_minutes of the DynamoDB store
    TicksPerSecond,
    DefaultRetrySeconds,
    MinRetrySeconds,
    Limit,               \* calls GitHub allows per window
    Window,              \* length of GitHub's window
    MaxTime              \* bound on the clock

ASSUME SelectorConstants ==
    /\ Backends \subseteq {"memory", "redis", "dynamodb"}
    /\ NoApp \notin Apps
    /\ TicksPerSecond \in Nat \ {0}
    /\ TTLBuffer \in Nat \ {0}
    /\ ItemTTL \in Nat \ {0}
    /\ MinRetrySeconds \in Nat \ {0}
    /\ DefaultRetrySeconds \in Nat
    /\ MinRetrySeconds <= DefaultRetrySeconds
    /\ Limit \in Nat \ {0}
    /\ Window \in Nat \ {0}
    /\ MaxTime \in Nat \ {0}

VARIABLES
    backend,      \* the configured store backend
    now,          \* the clock
    window,       \* at GitHub: each app's [remaining, resetAt]
    store,        \* the store's state of each app, or NoState
    dropAt,       \* when the backend drops an app's entry
    lagging,      \* a replica of the DynamoDB table that is behind
    pc,           \* what each worker is about to do
    owner,        \* whose repository it was asked about
    view,         \* what GetAllStates has read so far
    unread,       \* apps it has still to read
    known,        \* what every copy of the store called used up when it started to read
    chosen,       \* the app SelectApp returned
    seen,         \* the answer of client.RateLimit
    retryAfter    \* ExhaustedError.RetryAfter; 0 when not exhausted

storeVars == <<store, dropAt, lagging>>
workerVars == <<pc, owner, view, unread, known, chosen, seen, retryAfter>>
vars == <<backend, now, window, storeVars, workerVars>>

Register == INSTANCE RateLimitRegister WITH reg <- store

IsExpired(s) == Register!IsExpired(s)
HasCapacity(s) == Register!HasCapacity(s)

RateLimits == [remaining: 0 .. Limit, resetAt: 0 .. (MaxTime + Window)]
StatesOrNone == RateLimits \cup {NoState}

\* Type invariant.
TypeOK ==
    /\ backend \in Backends
    /\ now \in 1 .. MaxTime
    /\ window \in [Apps -> RateLimits]
    /\ store \in [Apps -> StatesOrNone]
    /\ dropAt \in [Apps -> Nat]
    /\ lagging \in [Apps -> StatesOrNone]
    /\ pc \in [Workers -> {"idle", "reading", "using", "asking", "recording"}]
    /\ owner \in [Workers -> Owners \cup {NoOwner}]
    /\ view \in [Workers -> [Apps -> StatesOrNone]]
    /\ unread \in [Workers -> SUBSET Apps]
    /\ known \in [Workers -> [Apps -> StatesOrNone]]
    /\ chosen \in [Workers -> Apps \cup {NoApp}]
    /\ seen \in [Workers -> StatesOrNone]
    /\ retryAfter \in [Workers -> {0} \cup (MinRetrySeconds .. DefaultRetrySeconds)]

------------------------------------------------------------------------------
(* GitHub: a window starts with the first call after the last one is over, *)
(* which it is at its reset; the code's IsExpired is true only after it.   *)

CurrentWindow(a) ==
    IF now >= window[a].resetAt THEN [remaining |-> Limit, resetAt |-> now + Window]
                                ELSE window[a]

------------------------------------------------------------------------------
(* SelectApp *)

Matching(o) == {a \in Apps : Organization[a] = o}

\* No state, or one whose window is over, counts as unlimited (MaxInt).
Unlimited(s) == s = NoState \/ IsExpired(s)
IsCandidate_IgnoresReset(s) == s = NoState \/ HasCapacity(s)
IsCandidate(s) == Unlimited(s) \/ HasCapacity(s)

NoBetter(s, other) ==
    \/ Unlimited(s)
    \/ ~Unlimited(other) /\ (HasCapacity(other) => s.remaining >= other.remaining)

\* The candidates with the most remaining calls; SelectApp takes one at random.
TopCandidates(o, states) ==
    {a \in Matching(o) :
        /\ IsCandidate(states[a])
        /\ \A b \in Matching(o) : NoBetter(states[a], states[b])}

\* retryAfterFromStates: the earliest reset that is still ahead, in whole
\* seconds, clamped.
ResetsAhead(o, states) ==
    {states[a].resetAt : a \in {b \in Matching(o) :
        states[b] # NoState /\ ~IsExpired(states[b]) /\ states[b].resetAt > now}}

Earliest(times) == CHOOSE t \in times : \A u \in times : t <= u

Clamp_NoMaximum(secs) ==
    IF secs < MinRetrySeconds THEN MinRetrySeconds ELSE secs

Clamp(secs) ==
    IF secs < MinRetrySeconds THEN MinRetrySeconds
    ELSE IF secs > DefaultRetrySeconds THEN DefaultRetrySeconds ELSE secs

RetryAfter_RoundedUp(o, states) ==
    LET ahead == ResetsAhead(o, states)
    IN  IF ahead = {} THEN DefaultRetrySeconds
        ELSE Clamp((Earliest(ahead) - now) \div TicksPerSecond + 1)

RetryAfterFromStates(o, states) ==
    LET ahead == ResetsAhead(o, states)
    IN  IF ahead = {} THEN DefaultRetrySeconds
        ELSE Clamp((Earliest(ahead) - now) \div TicksPerSecond)

Nothing == [a \in Apps |-> NoState]

\* The call ends and its local state with it.
EndCall(w) ==
    /\ pc' = [pc EXCEPT ![w] = "idle"]
    /\ owner' = [owner EXCEPT ![w] = NoOwner]
    /\ view' = [view EXCEPT ![w] = Nothing]
    /\ unread' = [unread EXCEPT ![w] = {}]
    /\ known' = [known EXCEPT ![w] = Nothing]
    /\ chosen' = [chosen EXCEPT ![w] = NoApp]
    /\ seen' = [seen EXCEPT ![w] = NoState]

\* What a read of an app's state may return: Scan is not a consistent read,
\* so DynamoDB may answer it from a replica that is behind.
Copies(a) == {store[a]} \cup (IF backend = "dynamodb" THEN {lagging[a]} ELSE {})

\* Nothing is left in s before its window is over at GitHub.
UsedUp(s) == s # NoState /\ s.remaining = 0 /\ now < s.resetAt

\* What is used up according to every copy.
KnownUsedUp ==
    [a \in Apps |-> IF Copies(a) = {store[a]} /\ UsedUp(store[a]) THEN store[a] ELSE NoState]

\* A call of SelectApp begins with GetAllStates.
StartSelect(w, o) ==
    /\ pc[w] = "idle"
    /\ pc' = [pc EXCEPT ![w] = "reading"]
    /\ owner' = [owner EXCEPT ![w] = o]
    /\ unread' = [unread EXCEPT ![w] = Apps]
    /\ known' = [known EXCEPT ![w] = KnownUsedUp]
    /\ retryAfter' = [retryAfter EXCEPT ![w] = 0]
    /\ UNCHANGED <<backend, now, window, storeVars, view, chosen, seen>>

\* MemoryStore.GetAllStates copies the whole map under the lock.
MemoryBatches(w) == IF unread[w] = {} THEN {} ELSE {Apps}

\* RedisStore.GetAllStates: SCAN finds the keys, then one HGETALL for each.
RedisBatches(w) == {{a} : a \in unread[w]}

\* DynamoDBStore.GetAllStates: a paged Scan, which is not a snapshot.
DynamoDBBatches(w) == {{a} : a \in unread[w]}

\* What the next read of a GetAllStates call may return together.
Batches(w) ==
    CASE backend = "memory" -> MemoryBatches(w)
      [] backend = "redis" -> RedisBatches(w)
      [] backend = "dynamodb" -> DynamoDBBatches(w)

ReadStates(w) ==
    /\ pc[w] = "reading"
    /\ \E as \in Batches(w) :
         /\ \E read \in [as -> StatesOrNone] :
              /\ \A a \in as : read[a] \in Copies(a)
              /\ view' = [view EXCEPT ![w] = [a \in Apps |-> IF a \in as THEN read[a] ELSE @[a]]]
         /\ unread' = [unread EXCEPT ![w] = @ \ as]
    /\ UNCHANGED <<backend, now, window, storeVars, pc, owner, known, chosen, seen, retryAfter>>

\* GetAllStates returned an error; SelectApp fails.
ReadFails(w) ==
    /\ pc[w] = "reading"
    /\ backend # "memory"
    /\ EndCall(w)
    /\ UNCHANGED <<backend, now, window, storeVars, retryAfter>>

\* ErrNoMatchingApp: the owner has no app.
NoMatchingApp(w) ==
    /\ pc[w] = "reading"
    /\ unread[w] = {}
    /\ Matching(owner[w]) = {}
    /\ EndCall(w)
    /\ UNCHANGED <<backend, now, window, storeVars, retryAfter>>

\* ExhaustedError: the owner has apps, and none is a candidate.
AllExhausted(w) ==
    /\ pc[w] = "reading"
    /\ unread[w] = {}
    /\ Matching(owner[w]) # {}
    /\ \A a \in Matching(owner[w]) : ~IsCandidate(view[w][a])
    /\ retryAfter' = [retryAfter EXCEPT ![w] = RetryAfterFromStates(owner[w], view[w])]
    /\ EndCall(w)
    /\ UNCHANGED <<backend, now, window, storeVars>>

\* SelectApp returns a candidate.
Choose(w) ==
    /\ pc[w] = "reading"
    /\ unread[w] = {}
    /\ \E a \in TopCandidates(owner[w], view[w]) : chosen' = [chosen EXCEPT ![w] = a]
    /\ pc' = [pc EXCEPT ![w] = "using"]
    /\ view' = [view EXCEPT ![w] = Nothing]
    /\ known' = [known EXCEPT ![w] = Nothing]
    /\ UNCHANGED <<backend, now, window, storeVars, owner, unread, seen, retryAfter>>

------------------------------------------------------------------------------
(* Using the app and recording what is left *)

\* client.RequestToken: GitHub counts the call ...
UseApp(w) ==
    /\ pc[w] = "using"
    /\ LET cur == CurrentWindow(chosen[w]) IN
         /\ cur.remaining > 0
         /\ window' = [window EXCEPT ![chosen[w]] = [cur EXCEPT !.remaining = @ - 1]]
    /\ pc' = [pc EXCEPT ![w] = "asking"]
    /\ UNCHANGED <<backend, now, storeVars, owner, view, unread, known, chosen, seen, retryAfter>>

\* ... or refuses it when none is left, and the exchange ends.
UseRefused(w) ==
    /\ pc[w] = "using"
    /\ CurrentWindow(chosen[w]).remaining = 0
    /\ EndCall(w)
    /\ UNCHANGED <<backend, now, window, storeVars, retryAfter>>

\* client.RateLimit: the current window, or the zero value when GitHub's
\* answer has no core limits.
AskRateLimit(w) ==
    /\ pc[w] = "asking"
    /\ \E s \in {CurrentWindow(chosen[w]), [remaining |-> 0, resetAt |-> 0]} :
         seen' = [seen EXCEPT ![w] = s]
    /\ pc' = [pc EXCEPT ![w] = "recording"]
    /\ UNCHANGED <<backend, now, window, storeVars, owner, view, unread, known, chosen, retryAfter>>

\* client.RateLimit fails: logged, and nothing is recorded.
AskFails(w) ==
    /\ pc[w] = "asking"
    /\ EndCall(w)
    /\ UNCHANGED <<backend, now, window, storeVars, retryAfter>>

RedisExpiry_FromNow(s) == now + TTLBuffer

\* When Redis expires a key written now.
RedisExpiry(s) == (IF s.resetAt > now THEN s.resetAt ELSE now) + TTLBuffer

\* expires_at of a DynamoDB item written now.
DynamoDBExpiry(s) == now + ItemTTL

LuaAccepts_AnyWindow(s, cur) == cur = NoState \/ s.remaining < cur.remaining

\* redis_setstate.lua's condition for writing s over cur.
LuaAccepts(s, cur) ==
    \/ cur = NoState
    \/ s.resetAt > cur.resetAt
    \/ s.resetAt = cur.resetAt /\ s.remaining < cur.remaining

\* The ConditionExpression of DynamoDBStore.SetState's PutItem.
ConditionHolds(s, cur) ==
    \/ cur = NoState
    \/ cur.resetAt < s.resetAt
    \/ cur.resetAt = s.resetAt /\ cur.remaining > s.remaining

\* MemoryStore.SetState, under the lock.
MemoryAccepts(s, cur) == Register!IsFresherThan(s, cur)

Accepts_Always(s, cur) == TRUE

\* Whether the configured backend writes s over cur.
Accepts(s, cur) ==
    CASE backend = "memory" -> MemoryAccepts(s, cur)
      [] backend = "redis" -> LuaAccepts(s, cur)
      [] backend = "dynamodb" -> ConditionHolds(s, cur)

\* When the backend drops what it wrote; the memory store never does.
DropTime(s) ==
    CASE backend = "memory" -> 0
      [] backend = "redis" -> RedisExpiry(s)
      [] backend = "dynamodb" -> DynamoDBExpiry(s)

SetState_MixesWindows(a, s) ==
    LET cur == store[a]
        old == IF cur = NoState THEN s ELSE cur
        new == [remaining |-> IF s.remaining < old.remaining THEN s.remaining ELSE old.remaining,
                resetAt |-> IF s.resetAt > old.resetAt THEN s.resetAt ELSE old.resetAt]
    IN  /\ store' = [store EXCEPT ![a] = new]
        /\ dropAt' = [dropAt EXCEPT ![a] = DropTime(new)]
        /\ UNCHANGED lagging

\* Store.SetState: test and write are one step in every backend; a state that
\* is not accepted is discarded.
SetState(a, s) ==
    IF Accepts(s, store[a])
    THEN /\ store' = [store EXCEPT ![a] = s]
         /\ dropAt' = [dropAt EXCEPT ![a] = DropTime(s)]
         /\ UNCHANGED lagging
    ELSE UNCHANGED storeVars

\* selector.RecordUsage; an error of the store is only logged.
RecordUsage(w) ==
    /\ pc[w] = "recording"
    /\ \/ SetState(chosen[w], seen[w])
       \/ backend # "memory" /\ UNCHANGED storeVars
    /\ EndCall(w)
    /\ UNCHANGED <<backend, now, window, retryAfter>>

\* Redis expires the key, DynamoDB's TTL sweep deletes the item.
DropState(a) ==
    /\ backend # "memory"
    /\ store[a] # NoState
    /\ now >= dropAt[a]
    /\ store' = [store EXCEPT ![a] = NoState]
    /\ UNCHANGED <<backend, now, window, dropAt, lagging, workerVars>>

\* DynamoDB brings the replica up to date, at any time.
Replicate(a) ==
    /\ backend = "dynamodb"
    /\ lagging[a] # store[a]
    /\ lagging' = [lagging EXCEPT ![a] = store[a]]
    /\ UNCHANGED <<backend, now, window, store, dropAt, workerVars>>

Tick ==
    /\ now < MaxTime
    /\ now' = now + 1
    /\ UNCHANGED <<backend, window, storeVars, workerVars>>

------------------------------------------------------------------------------
Init ==
    /\ backend \in Backends
    /\ now = 1  \* 0 is the zero time.Time, in the past
    /\ window = [a \in Apps |-> [remaining |-> Limit, resetAt |-> Window]]
    /\ store = [a \in Apps |-> NoState]
    /\ dropAt = [a \in Apps |-> 0]
    /\ lagging = [a \in Apps |-> NoState]
    /\ pc = [w \in Workers |-> "idle"]
    /\ owner = [w \in Workers |-> NoOwner]
    /\ view = [w \in Workers |-> [a \in Apps |-> NoState]]
    /\ unread = [w \in Workers |-> {}]
    /\ known = [w \in Workers |-> [a \in Apps |-> NoState]]
    /\ chosen = [w \in Workers |-> NoApp]
    /\ seen = [w \in Workers |-> NoState]
    /\ retryAfter = [w \in Workers |-> 0]

WorkerStep(w) ==
    \/ \E o \in Owners : StartSelect(w, o)
    \/ ReadStates(w)
    \/ ReadFails(w)
    \/ NoMatchingApp(w)
    \/ AllExhausted(w)
    \/ Choose(w)
    \/ UseApp(w)
    \/ UseRefused(w)
    \/ AskRateLimit(w)
    \/ AskFails(w)
    \/ RecordUsage(w)

Next ==
    \/ \E w \in Workers : WorkerStep(w)
    \/ \E a \in Apps : DropState(a) \/ Replicate(a)
    \/ Tick

Spec == Init /\ [][Next]_vars

------------------------------------------------------------------------------
(* Properties *)

\* The DynamoDB items live longer than a window: true of the default of 120
\* minutes against GitHub's 60, but not enforced by the configuration.
ItemsOutliveWindows == "dynamodb" \in Backends => ItemTTL > Window

\* The store is a freshest-observation register that forgets a window only
\* after it is over, whatever the backend and however late and out of order
\* answers are recorded (types.go:62-73, memory.go:48-60, redis.go:81-100,
\* redis_setstate.lua:26-36, dynamodb.go:92-130), if ItemsOutliveWindows.
ImplementsRegister == Register!RegisterSpec

\* An app that every copy of the store knew to be used up when SelectApp began
\* is not chosen before that window is over, although the store is read app
\* by app, from replicas that lag, while others write to it
\* (selector.go:67-131), if ItemsOutliveWindows.
NeverChoosesKnownExhausted ==
    [][\A w \in Workers :
         (pc[w] = "reading" /\ pc'[w] = "using") => ~UsedUp(known[w][chosen'[w]])]_vars

\* A caller is sent away (selector.go:113-115) only when every app of the
\* owner is really used up at GitHub at that moment, whatever states the call
\* read one after the other, how stale they were and in which order they had
\* been recorded; at the very instant of a reset IsExpired is still false, so
\* only then the refusal comes too late.
RefusalIsTrue ==
    [][\A w \in Workers :
         (retryAfter[w] = 0 /\ retryAfter'[w] # 0) =>
            \A a \in Matching(owner[w]) :
               CurrentWindow(a).remaining = 0 \/ view[w][a].resetAt = now]_vars

\* retry_after never sends the caller past the earliest reset of an app of
\* the owner, and undershoots it by less than a second, within its clamps;
\* when a reset is exactly now it is the default (selector.go:158-181).
RetryAfterIsTight ==
    [][\A w \in Workers :
         (retryAfter[w] = 0 /\ retryAfter'[w] # 0) =>
            LET k == retryAfter'[w]
                resets == {view[w][a].resetAt : a \in Matching(owner[w])}
                e == Earliest(resets)
            IN  \/ now \in resets
                \/ /\ k > MinRetrySeconds => now + k * TicksPerSecond <= e
                   /\ k < DefaultRetrySeconds => e < now + (k + 1) * TicksPerSecond]_vars
==============================================================================
