--------------------------- MODULE SelectorProofs ---------------------------
(***************************************************************************)
(* Proofs about Selector, for any number of apps, workers and owners, any  *)
(* organizations, limits, windows and lifetimes of the stores' entries.    *)
(* The last theorem is that every store backend implements the register of *)
(* RateLimitRegister.                                                      *)
(***************************************************************************)
EXTENDS Selector, NaturalFacts

------------------------------------------------------------------------------
(* The inductive invariant, by parts. *)

\* Past SelectApp a worker has an app, and past client.RateLimit an answer.
WorkerInv ==
    \A w \in Workers :
        /\ pc[w] \in {"using", "asking", "recording"} => chosen[w] \in Apps
        /\ pc[w] = "recording" => seen[w] \in RateLimits

\* What an answer of GitHub about an app says for as long as it is kept: it
\* is of no later window than one that starts now, an exhausted one is over
\* or the current one, and one of a later window than GitHub's is there only
\* when GitHub's is over.
Sound(a, s) ==
    /\ s.resetAt <= now + Window
    /\ s.remaining = 0 =>
          s.resetAt <= now \/ (s.resetAt = window[a].resetAt /\ window[a].remaining = 0)
    /\ s.resetAt > window[a].resetAt => now >= window[a].resetAt

\* Such an answer is all that the store and its replica hold, that is about
\* to be recorded, and that a call of SelectApp has read.
AnswerInv ==
    /\ \A a \in Apps : window[a].resetAt <= now + Window
    /\ \A a \in Apps : store[a] # NoState => Sound(a, store[a])
    /\ \A a \in Apps : lagging[a] # NoState => Sound(a, lagging[a])
    /\ \A w \in Workers : pc[w] = "recording" => Sound(chosen[w], seen[w])
    /\ \A w \in Workers, a \in Apps : view[w][a] # NoState => Sound(a, view[w][a])

\* A backend drops an entry only after the window in it.
DropInv ==
    \A a \in Apps : (store[a] # NoState /\ backend # "memory") => dropAt[a] > store[a].resetAt

\* While SelectApp reads, what every copy knew to be used up stays so in all of
\* them, and is what it has read.
KnownInv ==
    \A w \in Workers, a \in Apps :
        (pc[w] = "reading" /\ UsedUp(known[w][a])) =>
            /\ Copies(a) = {known[w][a]}
            /\ a \notin unread[w] => view[w][a] = known[w][a]

------------------------------------------------------------------------------
(* The operators *)

\* retryAfterFromStates finds the earliest reset that is ahead.
LEMMA EarliestIsLeast ==
    ASSUME NEW times, times \subseteq Nat, times # {}
    PROVE  Earliest(times) \in times /\ \A t \in times : Earliest(times) <= t
  BY LeastNatural DEF Earliest

\* A state that is known is a record of two numbers.
LEMMA StateTypes ==
    ASSUME NEW s \in StatesOrNone, s # NoState
    PROVE  /\ s \in RateLimits /\ s.remaining \in Nat /\ s.resetAt \in Nat
           /\ s.remaining <= Limit /\ s.resetAt <= MaxTime + Window
  BY SelectorConstants DEF StatesOrNone, RateLimits

\* The resets that retryAfterFromStates takes into account are ahead.
LEMMA ResetsAheadType ==
    ASSUME TypeOK, NEW o, NEW states \in [Apps -> StatesOrNone]
    PROVE  /\ ResetsAhead(o, states) \subseteq Nat
           /\ \A t \in ResetsAhead(o, states) : t > now
  <1> SUFFICES ASSUME NEW t \in ResetsAhead(o, states) PROVE t \in Nat /\ t > now
    OBVIOUS
  <1>1. PICK a \in Matching(o) : states[a] # NoState /\ states[a].resetAt > now /\ t = states[a].resetAt
    BY DEF ResetsAhead
  <1>2. a \in Apps
    BY DEF Matching
  <1> QED
    BY <1>1, <1>2, StateTypes

\* retryAfterFromStates returns whole seconds within its clamps.
LEMMA RetryAfterType ==
    ASSUME TypeOK, NEW o, NEW states \in [Apps -> StatesOrNone]
    PROVE  RetryAfterFromStates(o, states) \in MinRetrySeconds .. DefaultRetrySeconds
  <1> DEFINE ahead == ResetsAhead(o, states)
  <1>1. CASE ahead = {}
    BY <1>1, SelectorConstants DEF RetryAfterFromStates
  <1>2. CASE ahead # {}
    <2>0. ahead \subseteq Nat /\ (\A t \in ahead : t > now) /\ now \in Nat
      BY ResetsAheadType DEF TypeOK
    <2>1. Earliest(ahead) \in Nat /\ Earliest(ahead) > now
      <3> HIDE DEF ahead
      <3>1. Earliest(ahead) \in ahead
        BY <1>2, <2>0, EarliestIsLeast
      <3> QED
        BY <2>0, <3>1
    <2> DEFINE secs == (Earliest(ahead) - now) \div TicksPerSecond
    <2>2. secs \in Nat
      BY <2>0, <2>1, DivisionRoundsDown, SelectorConstants
    <2>3. RetryAfterFromStates(o, states) = Clamp(secs)
      BY <1>2 DEF RetryAfterFromStates
    <2> HIDE DEF secs
    <2> QED
      BY <2>2, <2>3, SelectorConstants DEF Clamp
  <1> QED
    BY <1>1, <1>2

\* GitHub's answer is of the window that is current, or of one that starts.
LEMMA CurrentWindowType ==
    ASSUME TypeOK, NEW a \in Apps
    PROVE  CurrentWindow(a) \in RateLimits
  BY SelectorConstants DEF TypeOK, CurrentWindow, RateLimits

------------------------------------------------------------------------------
(* Types *)

\* The store starts empty, and no worker has begun.
LEMMA TypeInit == Init => TypeOK /\ WorkerInv
  BY SelectorConstants DEF Init, TypeOK, WorkerInv, RateLimits, StatesOrNone

\* The end of a call keeps the types.
LEMMA EndCallType ==
    ASSUME TypeOK, WorkerInv, NEW w \in Workers, EndCall(w),
           UNCHANGED <<backend, now, window>>, store' \in [Apps -> StatesOrNone],
           dropAt' \in [Apps -> Nat], lagging' \in [Apps -> StatesOrNone],
           retryAfter' \in [Workers -> {0} \cup (MinRetrySeconds .. DefaultRetrySeconds)]
    PROVE  TypeOK' /\ WorkerInv'
  <1>1. Nothing \in [Apps -> StatesOrNone]
    BY DEF Nothing, StatesOrNone
  <1>2. TypeOK'
    BY <1>1 DEF TypeOK, EndCall, StatesOrNone
  <1>3. WorkerInv'
    BY DEF TypeOK, WorkerInv, EndCall
  <1> QED
    BY <1>2, <1>3

\* What SetState writes has its types.
LEMMA SetStateType ==
    ASSUME TypeOK, NEW a \in Apps, NEW s \in RateLimits, SetState(a, s)
    PROVE  /\ store' \in [Apps -> StatesOrNone] /\ dropAt' \in [Apps -> Nat]
           /\ lagging' = lagging
  <1>1. DropTime(s) \in Nat
    BY SelectorConstants DEF TypeOK, DropTime, RedisExpiry, DynamoDBExpiry, RateLimits
  <1> QED
    BY <1>1 DEF TypeOK, SetState, storeVars, StatesOrNone

\* Every step keeps the types.
LEMMA TypeStep == TypeOK /\ WorkerInv /\ [Next]_vars => TypeOK' /\ WorkerInv'
  <1> SUFFICES ASSUME TypeOK, WorkerInv, [Next]_vars PROVE TypeOK' /\ WorkerInv'
    OBVIOUS
  <1>1. ASSUME NEW w \in Workers, NEW o \in Owners, StartSelect(w, o) PROVE TypeOK' /\ WorkerInv'
    <2>1. KnownUsedUp \in [Apps -> StatesOrNone]
      BY DEF KnownUsedUp, TypeOK, StatesOrNone
    <2> QED
      BY <1>1, <2>1 DEF StartSelect, TypeOK, WorkerInv, storeVars
  <1>2. ASSUME NEW w \in Workers, ReadStates(w) PROVE TypeOK' /\ WorkerInv'
    <2>1. PICK as, read :
             /\ read \in [as -> StatesOrNone]
             /\ view' = [view EXCEPT ![w] = [a \in Apps |-> IF a \in as THEN read[a] ELSE @[a]]]
             /\ unread' = [unread EXCEPT ![w] = @ \ as]
      BY <1>2 DEF ReadStates
    <2>2. view' \in [Workers -> [Apps -> StatesOrNone]] /\ unread' \in [Workers -> SUBSET Apps]
      BY <2>1 DEF TypeOK
    <2> QED
      BY <1>2, <2>2 DEF ReadStates, TypeOK, WorkerInv, storeVars
  <1>3. ASSUME NEW w \in Workers, EndCall(w), UNCHANGED <<backend, now, window, storeVars, retryAfter>>
        PROVE  TypeOK' /\ WorkerInv'
    BY <1>3, EndCallType DEF TypeOK, storeVars
  <1>4. ASSUME NEW w \in Workers, AllExhausted(w) PROVE TypeOK' /\ WorkerInv'
    <2>1. RetryAfterFromStates(owner[w], view[w]) \in MinRetrySeconds .. DefaultRetrySeconds
      BY RetryAfterType DEF TypeOK
    <2>2. retryAfter' \in [Workers -> {0} \cup (MinRetrySeconds .. DefaultRetrySeconds)]
      BY <1>4, <2>1 DEF AllExhausted, TypeOK
    <2> QED
      BY <1>4, <2>2, EndCallType DEF AllExhausted, TypeOK, storeVars
  <1>5. ASSUME NEW w \in Workers, Choose(w) PROVE TypeOK' /\ WorkerInv'
    <2>1. PICK a \in TopCandidates(owner[w], view[w]) : chosen' = [chosen EXCEPT ![w] = a]
      BY <1>5 DEF Choose
    <2>2. a \in Apps /\ Nothing \in [Apps -> StatesOrNone]
      BY DEF TopCandidates, Matching, Nothing, StatesOrNone
    <2>3. TypeOK'
      BY <1>5, <2>1, <2>2 DEF Choose, TypeOK, storeVars
    <2>4. WorkerInv'
      BY <1>5, <2>1, <2>2 DEF Choose, TypeOK, WorkerInv
    <2> QED
      BY <2>3, <2>4
  <1>6. ASSUME NEW w \in Workers, UseApp(w) PROVE TypeOK' /\ WorkerInv'
    <2> DEFINE cur == CurrentWindow(chosen[w])
    <2>1. chosen[w] \in Apps /\ cur.remaining > 0
      BY <1>6 DEF UseApp, WorkerInv
    <2>2. cur \in RateLimits
      BY <2>1, CurrentWindowType
    <2> HIDE DEF cur
    <2>3. [cur EXCEPT !.remaining = @ - 1] \in RateLimits
      BY <2>1, <2>2, SelectorConstants DEF RateLimits
    <2>4. window' = [window EXCEPT ![chosen[w]] = [cur EXCEPT !.remaining = @ - 1]]
      BY <1>6 DEF UseApp, cur
    <2>5. window' \in [Apps -> RateLimits]
      BY <2>3, <2>4 DEF TypeOK
    <2> QED
      BY <1>6, <2>1, <2>5 DEF UseApp, TypeOK, WorkerInv, storeVars
  <1>7. ASSUME NEW w \in Workers, AskRateLimit(w) PROVE TypeOK' /\ WorkerInv'
    <2>1. chosen[w] \in Apps
      BY <1>7 DEF AskRateLimit, WorkerInv
    <2>2. [remaining |-> 0, resetAt |-> 0] \in RateLimits
      BY SelectorConstants DEF RateLimits
    <2>3. PICK s \in RateLimits : seen' = [seen EXCEPT ![w] = s]
      BY <1>7, <2>1, <2>2, CurrentWindowType DEF AskRateLimit
    <2> QED
      BY <1>7, <2>1, <2>3 DEF AskRateLimit, TypeOK, WorkerInv, StatesOrNone, storeVars
  <1>8. ASSUME NEW w \in Workers, RecordUsage(w) PROVE TypeOK' /\ WorkerInv'
    <2>1. chosen[w] \in Apps /\ seen[w] \in RateLimits
      BY <1>8 DEF RecordUsage, WorkerInv
    <2>2. /\ store' \in [Apps -> StatesOrNone] /\ dropAt' \in [Apps -> Nat]
          /\ lagging' \in [Apps -> StatesOrNone]
      BY <1>8, <2>1, SetStateType DEF RecordUsage, TypeOK, storeVars
    <2> QED
      BY <1>8, <2>2, EndCallType DEF RecordUsage, TypeOK
  <1>9. ASSUME NEW a \in Apps, DropState(a) PROVE TypeOK' /\ WorkerInv'
    BY <1>9 DEF DropState, TypeOK, WorkerInv, StatesOrNone, workerVars
  <1>10. CASE Tick
    BY <1>10, SelectorConstants DEF Tick, TypeOK, WorkerInv, storeVars, workerVars
  <1>11. ASSUME NEW a \in Apps, Replicate(a) PROVE TypeOK' /\ WorkerInv'
    BY <1>11 DEF Replicate, TypeOK, WorkerInv, workerVars
  <1>12. CASE UNCHANGED vars
    BY <1>12 DEF TypeOK, WorkerInv, vars, storeVars, workerVars
  <1> QED
    BY <1>1, <1>2, <1>3, <1>4, <1>5, <1>6, <1>7, <1>8, <1>9, <1>10, <1>11, <1>12
       DEF Next, WorkerStep, ReadFails, NoMatchingApp, UseRefused, AskFails

\* Every variable has its type in every reachable state; in particular
\* retry_after is 0 or within its clamps (selector.go:158-181).
THEOREM TypeCorrect == Spec => []TypeOK
  <1>1. Spec => [](TypeOK /\ WorkerInv)
    BY TypeInit, TypeStep, PTL DEF Spec
  <1> QED
    BY <1>1, PTL

------------------------------------------------------------------------------
(* The answers of GitHub *)

\* The types of the windows and of what is stored, seen and read.
AnswerTypes ==
    /\ now \in Nat /\ Window \in Nat \ {0} /\ Limit \in Nat \ {0}
    /\ \A a \in Apps : window[a].remaining \in Nat /\ window[a].resetAt \in Nat
    /\ \A a \in Apps : store[a] # NoState =>
          store[a].remaining \in Nat /\ store[a].resetAt \in Nat
    /\ \A a \in Apps : lagging[a] # NoState =>
          lagging[a].remaining \in Nat /\ lagging[a].resetAt \in Nat
    /\ \A w \in Workers, a \in Apps : view[w][a] # NoState =>
          view[w][a].remaining \in Nat /\ view[w][a].resetAt \in Nat
    /\ \A w \in Workers : pc[w] = "recording" =>
          chosen[w] \in Apps /\ seen[w].remaining \in Nat /\ seen[w].resetAt \in Nat

\* The part of the types that recorded answers need.
LEMMA TypesOfAnswers == TypeOK /\ WorkerInv => AnswerTypes
  BY SelectorConstants DEF TypeOK, WorkerInv, AnswerTypes, RateLimits, StatesOrNone

\* An answer stays sound as the clock advances (types.go: IsExpired).
LEMMA SoundTick ==
    ASSUME AnswerTypes, NEW a \in Apps, NEW s, s.resetAt \in Nat, Sound(a, s),
           now' = now + 1, UNCHANGED window
    PROVE  Sound(a, s)'
  BY DEF AnswerTypes, Sound

\* An answer stays sound when GitHub counts a call of an app: either the call
\* was left in the answer's window, or the window was over (client.go:
\* RequestToken).
LEMMA SoundUse ==
    ASSUME AnswerTypes, NEW a \in Apps, NEW s, s.resetAt \in Nat, Sound(a, s),
           NEW w \in Workers, chosen[w] \in Apps, window \in [Apps -> RateLimits], UseApp(w)
    PROVE  Sound(a, s)'
  <1> DEFINE b == chosen[w]
             cur == CurrentWindow(b)
  <1>1. /\ now' = now /\ cur.remaining > 0
        /\ window' = [window EXCEPT ![b] = [cur EXCEPT !.remaining = @ - 1]]
    BY DEF UseApp
  <1>2. CASE a # b
    <2>1. window'[a] = window[a]
      BY <1>1, <1>2
    <2> QED
      BY <1>1, <2>1 DEF Sound
  <1>3. CASE a = b /\ now >= window[a].resetAt
    <2>1. cur = [remaining |-> Limit, resetAt |-> now + Window]
      BY <1>3 DEF CurrentWindow
    <2>2. window'[a].resetAt = now + Window
      BY <1>1, <1>3, <2>1
    <2> QED
      BY <1>1, <1>3, <2>2 DEF AnswerTypes, Sound
  <1>4. CASE a = b /\ ~(now >= window[a].resetAt)
    <2>1. cur = window[a]
      BY <1>4 DEF CurrentWindow
    <2>2. window'[a].resetAt = window[a].resetAt /\ window[a].remaining > 0
      BY <1>1, <1>4, <2>1 DEF RateLimits
    <2> QED
      BY <1>1, <1>4, <2>2 DEF AnswerTypes, Sound
  <1> QED
    BY <1>2, <1>3, <1>4

\* The answer of client.RateLimit is sound when it is given, the zero value
\* too.
LEMMA SoundAnswer ==
    ASSUME AnswerTypes, AnswerInv, NEW a \in Apps, now >= 1,
           NEW s \in {CurrentWindow(a), [remaining |-> 0, resetAt |-> 0]}
    PROVE  Sound(a, s)
  <1>1. CASE s = [remaining |-> 0, resetAt |-> 0]
    BY <1>1 DEF AnswerTypes, Sound
  <1>2. CASE s = CurrentWindow(a) /\ now >= window[a].resetAt
    <2>1. s.remaining = Limit /\ s.resetAt = now + Window
      BY <1>2 DEF CurrentWindow
    <2> QED
      BY <1>2, <2>1 DEF AnswerTypes, Sound
  <1>3. CASE s = CurrentWindow(a) /\ ~(now >= window[a].resetAt)
    <2>1. s = window[a]
      BY <1>3 DEF CurrentWindow
    <2> QED
      BY <1>3, <2>1 DEF AnswerTypes, AnswerInv, Sound
  <1> QED
    BY <1>1, <1>2, <1>3

\* A step that does not change the clock or GitHub's windows, and puts sound
\* answers where it puts any, keeps all of them sound.
LEMMA AnswerSame ==
    ASSUME AnswerInv, UNCHANGED <<now, window>>,
           \A a \in Apps : store'[a] # NoState =>
               (store[a] # NoState /\ store'[a] = store[a]) \/ Sound(a, store'[a]),
           \A a \in Apps : lagging'[a] # NoState =>
               (lagging[a] # NoState /\ lagging'[a] = lagging[a]) \/ Sound(a, lagging'[a]),
           \A w \in Workers : pc'[w] = "recording" =>
               (pc[w] = "recording" /\ chosen'[w] = chosen[w] /\ seen'[w] = seen[w])
               \/ Sound(chosen'[w], seen'[w]),
           \A w \in Workers, a \in Apps : view'[w][a] # NoState =>
               (view[w][a] # NoState /\ view'[w][a] = view[w][a]) \/ Sound(a, view'[w][a])
    PROVE  AnswerInv'
  BY DEF AnswerInv, Sound

\* What SetState leaves in the store was there or is what it was given.
LEMMA SetStateEffect ==
    ASSUME TypeOK, NEW a \in Apps, NEW s, SetState(a, s)
    PROVE  /\ lagging' = lagging
           /\ \A b \in Apps : b # a => store'[b] = store[b] /\ dropAt'[b] = dropAt[b]
           /\ \/ store' = store /\ dropAt' = dropAt
              \/ /\ Accepts(s, store[a]) /\ store' = [store EXCEPT ![a] = s]
                 /\ store'[a] = s /\ dropAt'[a] = DropTime(s)
  BY DEF TypeOK, SetState, storeVars

\* Who ends a call records no more, and the others go on as they were.
LEMMA EndCallEffect ==
    ASSUME TypeOK, NEW w \in Workers, EndCall(w)
    PROVE  /\ pc'[w] = "idle"
           /\ \A a \in Apps : view'[w][a] = NoState
           /\ \A v \in Workers : v # w =>
                 /\ pc'[v] = pc[v] /\ chosen'[v] = chosen[v] /\ seen'[v] = seen[v]
                 /\ view'[v] = view[v] /\ known'[v] = known[v] /\ unread'[v] = unread[v]
  BY DEF TypeOK, EndCall, Nothing

\* Every step keeps the answers sound.
LEMMA AnswerStep == TypeOK /\ WorkerInv /\ AnswerInv /\ [Next]_vars => AnswerInv'
  <1> SUFFICES ASSUME TypeOK, WorkerInv, AnswerInv, [Next]_vars PROVE AnswerInv'
    OBVIOUS
  <1>0. AnswerTypes /\ now >= 1
    BY TypesOfAnswers DEF TypeOK
  <1>1. ASSUME NEW w \in Workers, NEW o \in Owners, StartSelect(w, o) PROVE AnswerInv'
    BY <1>1, AnswerSame DEF StartSelect, TypeOK, storeVars
  <1>2. ASSUME NEW w \in Workers, ReadStates(w) PROVE AnswerInv'
    <2>1. PICK as, read :
             /\ read \in [as -> StatesOrNone]
             /\ \A a \in as : read[a] \in Copies(a)
             /\ view' = [view EXCEPT ![w] = [a \in Apps |-> IF a \in as THEN read[a] ELSE @[a]]]
             /\ unread' = [unread EXCEPT ![w] = @ \ as]
      BY <1>2 DEF ReadStates
    <2>2. /\ \A a \in Apps : view'[w][a] = IF a \in as THEN read[a] ELSE view[w][a]
          /\ \A v \in Workers : v # w => view'[v] = view[v]
      BY <2>1 DEF TypeOK
    <2>3. \A a \in Apps : (a \in as /\ read[a] # NoState) => Sound(a, read[a])
      BY <2>1 DEF Copies, AnswerInv
    <2>4. \A v \in Workers, a \in Apps : view'[v][a] # NoState =>
             (view[v][a] # NoState /\ view'[v][a] = view[v][a]) \/ Sound(a, view'[v][a])
      <3> SUFFICES ASSUME NEW v \in Workers, NEW a \in Apps, view'[v][a] # NoState
                   PROVE  (view[v][a] # NoState /\ view'[v][a] = view[v][a]) \/ Sound(a, view'[v][a])
        OBVIOUS
      <3>1. CASE v = w /\ a \in as
        BY <2>2, <2>3, <3>1
      <3>2. CASE v # w \/ a \notin as
        BY <2>2, <3>2
      <3> QED
        BY <3>1, <3>2
    <2>5. UNCHANGED <<now, window, store, lagging, pc, chosen, seen>>
      BY <1>2 DEF ReadStates, storeVars
    <2> QED
      BY <2>4, <2>5, AnswerSame
  <1>3. ASSUME NEW w \in Workers, EndCall(w), UNCHANGED <<now, window, storeVars>>
        PROVE  AnswerInv'
    BY <1>3, EndCallEffect, AnswerSame DEF storeVars
  <1>4. ASSUME NEW w \in Workers, Choose(w) PROVE AnswerInv'
    <2>1. /\ UNCHANGED <<now, window, store, lagging, seen>>
          /\ pc'[w] = "using" /\ \A a \in Apps : view'[w][a] = NoState
          /\ \A v \in Workers : v # w =>
                pc'[v] = pc[v] /\ chosen'[v] = chosen[v] /\ view'[v] = view[v]
      BY <1>4 DEF Choose, TypeOK, storeVars, Nothing
    <2> QED
      BY <2>1, AnswerSame
  <1>5. ASSUME NEW w \in Workers, UseApp(w) PROVE AnswerInv'
    <2>1. chosen[w] \in Apps /\ window \in [Apps -> RateLimits]
      BY <1>5 DEF UseApp, WorkerInv, TypeOK
    <2>2. /\ UNCHANGED <<now, store, lagging, chosen, seen, view>>
          /\ \A v \in Workers : pc'[v] = "recording" => pc[v] = "recording"
      BY <1>5 DEF UseApp, TypeOK, storeVars
    <2>3. \A a \in Apps : store[a] # NoState => Sound(a, store[a])'
      BY <1>0, <1>5, <2>1, <2>2, SoundUse DEF AnswerTypes, AnswerInv
    <2>4. \A v \in Workers : pc'[v] = "recording" => Sound(chosen[v], seen[v])'
      BY <1>0, <1>5, <2>1, <2>2, SoundUse DEF AnswerTypes, AnswerInv
    <2>5. \A a \in Apps : window'[a].resetAt <= now + Window
      <3> DEFINE b == chosen[w]
                 cur == CurrentWindow(b)
      <3>1. window' = [window EXCEPT ![b] = [cur EXCEPT !.remaining = @ - 1]]
        BY <1>5 DEF UseApp
      <3>2. cur \in RateLimits /\ cur.resetAt <= now + Window
        BY <1>0, <2>1, CurrentWindowType DEF CurrentWindow, AnswerTypes, AnswerInv
      <3> HIDE DEF cur
      <3>3. window'[b].resetAt = cur.resetAt
        BY <2>1, <3>1, <3>2 DEF RateLimits
      <3> QED
        BY <2>1, <3>1, <3>2, <3>3 DEF AnswerInv
    <2>6. \A a \in Apps : lagging[a] # NoState => Sound(a, lagging[a])'
      BY <1>0, <1>5, <2>1, <2>2, SoundUse DEF AnswerTypes, AnswerInv
    <2>7. \A v \in Workers, a \in Apps : view[v][a] # NoState => Sound(a, view[v][a])'
      BY <1>0, <1>5, <2>1, <2>2, SoundUse DEF AnswerTypes, AnswerInv
    <2> QED
      BY <2>2, <2>3, <2>4, <2>5, <2>6, <2>7 DEF AnswerInv
  <1>6. ASSUME NEW w \in Workers, AskRateLimit(w) PROVE AnswerInv'
    <2>1. chosen[w] \in Apps
      BY <1>6 DEF AskRateLimit, WorkerInv
    <2>2. PICK s \in {CurrentWindow(chosen[w]), [remaining |-> 0, resetAt |-> 0]} :
             seen' = [seen EXCEPT ![w] = s]
      BY <1>6 DEF AskRateLimit
    <2>3. Sound(chosen[w], s)
      BY <1>0, <2>1, SoundAnswer
    <2>4. seen'[w] = s /\ \A v \in Workers : v # w => seen'[v] = seen[v] /\ pc'[v] = pc[v]
      BY <1>6, <2>2 DEF AskRateLimit, TypeOK
    <2> QED
      BY <1>6, <2>3, <2>4, AnswerSame DEF AskRateLimit, storeVars
  <1>7. ASSUME NEW w \in Workers, RecordUsage(w) PROVE AnswerInv'
    <2>1. chosen[w] \in Apps /\ Sound(chosen[w], seen[w])
      BY <1>7 DEF RecordUsage, WorkerInv, AnswerInv
    <2>2. \A a \in Apps : store'[a] # NoState =>
             (store[a] # NoState /\ store'[a] = store[a]) \/ Sound(a, store'[a])
      <3>1. CASE SetState(chosen[w], seen[w])
        BY <2>1, <3>1, SetStateEffect
      <3>2. CASE UNCHANGED storeVars
        BY <3>2 DEF storeVars
      <3> QED
        BY <1>7, <3>1, <3>2 DEF RecordUsage
    <2>3. EndCall(w) /\ UNCHANGED <<now, window, lagging>>
      BY <1>7, <2>1, SetStateEffect DEF RecordUsage, storeVars
    <2> QED
      BY <2>2, <2>3, EndCallEffect, AnswerSame
  <1>8. ASSUME NEW a \in Apps, DropState(a) PROVE AnswerInv'
    BY <1>8, AnswerSame DEF DropState, TypeOK, workerVars
  <1>9. CASE Tick
    <2>1. now' = now + 1 /\ UNCHANGED <<window, store, lagging, pc, chosen, seen, view>>
      BY <1>9 DEF Tick, storeVars, workerVars
    <2>2. \A a \in Apps : store[a] # NoState => Sound(a, store[a])'
      BY <1>0, <2>1, SoundTick DEF AnswerTypes, AnswerInv
    <2>3. \A v \in Workers : pc[v] = "recording" => Sound(chosen[v], seen[v])'
      BY <1>0, <2>1, SoundTick DEF AnswerTypes, AnswerInv
    <2>4. \A a \in Apps : window[a].resetAt <= now' + Window
      BY <1>0, <2>1 DEF AnswerTypes, AnswerInv
    <2>5. \A a \in Apps : lagging[a] # NoState => Sound(a, lagging[a])'
      BY <1>0, <2>1, SoundTick DEF AnswerTypes, AnswerInv
    <2>6. \A v \in Workers, a \in Apps : view[v][a] # NoState => Sound(a, view[v][a])'
      BY <1>0, <2>1, SoundTick DEF AnswerTypes, AnswerInv
    <2> QED
      BY <2>1, <2>2, <2>3, <2>4, <2>5, <2>6 DEF AnswerInv
  <1>10. ASSUME NEW a \in Apps, Replicate(a) PROVE AnswerInv'
    <2>1. /\ lagging'[a] = store[a] /\ \A b \in Apps : b # a => lagging'[b] = lagging[b]
          /\ UNCHANGED <<now, window, store, pc, chosen, seen, view>>
      BY <1>10 DEF Replicate, TypeOK, workerVars
    <2> QED
      BY <2>1, AnswerSame DEF AnswerInv
  <1>11. CASE UNCHANGED vars
    BY <1>11, AnswerSame DEF vars, storeVars, workerVars
  <1> QED
    BY <1>1, <1>2, <1>3, <1>4, <1>5, <1>6, <1>7, <1>8, <1>9, <1>10, <1>11
       DEF Next, WorkerStep, ReadFails, NoMatchingApp, AllExhausted, UseRefused, AskFails

------------------------------------------------------------------------------
(* What the backends drop *)

\* A backend keeps what it writes beyond the window in it: Redis by its
\* buffer, DynamoDB if its TTL is longer than a window (redis.go:81-100,
\* dynamodb.go:92-130).
LEMMA DropTimeIsLate ==
    ASSUME ItemsOutliveWindows, AnswerTypes, NEW a, NEW s, s.resetAt \in Nat, Sound(a, s),
           backend \in Backends, backend # "memory"
    PROVE  DropTime(s) > s.resetAt
  <1>1. CASE backend = "redis"
    <2>1. DropTime(s) = (IF s.resetAt > now THEN s.resetAt ELSE now) + TTLBuffer
      BY <1>1 DEF DropTime, RedisExpiry
    <2>2. CASE s.resetAt > now
      BY <2>1, <2>2, SelectorConstants DEF AnswerTypes
    <2>3. CASE ~(s.resetAt > now)
      BY <2>1, <2>3, SelectorConstants DEF AnswerTypes
    <2> QED
      BY <2>2, <2>3
  <1>2. CASE backend = "dynamodb"
    <2>1. DropTime(s) = now + ItemTTL
      BY <1>2 DEF DropTime, DynamoDBExpiry
    <2> QED
      BY <1>2, <2>1, SelectorConstants DEF AnswerTypes, Sound, ItemsOutliveWindows
  <1> QED
    BY <1>1, <1>2, SelectorConstants

\* No step makes a backend drop an entry too early.
LEMMA DropStep ==
    ASSUME ItemsOutliveWindows
    PROVE  TypeOK /\ WorkerInv /\ AnswerInv /\ DropInv /\ [Next]_vars => DropInv'
  <1> SUFFICES ASSUME TypeOK, WorkerInv, AnswerInv, DropInv, [Next]_vars PROVE DropInv'
    OBVIOUS
  <1>0. AnswerTypes
    BY TypesOfAnswers
  <1>1. CASE UNCHANGED <<backend, store, dropAt>>
    BY <1>1 DEF DropInv
  <1>2. ASSUME NEW w \in Workers, pc[w] = "recording", SetState(chosen[w], seen[w]), UNCHANGED backend
        PROVE  DropInv'
    <2>1. chosen[w] \in Apps /\ Sound(chosen[w], seen[w]) /\ seen[w].resetAt \in Nat
      BY <1>0, <1>2 DEF AnswerTypes, AnswerInv
    <2>2. backend # "memory" => DropTime(seen[w]) > seen[w].resetAt
      BY <1>0, <2>1, DropTimeIsLate DEF TypeOK
    <2> QED
      BY <1>2, <2>1, <2>2, SetStateEffect DEF DropInv
  <1>3. ASSUME NEW a \in Apps, DropState(a) PROVE DropInv'
    BY <1>3 DEF DropState, DropInv, TypeOK
  <1> QED
    BY <1>1, <1>2, <1>3
       DEF Next, WorkerStep, StartSelect, ReadStates, ReadFails, NoMatchingApp, AllExhausted, Choose,
           UseApp, UseRefused, AskRateLimit, AskFails, RecordUsage, Replicate, Tick, vars, storeVars

------------------------------------------------------------------------------
(* What a reader may have known *)

\* Nothing is fresher than a used up state of a window that is not over: the
\* answers of the next window come after it (types.go:62-73).
LEMMA NothingFresher ==
    ASSUME AnswerTypes, NEW a \in Apps, store[a] # NoState, Sound(a, store[a]),
           UsedUp(store[a]), NEW s, s.resetAt \in Nat, s.remaining \in Nat, Sound(a, s),
           backend \in Backends
    PROVE  ~Accepts(s, store[a])
  <1>1. store[a].remaining = 0 /\ now < store[a].resetAt
    BY DEF UsedUp
  <1>2. store[a].resetAt = window[a].resetAt
    BY <1>1 DEF AnswerTypes, Sound
  <1>3. s.resetAt <= store[a].resetAt /\ ~(s.remaining < store[a].remaining)
    BY <1>1, <1>2 DEF AnswerTypes, Sound
  <1>4. /\ ~(s.resetAt > store[a].resetAt)
        /\ ~(store[a].resetAt < s.resetAt)
        /\ ~(store[a].remaining > s.remaining)
    BY <1>3 DEF AnswerTypes
  <1>5. ~MemoryAccepts(s, store[a]) /\ ~LuaAccepts(s, store[a]) /\ ~ConditionHolds(s, store[a])
    BY <1>3, <1>4 DEF MemoryAccepts, LuaAccepts, ConditionHolds, Register!IsFresherThan
  <1> QED
    BY <1>5, SelectorConstants DEF Accepts

\* The window of an entry the store may drop is over (redis.go:86-88,
\* dynamodb.go:97-100).
LEMMA DroppedIsOver ==
    ASSUME TypeOK, AnswerTypes, DropInv, NEW a \in Apps, DropState(a)
    PROVE  ~UsedUp(store[a])
  BY DEF TypeOK, AnswerTypes, DropInv, DropState, UsedUp

\* As long as the clock and the readers' state stay as they are, copies that
\* keep what all of them call used up keep what the readers know.
LEMMA KnownSame ==
    ASSUME KnownInv, UNCHANGED now,
           \A a \in Apps : (UsedUp(store[a]) /\ Copies(a) = {store[a]}) => Copies(a)' = Copies(a),
           \A w \in Workers : pc'[w] = "reading" =>
               /\ pc[w] = "reading" /\ known'[w] = known[w]
               /\ view'[w] = view[w] /\ unread'[w] = unread[w]
    PROVE  KnownInv'
  <1> SUFFICES ASSUME NEW w \in Workers, NEW a \in Apps, pc'[w] = "reading", UsedUp(known[w][a])'
               PROVE  /\ Copies(a)' = {known'[w][a]}
                      /\ a \notin unread'[w] => view'[w][a] = known'[w][a]
    BY DEF KnownInv
  <1>1. pc[w] = "reading" /\ known'[w] = known[w] /\ view'[w] = view[w] /\ unread'[w] = unread[w]
    OBVIOUS
  <1>2. UsedUp(known[w][a])
    BY <1>1 DEF UsedUp
  <1>3. Copies(a) = {known[w][a]} /\ (a \notin unread[w] => view[w][a] = known[w][a])
    BY <1>1, <1>2 DEF KnownInv
  <1>4. store[a] = known[w][a]
    BY <1>3 DEF Copies
  <1>5. Copies(a)' = Copies(a)
    BY <1>2, <1>3, <1>4
  <1> QED
    BY <1>1, <1>3, <1>5

\* Copies whose store, replica and backend stay as they are stay the same.
LEMMA CopiesSame ==
    ASSUME NEW a, store'[a] = store[a], lagging'[a] = lagging[a], backend' = backend
    PROVE  Copies(a)' = Copies(a)
  BY DEF Copies

\* No step takes away what all copies knew to be used up when a reader began.
LEMMA KnownStep ==
    TypeOK /\ WorkerInv /\ AnswerInv /\ DropInv /\ KnownInv /\ [Next]_vars => KnownInv'
  <1> SUFFICES ASSUME TypeOK, WorkerInv, AnswerInv, DropInv, KnownInv, [Next]_vars PROVE KnownInv'
    OBVIOUS
  <1>0. AnswerTypes
    BY TypesOfAnswers
  <1>1. ASSUME NEW w \in Workers, NEW o \in Owners, StartSelect(w, o) PROVE KnownInv'
    <2>1. /\ UNCHANGED <<backend, now, store, lagging, view>>
          /\ known'[w] = KnownUsedUp /\ unread'[w] = Apps
          /\ \A v \in Workers : v # w =>
                pc'[v] = pc[v] /\ known'[v] = known[v] /\ unread'[v] = unread[v]
      BY <1>1 DEF StartSelect, TypeOK, storeVars
    <2>2. \A a \in Apps : Copies(a)' = Copies(a)
      BY <2>1, CopiesSame
    <2>3. \A a \in Apps : KnownUsedUp[a] # NoState => Copies(a) = {KnownUsedUp[a]}
      BY DEF KnownUsedUp
    <2> QED
      BY <2>1, <2>2, <2>3 DEF KnownInv, UsedUp
  <1>2. ASSUME NEW w \in Workers, ReadStates(w) PROVE KnownInv'
    <2>1. PICK as, read :
             /\ read \in [as -> StatesOrNone]
             /\ \A a \in as : read[a] \in Copies(a)
             /\ view' = [view EXCEPT ![w] = [a \in Apps |-> IF a \in as THEN read[a] ELSE @[a]]]
             /\ unread' = [unread EXCEPT ![w] = @ \ as]
      BY <1>2 DEF ReadStates
    <2>2. /\ unread'[w] = unread[w] \ as
          /\ \A a \in Apps : view'[w][a] = IF a \in as THEN read[a] ELSE view[w][a]
          /\ \A v \in Workers : v # w => view'[v] = view[v] /\ unread'[v] = unread[v]
      BY <2>1 DEF TypeOK
    <2>3. UNCHANGED <<backend, now, store, lagging, pc, known>>
      BY <1>2 DEF ReadStates, storeVars
    <2>4. ASSUME NEW v \in Workers, NEW a \in Apps, pc[v] = "reading", UsedUp(known[v][a])
          PROVE  Copies(a) = {known[v][a]} /\ (a \notin unread'[v] => view'[v][a] = known[v][a])
      <3>1. Copies(a) = {known[v][a]} /\ (a \notin unread[v] => view[v][a] = known[v][a])
        BY <2>4 DEF KnownInv
      <3>2. CASE v = w
        <4>1. a \in as => read[a] = known[v][a]
          BY <2>1, <3>1
        <4> QED
          BY <2>2, <3>1, <3>2, <4>1
      <3>3. CASE v # w
        BY <2>2, <3>1, <3>3
      <3> QED
        BY <3>2, <3>3
    <2>5. \A v \in Workers, a \in Apps : UsedUp(known[v][a])' <=> UsedUp(known[v][a])
      BY <2>3 DEF UsedUp
    <2>6. \A a \in Apps : Copies(a)' = Copies(a)
      BY <2>3, CopiesSame
    <2> QED
      BY <2>3, <2>4, <2>5, <2>6 DEF KnownInv
  <1>3. ASSUME NEW w \in Workers, EndCall(w), UNCHANGED <<backend, now, storeVars>> PROVE KnownInv'
    <2>1. \A a \in Apps : Copies(a)' = Copies(a)
      BY <1>3, CopiesSame DEF storeVars
    <2> QED
      BY <1>3, <2>1, EndCallEffect, KnownSame
  <1>4. ASSUME NEW w \in Workers, Choose(w) \/ UseApp(w) \/ AskRateLimit(w) PROVE KnownInv'
    <2>1. \A a \in Apps : Copies(a)' = Copies(a)
      BY <1>4, CopiesSame DEF Choose, UseApp, AskRateLimit, storeVars
    <2> QED
      BY <1>4, <2>1, KnownSame DEF Choose, UseApp, AskRateLimit, TypeOK
  <1>5. ASSUME NEW w \in Workers, RecordUsage(w) PROVE KnownInv'
    <2>1. /\ chosen[w] \in Apps /\ Sound(chosen[w], seen[w])
          /\ seen[w].resetAt \in Nat /\ seen[w].remaining \in Nat
      BY <1>0, <1>5 DEF RecordUsage, AnswerTypes, AnswerInv
    <2>2. EndCall(w) /\ UNCHANGED <<backend, now, lagging>>
      BY <1>5, <2>1, SetStateEffect DEF RecordUsage, storeVars
    <2>3. ASSUME NEW a \in Apps, UsedUp(store[a]) PROVE store'[a] = store[a]
      <3>1. CASE UNCHANGED storeVars
        BY <3>1 DEF storeVars
      <3>2. CASE SetState(chosen[w], seen[w]) /\ a # chosen[w]
        BY <2>1, <3>2, SetStateEffect
      <3>3. CASE SetState(chosen[w], seen[w]) /\ a = chosen[w]
        <4>1. store[a] # NoState /\ Sound(a, store[a])
          BY <2>3 DEF UsedUp, AnswerInv
        <4>2. ~Accepts(seen[w], store[a])
          BY <1>0, <2>1, <2>3, <3>3, <4>1, NothingFresher DEF TypeOK
        <4> QED
          BY <3>3, <4>2 DEF SetState, storeVars
      <3> QED
        BY <1>5, <3>1, <3>2, <3>3 DEF RecordUsage
    <2>4. \A a \in Apps : UsedUp(store[a]) => Copies(a)' = Copies(a)
      BY <2>2, <2>3, CopiesSame
    <2> QED
      BY <2>2, <2>4, EndCallEffect, KnownSame
  <1>6. ASSUME NEW a \in Apps, DropState(a) PROVE KnownInv'
    <2>1. ~UsedUp(store[a])
      BY <1>0, <1>6, DroppedIsOver
    <2>2. \A b \in Apps : UsedUp(store[b]) => store'[b] = store[b]
      BY <1>6, <2>1 DEF DropState, TypeOK
    <2>3. \A b \in Apps : UsedUp(store[b]) => Copies(b)' = Copies(b)
      BY <1>6, <2>2, CopiesSame DEF DropState
    <2> QED
      BY <1>6, <2>3, KnownSame DEF DropState, workerVars
  <1>7. ASSUME NEW a \in Apps, Replicate(a) PROVE KnownInv'
    <2>1. /\ lagging[a] # store[a] /\ backend = "dynamodb" /\ UNCHANGED <<backend, now, store>>
          /\ \A b \in Apps : b # a => lagging'[b] = lagging[b]
      BY <1>7 DEF Replicate, TypeOK
    <2>2. Copies(a) # {store[a]}
      BY <2>1 DEF Copies
    <2>3. \A b \in Apps : Copies(b) = {store[b]} => Copies(b)' = Copies(b)
      BY <2>1, <2>2, CopiesSame
    <2> QED
      BY <1>7, <2>3, KnownSame DEF Replicate, workerVars
  <1>8. CASE Tick
    <2>1. /\ now' = now + 1 /\ now \in Nat
          /\ UNCHANGED <<backend, store, lagging, pc, known, view, unread>>
      BY <1>8 DEF Tick, TypeOK, storeVars, workerVars
    <2>2. ASSUME NEW w \in Workers, NEW a \in Apps, UsedUp(known[w][a])' PROVE UsedUp(known[w][a])
      <3>1. known[w][a] # NoState /\ known[w][a] \in StatesOrNone
        BY <2>1, <2>2 DEF UsedUp, TypeOK
      <3>2. known[w][a].resetAt \in Nat
        BY <3>1, StateTypes
      <3> QED
        BY <2>1, <2>2, <3>2 DEF UsedUp
    <2>3. \A a \in Apps : Copies(a)' = Copies(a)
      BY <2>1, CopiesSame
    <2> QED
      BY <2>1, <2>2, <2>3 DEF KnownInv
  <1>9. CASE UNCHANGED vars
    <2>1. \A a \in Apps : Copies(a)' = Copies(a)
      BY <1>9, CopiesSame DEF vars, storeVars
    <2> QED
      BY <1>9, <2>1, KnownSame DEF vars, workerVars
  <1> QED
    BY <1>1, <1>2, <1>3, <1>4, <1>5, <1>6, <1>7, <1>8, <1>9
       DEF Next, WorkerStep, ReadFails, NoMatchingApp, AllExhausted, UseRefused, AskFails

------------------------------------------------------------------------------
(* The theorems *)

Inv == TypeOK /\ WorkerInv /\ AnswerInv

\* What holds as well when no store drops an entry before its window is over.
StoreInv == Inv /\ DropInv /\ KnownInv

\* Nothing is stored, seen or known at the start.
LEMMA InvInit == Init => StoreInv
  <1> SUFFICES ASSUME Init PROVE StoreInv
    OBVIOUS
  <1>1. TypeOK /\ WorkerInv
    BY TypeInit
  <1>2. AnswerInv
    BY SelectorConstants DEF Init, AnswerInv
  <1>3. DropInv /\ KnownInv
    BY DEF Init, DropInv, KnownInv
  <1> QED
    BY <1>1, <1>2, <1>3 DEF Inv, StoreInv

\* Every step of a worker, of GitHub, of the store and of the clock keeps the
\* types and the answers sound.
LEMMA InvStep == Inv /\ [Next]_vars => Inv'
  BY TypeStep, AnswerStep DEF Inv

\* The answers are sound throughout.
LEMMA InvAlways == Spec => []Inv
  <1>1. Init => Inv
    BY InvInit DEF StoreInv
  <1> QED
    BY <1>1, InvStep, PTL DEF Spec

\* The whole invariant holds throughout when DynamoDB keeps its items for
\* longer than a window (dynamodb.go:97-100).
LEMMA StoreInvAlways ==
    ASSUME ItemsOutliveWindows
    PROVE  Spec => []StoreInv
  <1>1. StoreInv /\ [Next]_vars => StoreInv'
    BY InvStep, DropStep, KnownStep DEF StoreInv, Inv
  <1> QED
    BY <1>1, InvInit, PTL DEF Spec

\* Only a step of AllExhausted sends a caller away (selector.go:113-115).
LEMMA RefusalStep ==
    ASSUME TypeOK, Next, NEW w \in Workers, retryAfter[w] = 0, retryAfter'[w] # 0
    PROVE  AllExhausted(w)
  <1>1. ASSUME NEW v \in Workers, WorkerStep(v) PROVE AllExhausted(w)
    BY <1>1
       DEF WorkerStep, StartSelect, ReadStates, ReadFails, NoMatchingApp, AllExhausted, Choose,
           UseApp, UseRefused, AskRateLimit, AskFails, RecordUsage, TypeOK
  <1> QED
    BY <1>1 DEF Next, DropState, Replicate, Tick, workerVars

\* A caller is sent away only when every app of the owner is used up at
\* GitHub, or one's window ends at this very instant: however stale the
\* copies that were read one after the other, however late and out of order
\* the answers in them were recorded, and even when a store drops entries
\* early (selector.go:67-131).
THEOREM RefusalIsTrueAlways == Spec => RefusalIsTrue
  <1> DEFINE A == \A w \in Workers :
         (retryAfter[w] = 0 /\ retryAfter'[w] # 0) =>
            \A a \in Matching(owner[w]) :
               CurrentWindow(a).remaining = 0 \/ view[w][a].resetAt = now
  <1>1. Inv /\ [Next]_vars => [A]_vars
    <2> SUFFICES ASSUME Inv, Next, NEW w \in Workers, retryAfter[w] = 0, retryAfter'[w] # 0,
                        NEW a \in Matching(owner[w]), view[w][a].resetAt # now
                 PROVE  CurrentWindow(a).remaining = 0
      OBVIOUS
    <2>0. TypeOK /\ AnswerTypes /\ a \in Apps
      BY TypesOfAnswers DEF Inv, Matching
    <2>1. ~IsCandidate(view[w][a])
      BY <2>0, RefusalStep DEF AllExhausted
    <2>2. view[w][a] # NoState /\ ~(now > view[w][a].resetAt) /\ ~(view[w][a].remaining > 0)
      BY <2>1 DEF IsCandidate, Unlimited, IsExpired, HasCapacity, Register!IsExpired,
                  Register!HasCapacity
    <2>3. view[w][a].remaining = 0 /\ now < view[w][a].resetAt
      BY <2>0, <2>2 DEF AnswerTypes
    <2>4. Sound(a, view[w][a])
      BY <2>0, <2>2 DEF Inv, AnswerInv
    <2>5. now \in Nat /\ view[w][a].resetAt \in Nat /\ window[a].resetAt \in Nat
      BY <2>0, <2>2 DEF AnswerTypes
    <2>6. ~(view[w][a].resetAt <= now)
      BY <2>3, <2>5
    <2>7. now < window[a].resetAt /\ window[a].remaining = 0
      BY <2>3, <2>4, <2>6 DEF Sound
    <2> QED
      BY <2>5, <2>7 DEF CurrentWindow
  <1> QED
    BY <1>1, InvAlways, PTL DEF Spec, RefusalIsTrue

\* SelectApp does not choose an app that every copy of the store knew to be
\* used up when it began to read, before that window is over, although it
\* reads app by app, in DynamoDB from replicas that lag, while others write
\* (selector.go:67-131), if DynamoDB keeps items for longer than a window.
THEOREM NeverChoosesKnownExhaustedAlways ==
    ASSUME ItemsOutliveWindows
    PROVE  Spec => NeverChoosesKnownExhausted
  <1> DEFINE A == \A w \in Workers :
         (pc[w] = "reading" /\ pc'[w] = "using") => ~UsedUp(known[w][chosen'[w]])
  <1>1. StoreInv /\ [Next]_vars => [A]_vars
    <2> SUFFICES ASSUME StoreInv, Next, NEW w \in Workers, pc[w] = "reading", pc'[w] = "using",
                        UsedUp(known[w][chosen'[w]])
                 PROVE  FALSE
      OBVIOUS
    <2>0. TypeOK /\ KnownInv
      BY DEF StoreInv, Inv
    <2>1. Choose(w)
      <3> USE DEF TypeOK
      <3>1. ASSUME NEW v \in Workers, EndCall(v) PROVE FALSE
        BY <2>0, <3>1, EndCallEffect
      <3>2. ASSUME NEW v \in Workers, WorkerStep(v) PROVE Choose(w)
        BY <2>0, <3>1, <3>2
           DEF WorkerStep, StartSelect, ReadStates, ReadFails, NoMatchingApp, AllExhausted, Choose,
               UseApp, UseRefused, AskRateLimit, AskFails, RecordUsage
      <3> QED
        BY <3>2 DEF Next, DropState, Replicate, Tick, workerVars
    <2>2. PICK a \in TopCandidates(owner[w], view[w]) : chosen' = [chosen EXCEPT ![w] = a]
      BY <2>1 DEF Choose
    <2>3. a \in Apps /\ IsCandidate(view[w][a]) /\ chosen'[w] = a /\ unread[w] = {}
      BY <2>0, <2>1, <2>2 DEF Choose, TopCandidates, Matching, TypeOK
    <2>4. view[w][a] = known[w][a]
      BY <2>0, <2>3 DEF KnownInv
    <2>5. now \in Nat /\ view[w][a].resetAt \in Nat /\ UsedUp(view[w][a])
      BY <2>0, <2>3, <2>4, StateTypes DEF TypeOK, UsedUp
    <2> QED
      BY <2>3, <2>5 DEF UsedUp, IsCandidate, Unlimited, IsExpired, HasCapacity,
                        Register!IsExpired, Register!HasCapacity
  <1> QED
    BY <1>1, StoreInvAlways, PTL DEF Spec, NeverChoosesKnownExhausted

\* retry_after never sends the caller past the earliest reset of an app of
\* the owner, and undershoots it by less than a second, within its clamps
\* (selector.go:158-181).
THEOREM RetryAfterIsTightAlways == Spec => RetryAfterIsTight
  <1> DEFINE A == \A w \in Workers :
         (retryAfter[w] = 0 /\ retryAfter'[w] # 0) =>
            LET k == retryAfter'[w]
                resets == {view[w][a].resetAt : a \in Matching(owner[w])}
                e == Earliest(resets)
            IN  \/ now \in resets
                \/ /\ k > MinRetrySeconds => now + k * TicksPerSecond <= e
                   /\ k < DefaultRetrySeconds => e < now + (k + 1) * TicksPerSecond
  <1>1. Inv /\ [Next]_vars => [A]_vars
    <2> SUFFICES ASSUME Inv, Next, NEW w \in Workers, retryAfter[w] = 0, retryAfter'[w] # 0
                 PROVE  LET k == retryAfter'[w]
                            resets == {view[w][a].resetAt : a \in Matching(owner[w])}
                            e == Earliest(resets)
                        IN  \/ now \in resets
                            \/ /\ k > MinRetrySeconds => now + k * TicksPerSecond <= e
                               /\ k < DefaultRetrySeconds => e < now + (k + 1) * TicksPerSecond
      OBVIOUS
    <2> DEFINE k == retryAfter'[w]
               resets == {view[w][a].resetAt : a \in Matching(owner[w])}
               e == Earliest(resets)
               secs == (e - now) \div TicksPerSecond
               t == TicksPerSecond
    <2>0. TypeOK
      BY DEF Inv
    <2>1. AllExhausted(w)
      BY <2>0, RefusalStep
    <2>2. k = RetryAfterFromStates(owner[w], view[w])
      BY <2>0, <2>1 DEF AllExhausted, TypeOK
    <2>3. ASSUME NEW a \in Matching(owner[w])
          PROVE  /\ view[w][a] # NoState /\ ~IsExpired(view[w][a])
                 /\ view[w][a].resetAt \in Nat /\ view[w][a].resetAt >= now
      <3>1. view[w][a] # NoState /\ ~IsExpired(view[w][a])
        BY <2>1 DEF AllExhausted, IsCandidate, Unlimited
      <3>2. a \in Apps /\ view[w][a] \in StatesOrNone /\ now \in Nat
        BY <2>0 DEF Matching, TypeOK
      <3>3. view[w][a].resetAt \in Nat
        BY <3>1, <3>2, StateTypes
      <3> QED
        BY <3>1, <3>2, <3>3 DEF IsExpired, Register!IsExpired
    <2>4. SUFFICES ASSUME now \notin resets
                   PROVE  /\ k > MinRetrySeconds => now + k * t <= e
                          /\ k < DefaultRetrySeconds => e < now + (k + 1) * t
      OBVIOUS
    <2>5. \A a \in Matching(owner[w]) : view[w][a].resetAt > now
      <3> SUFFICES ASSUME NEW a \in Matching(owner[w]) PROVE view[w][a].resetAt > now
        OBVIOUS
      <3>1. view[w][a].resetAt \in resets
        OBVIOUS
      <3>2. view[w][a].resetAt # now
        BY <2>4, <3>1
      <3>3. now \in Nat
        BY <2>0 DEF TypeOK
      <3> QED
        BY <2>3, <3>2, <3>3
    <2>6. ResetsAhead(owner[w], view[w]) = resets
      BY <2>3, <2>5 DEF ResetsAhead
    <2>7. resets # {} /\ resets \subseteq Nat /\ \A r \in resets : r > now
      BY <2>1, <2>3, <2>5 DEF AllExhausted
    <2>8. k = Clamp(secs)
      BY <2>2, <2>6, <2>7 DEF RetryAfterFromStates
    <2> HIDE DEF resets
    <2>9. e \in resets
      BY <2>7, EarliestIsLeast
    <2> HIDE DEF e
    <2>10. e \in Nat /\ e > now /\ now \in Nat /\ t \in Nat \ {0}
      BY <2>0, <2>7, <2>9, SelectorConstants DEF TypeOK
    <2>11. secs \in Nat /\ secs * t <= e - now /\ e - now < (secs + 1) * t
      BY <2>10, DivisionRoundsDown
    <2> HIDE DEF secs, k, t
    <2>12. k \in Nat /\ (k > MinRetrySeconds => k <= secs) /\ (k < DefaultRetrySeconds => secs <= k)
      BY <2>8, <2>11, SelectorConstants DEF Clamp
    <2>13. k > MinRetrySeconds => now + k * t <= e
      <3>1. SUFFICES ASSUME k <= secs PROVE now + k * t <= e
        BY <2>12
      <3>2. k * t <= secs * t /\ k * t \in Int /\ secs * t \in Int
        BY <2>10, <2>11, <2>12, <3>1, ProductsInOrder
      <3> QED
        BY <2>10, <2>11, <3>2
    <2>14. k < DefaultRetrySeconds => e < now + (k + 1) * t
      <3>1. SUFFICES ASSUME secs <= k PROVE e < now + (k + 1) * t
        BY <2>12
      <3>2. secs + 1 \in Int /\ k + 1 \in Int /\ secs + 1 <= k + 1
        BY <2>11, <2>12, <3>1
      <3>3. (secs + 1) * t <= (k + 1) * t /\ (secs + 1) * t \in Int /\ (k + 1) * t \in Int
        BY <2>10, <3>2, ProductsInOrder
      <3> QED
        BY <2>10, <2>11, <3>3
    <2> QED
      BY <2>13, <2>14
  <1> QED
    BY <1>1, InvAlways, PTL DEF Spec, RetryAfterIsTight

------------------------------------------------------------------------------
(* The refinement *)

\* All three conditions for writing are the one of the register.
LEMMA BackendsAgree ==
    ASSUME NEW s, NEW cur, Accepts(s, cur), backend \in Backends,
           s.resetAt \in Nat /\ s.remaining \in Nat,
           cur # NoState => cur.resetAt \in Nat /\ cur.remaining \in Nat
    PROVE  Register!IsFresherThan(s, cur)
  BY SelectorConstants
     DEF Accepts, MemoryAccepts, LuaAccepts, ConditionHolds, Register!IsFresherThan

\* The store is the register that keeps the freshest observation and forgets
\* one only when its window is over, whatever the backend and however late
\* and out of order answers are recorded (memory.go:48-60, redis.go:81-100,
\* redis_setstate.lua:26-36, dynamodb.go:92-130), if DynamoDB keeps items for
\* longer than a window.
THEOREM StoreImplementsRegister ==
    ASSUME ItemsOutliveWindows
    PROVE  Spec => ImplementsRegister
  <1>1. Init => Register!RegisterInit
    BY DEF Init, Register!RegisterInit
  <1>2. StoreInv /\ [Next]_vars => [Register!RegisterNext]_<<now, store>>
    <2> SUFFICES ASSUME StoreInv, [Next]_vars PROVE [Register!RegisterNext]_<<now, store>>
      OBVIOUS
    <2>0. TypeOK /\ AnswerTypes
      BY TypesOfAnswers DEF StoreInv, Inv
    <2>1. CASE UNCHANGED <<now, store>>
      BY <2>1
    <2>2. ASSUME NEW w \in Workers, RecordUsage(w), ~UNCHANGED <<now, store>>
          PROVE  Register!Record(chosen[w]) /\ chosen[w] \in Apps
      <3> DEFINE a == chosen[w]
                 s == seen[w]
      <3>1. pc[w] = "recording" /\ now' = now
        BY <2>2 DEF RecordUsage
      <3>2. a \in Apps /\ s \in RateLimits /\ s.remaining \in Nat /\ s.resetAt \in Nat
        BY <2>0, <3>1 DEF StoreInv, Inv, WorkerInv, AnswerTypes
      <3>3. SetState(a, s) /\ store' # store
        BY <2>2, <3>1 DEF RecordUsage, storeVars
      <3>4. Accepts(s, store[a]) /\ store' = [store EXCEPT ![a] = s] /\ store'[a] = s
        BY <2>0, <3>2, <3>3, SetStateEffect
      <3>5. Register!IsFresherThan(s, store[a])
        BY <2>0, <3>2, <3>4, BackendsAgree DEF TypeOK, AnswerTypes
      <3>6. s \in Register!States
        BY <3>2 DEF RateLimits, Register!States
      <3> QED
        BY <3>1, <3>2, <3>4, <3>5, <3>6 DEF Register!Record
    <2>3. ASSUME NEW a \in Apps, DropState(a) PROVE Register!Forget(a)
      <3>1. dropAt[a] > store[a].resetAt /\ dropAt[a] \in Nat
        BY <2>0, <2>3 DEF StoreInv, DropInv, DropState, TypeOK
      <3> QED
        BY <2>0, <2>3, <3>1 DEF DropState, Register!Forget, Register!IsExpired, AnswerTypes
    <2>4. CASE Tick
      <3>1. Register!Advance
        BY <2>4 DEF Tick, storeVars, Register!Advance
      <3> QED
        BY <3>1 DEF Register!RegisterNext
    <2>5. ASSUME NEW w \in Workers, WorkerStep(w), ~RecordUsage(w) PROVE UNCHANGED <<now, store>>
      BY <2>5
         DEF WorkerStep, StartSelect, ReadStates, ReadFails, NoMatchingApp, AllExhausted, Choose,
             UseApp, UseRefused, AskRateLimit, AskFails, storeVars
    <2>6. CASE UNCHANGED vars
      BY <2>6 DEF vars, storeVars
    <2>7. ASSUME NEW a \in Apps, Replicate(a) PROVE UNCHANGED <<now, store>>
      BY <2>7 DEF Replicate
    <2> QED
      BY <2>1, <2>2, <2>3, <2>4, <2>5, <2>6, <2>7 DEF Next, Register!RegisterNext
  <1> QED
    BY <1>1, <1>2, StoreInvAlways, PTL DEF Spec, ImplementsRegister, Register!RegisterSpec
==============================================================================
