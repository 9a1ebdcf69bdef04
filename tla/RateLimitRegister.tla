------------------------- MODULE RateLimitRegister -------------------------
(***************************************************************************)
(* What selector.Store promises: for each GitHub App a register that keeps *)
(* the freshest observation of the app's rate limit it was ever given, and *)
(* that may forget an observation only when its window is over.            *)
(***************************************************************************)
EXTENDS Integers

CONSTANTS
    Apps,       \* GitHub Apps (client IDs)
    NoState     \* nothing is known about an app

VARIABLES now, reg

\* RateLimitState.IsFresherThan: a newer window, or more usage in the same.
IsFresherThan(s, other) ==
    \/ other = NoState
    \/ s.resetAt > other.resetAt
    \/ s.resetAt = other.resetAt /\ s.remaining < other.remaining

\* RateLimitState.IsExpired and HasCapacity.
IsExpired(s) == now > s.resetAt
HasCapacity(s) == s.remaining > 0

States == [remaining: Nat, resetAt: Nat]

RegisterInit == reg = [a \in Apps |-> NoState] /\ now \in Nat

\* An observation replaces what is known only when it is fresher.
Record(a) ==
    /\ reg'[a] \in States
    /\ IsFresherThan(reg'[a], reg[a])
    /\ reg' = [reg EXCEPT ![a] = reg'[a]]
    /\ UNCHANGED now

Forget(a) ==
    /\ reg[a] # NoState
    /\ IsExpired(reg[a])
    /\ reg' = [reg EXCEPT ![a] = NoState]
    /\ UNCHANGED now

Advance == now' = now + 1 /\ UNCHANGED reg

RegisterNext ==
    \/ \E a \in Apps : Record(a) \/ Forget(a)
    \/ Advance

RegisterSpec == RegisterInit /\ [][RegisterNext]_<<now, reg>>
============================================================================
