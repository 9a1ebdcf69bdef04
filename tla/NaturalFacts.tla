---------------------------- MODULE NaturalFacts ----------------------------
(***************************************************************************)
(* Facts about natural numbers that the proofs need: minima, and division  *)
(* by a number that is not a literal.                                      *)
(***************************************************************************)
EXTENDS Integers, WellFoundedInduction, TLAPS

\* A set of natural numbers that is not empty has a least one: the loops that
\* look for the earliest or the first one find it.
LEMMA LeastNatural ==
    ASSUME NEW S, S \subseteq Nat, S # {}
    PROVE  \E m \in S : \A n \in S : m <= n
  <1> DEFINE less == OpToRel(<, Nat)
  <1>1. IsWellFoundedOn(less, Nat)
    BY NatLessThanWellFounded, Zenon
  <1> HIDE DEF less
  <1>2. PICK m \in S : \A n \in S : <<n, m>> \notin less
    BY <1>1, WFMin
  <1>3. ASSUME NEW n \in S, ~(m <= n) PROVE FALSE
    <2>1. n \in Nat /\ m \in Nat /\ n < m
      BY <1>3
    <2>2. <<n, m>> \in less
      BY <2>1 DEF less, OpToRel
    <2> QED
      BY <1>2, <2>2
  <1> QED
    BY <1>3

\* Go's integer division of what is not negative rounds down.
LEMMA DivisionRoundsDown ==
    ASSUME NEW a \in Nat, NEW b \in Nat \ {0}
    PROVE  /\ a \div b \in Nat
           /\ (a \div b) * b <= a
           /\ a < (a \div b + 1) * b
  BY Z3

\* Multiplication is monotone.
LEMMA ProductsInOrder ==
    ASSUME NEW a \in Int, NEW b \in Int, NEW c \in Nat, a <= b
    PROVE  a * c <= b * c /\ a * c \in Int /\ b * c \in Int
  BY Z3

\* The ticks of a period below a time: the last one is at most a period ago.
LEMMA MultipleBelow ==
    ASSUME NEW n \in Nat \ {0}, NEW d \in Nat \ {0}
    PROVE  \E m \in Nat : m % d = 0 /\ m < n /\ n <= m + d
  <1> DEFINE k == (n - 1) \div d
  <1>1. k \in Nat /\ k * d <= n - 1 /\ n - 1 < (k + 1) * d
    BY DivisionRoundsDown
  <1> HIDE DEF k
  <1>2. (k + 1) * d = k * d + d /\ k * d \in Nat
    BY <1>1, Z3
  <1>3. (k * d) % d = 0
    BY <1>1, Z3
  <1> DEFINE m == k * d
  <1>4. m \in Nat /\ m % d = 0 /\ m <= n - 1 /\ n - 1 < m + d
    BY <1>1, <1>2, <1>3
  <1> HIDE DEF m
  <1>5. m < n /\ n <= m + d
    BY <1>4
  <1> QED
    BY <1>4, <1>5
==============================================================================
