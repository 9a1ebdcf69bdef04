----------------------------- MODULE MCSelector -----------------------------
(* Selector on small instances, for TLC. *)
EXTENDS Selector, TLC

MCOrganization == [a \in Apps |-> "org"]
Symmetry == Permutations(Workers) \cup Permutations(Apps)
==============================================================================
