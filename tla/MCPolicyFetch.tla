---------------------------- MODULE MCPolicyFetch ----------------------------
(* PolicyFetch on small instances, for TLC. *)
EXTENDS PolicyFetch, TLC

Symmetry == Permutations(Calls) \cup Permutations(Keys)
==============================================================================
