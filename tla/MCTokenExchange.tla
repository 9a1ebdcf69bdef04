-------------------------- MODULE MCTokenExchange --------------------------
(* TokenExchange on small instances, for TLC. *)
EXTENDS TokenExchange, TLC

MCRequestTTLs == {-1, 0, 1, 3}
MCPolicyTTLs == {0, 1, 3}
Symmetry == Permutations(Requests) \cup Permutations(Tokens)
============================================================================
