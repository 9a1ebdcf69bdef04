--------------------------- MODULE MCGitHubClient ---------------------------
(* GitHubClient on small instances, for TLC. *)
EXTENDS GitHubClient, TLC

Symmetry == Permutations(Calls)
==============================================================================
