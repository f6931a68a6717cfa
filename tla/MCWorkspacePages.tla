-------------------------- MODULE MCWorkspacePages --------------------------
(* The workspace pages on a small instance.                                  *)
EXTENDS WorkspacePages, TLC

CONSTANTS o, g, t1, t2, k1, k2

Symmetry == Permutations(Tokens) \cup Permutations(Calls)
=============================================================================
