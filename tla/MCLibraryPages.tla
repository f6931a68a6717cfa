--------------------------- MODULE MCLibraryPages ---------------------------
(* The library pages on a small instance.                                    *)
EXTENDS LibraryPages, TLC

CONSTANTS home, c1, c2, c3, name

Symmetry == Permutations(Calls)
=============================================================================
