---------------------------- MODULE MCBoardRoom -----------------------------
(* Two windows of two users; a user has the name of the window. *)
EXTENDS BoardRoom, TLC

MCUserOf == [p \in Pages |-> p]
Symmetry == Permutations(Pages)

===============================================================================
