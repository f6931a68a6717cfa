----------------------------- MODULE MCNoteRoom -----------------------------
(* NoteRoom on small instances. *)
EXTENDS NoteRoom, TLC

\* Two windows of one user.
SameUser == [c \in Clients |-> "u"]

Symmetry == Permutations(Clients) \union Permutations(Rooms)
                                  \union Permutations(Blocks)
===============================================================================
