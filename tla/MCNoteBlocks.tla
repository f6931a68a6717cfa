----------------------------- MODULE MCNoteBlocks ---------------------------
(* Small instance of NoteBlocks: two pages, two users, three options, two    *)
(* uploads.                                                                  *)
EXTENDS NoteBlocks, TLC

CONSTANTS p1, p2, u1, u2, o1, o2, o3, a1, a2

Symmetry == Permutations(Options) \cup Permutations(Assets)
              \cup Permutations(Users)
=============================================================================
