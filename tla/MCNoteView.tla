----------------------------- MODULE MCNoteView -----------------------------
(* NoteView on small instances. *)
EXTENDS NoteView, TLC

\* The other blocks of the note are alike.
Symmetry == Permutations(Blocks)
===============================================================================
