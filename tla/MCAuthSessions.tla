--------------------------- MODULE MCAuthSessions ---------------------------
(* Small instances of AuthSessions for TLC. *)
EXTENDS AuthSessions, TLC

\* Sessions and goroutine slots are interchangeable.
Symmetry == Permutations(Sessions) \union Permutations(Handlers)
===============================================================================
