---------------------------- MODULE MCJwksCache -----------------------------
(* Two keys and two validations at a time. *)
EXTENDS JwksCache, TLC

Symmetry == Permutations(Calls)

===============================================================================
