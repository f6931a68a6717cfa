---------------------------- MODULE MCWebSession ----------------------------
(* Two requests of one browser. *)
EXTENDS WebSession, TLC

===============================================================================
