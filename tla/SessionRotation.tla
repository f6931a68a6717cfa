--------------------------- MODULE SessionRotation ---------------------------
(***************************************************************************)
(* What refresh rotation promises, with no cache, no handlers and no        *)
(* interleaving: a session has one current generation, a rotation moves it  *)
(* by one and earns the right to hand out one token pair for the new        *)
(* generation, a killed session never moves again, and a right is used at   *)
(* most once (or lost: the caller never sees an answer).                    *)
(* AuthSessions implements this specification.                              *)
(***************************************************************************)
EXTENDS Naturals

CONSTANT Sessions

VARIABLES
  current,    \* current[s]: the session's generation, 0 when it has no row
  opened,     \* the sessions ever opened
  owed,       \* the <<session, generation>> rights granted and not yet used
  delivered   \* the <<session, generation>> pairs handed to a client

vars == <<current, opened, owed, delivered>>

Init ==
  /\ current = [s \in Sessions |-> 0]
  /\ opened = {}
  /\ owed = {}
  /\ delivered = {}

Open(s) ==
  /\ s \notin opened
  /\ opened' = opened \union {s}
  /\ current' = [current EXCEPT ![s] = 1]
  /\ owed' \in {owed, owed \union {<<s, 1>>}}
  /\ UNCHANGED delivered

Rotate(s) ==
  /\ current[s] > 0
  /\ current' = [current EXCEPT ![s] = @ + 1]
  /\ owed' \in {owed, owed \union {<<s, current[s] + 1>>}}
  /\ UNCHANGED <<opened, delivered>>

Deliver(right) ==
  /\ right \in owed
  /\ right \notin delivered
  /\ owed' = owed \ {right}
  /\ delivered' = delivered \union {right}
  /\ UNCHANGED <<current, opened>>

Lose ==
  /\ owed' \in SUBSET owed
  /\ UNCHANGED <<current, opened, delivered>>

Kill(s) ==
  /\ current' = [current EXCEPT ![s] = 0]
  /\ UNCHANGED <<opened, owed, delivered>>

Next ==
  \/ \E s \in Sessions : Open(s) \/ Rotate(s) \/ Kill(s)
  \/ \E right \in owed : Deliver(right)
  \/ Lose

Spec == Init /\ [][Next]_vars
===============================================================================
