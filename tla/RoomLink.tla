------------------------------ MODULE RoomLink ------------------------------
(***************************************************************************)
(* What the pages may rely on when they use a room of the socket manager    *)
(* (lib/board-socket-manager.ts): the room is up or down, what a page sends  *)
(* goes out at once or waits for the room to come up, and it goes out in     *)
(* the order of the calls and only once. The link promises neither that the  *)
(* room is down once the page has gone nor that it is down when one arrives. *)
(***************************************************************************)
EXTENDS Naturals, Sequences

CONSTANT Messages   \* what a page may send

VARIABLES
  present,   \* whether a page shows the room
  live,      \* whether the room's socket is open
  queue,     \* sendQueue: messages that wait for the room to come up
  out        \* messages handed to sockets and not yet taken by the network

linkVars == <<present, live, queue, out>>

LinkInit ==
  /\ present = FALSE
  /\ live = FALSE
  /\ queue = <<>>
  /\ out = <<>>

\* The effect of sendRoomMessage for each message of a sequence.
Hand(messages) ==
  IF live THEN out' = out \o messages /\ queue' = queue
          ELSE queue' = queue \o messages /\ out' = out

Write(m) ==
  /\ present
  /\ Hand(<<m>>)
  /\ UNCHANGED <<present, live>>

\* The socket opens: the queue goes first, then what the listeners send.
Opened(greeting) ==
  /\ ~live
  /\ live' = TRUE
  /\ out' = out \o queue \o greeting
  /\ queue' = <<>>
  /\ UNCHANGED present

Lost ==
  /\ live
  /\ live' = FALSE
  /\ UNCHANGED <<present, queue, out>>

\* The far end takes a message; what a lost connection still held is gone.
Taken ==
  /\ out # <<>>
  /\ out' = Tail(out)
  /\ UNCHANGED <<present, live, queue>>

Gone ==
  /\ ~live /\ out # <<>>
  /\ out' = <<>>
  /\ UNCHANGED <<present, live, queue>>

Enter ==
  /\ ~present
  /\ present' = TRUE
  /\ UNCHANGED <<live, queue, out>>

\* A queue is forgotten with the room's socket, and kept when it has none.
Leave ==
  /\ present
  /\ present' = FALSE
  /\ live' = FALSE
  /\ queue' \in {queue, <<>>}
  /\ live => queue' = <<>>
  /\ UNCHANGED out

LinkNext ==
  \/ \E m \in Messages : Write(m)
  \/ Opened(<<>>)
  \/ Lost \/ Taken \/ Gone
  \/ Enter
  \/ Leave

LinkSpec == LinkInit /\ [][LinkNext]_linkVars
===============================================================================
