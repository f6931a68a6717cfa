----------------------------- MODULE RoomSocket -----------------------------
(***************************************************************************)
(* The browser's socket manager (web/src/lib/board-socket-manager.ts) for    *)
(* one room: the connection attempts that wait for a ticket, the sockets     *)
(* they open, the retry timers of sockets that were lost, the send queue and *)
(* the state the page was last told. Nothing relates the maps' entries of    *)
(* two rooms, so one room is all rooms.                                      *)
(*                                                                           *)
(* An attempt and the socket it opens carry the token the attempt drew, and  *)
(* stage follows both. The AbortSignal of an attempt is raised only together *)
(* with a token that moves on, and fetchTicket does not listen to it: the    *)
(* comparison of tokens stands for both. Delays are not modelled: a timer    *)
(* that is set fires at any time.                                            *)
(***************************************************************************)
EXTENDS Naturals, Sequences, FiniteSets

CONSTANTS
  MaxTokens,   \* bound: connection tokens drawn
  MaxSent      \* bound: messages the page sends

ASSUME BoundsAssumption == MaxTokens \in Nat /\ MaxSent \in Nat

VARIABLES
  token,     \* connectionTokens
  pending,   \* the token of the entry in pendingConnections, 0 when none
  room,      \* the token of the entry in sockets, 0 when none
  stage,     \* how far the attempt with a token got
  waits,     \* retry timers whose connectRoom awaits that attempt or socket
  timer,     \* entry.retryTimer is set and has not fired
  retries,   \* entry.retries
  sendQueue, \* messages that wait for an open socket
  handed,    \* messages handed to sockets, in order
  page,      \* whether a page shows the room
  shown,     \* the state its listener was last given
  made       \* history: messages the page sent

sockets == <<token, pending, room, stage, waits, timer, retries>>
traffic == <<sendQueue, handed, made>>
view == <<page, shown>>
vars == <<sockets, traffic, view>>

Tokens == 1..MaxTokens
None == 0
SocketState == {"connecting", "open", "closed", "error"}
Stage == {"unused", "ticket", "failed", "connecting", "open", "aborting",
          "closing", "closed"}
LiveStage == {"connecting", "open"}

Init ==
  /\ token = 0
  /\ pending = None
  /\ room = None
  /\ stage = [t \in Tokens |-> "unused"]
  /\ waits = [t \in Tokens |-> {}]
  /\ timer = [t \in Tokens |-> FALSE]
  /\ retries = [t \in Tokens |-> 0]
  /\ sendQueue = <<>>
  /\ handed = <<>>
  /\ page = FALSE
  /\ shown = "closed"
  /\ made = 0

-------------------------------------------------------------------------------
(* Helpers of the handlers *)

RoomIs(s) == room # None /\ stage[room] = s

\* getRoomState
RoomState ==
  CASE RoomIs("connecting") -> "connecting"
    [] RoomIs("open") -> "open"
    [] OTHER -> "closed"

\* A page registers its listeners when it mounts and removes them when it goes.
Listening == page

\* Mutant: the page is not told of failures.
NotifyOpenings(s) == shown' = IF Listening /\ s # "error" THEN s ELSE shown

NotifyState(s) == shown' = IF Listening THEN s ELSE shown

\* Mutant: the token of the entry is not compared.
AlwaysCurrent(t) == TRUE
Current(t) == token = t

\* scheduleReconnect(entry) for each entry of a set.
ScheduleReconnect(entries) ==
  LET current == {e \in entries : Current(e)} IN
  /\ timer' = [t \in Tokens |-> timer[t] \/ t \in current]
  /\ retries' = [t \in Tokens |-> retries[t] + IF t \in current THEN 1 ELSE 0]

\* Mutant: the queue is dropped.
FlushLoses ==
  /\ handed' = handed
  /\ sendQueue' = <<>>

\* flushQueue
FlushQueue ==
  /\ handed' = handed \o sendQueue
  /\ sendQueue' = <<>>

\* connectRoom(opts) up to its first await, called by the retry timers of a set
\* of entries (by a page: the empty set, whose catch changes nothing).
ReuseOpen ==
  /\ RoomIs("open")
  /\ UNCHANGED <<token, pending, stage, waits>>

ReusePending(callers) ==
  /\ ~RoomIs("open")
  /\ pending # None /\ pending = token
  /\ waits' = [waits EXCEPT ![pending] = @ \union callers]
  /\ UNCHANGED <<token, pending, stage>>

AwaitConnecting(callers) ==
  /\ pending = None \/ pending # token
  /\ RoomIs("connecting")
  /\ pending' = None
  /\ waits' = [waits EXCEPT ![room] = @ \union callers]
  /\ UNCHANGED <<token, stage>>

\* Mutant: an attempt under way is not looked at.
StartAnyway(callers) ==
  /\ token < MaxTokens
  /\ token' = token + 1
  /\ pending' = token + 1
  /\ stage' = [stage EXCEPT ![token + 1] = "ticket"]
  /\ waits' = [waits EXCEPT ![token + 1] = callers]

StartAttempt(callers) ==
  /\ ~RoomIs("open") /\ ~RoomIs("connecting")
  /\ pending = None \/ pending # token
  /\ token < MaxTokens
  /\ token' = token + 1
  /\ pending' = token + 1
  /\ stage' = [stage EXCEPT ![token + 1] = "ticket"]
  /\ waits' = [waits EXCEPT ![token + 1] = callers]

-------------------------------------------------------------------------------
(* The page *)

\* The effects of a page that mounts run in order: connectRoom, whose
\* "connecting" has no listener yet, then addStateListener.
Mount ==
  /\ ~page
  /\ ReuseOpen \/ ReusePending({}) \/ AwaitConnecting({}) \/ StartAttempt({})
  /\ page' = TRUE
  /\ shown' = "closed"
  /\ UNCHANGED <<room, timer, retries, traffic>>

\* disconnectRoom: with no entry it returns before the queue is dropped, and the
\* timer of an entry that lost its socket is out of its reach.
DisconnectRoom ==
  /\ page
  /\ token < MaxTokens
  /\ token' = token + 1
  /\ pending' = None
  /\ room' = None
  /\ IF room = None
     THEN UNCHANGED <<stage, timer, sendQueue>>
     ELSE /\ timer' = [timer EXCEPT ![room] = FALSE]
          /\ stage' = [stage EXCEPT ![room] =
                         CASE @ = "open" -> "closing"
                           [] @ = "connecting" -> "aborting"
                           [] OTHER -> @]
          /\ sendQueue' = <<>>
  /\ page' = FALSE
  /\ shown' = "closed"
  /\ UNCHANGED <<waits, retries, handed, made>>

SendRoomMessage ==
  /\ page
  /\ made < MaxSent
  /\ made' = made + 1
  /\ IF RoomIs("open")
     THEN handed' = Append(handed, made + 1) /\ sendQueue' = sendQueue
     ELSE sendQueue' = Append(sendQueue, made + 1) /\ handed' = handed
  /\ UNCHANGED <<sockets, view>>

-------------------------------------------------------------------------------
(* The attempt *)

\* Mutant: the entry stays.
KeepEntry(t) == pending' = pending /\ t = t
\* The promise settles: its entry goes, and who awaited it catches a rejection.
Settle(t) == pending' = IF pending = t THEN None ELSE pending

Reject(t) ==
  /\ ScheduleReconnect(waits[t])
  /\ waits' = [waits EXCEPT ![t] = {}]

\* The ticket arrives: a superseded attempt rejects, another opens its socket.
Superseded(t) ==
  /\ stage[t] = "ticket"
  /\ ~Current(t)
  /\ stage' = [stage EXCEPT ![t] = "failed"]
  /\ Settle(t)
  /\ Reject(t)
  /\ UNCHANGED <<token, room, traffic, view>>

OpenSocket(t) ==
  /\ stage[t] = "ticket"
  /\ Current(t)
  /\ stage' = [stage EXCEPT ![t] = "connecting"]
  /\ room' = t
  /\ Settle(t)
  /\ waits' = [waits EXCEPT ![t] = {}]
  /\ UNCHANGED <<token, timer, retries, traffic, view>>

TicketFails(t) ==
  /\ stage[t] = "ticket"
  /\ stage' = [stage EXCEPT ![t] = "failed"]
  /\ Settle(t)
  /\ IF Current(t) THEN NotifyState("error") ELSE shown' = shown
  /\ Reject(t)
  /\ UNCHANGED <<token, room, traffic, page>>

-------------------------------------------------------------------------------
(* The events of a socket *)

OnOpen(t) ==
  /\ stage[t] = "connecting"
  /\ IF Current(t)
     THEN /\ stage' = [stage EXCEPT ![t] = "open"]
          /\ retries' = [retries EXCEPT ![t] = 0]
          /\ FlushQueue
          /\ NotifyState("open")
     ELSE /\ stage' = [stage EXCEPT ![t] = "closing"]
          /\ UNCHANGED <<retries, sendQueue, handed, shown>>
  /\ waits' = [waits EXCEPT ![t] = {}]
  /\ UNCHANGED <<token, pending, room, timer, made, page>>

\* The close handler, after an error event when the connection failed. The error
\* listener tells the page without comparing tokens.
CloseHandler(t, normal) ==
  /\ stage' = [stage EXCEPT ![t] = "closed"]
  /\ waits' = [waits EXCEPT ![t] = {}]
  /\ IF Current(t)
     THEN /\ room' = None
          /\ NotifyState(IF normal THEN "closed" ELSE "error")
          /\ ScheduleReconnect(waits[t] \union IF normal THEN {} ELSE {t})
     ELSE /\ room' = room
          /\ IF normal THEN shown' = shown ELSE NotifyState("error")
          /\ ScheduleReconnect(waits[t])
  /\ UNCHANGED <<token, pending, traffic, page>>

\* The server, or the network, ends the connection.
OnClose(t, normal) ==
  /\ stage[t] = "open" \/ (stage[t] = "connecting" /\ ~normal)
  /\ CloseHandler(t, normal)

\* A close the client asked for completes; one asked for while the socket was
\* still connecting counts as a failed connection.
OnClientClose(t) ==
  /\ stage[t] \in {"closing", "aborting"}
  /\ CloseHandler(t, stage[t] = "closing")

TimerFires(t) ==
  /\ timer[t]
  /\ timer' = [timer EXCEPT ![t] = FALSE]
  /\ \/ ReuseOpen /\ shown' = shown
     \/ ReusePending({t}) /\ shown' = shown
     \/ AwaitConnecting({t}) /\ shown' = shown
     \/ StartAttempt({t}) /\ NotifyState("connecting")
  /\ UNCHANGED <<room, retries, traffic, page>>

Attempt(t) == Superseded(t) \/ OpenSocket(t) \/ TicketFails(t)

SocketEvent(t) ==
  \/ OnOpen(t)
  \/ \E normal \in BOOLEAN : OnClose(t, normal)
  \/ OnClientClose(t)

Next ==
  \/ Mount
  \/ DisconnectRoom
  \/ SendRoomMessage
  \/ \E t \in Tokens : Attempt(t) \/ SocketEvent(t) \/ TimerFires(t)

Spec == Init /\ [][Next]_vars

\* Timers fire, requests are answered or fail, connecting sockets open or fail.
FairSpec ==
  /\ Spec
  /\ \A t \in Tokens :
       /\ WF_vars(TimerFires(t))
       /\ WF_vars(Attempt(t))
       /\ WF_vars(OnOpen(t) \/ OnClose(t, FALSE))

-------------------------------------------------------------------------------
(* Properties *)

\* An entry is given a retry at most once: its connectRoom draws a new token, so
\* the failure of that attempt finds the entry out of date (and the delay, which
\* doubles with entry.retries, stays at its first value).
TypeOK ==
  /\ token \in 0..MaxTokens
  /\ pending \in {None, token}
  /\ room \in 0..token
  /\ stage \in [Tokens -> Stage]
  /\ waits \in [Tokens -> SUBSET Tokens]
  /\ timer \in [Tokens -> BOOLEAN]
  /\ retries \in [Tokens -> {0, 1}]
  /\ sendQueue \in Seq(1..MaxSent) /\ handed \in Seq(1..MaxSent)
  /\ page \in BOOLEAN /\ shown \in SocketState
  /\ made \in 0..MaxSent

LiveSocketIsCurrent ==
  \A t \in Tokens : stage[t] \in LiveStage => room = t /\ token = t

AttemptIsPending ==
  \A t \in Tokens :
    stage[t] = "ticket" /\ token = t =>
      pending = t /\ \A u \in Tokens : stage[u] \notin LiveStage

\* A room never has two connections, whatever tickets were under way when pages
\* left and came back: a socket that is connecting or open is the one in the
\* sockets map and carries the current token; an attempt that may still open a
\* socket is the one connectRoom hands out, and no socket is live beside it.
OneConnection == LiveSocketIsCurrent /\ AttemptIsPending

LiveIsTrue == page /\ shown = "open" => RoomState = "open"

ConnectingIsTrue ==
  page /\ shown = "connecting" => pending # None \/ RoomState = "connecting"

\* The page says "Live" only while the room's socket is open, and "Connecting"
\* only while an attempt or a socket is on its way: it never waits for a
\* connection nobody makes.
ShownIsTrue == LiveIsTrue /\ ConnectingIsTrue

\* A socket that was lost is replaced by an open one unless the page leaves or
\* the ticket of an attempt fails: then nobody tries again (or the tokens of the
\* model have run out).
LastTicketFailed == \E t \in Tokens : t = token /\ stage[t] = "failed"

LostSocketReplaced ==
  \A t \in Tokens :
    timer[t] ~> \/ RoomState = "open" \/ LastTicketFailed
                \/ ~page \/ token = MaxTokens

\* The manager implements the link the pages rely on: messages go out in the
\* order of the calls, once, and a lost connection alone forgets none that wait.
Link == INSTANCE RoomLink WITH
  Messages <- 1..MaxSent, present <- page, live <- RoomIs("open"),
  queue <- sendQueue, out <- handed

LinkImplemented == Link!LinkSpec
===============================================================================
