--------------------------- MODULE RoomClientProofs ---------------------------
(* Proofs about the browser's end of a room. The socket manager: its type       *)
(* invariant, that a room never has two connections, that what the page shows   *)
(* is true, and that the manager implements the link of RoomLink. The note page *)
(* over that link: its type invariant, that its baseline agrees with the room,  *)
(* and that the editor leaves it only by edits it withholds.                    *)
EXTENDS RoomSocket, NoteView, SequenceTheorems, WellFoundedInduction, TLAPS

-------------------------------------------------------------------------------
(* The inductive invariant *)

SocketTypes ==
  /\ token \in 0..MaxTokens
  /\ pending \in {None, token}
  /\ room \in 0..token
  /\ stage \in [Tokens -> Stage]
  /\ waits \in [Tokens -> SUBSET Tokens]
  /\ timer \in [Tokens -> BOOLEAN]
  /\ retries \in [Tokens -> {0, 1}]

PageTypes ==
  /\ sendQueue \in Seq(1..MaxSent) /\ handed \in Seq(1..MaxSent)
  /\ page \in BOOLEAN /\ shown \in SocketState
  /\ made \in 0..MaxSent

(* Tokens are drawn in order, and the attempt handed out is one that waits.   *)
FreshUnused == \A t \in Tokens : t > token => stage[t] = "unused"
PendingWaits == pending # None => stage[pending] = "ticket"

(* A retry is set for a socket that closed, once, and whoever awaits an       *)
(* attempt drew its own token before: a rejection reaches nobody in time.     *)
RetryOfClosed ==
  \A t \in Tokens : timer[t] \/ retries[t] # 0 => stage[t] = "closed"
WaitersAreOlder == \A t \in Tokens : \A e \in waits[t] : e < t

SocketInv ==
  /\ SocketTypes /\ FreshUnused /\ PendingWaits /\ RetryOfClosed
  /\ WaitersAreOlder /\ LiveSocketIsCurrent /\ AttemptIsPending

-------------------------------------------------------------------------------

LEMMA SocketInit == Init => SocketInv
BY BoundsAssumption
DEF Init, SocketInv, SocketTypes, FreshUnused, PendingWaits, RetryOfClosed,
    WaitersAreOlder, LiveSocketIsCurrent, AttemptIsPending, Tokens, None, Stage,
    LiveStage

(* Nobody who awaits an attempt is given another retry.                       *)
LEMMA NobodyRescheduled ==
  ASSUME SocketInv, NEW t \in Tokens, t <= token, ScheduleReconnect(waits[t])
  PROVE  timer' = timer /\ retries' = retries
<1>1. {e \in waits[t] : Current(e)} = {}
  BY DEF SocketInv, SocketTypes, WaitersAreOlder, Current, Tokens
<1> QED
  BY <1>1 DEF SocketInv, SocketTypes, ScheduleReconnect

(* connectRoom up to its first await, for retries of sockets that closed.     *)
LEMMA ConnectKeeps ==
  ASSUME SocketInv, NEW callers \in SUBSET Tokens,
         \A t \in callers : timer[t],
         \/ ReuseOpen \/ ReusePending(callers) \/ AwaitConnecting(callers)
         \/ StartAttempt(callers),
         room' = room, retries' = retries,
         timer' \in [Tokens -> BOOLEAN], \A t \in Tokens : timer'[t] => timer[t]
  PROVE  SocketInv'
<1> USE BoundsAssumption
<1>1. \A t \in callers : stage[t] = "closed" /\ t <= token
  BY DEF SocketInv, RetryOfClosed, FreshUnused, Tokens, SocketTypes
<1>2. CASE ReuseOpen
  BY <1>2
  DEF ReuseOpen, SocketInv, SocketTypes, FreshUnused, PendingWaits,
      RetryOfClosed, WaitersAreOlder, LiveSocketIsCurrent, AttemptIsPending
<1>3. ASSUME NEW u \in Tokens, u = token, stage[u] # "closed",
             waits' = [waits EXCEPT ![u] = @ \union callers],
             pending' \in {None, pending}, UNCHANGED <<token, stage>>,
             pending' = pending \/ stage[u] \in LiveStage
      PROVE  SocketInv'
  <2>1. SocketTypes' /\ FreshUnused' /\ PendingWaits' /\ RetryOfClosed'
    BY <1>3
    DEF SocketInv, SocketTypes, FreshUnused, PendingWaits, RetryOfClosed
  <2>2. WaitersAreOlder'
    BY <1>1, <1>3 DEF SocketInv, SocketTypes, WaitersAreOlder, Tokens
  <2>3. LiveSocketIsCurrent' /\ AttemptIsPending'
    BY <1>3 DEF SocketInv, LiveSocketIsCurrent, AttemptIsPending
  <2> QED
    BY <2>1, <2>2, <2>3 DEF SocketInv
<1>4. CASE ReusePending(callers)
  <2>1. pending \in Tokens /\ pending = token /\ stage[pending] = "ticket"
    BY <1>4
    DEF ReusePending, SocketInv, SocketTypes, PendingWaits, Tokens, None
  <2>2. /\ waits' = [waits EXCEPT ![pending] = @ \union callers]
        /\ UNCHANGED <<token, pending, stage>>
    BY <1>4 DEF ReusePending
  <2> QED
    BY <1>3, <2>1, <2>2
<1>5. CASE AwaitConnecting(callers)
  <2>1. room \in Tokens /\ stage[room] = "connecting" /\ room = token
    BY <1>5
    DEF AwaitConnecting, RoomIs, SocketInv, SocketTypes, Tokens, None,
        LiveSocketIsCurrent, LiveStage
  <2> QED
    BY <1>3, <1>5, <2>1 DEF AwaitConnecting, LiveStage
<1>6. CASE StartAttempt(callers)
  <2> DEFINE new == token + 1
  <2>1. /\ new \in Tokens /\ token' = new /\ pending' = new
        /\ stage' = [stage EXCEPT ![new] = "ticket"]
        /\ waits' = [waits EXCEPT ![new] = callers]
        /\ token \in Nat
    BY <1>6 DEF StartAttempt, Tokens, SocketInv, SocketTypes
  <2>2. \A t \in Tokens : stage[t] \notin LiveStage
    BY <1>6
    DEF StartAttempt, RoomIs, SocketInv, SocketTypes, LiveSocketIsCurrent,
        LiveStage, Tokens, None
  <2>3. stage[new] = "unused"
    BY <2>1 DEF SocketInv, FreshUnused
  <2>4. SocketTypes'
    BY <2>1 DEF SocketInv, SocketTypes, Stage, Tokens
  <2>5. FreshUnused' /\ PendingWaits'
    BY <2>1 DEF SocketInv, SocketTypes, FreshUnused, PendingWaits, Tokens
  <2>6. RetryOfClosed'
    BY <2>1, <2>3 DEF SocketInv, SocketTypes, RetryOfClosed
  <2>7. WaitersAreOlder'
    BY <1>1, <2>1 DEF SocketInv, SocketTypes, WaitersAreOlder, Tokens
  <2>8. LiveSocketIsCurrent' /\ AttemptIsPending'
    BY <2>1, <2>2
    DEF SocketInv, SocketTypes, LiveSocketIsCurrent, AttemptIsPending,
        LiveStage, Tokens
  <2> QED
    BY <2>4, <2>5, <2>6, <2>7, <2>8 DEF SocketInv
<1> QED
  BY <1>2, <1>4, <1>5, <1>6

-------------------------------------------------------------------------------
(* The page *)

LEMMA PageKeeps ==
  ASSUME SocketInv, Mount \/ DisconnectRoom \/ SendRoomMessage
  PROVE  SocketInv'
<1>1. CASE Mount
  BY <1>1, ConnectKeeps DEF Mount, SocketInv, SocketTypes
<1>2. CASE DisconnectRoom
  <2> DEFINE new == token + 1
  <2>1. /\ new \in Tokens /\ token' = new /\ token \in Nat
        /\ pending' = None /\ room' = None
        /\ UNCHANGED <<waits, retries>>
    BY <1>2, BoundsAssumption DEF DisconnectRoom, Tokens, SocketInv, SocketTypes
  <2>2. /\ stage' \in [Tokens -> Stage] /\ timer' \in [Tokens -> BOOLEAN]
        /\ \A t \in Tokens :
             /\ stage'[t] \notin LiveStage
             /\ stage'[t] = "unused" <=> stage[t] = "unused"
             /\ stage[t] = "closed" => stage'[t] = "closed"
             /\ timer'[t] => timer[t]
    <3>1. CASE room = None
      <4>1. UNCHANGED <<stage, timer>>
        BY <1>2, <3>1 DEF DisconnectRoom
      <4>2. \A t \in Tokens : stage[t] \notin LiveStage
        BY <3>1 DEF SocketInv, LiveSocketIsCurrent, Tokens, None
      <4> QED
        BY <4>1, <4>2 DEF SocketInv, SocketTypes
    <3>2. CASE room # None
      <4>1. room \in Tokens
        BY <3>2, BoundsAssumption DEF SocketInv, SocketTypes, Tokens, None
      <4>2. /\ timer' = [timer EXCEPT ![room] = FALSE]
            /\ stage' = [stage EXCEPT ![room] =
                            CASE stage[room] = "open" -> "closing"
                              [] stage[room] = "connecting" -> "aborting"
                              [] OTHER -> stage[room]]
        BY <1>2, <3>2 DEF DisconnectRoom
      <4>3. \A t \in Tokens : t # room => stage[t] \notin LiveStage
        BY DEF SocketInv, LiveSocketIsCurrent
      <4> QED
        BY <4>1, <4>2, <4>3 DEF SocketInv, SocketTypes, LiveStage, Stage
    <3> QED
      BY <3>1, <3>2
  <2>3. SocketTypes' /\ PendingWaits'
    BY <2>1, <2>2, BoundsAssumption
    DEF SocketInv, SocketTypes, PendingWaits, Tokens, None
  <2>4. FreshUnused'
    BY <2>1, <2>2, BoundsAssumption DEF SocketInv, FreshUnused, Tokens
  <2>5. RetryOfClosed' /\ WaitersAreOlder'
    BY <2>1, <2>2
    DEF SocketInv, SocketTypes, RetryOfClosed, WaitersAreOlder
  <2>6. LiveSocketIsCurrent'
    BY <2>2 DEF LiveSocketIsCurrent
  <2>7. stage[new] = "unused"
    BY <2>1 DEF SocketInv, FreshUnused
  <2>8. AttemptIsPending'
    BY <2>1, <2>2, <2>7 DEF AttemptIsPending
  <2> QED
    BY <2>3, <2>4, <2>5, <2>6, <2>8 DEF SocketInv
<1>3. CASE SendRoomMessage
  BY <1>3
  DEF SendRoomMessage, sockets, SocketInv, SocketTypes, FreshUnused,
      PendingWaits, RetryOfClosed, WaitersAreOlder, LiveSocketIsCurrent,
      AttemptIsPending
<1> QED
  BY <1>1, <1>2, <1>3

-------------------------------------------------------------------------------
(* The attempt *)

LEMMA AttemptKeeps ==
  ASSUME SocketInv, NEW t \in Tokens, Attempt(t)
  PROVE  SocketInv'
<1> USE BoundsAssumption
<1>1. /\ stage[t] = "ticket" /\ t <= token /\ token' = token
      /\ pending' = IF pending = t THEN None ELSE pending
      /\ waits' = [waits EXCEPT ![t] = {}]
  BY DEF Attempt, Superseded, OpenSocket, TicketFails, Settle, Reject,
         SocketInv, FreshUnused, SocketTypes, Tokens
<1>2. timer' = timer /\ retries' = retries
  BY <1>1, NobodyRescheduled
  DEF Attempt, Superseded, OpenSocket, TicketFails, Reject
<1>3. WaitersAreOlder'
  BY <1>1 DEF SocketInv, SocketTypes, WaitersAreOlder
<1>4. ASSUME stage' = [stage EXCEPT ![t] = "failed"], room' = room
      PROVE  SocketInv'
  <2>1. SocketTypes' /\ FreshUnused' /\ PendingWaits' /\ RetryOfClosed'
    BY <1>1, <1>2, <1>4
    DEF SocketInv, SocketTypes, FreshUnused, PendingWaits, RetryOfClosed,
        Stage, None, Tokens
  <2>2. LiveSocketIsCurrent' /\ AttemptIsPending'
    BY <1>1, <1>4
    DEF SocketInv, SocketTypes, LiveSocketIsCurrent, AttemptIsPending,
        LiveStage
  <2> QED
    BY <1>3, <2>1, <2>2 DEF SocketInv
<1>5. CASE Superseded(t) \/ TicketFails(t)
  BY <1>4, <1>5 DEF Superseded, TicketFails
<1>6. CASE OpenSocket(t)
  <2>1. /\ token = t /\ room' = t
        /\ stage' = [stage EXCEPT ![t] = "connecting"]
    BY <1>6 DEF OpenSocket, Current
  <2>2. \A u \in Tokens : stage[u] \notin LiveStage
    BY <1>1, <2>1 DEF SocketInv, AttemptIsPending
  <2>3. SocketTypes' /\ FreshUnused' /\ PendingWaits' /\ RetryOfClosed'
    BY <1>1, <1>2, <2>1
    DEF SocketInv, SocketTypes, FreshUnused, PendingWaits, RetryOfClosed,
        Stage, None, Tokens
  <2>4. LiveSocketIsCurrent' /\ AttemptIsPending'
    BY <1>1, <2>1, <2>2
    DEF SocketInv, SocketTypes, LiveSocketIsCurrent, AttemptIsPending,
        LiveStage
  <2> QED
    BY <1>3, <2>3, <2>4 DEF SocketInv
<1> QED
  BY <1>5, <1>6 DEF Attempt

-------------------------------------------------------------------------------
(* The events of a socket *)

LEMMA OpenKeeps ==
  ASSUME SocketInv, NEW t \in Tokens, OnOpen(t)
  PROVE  /\ SocketInv'
         /\ room = t /\ token = t /\ stage[t] = "connecting"
         /\ stage' = [stage EXCEPT ![t] = "open"]
<1>1. stage[t] = "connecting" /\ room = t /\ token = t
  BY DEF OnOpen, SocketInv, LiveSocketIsCurrent, LiveStage
<1>2. /\ stage' = [stage EXCEPT ![t] = "open"]
      /\ retries' = [retries EXCEPT ![t] = 0]
      /\ waits' = [waits EXCEPT ![t] = {}]
      /\ UNCHANGED <<token, pending, room, timer>>
  BY <1>1 DEF OnOpen, Current
<1>3. SocketTypes' /\ FreshUnused' /\ RetryOfClosed' /\ WaitersAreOlder'
  BY <1>1, <1>2, BoundsAssumption
  DEF SocketInv, SocketTypes, FreshUnused, RetryOfClosed, WaitersAreOlder,
      Stage, Tokens
<1>4. PendingWaits'
  BY <1>1, <1>2 DEF SocketInv, SocketTypes, PendingWaits, Tokens, None
<1>5. LiveSocketIsCurrent' /\ AttemptIsPending'
  BY <1>1, <1>2
  DEF SocketInv, SocketTypes, LiveSocketIsCurrent, AttemptIsPending, LiveStage
<1> QED
  BY <1>1, <1>2, <1>3, <1>4, <1>5 DEF SocketInv

LEMMA CloseKeeps ==
  ASSUME SocketInv, NEW t \in Tokens, NEW normal \in BOOLEAN,
         stage[t] \in LiveStage \union {"closing", "aborting"},
         CloseHandler(t, normal)
  PROVE  SocketInv'
<1> USE BoundsAssumption
<1>1. /\ stage' = [stage EXCEPT ![t] = "closed"]
      /\ waits' = [waits EXCEPT ![t] = {}]
      /\ UNCHANGED <<token, pending>>
      /\ t <= token /\ retries[t] = 0
  BY DEF CloseHandler, SocketInv, SocketTypes, FreshUnused, RetryOfClosed,
         Tokens, LiveStage
<1>2. \A e \in waits[t] : ~Current(e)
  BY <1>1 DEF SocketInv, SocketTypes, WaitersAreOlder, Current, Tokens
<1>3. /\ timer' \in [Tokens -> BOOLEAN] /\ retries' \in [Tokens -> {0, 1}]
      /\ \A u \in Tokens \ {t} :
           (timer'[u] <=> timer[u]) /\ retries'[u] = retries[u]
  <2>1. \E entries \in {waits[t], waits[t] \union {t}} :
          ScheduleReconnect(entries)
    BY DEF CloseHandler
  <2>2. PICK entries \in {waits[t], waits[t] \union {t}} :
          ScheduleReconnect(entries)
    BY <2>1
  <2>3. {e \in entries : Current(e)} \subseteq {t}
    BY <1>2
  <2> DEFINE current == {e \in entries : Current(e)}
  <2>4. /\ timer' = [u \in Tokens |-> timer[u] \/ u \in current]
        /\ retries' = [u \in Tokens |->
                         retries[u] + IF u \in current THEN 1 ELSE 0]
    BY <2>2 DEF ScheduleReconnect
  <2> QED
    BY <1>1, <2>3, <2>4 DEF SocketInv, SocketTypes
<1>4. room' \in {room, None} /\ (token # t => room' = room)
  BY DEF CloseHandler, Current
<1>5. SocketTypes' /\ FreshUnused' /\ RetryOfClosed' /\ WaitersAreOlder'
  BY <1>1, <1>3, <1>4
  DEF SocketInv, SocketTypes, FreshUnused, RetryOfClosed, WaitersAreOlder,
      Stage, Tokens, None
<1>6. PendingWaits'
  BY <1>1
  DEF SocketInv, SocketTypes, PendingWaits, Tokens, None, LiveStage
<1>7. LiveSocketIsCurrent' /\ AttemptIsPending'
  BY <1>1, <1>4
  DEF SocketInv, SocketTypes, LiveSocketIsCurrent, AttemptIsPending, LiveStage,
      None
<1> QED
  BY <1>5, <1>6, <1>7 DEF SocketInv

LEMMA EventKeeps ==
  ASSUME SocketInv, NEW t \in Tokens, SocketEvent(t)
  PROVE  SocketInv'
<1>1. CASE OnOpen(t)
  BY <1>1, OpenKeeps
<1>2. ASSUME NEW normal \in BOOLEAN, OnClose(t, normal)
      PROVE  SocketInv'
  BY <1>2, CloseKeeps DEF OnClose, LiveStage
<1>3. CASE OnClientClose(t)
  <2>1. (stage[t] = "closing") \in BOOLEAN
    OBVIOUS
  <2> QED
    BY <1>3, <2>1, CloseKeeps DEF OnClientClose
<1> QED
  BY <1>1, <1>2, <1>3 DEF SocketEvent

LEMMA TimerKeeps ==
  ASSUME SocketInv, NEW t \in Tokens, TimerFires(t)
  PROVE  SocketInv'
<1>1. /\ timer[t] /\ room' = room /\ retries' = retries
      /\ timer' \in [Tokens -> BOOLEAN]
      /\ \A u \in Tokens : timer'[u] => timer[u]
  BY DEF TimerFires, SocketInv, SocketTypes
<1>2. \/ ReuseOpen \/ ReusePending({t}) \/ AwaitConnecting({t})
      \/ StartAttempt({t})
  BY DEF TimerFires
<1> QED
  BY <1>1, <1>2, ConnectKeeps

LEMMA SocketNext == SocketInv /\ [Next]_vars => SocketInv'
<1> SUFFICES ASSUME SocketInv, [Next]_vars PROVE SocketInv'
  OBVIOUS
<1>1. CASE Mount \/ DisconnectRoom \/ SendRoomMessage
  BY <1>1, PageKeeps
<1>2. ASSUME NEW t \in Tokens, Attempt(t) \/ SocketEvent(t) \/ TimerFires(t)
      PROVE  SocketInv'
  BY <1>2, AttemptKeeps, EventKeeps, TimerKeeps
<1>3. CASE UNCHANGED vars
  BY <1>3
  DEF vars, sockets, SocketInv, SocketTypes, FreshUnused, PendingWaits,
      RetryOfClosed, WaitersAreOlder, LiveSocketIsCurrent, AttemptIsPending
<1> QED
  BY <1>1, <1>2, <1>3 DEF Next

LEMMA SocketAlways == Spec => []SocketInv
BY SocketInit, SocketNext, PTL DEF Spec

(* OneConnection, for any number of attempts, timers and pages that come and  *)
(* go: a room has one live socket or one attempt that may still open one.     *)
THEOREM OneConnectionCorrect == Spec => []OneConnection
<1>1. SocketInv => OneConnection
  BY DEF SocketInv, OneConnection
<1> QED
  BY <1>1, SocketAlways, PTL

-------------------------------------------------------------------------------
(* Traffic and page *)

LEMMA MessageQueues ==
  /\ <<>> \in Seq(1..MaxSent)
  /\ \A s, q \in Seq(1..MaxSent) : s \o q \in Seq(1..MaxSent)
  /\ \A s \in Seq(1..MaxSent), m \in 1..MaxSent :
       Append(s, m) \in Seq(1..MaxSent)
<1>1. <<>> \in Seq(1..MaxSent)
  BY EmptySeq
<1>2. \A s, q \in Seq(1..MaxSent) : s \o q \in Seq(1..MaxSent)
  BY ConcatProperties
<1>3. \A s \in Seq(1..MaxSent), m \in 1..MaxSent :
        Append(s, m) \in Seq(1..MaxSent)
  BY AppendProperties
<1> QED
  BY <1>1, <1>2, <1>3

LEMMA PageTypesNext == PageTypes /\ [Next]_vars => PageTypes'
<1> SUFFICES ASSUME PageTypes, [Next]_vars PROVE PageTypes'
  OBVIOUS
<1> USE BoundsAssumption DEF PageTypes, SocketState
<1>1. CASE Mount
  BY <1>1 DEF Mount, traffic
<1>2. CASE DisconnectRoom
  BY <1>2, MessageQueues DEF DisconnectRoom
<1>3. CASE SendRoomMessage
  <2>1. /\ made + 1 \in 1..MaxSent /\ made' = made + 1
        /\ UNCHANGED <<page, shown>>
        /\ \/ handed' = Append(handed, made + 1) /\ sendQueue' = sendQueue
           \/ sendQueue' = Append(sendQueue, made + 1) /\ handed' = handed
    BY <1>3 DEF SendRoomMessage, view
  <2>2. Append(handed, made + 1) \in Seq(1..MaxSent)
        /\ Append(sendQueue, made + 1) \in Seq(1..MaxSent)
    BY <2>1, MessageQueues
  <2>3. handed' \in Seq(1..MaxSent) /\ sendQueue' \in Seq(1..MaxSent)
    BY <2>1, <2>2
  <2>4. made' \in 0..MaxSent
    BY <2>1
  <2> QED
    BY <2>1, <2>3, <2>4
<1>4. ASSUME NEW t \in Tokens, Attempt(t) PROVE PageTypes'
  BY <1>4
  DEF Attempt, Superseded, OpenSocket, TicketFails, NotifyState, traffic, view
<1>5. ASSUME NEW t \in Tokens, OnOpen(t) PROVE PageTypes'
  BY <1>5, MessageQueues DEF OnOpen, FlushQueue, NotifyState
<1>6. ASSUME NEW t \in Tokens, NEW normal \in BOOLEAN, CloseHandler(t, normal)
      PROVE  PageTypes'
  BY <1>6 DEF CloseHandler, NotifyState, traffic
<1>7. ASSUME NEW t \in Tokens, OnClientClose(t) PROVE PageTypes'
  <2>1. (stage[t] = "closing") \in BOOLEAN
    OBVIOUS
  <2> QED
    BY <1>6, <1>7, <2>1 DEF OnClientClose
<1>8. ASSUME NEW t \in Tokens, SocketEvent(t) PROVE PageTypes'
  BY <1>5, <1>6, <1>7, <1>8 DEF SocketEvent, OnClose
<1>9. ASSUME NEW t \in Tokens, TimerFires(t) PROVE PageTypes'
  BY <1>9 DEF TimerFires, NotifyState, traffic
<1>10. CASE UNCHANGED vars
  BY <1>10 DEF vars, traffic, view
<1> QED
  BY <1>1, <1>2, <1>3, <1>4, <1>8, <1>9, <1>10 DEF Next

LEMMA PageTypesAlways == Spec => []PageTypes
<1>1. Init => PageTypes
  <2>1. 0 \in 0..MaxSent
    BY BoundsAssumption
  <2>2. <<>> \in Seq(1..MaxSent)
    BY MessageQueues
  <2> QED
    BY <2>1, <2>2 DEF Init, PageTypes, SocketState
<1> QED
  BY <1>1, PageTypesNext, PTL DEF Spec

(* Every variable keeps its type; above all, an entry is given at most one    *)
(* retry, so the delay never leaves its first value.                          *)
THEOREM TypeCorrect == Spec => []TypeOK
<1>1. SocketInv /\ PageTypes => TypeOK
  BY DEF SocketInv, SocketTypes, PageTypes, TypeOK
<1> QED
  BY <1>1, SocketAlways, PageTypesAlways, PTL

-------------------------------------------------------------------------------
(* What the page shows *)

(* connectRoom leaves an attempt or a connection under way, unless the room   *)
(* is open already.                                                           *)
LEMMA ConnectShows ==
  ASSUME SocketInv, SocketInv', NEW callers \in SUBSET Tokens,
         \/ ReuseOpen \/ ReusePending(callers) \/ AwaitConnecting(callers)
         \/ StartAttempt(callers),
         room' = room
  PROVE  /\ RoomIs("open")' <=> RoomIs("open")
         /\ RoomIs("connecting")' <=> RoomIs("connecting")
         /\ pending # None => pending' # None \/ RoomIs("connecting")
         /\ StartAttempt(callers) => pending' # None
<1> USE BoundsAssumption DEF RoomIs, None
<1>1. CASE ReuseOpen \/ ReusePending(callers) \/ AwaitConnecting(callers)
  <2>1. ~StartAttempt(callers)
    BY <1>1 DEF ReuseOpen, ReusePending, AwaitConnecting, StartAttempt
  <2> QED
    BY <1>1, <2>1 DEF ReuseOpen, ReusePending, AwaitConnecting
<1>2. CASE StartAttempt(callers)
  <2>1. /\ stage' = [stage EXCEPT ![token + 1] = "ticket"]
        /\ pending' = token + 1 /\ token \in Nat /\ room # token + 1
    BY <1>2 DEF StartAttempt, SocketInv, SocketTypes
  <2> QED
    BY <1>2, <2>1 DEF StartAttempt, SocketInv, SocketTypes, Tokens
<1> QED
  BY <1>1, <1>2

(* getRoomState reports the stage of the room's socket.                       *)
LEMMA RoomStateIs ==
  /\ RoomState = "open" <=> RoomIs("open")
  /\ RoomState = "connecting" <=> RoomIs("connecting")
<1>1. CASE RoomIs("connecting")
  BY <1>1 DEF RoomState, RoomIs
<1>2. CASE ~RoomIs("connecting") /\ RoomIs("open")
  <2>1. RoomState = "open"
    BY <1>2 DEF RoomState
  <2> QED
    BY <1>2, <2>1
<1>3. CASE ~RoomIs("connecting") /\ ~RoomIs("open")
  <2>1. RoomState = "closed"
    BY <1>3 DEF RoomState
  <2> QED
    BY <1>3, <2>1
<1> QED
  BY <1>1, <1>2, <1>3

LEMMA RoomStateNext ==
  /\ (RoomState = "open")' <=> RoomIs("open")'
  /\ (RoomState = "connecting")' <=> RoomIs("connecting")'
<1>1. CASE RoomIs("connecting")'
  BY <1>1 DEF RoomState, RoomIs
<1>2. CASE ~RoomIs("connecting")' /\ RoomIs("open")'
  <2>1. RoomState' = "open"
    BY <1>2 DEF RoomState
  <2> QED
    BY <1>2, <2>1
<1>3. CASE ~RoomIs("connecting")' /\ ~RoomIs("open")'
  <2>1. RoomState' = "closed"
    BY <1>3 DEF RoomState
  <2> QED
    BY <1>3, <2>1
<1> QED
  BY <1>1, <1>2, <1>3

LEMMA ShowsNext ==
  SocketInv /\ SocketInv' /\ PageTypes /\ ShownIsTrue /\ [Next]_vars
    => ShownIsTrue'
<1> SUFFICES ASSUME SocketInv, SocketInv', PageTypes, ShownIsTrue, [Next]_vars
             PROVE  ShownIsTrue'
  OBVIOUS
<1> USE BoundsAssumption
        DEF ShownIsTrue, LiveIsTrue, ConnectingIsTrue, RoomState, None
<1>1. CASE Mount
  BY <1>1 DEF Mount
<1>2. CASE DisconnectRoom
  BY <1>2 DEF DisconnectRoom
<1>3. CASE SendRoomMessage
  BY <1>3 DEF SendRoomMessage, sockets, view, RoomIs
<1>4. ASSUME NEW t \in Tokens, Superseded(t) \/ TicketFails(t)
      PROVE  ShownIsTrue'
  <2>1. /\ stage[t] = "ticket" /\ stage' = [stage EXCEPT ![t] = "failed"]
        /\ room' = room /\ page' = page
        /\ pending' = IF pending = t THEN None ELSE pending
    BY <1>4 DEF Superseded, TicketFails, Settle, view
  <2>2. RoomIs("open")' = RoomIs("open")
        /\ RoomIs("connecting")' = RoomIs("connecting")
    BY <2>1 DEF RoomIs, SocketInv, SocketTypes, Tokens
  <2>3. CASE shown' = shown /\ pending # t
    BY <2>1, <2>2, <2>3
  <2>4. CASE page /\ shown' = "error"
    BY <2>4
  <2>5. CASE ~page
    BY <2>1, <2>5
  <2>6. Current(t) => TicketFails(t) /\ NotifyState("error")
    BY <1>4 DEF Superseded, TicketFails
  <2>7. ~Current(t) => shown' = shown /\ pending # t
    BY <1>4
    DEF Superseded, TicketFails, view, Current, SocketInv, SocketTypes, Tokens
  <2> QED
    BY <2>3, <2>4, <2>5, <2>6, <2>7 DEF NotifyState, Listening
<1>5. ASSUME NEW t \in Tokens, OpenSocket(t) PROVE ShownIsTrue'
  <2>1. /\ room' = t /\ stage' = [stage EXCEPT ![t] = "connecting"]
        /\ UNCHANGED <<page, shown>>
        /\ \A u \in Tokens : stage[u] \notin LiveStage
    BY <1>5
    DEF OpenSocket, view, Current, SocketInv, AttemptIsPending
  <2>2. RoomIs("connecting")' /\ ~RoomIs("open")
    BY <2>1 DEF RoomIs, SocketInv, SocketTypes, Tokens, LiveStage
  <2>3. ~RoomIs("open")'
    BY <2>1 DEF RoomIs, SocketInv, SocketTypes
  <2> QED
    BY <2>1, <2>2, <2>3
<1>6. ASSUME NEW t \in Tokens, OnOpen(t) PROVE ShownIsTrue'
  <2>1. room = t /\ token = t /\ stage' = [stage EXCEPT ![t] = "open"]
    BY <1>6, OpenKeeps
  <2>2. room' = t /\ page' = page /\ NotifyState("open")
    BY <1>6, <2>1 DEF OnOpen, Current
  <2>3. RoomIs("open")'
    BY <2>1, <2>2 DEF RoomIs, Tokens, SocketInv, SocketTypes
  <2> QED
    BY <2>2, <2>3 DEF NotifyState, Listening
<1>7. ASSUME NEW t \in Tokens, NEW normal \in BOOLEAN,
             stage[t] \in LiveStage \union {"closing", "aborting"},
             CloseHandler(t, normal)
      PROVE  ShownIsTrue'
  <2>1. /\ stage' = [stage EXCEPT ![t] = "closed"]
        /\ UNCHANGED <<pending, page>>
    BY <1>7 DEF CloseHandler
  <2>2. CASE ~page
    BY <2>1, <2>2
  <2>3. CASE page /\ shown' \in {"closed", "error"}
    BY <2>3
  <2>4. CASE shown' = shown /\ ~Current(t) /\ room' = room
    <3>1. stage[t] \notin LiveStage
      BY <2>4 DEF Current, SocketInv, LiveSocketIsCurrent
    <3>2. /\ RoomIs("open") => RoomIs("open")'
          /\ RoomIs("connecting") => RoomIs("connecting")'
          /\ RoomIs("open")' => RoomIs("open")
      BY <2>1, <2>4, <3>1
      DEF RoomIs, LiveStage, SocketInv, SocketTypes, Tokens
    <3> QED
      BY <2>1, <2>4, <3>2
  <2>5. \/ ~page \/ shown' \in {"closed", "error"}
        \/ shown' = shown /\ ~Current(t) /\ room' = room
    BY <1>7 DEF CloseHandler, NotifyState, Listening
  <2> QED
    BY <2>2, <2>3, <2>4, <2>5
<1>8. ASSUME NEW t \in Tokens, OnClientClose(t) PROVE ShownIsTrue'
  <2>1. (stage[t] = "closing") \in BOOLEAN
    OBVIOUS
  <2> QED
    BY <1>7, <1>8, <2>1 DEF OnClientClose
<1>9. ASSUME NEW t \in Tokens, SocketEvent(t) PROVE ShownIsTrue'
  BY <1>6, <1>7, <1>8, <1>9 DEF SocketEvent, OnClose, LiveStage
<1>10. ASSUME NEW t \in Tokens, TimerFires(t) PROVE ShownIsTrue'
  <2>1. room' = room /\ page' = page
    BY <1>10 DEF TimerFires
  <2>2. \/ ReuseOpen \/ ReusePending({t}) \/ AwaitConnecting({t})
        \/ StartAttempt({t})
    BY <1>10 DEF TimerFires
  <2>3. shown' = shown \/ (StartAttempt({t}) /\ NotifyState("connecting"))
    BY <1>10 DEF TimerFires
  <2>4. /\ RoomIs("open")' <=> RoomIs("open")
        /\ RoomIs("connecting")' <=> RoomIs("connecting")
        /\ pending # None => pending' # None \/ RoomIs("connecting")
        /\ StartAttempt({t}) => pending' # None
    BY <2>1, <2>2, ConnectShows
  <2>5. shown' = shown \/ (pending' # None /\ shown' \in {shown, "connecting"})
    BY <2>3, <2>4 DEF NotifyState, Listening
  <2> HIDE DEF RoomState
  <2>6. LiveIsTrue'
    BY <2>1, <2>4, <2>5, RoomStateIs, RoomStateNext
  <2>7. ConnectingIsTrue'
    BY <2>1, <2>4, <2>5, RoomStateIs, RoomStateNext
  <2> QED
    BY <2>6, <2>7
<1>11. CASE UNCHANGED vars
  BY <1>11 DEF vars, sockets, view, RoomIs
<1> QED
  BY <1>1, <1>2, <1>3, <1>4, <1>5, <1>9, <1>10, <1>11 DEF Next, Attempt

(* ShownIsTrue, however late tickets, events and timers come: "Live" and      *)
(* "Connecting" are on the screen only while they are true.                   *)
THEOREM ShownIsTrueCorrect == Spec => []ShownIsTrue
<1>1. Init => ShownIsTrue
  BY DEF Init, ShownIsTrue, LiveIsTrue, ConnectingIsTrue
<1> QED
  BY <1>1, ShowsNext, SocketAlways, PageTypesAlways, PTL DEF Spec

-------------------------------------------------------------------------------
(* The link *)

(* Steps that leave the queues, and neither open the room nor close it.       *)
LEMMA Stutters ==
  ASSUME UNCHANGED <<page, sendQueue, handed>>, RoomIs("open")' <=> RoomIs("open")
  PROVE  UNCHANGED Link!linkVars
BY DEF RoomIs, Link!linkVars

LEMMA AttemptStutters ==
  ASSUME SocketInv, NEW t \in Tokens, Attempt(t)
  PROVE  UNCHANGED Link!linkVars
<1>1. UNCHANGED <<page, sendQueue, handed>>
  BY DEF Attempt, Superseded, OpenSocket, TicketFails, traffic, view
<1>2. CASE Superseded(t) \/ TicketFails(t)
  <2>1. /\ stage[t] = "ticket" /\ stage' = [stage EXCEPT ![t] = "failed"]
        /\ room' = room
    BY <1>2 DEF Superseded, TicketFails
  <2>2. RoomIs("open")' <=> RoomIs("open")
    BY <2>1 DEF RoomIs, SocketInv, SocketTypes, Tokens
  <2> QED
    BY <1>1, <2>2, Stutters
<1>3. CASE OpenSocket(t)
  <2>1. /\ room' = t /\ stage' = [stage EXCEPT ![t] = "connecting"]
        /\ \A u \in Tokens : stage[u] \notin LiveStage
    BY <1>3 DEF OpenSocket, Current, SocketInv, AttemptIsPending
  <2>2. ~RoomIs("open")' /\ ~RoomIs("open")
    BY <2>1, BoundsAssumption
    DEF RoomIs, SocketInv, SocketTypes, Tokens, LiveStage, None
  <2> QED
    BY <1>1, <2>2, Stutters
<1> QED
  BY <1>2, <1>3 DEF Attempt

LEMMA CloseIsLoss ==
  ASSUME SocketInv, NEW t \in Tokens, NEW normal \in BOOLEAN,
         stage[t] \in LiveStage \union {"closing", "aborting"},
         CloseHandler(t, normal)
  PROVE  [Link!LinkNext]_Link!linkVars
<1>1. /\ UNCHANGED <<page, sendQueue, handed>>
      /\ stage' = [stage EXCEPT ![t] = "closed"]
  BY DEF CloseHandler, traffic
<1>2. CASE Current(t)
  <2>1. room' = None
    BY <1>2 DEF CloseHandler
  <2>2. ~RoomIs("open")'
    BY <2>1 DEF RoomIs
  <2>3. CASE RoomIs("open")
    BY <1>1, <2>2, <2>3 DEF RoomIs, Link!LinkNext, Link!Lost
  <2> QED
    BY <1>1, <2>2, <2>3, Stutters
<1>3. CASE ~Current(t)
  <2>1. room' = room /\ stage[t] \notin LiveStage
    BY <1>3 DEF CloseHandler, Current, SocketInv, LiveSocketIsCurrent
  <2>2. RoomIs("open")' <=> RoomIs("open")
    BY <1>1, <2>1 DEF RoomIs, LiveStage, SocketInv, SocketTypes, Tokens
  <2> QED
    BY <1>1, <2>2, Stutters
<1> QED
  BY <1>2, <1>3

LEMMA OpenIsOpened ==
  ASSUME SocketInv, PageTypes, NEW t \in Tokens, OnOpen(t)
  PROVE  Link!Opened(<<>>)
<1>1. /\ room = t /\ token = t /\ stage[t] = "connecting"
      /\ stage' = [stage EXCEPT ![t] = "open"]
  BY OpenKeeps
<1>2. room' = room /\ page' = page /\ handed' = handed \o sendQueue /\ sendQueue' = <<>>
  BY <1>1 DEF OnOpen, Current, FlushQueue
<1>3. ~RoomIs("open") /\ RoomIs("open")'
  BY <1>1, <1>2 DEF RoomIs, Tokens, SocketInv, SocketTypes, None
<1>4. (handed \o sendQueue) \o <<>> = handed \o sendQueue
  BY MessageQueues, ConcatEmptySeq DEF PageTypes
<1> QED
  BY <1>2, <1>3, <1>4 DEF Link!Opened, RoomIs

LEMMA SendIsWrite ==
  ASSUME PageTypes, SendRoomMessage
  PROVE  \E m \in 1..MaxSent : Link!Write(m)
<1>1. made + 1 \in 1..MaxSent
  BY BoundsAssumption DEF SendRoomMessage, PageTypes
<1>2. /\ Append(handed, made + 1) = handed \o <<made + 1>>
      /\ Append(sendQueue, made + 1) = sendQueue \o <<made + 1>>
  BY <1>1, AppendIsConcat DEF PageTypes
<1>3. page /\ UNCHANGED <<page, room, stage>>
  BY DEF SendRoomMessage, sockets, view
<1>4. Link!Hand(<<made + 1>>)
  BY <1>2 DEF SendRoomMessage, Link!Hand
<1> QED
  BY <1>1, <1>3, <1>4 DEF Link!Write, RoomIs

LEMMA LinkStep ==
  SocketInv /\ SocketInv' /\ PageTypes /\ [Next]_vars
    => [Link!LinkNext]_Link!linkVars
<1> SUFFICES ASSUME SocketInv, SocketInv', PageTypes, [Next]_vars
             PROVE  [Link!LinkNext]_Link!linkVars
  OBVIOUS
<1>1. CASE Mount
  <2>1. /\ room' = room /\ UNCHANGED <<sendQueue, handed>> /\ ~page
        /\ page' = TRUE
    BY <1>1 DEF Mount, traffic
  <2>2. \/ ReuseOpen \/ ReusePending({}) \/ AwaitConnecting({})
        \/ StartAttempt({})
    BY <1>1 DEF Mount
  <2>3. RoomIs("open")' <=> RoomIs("open")
    BY <2>1, <2>2, ConnectShows
  <2>4. Link!Enter
    BY <2>1, <2>3 DEF Link!Enter, RoomIs
  <2> QED
    BY <2>4 DEF Link!LinkNext
<1>2. CASE DisconnectRoom
  <2>1. /\ page /\ page' = FALSE /\ room' = None /\ handed' = handed
        /\ sendQueue' \in {sendQueue, <<>>}
        /\ room # None => sendQueue' = <<>>
    BY <1>2 DEF DisconnectRoom
  <2>2. Link!Leave
    BY <2>1 DEF Link!Leave, RoomIs
  <2> QED
    BY <2>2 DEF Link!LinkNext
<1>3. CASE SendRoomMessage
  BY <1>3, SendIsWrite DEF Link!LinkNext
<1>4. ASSUME NEW t \in Tokens, Attempt(t)
      PROVE  [Link!LinkNext]_Link!linkVars
  BY <1>4, AttemptStutters
<1>5. ASSUME NEW t \in Tokens, SocketEvent(t)
      PROVE  [Link!LinkNext]_Link!linkVars
  <2>1. CASE OnOpen(t)
    BY <2>1, OpenIsOpened DEF Link!LinkNext
  <2>2. CASE \E normal \in BOOLEAN : OnClose(t, normal)
    BY <2>2, CloseIsLoss DEF OnClose, LiveStage
  <2>3. CASE OnClientClose(t)
    <3>1. (stage[t] = "closing") \in BOOLEAN
      OBVIOUS
    <3> QED
      BY <2>3, <3>1, CloseIsLoss DEF OnClientClose
  <2> QED
    BY <1>5, <2>1, <2>2, <2>3 DEF SocketEvent
<1>6. ASSUME NEW t \in Tokens, TimerFires(t)
      PROVE  [Link!LinkNext]_Link!linkVars
  <2>1. room' = room /\ UNCHANGED <<page, sendQueue, handed>>
    BY <1>6 DEF TimerFires, traffic
  <2>2. \/ ReuseOpen \/ ReusePending({t}) \/ AwaitConnecting({t})
        \/ StartAttempt({t})
    BY <1>6 DEF TimerFires
  <2>3. RoomIs("open")' <=> RoomIs("open")
    BY <2>1, <2>2, ConnectShows
  <2> QED
    BY <2>1, <2>3, Stutters
<1>7. CASE UNCHANGED vars
  BY <1>7 DEF vars, sockets, traffic, view, RoomIs, Link!linkVars
<1> QED
  BY <1>1, <1>2, <1>3, <1>4, <1>5, <1>6, <1>7 DEF Next

(* LinkImplemented: the manager is a link for any number of attempts and any  *)
(* number of messages: in order, once, and kept across a lost connection.     *)
THEOREM LinkImplementedCorrect == Spec => LinkImplemented
<1>1. Init => Link!LinkInit
  BY DEF Init, Link!LinkInit, RoomIs
<1> QED
  BY <1>1, LinkStep, SocketAlways, PageTypesAlways, PTL
  DEF Spec, LinkImplemented, Link!LinkSpec

-------------------------------------------------------------------------------
(***************************************************************************)
(* The note page                                                             *)
(***************************************************************************)

-------------------------------------------------------------------------------
(* Induction over a sequence, by the place of a least counterexample *)

LEMMA Least ==
  ASSUME NEW T, T \subseteq Nat, T # {}
  PROVE  \E x \in T : \A y \in T : x <= y
<1>1. PICK x \in T : \A y \in T : ~(<<y, x>> \in OpToRel(<, Nat))
  BY WFMin, NatLessThanWellFounded
<1>2. \A y \in T : ~(y < x)
  BY <1>1 DEF OpToRel
<1> QED
  BY <1>2

LEMMA Greatest ==
  ASSUME NEW n \in Nat, NEW T, T \subseteq 1..n, T # {}
  PROVE  \E x \in T : \A y \in T : y <= x
<1> DEFINE D == {k \in Nat : n - k \in T}
<1>1. D # {}
  <2>1. PICK y \in T : TRUE
    OBVIOUS
  <2>2. n - y \in D
    BY <2>1
  <2> QED
    BY <2>2
<1>2. PICK k \in D : \A l \in D : k <= l
  BY <1>1, Least
<1>3. \A y \in T : y <= n - k
  <2>1. TAKE y \in T
  <2>2. n - y \in D
    OBVIOUS
  <2> QED
    BY <1>2, <2>2
<1> QED
  BY <1>3

\* f[i] is the page's refs after the first i of n messages of q.
Handles(f, start, q, n) ==
  f = [i \in 0..n |-> IF i = 0 THEN start
                      ELSE ApplyIncomingMessage(f[i - 1], q[i])]

LEMMA HandlesExists ==
  ASSUME NEW start, NEW q, NEW n \in Nat
  PROVE  \E f : Handles(f, start, q, n)
<1> DEFINE A(s, i) == ApplyIncomingMessage(s, q[i])
           Defined(m) == \E f : f = [i \in 0..m |-> IF i = 0 THEN start
                                                    ELSE A(f[i - 1], i)]
           T == {m \in Nat : ~Defined(m)}
<1> HIDE DEF A
<1>1. SUFFICES ASSUME T # {} PROVE FALSE
  BY DEF A, Handles
<1>2. PICK m \in T : \A k \in T : m <= k
  BY <1>1, Least
<1>3. CASE m = 0
  <2>1. [i \in 0..0 |-> start] = [i \in 0..0 |-> IF i = 0 THEN start
                              ELSE A([j \in 0..0 |-> start][i - 1], i)]
    OBVIOUS
  <2>2. Defined(0)
    BY <2>1
  <2> QED
    BY <1>2, <1>3, <2>2
<1>4. CASE m # 0
  <2>1. m - 1 \in Nat /\ m - 1 \notin T
    BY <1>2, <1>4
  <2>2. PICK f : f = [i \in 0..(m - 1) |-> IF i = 0 THEN start
                                           ELSE A(f[i - 1], i)]
    BY <2>1
  <2> DEFINE g == [i \in 0..m |-> IF i = m THEN A(f[m - 1], m) ELSE f[i]]
  <2>3. g[0] = start
    BY <1>2, <1>4, <2>2
  <2>4. \A i \in 1..m : g[i] = A(g[i - 1], i)
    <3>1. SUFFICES ASSUME NEW i \in 1..m PROVE g[i] = A(g[i - 1], i)
      OBVIOUS
    <3>2. g[i - 1] = f[i - 1]
      BY <1>2
    <3>3. CASE i = m
      BY <1>2, <3>2, <3>3
    <3>4. CASE i # m
      <4>1. g[i] = f[i] /\ i \in 0..(m - 1) /\ i # 0
        BY <1>2, <3>4
      <4>2. f[i] = A(f[i - 1], i)
        BY <2>2, <4>1
      <4> QED
        BY <3>2, <4>1, <4>2
    <3> QED
      BY <3>3, <3>4
  <2>5. g = [i \in 0..m |-> g[i]]
    OBVIOUS
  <2> HIDE DEF g
  <2>6. \A i \in 0..m : g[i] = IF i = 0 THEN start ELSE A(g[i - 1], i)
    <3>1. \A i \in 0..m : i = 0 \/ i \in 1..m
      BY <1>2
    <3> QED
      BY <2>3, <2>4, <3>1, Zenon
  <2>7. g = [i \in 0..m |-> IF i = 0 THEN start ELSE A(g[i - 1], i)]
    BY <2>5, <2>6
  <2>8. Defined(m)
    BY <2>7
  <2> QED
    BY <1>2, <2>8
<1> QED
  BY <1>3, <1>4

LEMMA HandlesSteps ==
  ASSUME NEW start, NEW q, NEW n \in Nat, NEW f, Handles(f, start, q, n)
  PROVE  /\ f[0] = start
         /\ \A i \in 1..n : f[i] = ApplyIncomingMessage(f[i - 1], q[i])
<1>1. f = [i \in 0..n |-> IF i = 0 THEN start
                          ELSE ApplyIncomingMessage(f[i - 1], q[i])]
  BY DEF Handles
<1>2. \A i \in 0..n : f[i] = IF i = 0 THEN start
                             ELSE ApplyIncomingMessage(f[i - 1], q[i])
  BY <1>1
<1> QED
  BY <1>2

Emptied(r) == [r EXCEPT !.held = <<>>]

\* What handling one message after another keeps, holds of the page in the end:
\* P[i] is the set of refs there may be after i messages.
LEMMA DrainInduction ==
  ASSUME NEW r, Len(r.held) \in Nat, NEW P, Emptied(r) \in P[0],
         \A i \in 1..Len(r.held) : \A s \in P[i - 1] :
           ApplyIncomingMessage(s, r.held[i]) \in P[i]
  PROVE  Drain(r) \in P[Len(r.held)]
<1> DEFINE n == Len(r.held)
           after == CHOOSE f : Handles(f, Emptied(r), r.held, n)
           T == {i \in 0..n : after[i] \notin P[i]}
<1>1. Drain(r) = after[n]
  BY DEF Drain, Emptied, Handles
<1>2. \E f : Handles(f, Emptied(r), r.held, n)
  BY HandlesExists
<1>3. Handles(after, Emptied(r), r.held, n)
  BY <1>2, Zenon
<1> HIDE DEF after
<1>4. /\ after[0] = Emptied(r)
      /\ \A i \in 1..n : after[i] = ApplyIncomingMessage(after[i - 1], r.held[i])
  <2> DEFINE q == r.held
             start == Emptied(r)
  <2>1. n \in Nat /\ Handles(after, start, q, n)
    BY <1>3
  <2> HIDE DEF n, q, start
  <2>2. /\ after[0] = start
        /\ \A i \in 1..n : after[i] = ApplyIncomingMessage(after[i - 1], q[i])
    BY <2>1, HandlesSteps
  <2> QED
    BY <2>2 DEF start, q
<1>5. SUFFICES ASSUME T # {} PROVE FALSE
  BY <1>1
<1>6. PICK m \in T : \A k \in T : m <= k
  <2>1. T \subseteq Nat
    OBVIOUS
  <2> HIDE DEF T
  <2> QED
    BY <1>5, <2>1, Least
<1>7. m # 0
  BY <1>4, <1>6
<1>8. m \in 1..n /\ m - 1 \in 0..n /\ m - 1 \notin T
  BY <1>6, <1>7
<1>9. after[m - 1] \in P[m - 1]
  BY <1>8
<1> QED
  BY <1>4, <1>6, <1>8, <1>9


-------------------------------------------------------------------------------
(* What is to come *)

\* The message at k is the last of q that brings block b.
Latest(q, b, k) ==
  /\ k \in DOMAIN q /\ b \in Brings(q[k])
  /\ \A j \in DOMAIN q : j > k => b \notin Brings(q[j])

LEMMA LatestDecides ==
  ASSUME NEW S, NEW q \in Seq(S), NEW b, NEW k, Latest(q, b, k), NEW doc
  PROVE  ToCome(doc, q, b) = Given(q[k])[b]
<1> DEFINE I == {i \in DOMAIN q : b \in Brings(q[i])}
           top == CHOOSE i \in I : \A j \in I : j <= i
<1>1. DOMAIN q \subseteq Nat
  BY LenProperties
<1>2. k \in I /\ \A j \in I : j <= k
  BY <1>1 DEF Latest
<1>3. top \in I /\ \A j \in I : j <= top
  BY <1>2
<1>4. top = k
  BY <1>1, <1>2, <1>3
<1>5. ToCome(doc, q, b) = Given(q[top])[b]
  BY <1>2 DEF ToCome
<1> QED
  BY <1>4, <1>5

LEMMA NothingComes ==
  ASSUME NEW S, NEW q \in Seq(S), NEW b,
         \A j \in DOMAIN q : b \notin Brings(q[j]), NEW doc
  PROVE  ToCome(doc, q, b) = doc[b]
BY DEF ToCome

LEMMA LatestExists ==
  ASSUME NEW S, NEW q \in Seq(S), NEW b
  PROVE  \/ \A j \in DOMAIN q : b \notin Brings(q[j])
         \/ \E k : Latest(q, b, k)
<1> DEFINE I == {i \in DOMAIN q : b \in Brings(q[i])}
<1>1. DOMAIN q = 1..Len(q) /\ Len(q) \in Nat
  BY LenProperties
<1>2. SUFFICES ASSUME I # {} PROVE \E k : Latest(q, b, k)
  OBVIOUS
<1>3. I \subseteq 1..Len(q)
  BY <1>1
<1>4. \E k \in I : \A j \in I : j <= k
  <2> HIDE DEF I
  <2> QED
    BY <1>1, <1>2, <1>3, Greatest
<1>5. PICK k \in I : \A j \in I : j <= k
  BY <1>4
<1>6. Latest(q, b, k)
  BY <1>1, <1>5 DEF Latest
<1> QED
  BY <1>6

\* One part of a queue after the other.
LEMMA PartsCome ==
  ASSUME NEW S, NEW q \in Seq(S), NEW w \in Seq(S), NEW b, NEW doc, NEW next,
         next[b] = ToCome(doc, q, b)
  PROVE  ToCome(doc, q \o w, b) = ToCome(next, w, b)
<1> DEFINE all == q \o w
<1>1. /\ all \in Seq(S) /\ Len(q) \in Nat /\ Len(w) \in Nat
      /\ DOMAIN all = 1..(Len(q) + Len(w))
      /\ DOMAIN q = 1..Len(q) /\ DOMAIN w = 1..Len(w)
      /\ \A i \in 1..Len(q) : all[i] = q[i]
      /\ \A i \in 1..Len(w) : all[Len(q) + i] = w[i]
  BY ConcatProperties, LenProperties
<1>2. \A j \in DOMAIN all : j \in DOMAIN q \/ j - Len(q) \in DOMAIN w
  BY <1>1
<1>w. \A j \in DOMAIN all : j \notin DOMAIN q => all[j] = w[j - Len(q)]
  BY <1>1
<1> HIDE DEF all
<1>3. CASE \E k : Latest(w, b, k)
  <2>1. PICK k : Latest(w, b, k)
    BY <1>3
  <2>2. Len(q) + k \in DOMAIN all /\ all[Len(q) + k] = w[k]
    BY <1>1, <2>1 DEF Latest
  <2>3. \A j \in DOMAIN all : j > Len(q) + k => b \notin Brings(all[j])
    <3>1. SUFFICES ASSUME NEW j \in DOMAIN all, j > Len(q) + k
                   PROVE  b \notin Brings(all[j])
      OBVIOUS
    <3>2. j - Len(q) \in DOMAIN w /\ j - Len(q) > k /\ j \notin DOMAIN q
      BY <1>1, <2>1, <3>1 DEF Latest
    <3> QED
      BY <1>w, <2>1, <3>2 DEF Latest
  <2>4. Latest(all, b, Len(q) + k)
    BY <2>1, <2>2, <2>3 DEF Latest
  <2>5. ToCome(doc, all, b) = Given(w[k])[b]
    BY <1>1, <2>2, <2>4, LatestDecides
  <2>6. ToCome(next, w, b) = Given(w[k])[b]
    BY <2>1, LatestDecides
  <2> QED
    BY <2>5, <2>6 DEF all
<1>4. CASE \A j \in DOMAIN w : b \notin Brings(w[j])
  <2>1. ToCome(next, w, b) = next[b]
    BY <1>4, NothingComes
  <2>2. \A j \in DOMAIN all : j \notin DOMAIN q => b \notin Brings(all[j])
    BY <1>2, <1>4, <1>w
  <2>3. CASE \E k : Latest(q, b, k)
    <3>1. PICK k : Latest(q, b, k)
      BY <2>3
    <3>2. k \in DOMAIN all /\ all[k] = q[k]
      BY <1>1, <3>1 DEF Latest
    <3>3. Latest(all, b, k)
      <4>1. \A j \in DOMAIN all : j > k => b \notin Brings(all[j])
        BY <1>1, <2>2, <3>1 DEF Latest
      <4> QED
        BY <3>1, <3>2, <4>1 DEF Latest
    <3>4. ToCome(doc, all, b) = Given(q[k])[b]
      BY <1>1, <3>2, <3>3, LatestDecides
    <3>5. ToCome(doc, q, b) = Given(q[k])[b]
      BY <3>1, LatestDecides
    <3> QED
      BY <2>1, <3>4, <3>5 DEF all
  <2>4. CASE \A j \in DOMAIN q : b \notin Brings(q[j])
    <3>1. \A j \in DOMAIN all : b \notin Brings(all[j])
      BY <1>1, <2>2, <2>4
    <3>2. ToCome(doc, all, b) = doc[b]
      BY <1>1, <3>1, NothingComes
    <3>3. ToCome(doc, q, b) = doc[b]
      BY <2>4, NothingComes
    <3> QED
      BY <2>1, <3>2, <3>3 DEF all
  <2> QED
    BY <2>3, <2>4, LatestExists
<1> QED
  BY <1>3, <1>4, LatestExists

\* The document after one message.
After(doc, m, b) == IF b \in Brings(m) THEN Given(m)[b] ELSE doc[b]

LEMMA OneComes ==
  ASSUME NEW S, NEW m \in S, NEW b, NEW doc
  PROVE  ToCome(doc, <<m>>, b) = After(doc, m, b)
<1> DEFINE one == <<m>>
<1>1. one \in Seq(S) /\ DOMAIN one = {1} /\ one[1] = m
  OBVIOUS
<1> HIDE DEF one
<1>2. CASE b \in Brings(m)
  <2>1. Latest(one, b, 1)
    BY <1>1, <1>2 DEF Latest
  <2>2. ToCome(doc, one, b) = Given(one[1])[b]
    BY <1>1, <2>1, LatestDecides
  <2> QED
    BY <1>1, <1>2, <2>2 DEF After, one
<1>3. CASE b \notin Brings(m)
  <2>1. ToCome(doc, one, b) = doc[b]
    BY <1>1, <1>3, NothingComes
  <2> QED
    BY <1>3, <2>1 DEF After, one
<1> QED
  BY <1>2, <1>3

LEMMA LastComes ==
  ASSUME NEW S, NEW q \in Seq(S), NEW m \in S, NEW b, NEW doc
  PROVE  ToCome(doc, Append(q, m), b) =
           IF b \in Brings(m) THEN Given(m)[b] ELSE ToCome(doc, q, b)
<1> DEFINE next == [c \in {b} |-> ToCome(doc, q, c)]
           one == <<m>>
<1>1. next[b] = ToCome(doc, q, b)
  OBVIOUS
<1>2. ToCome(next, one, b) = After(next, m, b)
  BY OneComes
<1>3. Append(q, m) = q \o one /\ one \in Seq(S)
  BY AppendIsConcat
<1> HIDE DEF next, one
<1>4. ToCome(doc, q \o one, b) = ToCome(next, one, b)
  BY <1>1, <1>3, PartsCome
<1> QED
  BY <1>1, <1>2, <1>3, <1>4 DEF After

LEMMA FirstComes ==
  ASSUME NEW S, NEW q \in Seq(S), q # <<>>, NEW b, NEW doc, NEW next,
         next[b] = After(doc, Head(q), b)
  PROVE  ToCome(doc, q, b) = ToCome(next, Tail(q), b)
<1> DEFINE one == <<Head(q)>>
           rest == Tail(q)
<1>1. /\ Head(q) \in S /\ rest \in Seq(S) /\ one \in Seq(S)
      /\ q = one \o rest
  BY HeadTailProperties, ConcatProperties, SeqEqual, LenProperties
<1>2. ToCome(doc, one, b) = After(doc, Head(q), b)
  BY <1>1, OneComes
<1> HIDE DEF one, rest
<1>3. ToCome(doc, one \o rest, b) = ToCome(next, rest, b)
  BY <1>1, <1>2, PartsCome
<1> QED
  BY <1>1, <1>3 DEF rest


-------------------------------------------------------------------------------
(* Messages and what a page makes of them *)

Frames == Patches \union Greetings
Outbound == Patches \union {Identify}
Docs == Document \union {NoSnapshot}

LEMMA TouchesOf ==
  /\ \A m \in Patches : Touches(m) = DOMAIN m.upserted \union m.deleted
  /\ \A m \in Greetings : Touches(m) = Blocks
  /\ Touches(Identify) = {}
<1>1. \A m : m.type = "patch" =>
        Touches(m) = DOMAIN m.upserted \union m.deleted
  BY Zenon DEF Touches
<1>2. \A m : m.type = "init" => Touches(m) = Blocks
  <2>1. "init" # "patch"
    OBVIOUS
  <2> QED
    BY <2>1, Zenon DEF Touches
<1>3. \A m : m.type = "identify" => Touches(m) = {}
  <2>1. "identify" # "patch" /\ "identify" # "init"
    OBVIOUS
  <2> QED
    BY <2>1, Zenon DEF Touches
<1> QED
  BY <1>1, <1>2, <1>3 DEF Patches, Greetings, Identify

LEMMA TouchesBlocks ==
  \A m \in Frames \union Outbound : Touches(m) \subseteq Blocks /\ Brings(m) \subseteq Touches(m)
<1>1. \A m \in Patches : DOMAIN m.upserted \union m.deleted \subseteq Blocks
  BY DEF Patches
<1>2. \A m \in Frames \union Outbound : Touches(m) \subseteq Blocks
  BY <1>1, TouchesOf DEF Frames, Outbound
<1>3. \A m : Brings(m) \subseteq Touches(m)
  BY DEF Brings
<1> QED
  BY <1>2, <1>3

LEMMA BringsOf ==
  /\ \A m \in Patches : Brings(m) = Touches(m)
  /\ \A m \in Greetings : Brings(m) = IF m.blank THEN {} ELSE Blocks
  /\ Brings(Identify) = {}
BY TouchesOf DEF Brings, Patches, Greetings, Identify

LEMMA ApplyPatchAt ==
  ASSUME NEW doc \in Document, NEW m \in Patches
  PROVE  /\ ApplyPatch(doc, m) \in Document
         /\ \A b \in Blocks : ApplyPatch(doc, m)[b] =
              IF b \in Touches(m) THEN Given(m)[b] ELSE doc[b]
<1>1. /\ DOMAIN m.upserted \subseteq Blocks
      /\ \A b \in DOMAIN m.upserted : m.upserted[b] \in Versions
  BY DEF Patches
<1>2. ApplyPatch(doc, m) \in Document
  BY <1>1 DEF ApplyPatch, Document
<1>3. Given(m) = ApplyPatch(Empty, m)
  BY DEF Given, Patches
<1>4. Touches(m) = DOMAIN m.upserted \union m.deleted
  BY TouchesOf
<1> QED
  BY <1>2, <1>3, <1>4 DEF ApplyPatch

\* A patch made of two documents touches what differs and gives what is new.
LEMMA DiffSound ==
  ASSUME NEW prev \in Document, NEW next \in Document
  PROVE  LET m == DiffBlocks(prev, next) IN
         /\ m \in Patches
         /\ \A b \in Blocks : b \in Touches(m) <=> next[b] # prev[b]
         /\ \A b \in Touches(m) : Given(m)[b] = next[b]
<1> DEFINE m == DiffBlocks(prev, next)
           New == {c \in Blocks : next[c] # prev[c] /\ next[c] # Absent}
           U == [b \in New |-> next[b]]
           D == {b \in Blocks : prev[b] # Absent /\ next[b] = Absent}
<1>1. m = [type |-> "patch", upserted |-> U, deleted |-> D]
  BY DEF DiffBlocks
<1>2. U \in [New -> Versions] /\ New \in SUBSET Blocks /\ D \in SUBSET Blocks
  BY DEF Document
<1>3. DOMAIN U = New /\ \A b \in New : U[b] = next[b]
  OBVIOUS
<1> HIDE DEF U
<1>4. m \in Patches /\ m.upserted = U /\ m.deleted = D /\ m.type = "patch"
  BY <1>1, <1>2 DEF Patches
<1> HIDE DEF m
<1>5. \A b \in Blocks : b \in Touches(m) <=> next[b] # prev[b]
  BY <1>3, <1>4, TouchesOf
<1>6. \A b \in Blocks : b \in Touches(m) => Given(m)[b] = next[b]
  <2>1. Given(m) = ApplyPatch(Empty, m) /\ Touches(m) = New \union D
    BY <1>3, <1>4, TouchesOf DEF Given
  <2> QED
    BY <1>3, <1>4, <2>1 DEF ApplyPatch
<1>7. Touches(m) \subseteq Blocks
  BY <1>4, TouchesBlocks DEF Frames
<1> QED
  BY <1>4, <1>5, <1>6, <1>7 DEF m


RefsType == [value: Document, base: Document, last: Docs, applying: Nat,
             held: Seq(Frames)]

LEMMA EmptyIsDocument == Empty \in Document /\ Empty \in Docs
BY DEF Empty, Document, Docs

\* What the editor shows is the baseline, or there is none.
ShowsBase(r) == r.value = r.base \/ r.base = Empty

LEMMA RemoteValueApplied ==
  ASSUME NEW r \in RefsType, NEW doc \in Document, r.base = doc
  PROVE  LET t == ApplyRemoteValue(r, doc) IN
         /\ t \in RefsType /\ t.held = r.held /\ t.base = doc
         /\ ShowsBase(t)
<1>1. CASE doc = Empty
  BY <1>1 DEF ApplyRemoteValue, ShowsBase
<1>2. CASE doc # Empty
  <2> DEFINE t == [r EXCEPT !.applying = @ + 1, !.value = doc, !.last = doc,
                            !.base = doc]
  <2>1. ApplyRemoteValue(r, doc) = t
    BY <1>2 DEF ApplyRemoteValue
  <2>2. /\ t.value = doc /\ t.base = doc /\ t.last = doc
        /\ t.applying = r.applying + 1 /\ t.held = r.held
        /\ DOMAIN t = {"value", "base", "last", "applying", "held"}
    BY DEF RefsType
  <2>3. t \in RefsType
    <3>1. doc \in Docs /\ r.applying + 1 \in Nat
      BY DEF RefsType, Docs
    <3> QED
      BY <3>1 DEF RefsType
  <2> QED
    BY <2>1, <2>2, <2>3 DEF ShowsBase
<1> QED
  BY <1>1, <1>2

\* One message, on any refs.
LEMMA MessageApplied ==
  ASSUME NEW r \in RefsType, NEW m \in Frames
  PROVE  LET t == ApplyIncomingMessage(r, m) IN
         /\ t \in RefsType
         /\ t.held = <<>> => r.held = <<>> /\ \A b \in Blocks :
                                        t.base[b] = After(r.base, m, b)
         /\ \A b \in Blocks : t.base[b] # r.base[b] => b \in Brings(m)
         /\ ShowsBase(r) => ShowsBase(t)
<1> DEFINE t == ApplyIncomingMessage(r, m)
<1>f. "init" # "patch"
  OBVIOUS
<1>1. CASE m \in Greetings /\ ~m.blank
  <2> DEFINE s == [r EXCEPT !.base = m.doc, !.last = m.doc]
  <2>1. m.type = "init" /\ m.doc \in Document
    BY <1>1 DEF Greetings
  <2>2. t = ApplyRemoteValue(s, m.doc)
    BY <1>1, <1>f, <2>1, Zenon DEF ApplyIncomingMessage
  <2>3. s \in RefsType /\ s.base = m.doc /\ s.held = r.held
    BY <2>1 DEF RefsType, Docs
  <2> HIDE DEF s
  <2>4. t \in RefsType /\ t.held = r.held /\ t.base = m.doc /\ ShowsBase(t)
    BY <2>1, <2>2, <2>3, RemoteValueApplied
  <2>5. Brings(m) = Blocks /\ Given(m) = m.doc
    BY <1>1, <2>1, BringsOf DEF Given
  <2> QED
    BY <2>4, <2>5 DEF After
<1>2. CASE m \in Greetings /\ m.blank
  <2>1. m.type = "init"
    BY <1>2 DEF Greetings
  <2>2. t = r
    BY <1>2, <1>f, <2>1, Zenon DEF ApplyIncomingMessage
  <2>3. Brings(m) = {}
    BY <1>2, BringsOf
  <2> QED
    BY <2>2, <2>3 DEF After, RefsType
<1>3. CASE m \in Patches /\ r.base = Empty
  <2>1. m.type = "patch"
    BY <1>3 DEF Patches
  <2>2. t = [r EXCEPT !.held = Append(@, m)]
    BY <1>3, <1>f, <2>1, Zenon DEF ApplyIncomingMessage
  <2>3. Append(r.held, m) \in Seq(Frames) /\ Append(r.held, m) # <<>>
    BY AppendProperties DEF RefsType
  <2>4. t \in RefsType /\ t.held # <<>> /\ t.base = r.base
    BY <2>2, <2>3 DEF RefsType
  <2> QED
    BY <1>3, <2>4 DEF ShowsBase
<1>4. CASE m \in Patches /\ r.base # Empty
  <2> DEFINE merged == ApplyPatch(r.base, m)
             s == [r EXCEPT !.base = merged]
  <2>1. m.type = "patch" /\ r.base \in Document
    BY <1>4 DEF Patches, RefsType
  <2>2. t = ApplyRemoteValue(s, merged)
    BY <1>4, <1>f, <2>1, Zenon DEF ApplyIncomingMessage
  <2>3. /\ merged \in Document
        /\ \A b \in Blocks : merged[b] = IF b \in Touches(m) THEN Given(m)[b]
                                                            ELSE r.base[b]
    BY <1>4, <2>1, ApplyPatchAt
  <2> HIDE DEF merged
  <2>4. s \in RefsType /\ s.base = merged /\ s.held = r.held
    BY <2>3 DEF RefsType
  <2> HIDE DEF s
  <2>5. t \in RefsType /\ t.held = r.held /\ t.base = merged /\ ShowsBase(t)
    BY <2>2, <2>3, <2>4, RemoteValueApplied
  <2>6. Brings(m) = Touches(m)
    BY <1>4, BringsOf
  <2> QED
    BY <2>3, <2>5, <2>6 DEF After
<1> QED
  BY <1>1, <1>2, <1>3, <1>4 DEF Frames

\* The messages of the queue handled in order: unless one was set aside again,
\* the baseline is what was to come.
LEMMA QueueDrained ==
  ASSUME NEW r \in RefsType
  PROVE  LET t == Drain(r) IN
         /\ t \in RefsType
         /\ t.held = <<>> =>
              \A b \in Blocks : t.base[b] = ToCome(r.base, r.held, b)
         /\ \A b \in Blocks : t.base[b] # r.base[b] =>
              \E i \in DOMAIN r.held : b \in Brings(r.held[i])
         /\ ShowsBase(r) => ShowsBase(t)
<1> DEFINE q == r.held
           n == Len(q)
           Handled(i) == SubSeq(q, 1, i)
           P == [i \in 0..n |-> {s \in RefsType :
                  /\ s.held = <<>> =>
                       \A b \in Blocks : s.base[b] = ToCome(r.base, Handled(i), b)
                  /\ \A b \in Blocks : s.base[b] # r.base[b] =>
                       \E j \in DOMAIN q : b \in Brings(q[j])
                  /\ ShowsBase(r) => ShowsBase(s)}]
           start == Emptied(r)
<1>1. /\ q \in Seq(Frames) /\ n \in Nat /\ DOMAIN q = 1..n
      /\ \A i \in 1..n : q[i] \in Frames
  BY LenProperties, ElementOfSeq DEF RefsType
<1>2. /\ start \in RefsType /\ start.base = r.base /\ start.value = r.value
      /\ start.held = <<>>
  BY EmptySeq DEF Emptied, RefsType
<1>3. \A i \in 0..n : Handled(i) \in Seq(Frames)
  BY <1>1, SubSeqProperties
<1>4. Handled(0) = <<>> /\ Handled(n) = q
  BY <1>1, SubSeqEmpty, SubSeqFull
<1>5. \A i \in 1..n : Handled(i) = Append(Handled(i - 1), q[i])
  BY <1>1, SubSeqRecursiveSecond
<1> HIDE DEF q, n, Handled, start
<1>6. start \in P[0]
  <2>1. \A b \in Blocks : ToCome(r.base, Handled(0), b) = r.base[b]
    <3>1. <<>> \in Seq(Frames) /\ DOMAIN <<>> = {}
      BY EmptySeq
    <3> QED
      BY <1>4, <3>1, NothingComes
  <2> QED
    BY <1>1, <1>2, <2>1 DEF ShowsBase
<1>7. ASSUME NEW i \in 1..n, NEW s \in P[i - 1]
      PROVE  ApplyIncomingMessage(s, q[i]) \in P[i]
  <2> DEFINE t == ApplyIncomingMessage(s, q[i])
  <2>1. i - 1 \in 0..n /\ i \in 0..n /\ q[i] \in Frames /\ i \in DOMAIN q
    BY <1>1
  <2>2. /\ s \in RefsType
        /\ s.held = <<>> =>
             \A b \in Blocks : s.base[b] = ToCome(r.base, Handled(i - 1), b)
        /\ \A b \in Blocks : s.base[b] # r.base[b] =>
             \E j \in DOMAIN q : b \in Brings(q[j])
        /\ ShowsBase(r) => ShowsBase(s)
    BY <2>1
  <2>3. /\ t \in RefsType
        /\ t.held = <<>> => s.held = <<>> /\ \A b \in Blocks :
                                       t.base[b] = After(s.base, q[i], b)
        /\ \A b \in Blocks : t.base[b] # s.base[b] => b \in Brings(q[i])
        /\ ShowsBase(s) => ShowsBase(t)
    BY <2>1, <2>2, MessageApplied
  <2> HIDE DEF t
  <2>4. \A b \in Blocks : ToCome(r.base, Handled(i), b) =
          IF b \in Brings(q[i]) THEN Given(q[i])[b]
          ELSE ToCome(r.base, Handled(i - 1), b)
    <3>1. Handled(i) = Append(Handled(i - 1), q[i]) /\ Handled(i - 1) \in Seq(Frames)
      BY <1>3, <1>5, <2>1
    <3> QED
      BY <2>1, <3>1, LastComes
  <2>5. t.held = <<>> =>
          \A b \in Blocks : t.base[b] = ToCome(r.base, Handled(i), b)
    BY <2>2, <2>3, <2>4 DEF After
  <2>6. \A b \in Blocks : t.base[b] # r.base[b] =>
          \E j \in DOMAIN q : b \in Brings(q[j])
    BY <2>1, <2>2, <2>3
  <2>7. t \in P[i]
    BY <2>1, <2>2, <2>3, <2>5, <2>6
  <2> QED
    BY <2>7 DEF t
<1>8. Drain(r) \in P[n]
  <2> HIDE DEF P
  <2> QED
    BY <1>1, <1>6, <1>7, DrainInduction DEF q, n, start
<1>9. n \in 0..n
  BY <1>1
<1> QED
  BY <1>4, <1>8, <1>9 DEF q


-------------------------------------------------------------------------------
(* Types *)

LinkTypes ==
  /\ present \in BOOLEAN /\ live \in BOOLEAN
  /\ out \in Seq(Outbound) /\ queue \in Seq(Outbound)
ViewTypes ==
  /\ Refs \in RefsType /\ ready \in BOOLEAN /\ greeted \in BOOLEAN
  /\ contested \subseteq Blocks
FarTypes ==
  /\ server \in Document /\ blank \in BOOLEAN /\ joined \in BOOLEAN
  /\ inbound \in Seq(Frames)

LEMMA TypesAre ==
  ViewTypeOK <=> LinkTypes /\ ViewTypes /\ FarTypes
                 /\ (ready => present) /\ (joined => live)
<1>1. Refs \in RefsType <=>
        /\ value \in Document /\ base \in Document
        /\ last \in Document \union {NoSnapshot}
        /\ applying \in Nat /\ held \in Seq(Frames)
  BY DEF Refs, RefsType, Docs
<1> QED
  BY <1>1 DEF ViewTypeOK, LinkTypes, ViewTypes, FarTypes, Frames, Outbound

LEMMA RefsAre ==
  /\ Refs.value = value /\ Refs.base = base /\ Refs.last = last
  /\ Refs.applying = applying /\ Refs.held = held
BY DEF Refs

LEMMA RefsSet ==
  ASSUME NEW r \in RefsType, SetRefs(r)
  PROVE  Refs' = r /\ Refs' \in RefsType
<1>1. Refs' = [value |-> r.value, base |-> r.base, last |-> r.last,
               applying |-> r.applying, held |-> r.held]
  BY DEF Refs, SetRefs
<1> QED
  BY <1>1 DEF RefsType

\* The steps of the link keep its types and who is there.
LEMMA LinkKeeps ==
  ASSUME LinkTypes
  PROVE  /\ \A m \in Outbound : Write(m) => LinkTypes'
         /\ Opened(<<>>) \/ Opened(<<Identify>>) => LinkTypes'
         /\ Lost \/ Taken \/ Gone \/ Enter \/ Leave => LinkTypes'
<1>1. out \in Seq(Outbound) /\ queue \in Seq(Outbound) /\ <<>> \in Seq(Outbound)
  BY EmptySeq DEF LinkTypes
<1>2. \A q \in Seq(Outbound), w \in Seq(Outbound) : q \o w \in Seq(Outbound)
  BY ConcatProperties
<1>3. ASSUME NEW m \in Outbound, Write(m) PROVE LinkTypes'
  <2> DEFINE one == <<m>>
  <2>1. one \in Seq(Outbound)
    OBVIOUS
  <2>2. Hand(one) /\ UNCHANGED <<present, live>>
    BY <1>3 DEF Write
  <2> HIDE DEF one
  <2> QED
    BY <1>1, <1>2, <2>1, <2>2 DEF Hand, LinkTypes
<1>4. ASSUME NEW w \in Seq(Outbound), Opened(w) PROVE LinkTypes'
  <2>1. out \o queue \in Seq(Outbound)
    BY <1>1, <1>2
  <2>2. (out \o queue) \o w \in Seq(Outbound)
    BY <1>2, <2>1
  <2> QED
    BY <1>1, <1>4, <2>2 DEF Opened, LinkTypes
<1>5. <<Identify>> \in Seq(Outbound)
  BY DEF Outbound
<1>6. out # <<>> => Tail(out) \in Seq(Outbound)
  BY <1>1, HeadTailProperties
<1>7. Lost \/ Taken \/ Gone \/ Enter \/ Leave => LinkTypes'
  BY <1>1, <1>6 DEF Lost, Taken, Gone, Enter, Leave, LinkTypes
<1> QED
  BY <1>1, <1>3, <1>4, <1>5, <1>7

LEMMA TouchedBlocks ==
  ASSUME NEW q, q \in Seq(Outbound) \/ q \in Seq(Frames)
  PROVE  TouchedBy(q) \subseteq Blocks
<1>1. \A i \in DOMAIN q : q[i] \in Frames \union Outbound
  BY ElementOfSeq, LenProperties
<1> QED
  BY <1>1, TouchesBlocks DEF TouchedBy

\* The page gets a document from its editor when the user gives a block a
\* version.
LEMMA EditedDocument ==
  ASSUME NEW doc \in Document, NEW b \in Blocks,
         NEW v \in Versions \union {Absent}
  PROVE  [doc EXCEPT ![b] = v] \in Document
BY DEF Document

LEMMA TypeInductive == ViewTypeOK /\ [ViewNext]_viewVars => ViewTypeOK'
<1> SUFFICES ASSUME ViewTypeOK, [ViewNext]_viewVars PROVE ViewTypeOK'
  OBVIOUS
<1>1. /\ LinkTypes /\ ViewTypes /\ FarTypes
      /\ (ready => present) /\ (joined => live)
  BY TypesAre
<1>2. <<>> \in Seq(Frames) /\ <<>> \in Seq(Outbound)
  BY EmptySeq
<1>r. Refs \in RefsType
  BY <1>1 DEF ViewTypes
<1>s. SUFFICES /\ LinkTypes' /\ ViewTypes' /\ FarTypes'
               /\ (ready' => present') /\ (joined' => live')
  <2>1. ViewTypeOK' <=> /\ LinkTypes' /\ ViewTypes' /\ FarTypes'
                        /\ (ready' => present') /\ (joined' => live')
    BY TypesAre, PTL
  <2> QED
    BY <2>1
<1>3. CASE MountView
  <2>1. Refs' = [value |-> Empty, base |-> Empty, last |-> NoSnapshot,
                 applying |-> 0, held |-> <<>>]
    BY <1>3 DEF MountView, Refs
  <2>2. Refs' \in RefsType
    BY <1>2, <2>1, EmptyIsDocument DEF RefsType, Docs
  <2>3. LinkTypes'
    BY <1>1, <1>3, LinkKeeps DEF MountView
  <2> QED
    BY <1>1, <1>3, <2>2, <2>3 DEF MountView, Enter, ViewTypes, FarTypes, far
<1>4. CASE LeaveView
  <2>1. Refs' = Refs
    BY <1>4 DEF LeaveView, Refs
  <2>2. LinkTypes'
    BY <1>1, <1>4, LinkKeeps DEF LeaveView
  <2> QED
    BY <1>1, <1>2, <1>4, <2>1, <2>2
    DEF LeaveView, ViewTypes, FarTypes, history
<1>5. CASE HandleEditorReady
  <2>1. Drain(Refs) \in RefsType
    BY <1>r, QueueDrained
  <2>2. Refs' \in RefsType
    BY <1>5, <2>1, RefsSet DEF HandleEditorReady
  <2> QED
    BY <1>1, <1>5, <2>2
    DEF HandleEditorReady, ViewTypes, FarTypes, LinkTypes, linkVars, far, history
<1>6. CASE Receive
  <2>1. Head(inbound) \in Frames /\ Tail(inbound) \in Seq(Frames)
    BY <1>1, <1>6, HeadTailProperties DEF Receive, FarTypes
  <2>2. Refs' \in RefsType
    <3>1. CASE ~present
      BY <1>6, <1>r, <3>1 DEF Receive, Refs
    <3>2. CASE present /\ ~ready
      <4>1. Append(held, Head(inbound)) \in Seq(Frames)
        BY <1>r, <2>1, RefsAre, AppendProperties DEF RefsType
      <4>2. Refs' = [value |-> value, base |-> base, last |-> last,
                     applying |-> applying, held |-> Append(held, Head(inbound))]
        BY <1>6, <3>2 DEF Receive, Refs
      <4> QED
        BY <1>r, <4>1, <4>2, RefsAre DEF RefsType
    <3>3. CASE present /\ ready
      <4>1. SetRefs(ApplyIncomingMessage(Refs, Head(inbound)))
        BY <1>6, <3>3 DEF Receive
      <4>2. ApplyIncomingMessage(Refs, Head(inbound)) \in RefsType
        BY <1>r, <2>1, MessageApplied
      <4> QED
        BY <4>1, <4>2, RefsSet
    <3> QED
      BY <3>1, <3>2, <3>3
  <2>3. greeted' \in BOOLEAN
    BY <1>1, <1>6 DEF Receive, ViewTypes
  <2> QED
    BY <1>1, <1>6, <2>1, <2>2, <2>3
    DEF Receive, ViewTypes, FarTypes, LinkTypes, linkVars
<1>7. CASE SuppressionEnds
  <2>1. Refs' = [value |-> value, base |-> base, last |-> last,
                 applying |-> applying - 1, held |-> held]
    BY <1>7 DEF SuppressionEnds, Refs
  <2>2. Refs' \in RefsType
    BY <1>7, <1>r, <2>1, RefsAre DEF RefsType, SuppressionEnds
  <2> QED
    BY <1>1, <1>7, <2>2
    DEF SuppressionEnds, ViewTypes, FarTypes, LinkTypes, linkVars, far, history
<1>8. ASSUME NEW b \in Blocks, NEW v \in Versions \union {Absent}, Edit(b, v)
      PROVE  /\ LinkTypes' /\ ViewTypes' /\ FarTypes'
             /\ (ready' => present') /\ (joined' => live')
  <2> DEFINE next == [value EXCEPT ![b] = v]
             patch == DiffBlocks(base, next)
  <2>1. next \in Document
    BY <1>r, RefsAre, EditedDocument DEF RefsType
  <2>2. patch \in Patches
    BY <1>r, <2>1, RefsAre, DiffSound DEF RefsType
  <2>3. /\ value' = next /\ (base' = base \/ base' = next)
        /\ (UNCHANGED linkVars \/ Write(patch))
        /\ contested' \subseteq contested \union TouchedBy(inbound)
        /\ UNCHANGED <<ready, last, applying, held, far, greeted>>
    BY <1>8 DEF Edit
  <2> HIDE DEF next, patch
  <2>4. Refs' = [value |-> next, base |-> base', last |-> last,
                 applying |-> applying, held |-> held]
    BY <2>3 DEF Refs
  <2>5. Refs' \in RefsType
    BY <1>r, <2>1, <2>3, <2>4, RefsAre DEF RefsType
  <2>6. LinkTypes'
    BY <1>1, <2>2, <2>3, LinkKeeps DEF LinkTypes, linkVars, Outbound
  <2>7. contested' \subseteq Blocks
    BY <1>1, <2>3, TouchedBlocks DEF ViewTypes, FarTypes
  <2>8. present' = present /\ live' = live
    BY <2>3 DEF linkVars, Write
  <2> QED
    BY <1>1, <2>3, <2>5, <2>6, <2>7, <2>8 DEF ViewTypes, FarTypes, far
<1>9. ASSUME NEW b \in Blocks, NEW v \in Versions \union {Absent}, PeerEdits(b, v)
      PROVE  /\ LinkTypes' /\ ViewTypes' /\ FarTypes'
             /\ (ready' => present') /\ (joined' => live')
  <2> DEFINE next == [server EXCEPT ![b] = v]
             patch == DiffBlocks(server, next)
  <2>1. next \in Document
    BY <1>1, EditedDocument DEF FarTypes
  <2>2. patch \in Frames
    BY <1>1, <2>1, DiffSound DEF FarTypes, Frames
  <2>3. /\ server' = next /\ blank' = FALSE /\ joined' = joined
        /\ inbound' \in {inbound, Append(inbound, patch)}
        /\ contested' \subseteq contested \union {b}
        /\ UNCHANGED <<linkVars, local, greeted>>
    BY <1>9 DEF PeerEdits
  <2> HIDE DEF next, patch
  <2>4. Append(inbound, patch) \in Seq(Frames)
    BY <1>1, <2>2, AppendProperties DEF FarTypes
  <2>5. Refs' = Refs
    BY <2>3 DEF Refs, local
  <2> QED
    BY <1>1, <2>1, <2>3, <2>4, <2>5
    DEF ViewTypes, FarTypes, LinkTypes, linkVars, local
<1>10. CASE SocketOpens
  <2>1. LinkTypes'
    BY <1>1, <1>10, LinkKeeps DEF SocketOpens
  <2>2. Refs' = Refs
    BY <1>10 DEF SocketOpens, Refs, local
  <2> QED
    BY <1>1, <1>10, <2>1, <2>2
    DEF SocketOpens, Opened, ViewTypes, FarTypes, far, local
<1>11. CASE SocketLost
  <2>1. LinkTypes'
    BY <1>1, <1>11, LinkKeeps DEF SocketLost
  <2>2. Refs' = Refs
    BY <1>11 DEF SocketLost, Refs, local
  <2> QED
    BY <1>1, <1>2, <1>11, <2>1, <2>2
    DEF SocketLost, Lost, ViewTypes, FarTypes, history, local
<1>12. CASE HubJoins
  <2> DEFINE m == [type |-> "init", doc |-> server, blank |-> blank]
  <2>1. m \in Frames
    BY <1>1 DEF FarTypes, Frames, Greetings
  <2>2. inbound' = Append(inbound, m)
    BY <1>12 DEF HubJoins
  <2> HIDE DEF m
  <2>3. inbound' \in Seq(Frames)
    BY <1>1, <2>1, <2>2, AppendProperties DEF FarTypes
  <2>4. contested' \subseteq Blocks
    BY <1>1, <1>12, TouchedBlocks DEF HubJoins, ViewTypes, LinkTypes
  <2>5. Refs' = Refs
    BY <1>12 DEF HubJoins, Refs, local
  <2> QED
    BY <1>1, <1>12, <2>3, <2>4, <2>5
    DEF HubJoins, ViewTypes, FarTypes, LinkTypes, linkVars, local
<1>13. CASE HubTakes
  <2>1. LinkTypes' /\ present' = present /\ live' = live
    BY <1>1, <1>13, LinkKeeps DEF HubTakes, Taken
  <2>2. Head(out) \in Outbound
    BY <1>1, <1>13, HeadTailProperties DEF HubTakes, Taken, LinkTypes
  <2>3. server' \in Document /\ blank' \in BOOLEAN
    <3>1. CASE Head(out).type = "patch"
      <4>1. Head(out) \in Patches
        BY <2>2, <3>1 DEF Outbound, Identify
      <4> QED
        BY <1>1, <1>13, <3>1, <4>1, ApplyPatchAt DEF HubTakes, FarTypes
    <3>2. CASE Head(out).type # "patch"
      BY <1>1, <1>13, <3>2 DEF HubTakes, FarTypes
    <3> QED
      BY <3>1, <3>2
  <2>4. Refs' = Refs
    BY <1>13 DEF HubTakes, Refs, local
  <2> QED
    BY <1>1, <1>13, <2>1, <2>3, <2>4
    DEF HubTakes, ViewTypes, FarTypes, history, local
<1>14. CASE FramesGone
  <2>1. LinkTypes' /\ present' = present /\ live' = live
    BY <1>1, <1>14, LinkKeeps DEF FramesGone, Gone
  <2>2. contested' \subseteq Blocks
    BY <1>1, <1>14, TouchedBlocks DEF FramesGone, ViewTypes, LinkTypes
  <2>3. Refs' = Refs
    BY <1>14 DEF FramesGone, Refs, local
  <2> QED
    BY <1>1, <1>14, <2>1, <2>2, <2>3
    DEF FramesGone, ViewTypes, FarTypes, far, local
<1>15. CASE UNCHANGED viewVars
  BY <1>1, <1>15 DEF viewVars, linkVars, local, far, history, LinkTypes, ViewTypes,
     FarTypes, Refs
<1> QED
  BY <1>3, <1>4, <1>5, <1>6, <1>7, <1>8, <1>9, <1>10, <1>11, <1>12, <1>13,
     <1>14, <1>15 DEF ViewNext

\* ViewTypeOK, for every set of blocks and versions and every number of visits,
\* connections and edits.
THEOREM ViewTypeCorrect == ViewSpec => []ViewTypeOK
<1>1. ViewInit => ViewTypeOK
  <2> SUFFICES ASSUME ViewInit PROVE ViewTypeOK
    OBVIOUS
  <2>1. <<>> \in Seq(Frames) /\ <<>> \in Seq(Outbound)
    BY EmptySeq
  <2> QED
    BY <2>1, EmptyIsDocument DEF ViewInit, LinkInit, ViewTypeOK, Frames, Outbound
<1> QED
  BY <1>1, TypeInductive, PTL DEF ViewSpec


-------------------------------------------------------------------------------
(* Page and room agree *)

\* Nothing waits while the room is up, nothing comes before the hub took the
\* connection in, and then the room's value comes first.
WireInv ==
  /\ live => queue = <<>>
  /\ ~joined => inbound = <<>>
  /\ \A i \in DOMAIN inbound : i # 1 => inbound[i] \in Patches

\* While the room never had a value, nothing but empty greetings reached the page,
\* and what its baseline has is on its way to the room or contested.
Void(m) == m \in Greetings /\ m.blank
BlankInv ==
  blank =>
    /\ server = Empty
    /\ \A i \in DOMAIN held : Void(held[i])
    /\ \A i \in DOMAIN inbound : Void(inbound[i])
    /\ present => \A b \in Blocks \ contested :
         base[b] # Absent => b \in TouchedBy(out) \union TouchedBy(queue)

\* The inductive strengthening of BaselineAgrees: a page that is not there yet is
\* one with an empty baseline.
BaseSeen == IF present THEN base ELSE Empty
HeldSeen == IF present THEN held ELSE <<>>
Coming == HeldSeen \o inbound
HasInit(q) == \E i \in DOMAIN q : q[i].type = "init"
Told == (present /\ greeted) \/ HasInit(Coming)
AgreeInv ==
  joined /\ Told /\ (ready => held = <<>>) =>
    \A b \in Blocks \ contested :
      ToCome(BaseSeen, Coming, b) = ToCome(server, out, b)

LEMMA ShownTypes ==
  ASSUME ViewTypeOK
  PROVE  /\ held \in Seq(Frames) /\ inbound \in Seq(Frames)
         /\ out \in Seq(Outbound) /\ queue \in Seq(Outbound)
         /\ HeldSeen \in Seq(Frames) /\ Coming \in Seq(Frames)
         /\ base \in Document /\ server \in Document /\ value \in Document
         /\ BaseSeen \in Document
         /\ <<>> \in Seq(Frames) /\ DOMAIN <<>> = {}
<1>1. <<>> \in Seq(Frames) /\ DOMAIN <<>> = {}
  BY EmptySeq
<1>2. /\ held \in Seq(Frames) /\ inbound \in Seq(Frames)
      /\ out \in Seq(Outbound) /\ queue \in Seq(Outbound)
      /\ base \in Document /\ server \in Document /\ value \in Document
  BY DEF ViewTypeOK, Frames, Outbound
<1>3. HeldSeen \in Seq(Frames) /\ BaseSeen \in Document
  BY <1>1, <1>2, EmptyIsDocument DEF HeldSeen, BaseSeen
<1>4. Coming \in Seq(Frames)
  BY <1>2, <1>3, ConcatProperties DEF Coming
<1> QED
  BY <1>1, <1>2, <1>3, <1>4

LEMMA WireInductive ==
  ASSUME ViewTypeOK, WireInv, [ViewNext]_viewVars
  PROVE  WireInv'
<1>t. /\ inbound \in Seq(Frames) /\ <<>> \in Seq(Frames) /\ DOMAIN <<>> = {}
      /\ (joined => live)
  BY ShownTypes DEF ViewTypeOK
<1>1. CASE MountView
  BY <1>1 DEF MountView, Enter, far, WireInv
<1>2. CASE LeaveView
  BY <1>t, <1>2 DEF LeaveView, Leave, WireInv
<1>3. CASE HandleEditorReady \/ SuppressionEnds \/ UNCHANGED viewVars
  BY <1>3 DEF HandleEditorReady, SuppressionEnds, viewVars, linkVars, far, WireInv
<1>4. CASE Receive
  <2>1. /\ inbound # <<>> /\ inbound' = Tail(inbound)
        /\ UNCHANGED <<linkVars, joined>>
    BY <1>4 DEF Receive
  <2>2. \A i \in DOMAIN Tail(inbound) :
          i + 1 \in DOMAIN inbound /\ i + 1 # 1 /\ Tail(inbound)[i] = inbound[i + 1]
    BY <1>t, <2>1, HeadTailProperties, LenProperties
  <2>3. joined
    BY <2>1 DEF WireInv
  <2> QED
    BY <2>1, <2>2, <2>3 DEF WireInv, linkVars
<1>5. ASSUME NEW b \in Blocks, NEW v \in Versions \union {Absent}, Edit(b, v)
      PROVE  WireInv'
  <2>1. UNCHANGED far /\ (UNCHANGED linkVars \/
                          \E m : Write(m))
    BY <1>5 DEF Edit
  <2>2. live' = live /\ (live => queue' = queue)
    BY <2>1 DEF linkVars, Write, Hand
  <2> QED
    BY <2>1, <2>2 DEF far, WireInv
<1>6. ASSUME NEW b \in Blocks, NEW v \in Versions \union {Absent}, PeerEdits(b, v)
      PROVE  WireInv'
  <2> DEFINE m == DiffBlocks(server, [server EXCEPT ![b] = v])
  <2>1. /\ inbound' = IF joined THEN Append(inbound, m) ELSE inbound
        /\ UNCHANGED <<linkVars, joined>>
    BY <1>6 DEF PeerEdits
  <2>2. m \in Patches
    BY ShownTypes, EditedDocument, DiffSound
  <2> HIDE DEF m
  <2>3. \A i \in DOMAIN Append(inbound, m) :
          Append(inbound, m)[i] = m \/ (i \in DOMAIN inbound /\
                                        Append(inbound, m)[i] = inbound[i])
    BY <1>t, AppendProperties, LenProperties
  <2> QED
    BY <2>1, <2>2, <2>3 DEF WireInv, linkVars
<1>7. CASE SocketOpens
  BY <1>t, <1>7 DEF SocketOpens, Opened, far, WireInv
<1>8. CASE SocketLost
  BY <1>t, <1>8 DEF SocketLost, Lost, WireInv
<1>9. CASE HubJoins
  <2> DEFINE m == [type |-> "init", doc |-> server, blank |-> blank]
  <2>1. inbound' = Append(<<>>, m) /\ joined' /\ UNCHANGED linkVars
    BY <1>9 DEF HubJoins, WireInv
  <2> HIDE DEF m
  <2>2. DOMAIN inbound' = {1}
    BY <2>1
  <2> QED
    BY <2>1, <2>2 DEF WireInv, linkVars
<1>10. CASE HubTakes
  BY <1>10 DEF HubTakes, Taken, WireInv
<1>11. CASE FramesGone
  BY <1>11 DEF FramesGone, Gone, far, WireInv
<1> QED
  BY <1>1, <1>2, <1>3, <1>4, <1>5, <1>6, <1>7, <1>8, <1>9, <1>10, <1>11
  DEF ViewNext

LEMMA TouchedByParts ==
  ASSUME NEW q \in Seq(Outbound), NEW w \in Seq(Outbound)
  PROVE  TouchedBy(q \o w) = TouchedBy(q) \union TouchedBy(w)
<1> DEFINE all == q \o w
<1>1. /\ Len(q) \in Nat /\ Len(w) \in Nat
      /\ DOMAIN all = 1..(Len(q) + Len(w))
      /\ DOMAIN q = 1..Len(q) /\ DOMAIN w = 1..Len(w)
      /\ \A i \in 1..Len(q) : all[i] = q[i]
      /\ \A i \in 1..Len(w) : all[Len(q) + i] = w[i]
  BY ConcatProperties, LenProperties
<1> HIDE DEF all
<1>2. \A j \in DOMAIN all : \/ j \in DOMAIN q /\ all[j] = q[j]
                            \/ j - Len(q) \in DOMAIN w /\ all[j] = w[j - Len(q)]
  <2>1. SUFFICES ASSUME NEW j \in DOMAIN all, j \notin DOMAIN q
                 PROVE  j - Len(q) \in DOMAIN w /\ all[j] = w[j - Len(q)]
    BY <1>1
  <2>2. j - Len(q) \in 1..Len(w) /\ Len(q) + (j - Len(q)) = j
    BY <1>1, <2>1
  <2> QED
    BY <1>1, <2>2
<1>3. \A i \in DOMAIN q : i \in DOMAIN all /\ all[i] = q[i]
  BY <1>1
<1>4. \A i \in DOMAIN w : Len(q) + i \in DOMAIN all /\ all[Len(q) + i] = w[i]
  BY <1>1
<1>5. TouchedBy(all) \subseteq TouchedBy(q) \union TouchedBy(w)
  BY <1>2 DEF TouchedBy
<1>6. TouchedBy(q) \subseteq TouchedBy(all)
  BY <1>3 DEF TouchedBy
<1>7. TouchedBy(w) \subseteq TouchedBy(all)
  <2>1. SUFFICES ASSUME NEW i \in DOMAIN w, NEW c \in Touches(w[i])
                 PROVE  c \in TouchedBy(all)
    BY DEF TouchedBy
  <2>2. PICK j \in DOMAIN all : all[j] = w[i]
    BY <1>4
  <2> QED
    BY <2>2 DEF TouchedBy
<1> QED
  BY <1>5, <1>6, <1>7 DEF all

LEMMA TouchedByOne ==
  ASSUME NEW m
  PROVE  TouchedBy(<<m>>) = Touches(m)
<1> DEFINE one == <<m>>
<1>1. DOMAIN one = {1} /\ one[1] = m
  OBVIOUS
<1> HIDE DEF one
<1>2. TouchedBy(one) = Touches(m)
  BY <1>1 DEF TouchedBy
<1> QED
  BY <1>2 DEF one

\* An empty greeting leaves the page as it is, and so does a queue of them.
LEMMA VoidIgnored ==
  ASSUME NEW r, NEW m, Void(m)
  PROVE  ApplyIncomingMessage(r, m) = r
<1>1. m.type = "init" /\ m.blank /\ "init" # "patch"
  BY DEF Void, Greetings
<1> QED
  BY <1>1, Zenon DEF ApplyIncomingMessage

LEMMA VoidDrained ==
  ASSUME NEW r \in RefsType, \A i \in DOMAIN r.held : Void(r.held[i])
  PROVE  \A i \in DOMAIN Drain(r).held : Void(Drain(r).held[i])
<1> DEFINE n == Len(r.held)
           start == Emptied(r)
           P == [i \in 0..n |-> {start}]
<1>1. n \in Nat /\ DOMAIN r.held = 1..n
  BY LenProperties DEF RefsType
<1>2. \A i \in 1..n : \A s \in P[i - 1] :
        ApplyIncomingMessage(s, r.held[i]) \in P[i]
  <2>1. SUFFICES ASSUME NEW i \in 1..n, NEW s \in P[i - 1]
                 PROVE  ApplyIncomingMessage(s, r.held[i]) \in P[i]
    OBVIOUS
  <2>2. P[i] = {start} /\ s = start
    BY <1>1
  <2>3. ApplyIncomingMessage(s, r.held[i]) = s
    BY <1>1, VoidIgnored
  <2> QED
    BY <2>2, <2>3
<1>3. start \in P[0] /\ P[n] = {start}
  BY <1>1
<1>4. start.held = <<>>
  BY DEF Emptied, RefsType
<1> HIDE DEF P, start
<1>5. Drain(r) \in P[n]
  BY <1>1, <1>2, <1>3, DrainInduction DEF start
<1> QED
  BY <1>3, <1>4, <1>5, EmptySeq

\* What the page writes is on its way, whether the room is up or not.
LEMMA WrittenIsTouched ==
  ASSUME ViewTypeOK, NEW m \in Outbound, Write(m)
  PROVE  TouchedBy(out') \union TouchedBy(queue')
           = TouchedBy(out) \union TouchedBy(queue) \union Touches(m)
<1> DEFINE one == <<m>>
<1>1. one \in Seq(Outbound) /\ TouchedBy(one) = Touches(m)
  BY TouchedByOne
<1>2. Hand(one) /\ out \in Seq(Outbound) /\ queue \in Seq(Outbound)
  BY ShownTypes DEF Write
<1> HIDE DEF one
<1>3. \/ out' = out \o one /\ queue' = queue
      \/ queue' = queue \o one /\ out' = out
  BY <1>2 DEF Hand
<1>4. /\ TouchedBy(out \o one) = TouchedBy(out) \union TouchedBy(one)
      /\ TouchedBy(queue \o one) = TouchedBy(queue) \union TouchedBy(one)
  BY <1>1, <1>2, TouchedByParts
<1>5. CASE out' = out \o one /\ queue' = queue
  BY <1>1, <1>4, <1>5
<1>6. CASE queue' = queue \o one /\ out' = out
  BY <1>1, <1>4, <1>6
<1> QED
  BY <1>3, <1>5, <1>6


\* What Edit does, apart from the withheld case: the patch tells of every block the
\* new baseline differs in.
LEMMA EditDoes ==
  ASSUME ViewTypeOK, NEW b \in Blocks, NEW v \in Versions \union {Absent},
         Edit(b, v)
  PROVE  /\ present /\ ready /\ UNCHANGED <<ready, held, far, greeted, present>>
         /\ \/ UNCHANGED <<base, contested, linkVars>>
            \/ /\ base' \in Document
               /\ \E m \in Patches :
                    /\ \A c \in Blocks : c \in Touches(m) <=> base'[c] # base[c]
                    /\ \A c \in Touches(m) : c \in Blocks /\ Given(m)[c] = base'[c]
                    /\ Write(m)
                    /\ contested' = contested \union
                         (Touches(m) \intersect TouchedBy(inbound))
<1> DEFINE next == [value EXCEPT ![b] = v]
           m == DiffBlocks(base, next)
<1>1. /\ present /\ ready /\ UNCHANGED <<ready, held, far, greeted>>
      /\ \/ UNCHANGED <<base, contested, linkVars>>
         \/ base' = next /\ Write(m)
            /\ contested' = contested \union
                 (Touches(m) \intersect TouchedBy(inbound))
  BY DEF Edit
<1>2. next \in Document /\ base \in Document
  BY ShownTypes, EditedDocument
<1>3. /\ m \in Patches
      /\ \A c \in Blocks : c \in Touches(m) <=> next[c] # base[c]
      /\ \A c \in Touches(m) : Given(m)[c] = next[c]
  BY <1>2, DiffSound
<1> HIDE DEF next, m
<1>4. \A c \in Touches(m) : c \in Blocks
  BY <1>3, TouchesBlocks DEF Frames
<1>5. present' = present
  BY <1>1 DEF linkVars, Write
<1> QED
  BY <1>1, <1>2, <1>3, <1>4, <1>5

LEMMA BlankInductive ==
  ASSUME ViewTypeOK, WireInv, BlankInv, [ViewNext]_viewVars
  PROVE  BlankInv'
<1>t. /\ inbound \in Seq(Frames) /\ held \in Seq(Frames)
      /\ <<>> \in Seq(Frames) /\ DOMAIN <<>> = {}
      /\ out \in Seq(Outbound) /\ queue \in Seq(Outbound)
  BY ShownTypes
<1>0. SUFFICES ASSUME blank' PROVE BlankInv'
  BY DEF BlankInv
<1>1. CASE MountView
  <2>1. /\ base' = Empty /\ held' = <<>>
        /\ UNCHANGED <<blank, server, inbound>>
    BY <1>1 DEF MountView, far
  <2>2. \A b \in Blocks : base'[b] = Absent
    BY <2>1 DEF Empty
  <2> QED
    BY <1>t, <1>0, <2>1, <2>2 DEF BlankInv
<1>2. CASE LeaveView
  <2>1. ~present' /\ inbound' = <<>> /\ UNCHANGED <<held, server, blank>>
    BY <1>2 DEF LeaveView, Leave
  <2> QED
    BY <1>t, <1>0, <2>1 DEF BlankInv
<1>3. CASE HandleEditorReady
  <2> DEFINE r == Refs
             t == Drain(r)
  <2>1. /\ r \in RefsType /\ r.base = base /\ r.held = held
    BY TypesAre, RefsAre DEF ViewTypes
  <2>2. /\ base' = t.base /\ held' = t.held
        /\ UNCHANGED <<linkVars, far, history>>
    BY <1>3 DEF HandleEditorReady, SetRefs
  <2>3. blank /\ \A i \in DOMAIN held : held[i] \in Frames /\ Void(held[i])
    BY <1>t, <1>0, <2>2, ElementOfSeq, LenProperties DEF BlankInv, far
  <2>4. \A i \in DOMAIN held : Brings(held[i]) = {}
    BY <2>3, BringsOf DEF Void
  <2>5. \A b \in Blocks : base'[b] = base[b]
    BY <2>1, <2>2, <2>4, QueueDrained
  <2>6. \A i \in DOMAIN t.held : Void(t.held[i])
    BY <2>1, <2>3, VoidDrained
  <2> HIDE DEF t, r
  <2> QED
    BY <1>0, <2>2, <2>3, <2>5, <2>6 DEF BlankInv, linkVars, far, history
<1>4. CASE Receive
  <2> DEFINE m == Head(inbound)
             t == ApplyIncomingMessage(Refs, m)
  <2>1. /\ inbound # <<>> /\ inbound' = Tail(inbound) /\ blank
        /\ UNCHANGED <<linkVars, server, blank, contested>>
    BY <1>0, <1>4 DEF Receive
  <2>2. m \in Frames /\ m = inbound[1] /\ 1 \in DOMAIN inbound
    BY <1>t, <2>1, HeadTailProperties, LenProperties
  <2>3. Void(m)
    BY <2>1, <2>2 DEF BlankInv
  <2>4. \A i \in DOMAIN Tail(inbound) :
          i + 1 \in DOMAIN inbound /\ Tail(inbound)[i] = inbound[i + 1]
    BY <1>t, <2>1, HeadTailProperties, LenProperties
  <2>5. \A i \in DOMAIN inbound' : Void(inbound'[i])
    BY <2>1, <2>4 DEF BlankInv
  <2>6. base' = base /\ \A i \in DOMAIN held' : Void(held'[i])
    <3>1. CASE ~present
      BY <1>4, <2>1, <3>1 DEF Receive, BlankInv
    <3>2. CASE present /\ ~ready
      <4>1. base' = base /\ held' = Append(held, m)
        BY <1>4, <3>2 DEF Receive
      <4>2. \A i \in DOMAIN Append(held, m) :
              Append(held, m)[i] = m \/ (i \in DOMAIN held /\
                                         Append(held, m)[i] = held[i])
        BY <1>t, <2>2, AppendProperties, LenProperties
      <4> QED
        BY <2>1, <2>3, <4>1, <4>2 DEF BlankInv
    <3>3. CASE present /\ ready
      <4>1. SetRefs(t)
        BY <1>4, <3>3 DEF Receive
      <4>2. t = Refs
        BY <2>3, VoidIgnored
      <4> QED
        BY <2>1, <4>1, <4>2, RefsAre DEF SetRefs, BlankInv
    <3> QED
      BY <3>1, <3>2, <3>3
  <2> HIDE DEF m, t
  <2> QED
    BY <1>0, <2>1, <2>5, <2>6 DEF BlankInv, linkVars
<1>5. CASE SuppressionEnds \/ UNCHANGED viewVars
  BY <1>0, <1>5
  DEF SuppressionEnds, viewVars, linkVars, local, far, history, BlankInv
<1>6. ASSUME NEW b \in Blocks, NEW v \in Versions \union {Absent}, Edit(b, v)
      PROVE  BlankInv'
  <2>1. /\ present /\ UNCHANGED <<held, far, present>>
        /\ \/ UNCHANGED <<base, contested, linkVars>>
           \/ \E m \in Patches :
                    /\ \A c \in Blocks : c \in Touches(m) <=> base'[c] # base[c]
                    /\ Write(m)
                    /\ contested' = contested \union
                         (Touches(m) \intersect TouchedBy(inbound))
    BY <1>6, EditDoes
  <2>2. CASE UNCHANGED <<base, contested, linkVars>>
    BY <1>0, <2>1, <2>2 DEF BlankInv, far, linkVars
  <2>3. ASSUME NEW m \in Patches,
               \A c \in Blocks : c \in Touches(m) <=> base'[c] # base[c],
               Write(m),
               contested' = contested \union
                         (Touches(m) \intersect TouchedBy(inbound))
        PROVE  BlankInv'
    <3>1. TouchedBy(out') \union TouchedBy(queue')
           = TouchedBy(out) \union TouchedBy(queue) \union Touches(m)
      BY <2>3, WrittenIsTouched DEF Outbound
    <3>2. \A c \in Blocks \ contested' : base'[c] # Absent =>
            c \in TouchedBy(out') \union TouchedBy(queue')
      BY <1>0, <2>1, <2>3, <3>1 DEF BlankInv, far
    <3> QED
      BY <1>0, <2>1, <3>2 DEF BlankInv, far
  <2> QED
    BY <2>1, <2>2, <2>3
<1>7. ASSUME NEW b \in Blocks, NEW v \in Versions \union {Absent}, PeerEdits(b, v)
      PROVE  BlankInv'
  BY <1>0, <1>7 DEF PeerEdits
<1>8. CASE SocketOpens
  <2>1. /\ UNCHANGED <<local, far, contested, present>> /\ queue' = <<>>
        /\ \E w \in {<<>>, <<Identify>>} : out' = (out \o queue) \o w
    BY <1>8 DEF SocketOpens, Opened
  <2>2. PICK w \in Seq(Outbound) : out' = (out \o queue) \o w
    <3> DEFINE greeting == <<Identify>>
    <3>1. greeting \in Seq(Outbound) /\ <<>> \in Seq(Outbound)
      BY EmptySeq DEF Outbound
    <3>2. \E w \in {<<>>, greeting} : out' = (out \o queue) \o w
      BY <2>1
    <3> HIDE DEF greeting
    <3> QED
      BY <3>1, <3>2
  <2>3. out \o queue \in Seq(Outbound)
    BY <1>t, ConcatProperties
  <2>4. TouchedBy(out') = TouchedBy(out) \union TouchedBy(queue) \union TouchedBy(w)
    BY <1>t, <2>2, <2>3, TouchedByParts
  <2> QED
    BY <1>0, <2>1, <2>4 DEF BlankInv, local, far
<1>9. CASE SocketLost
  BY <1>t, <1>0, <1>9 DEF SocketLost, Lost, BlankInv, local, history
<1>10. CASE HubJoins
  <2> DEFINE m == [type |-> "init", doc |-> server, blank |-> blank]
  <2>1. /\ inbound' = Append(<<>>, m) /\ UNCHANGED <<linkVars, local, server, blank>>
        /\ contested' = TouchedBy(out) \union contested
    BY <1>0, <1>10 DEF HubJoins, WireInv
  <2>2. Void(m)
    BY <1>0, <2>1, ShownTypes DEF Void, Greetings
  <2> HIDE DEF m
  <2>3. DOMAIN inbound' = {1} /\ inbound'[1] = m
    BY <2>1
  <2> QED
    BY <1>0, <2>1, <2>2, <2>3 DEF BlankInv, linkVars, local
<1>11. CASE HubTakes
  <2>1. /\ out # <<>> /\ out' = Tail(out) /\ Head(out).type # "patch"
        /\ UNCHANGED <<present, queue, local, inbound, history, server, blank>>
    BY <1>0, <1>11 DEF HubTakes, Taken
  <2> DEFINE one == <<Head(out)>>
             rest == Tail(out)
  <2>2. /\ Head(out) \in Outbound /\ one \in Seq(Outbound) /\ rest \in Seq(Outbound)
        /\ out = one \o rest
    BY <1>t, <2>1, HeadTailProperties, ConcatProperties, SeqEqual, LenProperties
  <2>3. TouchedBy(<<Head(out)>>) = Touches(Head(out))
    BY TouchedByOne
  <2>4. Touches(Head(out)) = {}
    BY <2>1, <2>2, TouchesOf DEF Outbound, Patches
  <2> HIDE DEF one, rest
  <2>5. TouchedBy(out) = TouchedBy(rest)
    <3>1. TouchedBy(one \o rest) = TouchedBy(one) \union TouchedBy(rest)
      BY <2>2, TouchedByParts
    <3>2. TouchedBy(one) = {}
      BY <2>3, <2>4 DEF one
    <3> QED
      BY <2>2, <3>1, <3>2
  <2> QED
    BY <1>0, <2>1, <2>5 DEF BlankInv, local, history, rest
<1>12. CASE FramesGone
  <2>1. /\ contested' = contested \union TouchedBy(out)
        /\ UNCHANGED <<present, queue, local, far>>
    BY <1>12 DEF FramesGone, Gone
  <2> QED
    BY <1>0, <2>1 DEF BlankInv, local, far
<1> QED
  BY <1>1, <1>2, <1>3, <1>4, <1>5, <1>6, <1>7, <1>8, <1>9, <1>10, <1>11, <1>12
  DEF ViewNext


LEMMA SameBlock ==
  ASSUME NEW q, NEW b, NEW doc, NEW other, doc[b] = other[b]
  PROVE  ToCome(doc, q, b) = ToCome(other, q, b)
BY DEF ToCome

LEMMA Untouched ==
  ASSUME NEW S, NEW q \in Seq(S), NEW b, b \notin TouchedBy(q), NEW doc
  PROVE  ToCome(doc, q, b) = doc[b]
<1>1. \A j \in DOMAIN q : b \notin Brings(q[j])
  BY DEF TouchedBy, Brings
<1> QED
  BY <1>1, NothingComes

\* A message moves from what is on its way to what is held.
LEMMA MovedOn ==
  ASSUME NEW q \in Seq(Frames), NEW w \in Seq(Frames), w # <<>>
  PROVE  Append(q, Head(w)) \o Tail(w) = q \o w
BY HeadTailProperties, AppendProperties, ConcatProperties, SeqEqual, LenProperties

LEMMA AppendedLater ==
  ASSUME NEW q \in Seq(Frames), NEW w \in Seq(Frames), NEW m \in Frames
  PROVE  q \o Append(w, m) = Append(q \o w, m)
BY AppendProperties, ConcatProperties, SeqEqual, LenProperties

LEMMA InitsOf ==
  ASSUME NEW q \in Seq(Frames), NEW w \in Seq(Frames)
  PROVE  HasInit(q \o w) <=> HasInit(q) \/ HasInit(w)
<1> DEFINE all == q \o w
<1>1. /\ Len(q) \in Nat /\ Len(w) \in Nat
      /\ DOMAIN all = 1..(Len(q) + Len(w))
      /\ DOMAIN q = 1..Len(q) /\ DOMAIN w = 1..Len(w)
      /\ \A i \in 1..Len(q) : all[i] = q[i]
      /\ \A i \in 1..Len(w) : all[Len(q) + i] = w[i]
  BY ConcatProperties, LenProperties
<1> HIDE DEF all
<1>2. \A j \in DOMAIN all : \/ j \in DOMAIN q /\ all[j] = q[j]
                            \/ j - Len(q) \in DOMAIN w /\ all[j] = w[j - Len(q)]
  <2>1. SUFFICES ASSUME NEW j \in DOMAIN all, j \notin DOMAIN q
                 PROVE  j - Len(q) \in DOMAIN w /\ all[j] = w[j - Len(q)]
    BY <1>1
  <2>2. j - Len(q) \in 1..Len(w) /\ Len(q) + (j - Len(q)) = j
    BY <1>1, <2>1
  <2> QED
    BY <1>1, <2>2
<1>3. \A i \in DOMAIN q : i \in DOMAIN all /\ all[i] = q[i]
  BY <1>1
<1>4. \A i \in DOMAIN w : Len(q) + i \in DOMAIN all /\ all[Len(q) + i] = w[i]
  BY <1>1
<1>5. HasInit(all) <=> HasInit(q) \/ HasInit(w)
  <2>1. HasInit(all) => HasInit(q) \/ HasInit(w)
    BY <1>2 DEF HasInit
  <2>2. HasInit(q) => HasInit(all)
    BY <1>3 DEF HasInit
  <2>3. HasInit(w) => HasInit(all)
    BY <1>4 DEF HasInit
  <2> QED
    BY <2>1, <2>2, <2>3
<1> QED
  BY <1>5 DEF all

LEMMA InitsOfTail ==
  ASSUME NEW q \in Seq(Frames), q # <<>>
  PROVE  HasInit(q) <=> Head(q).type = "init" \/ HasInit(Tail(q))
<1>1. /\ Len(q) \in Nat /\ DOMAIN q = 1..Len(q) /\ 1 \in DOMAIN q
      /\ DOMAIN Tail(q) = 1..(Len(q) - 1) /\ Head(q) = q[1]
      /\ \A i \in 1..(Len(q) - 1) : Tail(q)[i] = q[i + 1]
  BY HeadTailProperties, LenProperties, EmptySeq
<1>2. \A i \in DOMAIN Tail(q) : i + 1 \in DOMAIN q /\ Tail(q)[i] = q[i + 1]
  BY <1>1
<1>3. \A i \in DOMAIN q : i # 1 => i - 1 \in DOMAIN Tail(q) /\ Tail(q)[i - 1] = q[i]
  BY <1>1
<1>4. HasInit(q) => Head(q).type = "init" \/ HasInit(Tail(q))
  BY <1>1, <1>3 DEF HasInit
<1>5. HasInit(Tail(q)) => HasInit(q)
  BY <1>2 DEF HasInit
<1>6. Head(q).type = "init" => HasInit(q)
  BY <1>1 DEF HasInit
<1> QED
  BY <1>4, <1>5, <1>6

\* What the page will have does not change while page and queues stay.
LEMMA AgreementStays ==
  ASSUME AgreeInv,
         joined' => joined,
         Told' => Told,
         (ready' => held' = <<>>) => (ready => held = <<>>),
         contested \subseteq contested',
         UNCHANGED <<BaseSeen, Coming, server, out>>
  PROVE  AgreeInv'
BY DEF AgreeInv

\* Nothing of what the invariant is about changes while page, queues and hub stay.
LEMMA AgreementApart ==
  ASSUME AgreeInv, contested \subseteq contested', joined' => joined,
         UNCHANGED <<present, ready, base, held, greeted, inbound, server, out>>
  PROVE  AgreeInv'
<1>1. UNCHANGED <<BaseSeen, HeldSeen>>
  BY DEF BaseSeen, HeldSeen
<1>2. UNCHANGED Coming
  BY <1>1 DEF Coming
<1>3. Told' => Told
  BY <1>2 DEF Told
<1> QED
  BY <1>1, <1>2, <1>3, AgreementStays

\* The editor starts: what was held has been handled, or some of it is held on.
LEMMA ReadyAgrees ==
  ASSUME ViewTypeOK, AgreeInv, HandleEditorReady
  PROVE  AgreeInv'
<1> DEFINE t == Drain(Refs)
<1>1. /\ Refs \in RefsType /\ Refs.base = base /\ Refs.held = held
  BY TypesAre, RefsAre DEF ViewTypes
<1>2. /\ base' = t.base /\ held' = t.held /\ present /\ ~ready /\ ready'
      /\ UNCHANGED <<linkVars, far, history>>
  BY DEF HandleEditorReady, SetRefs
<1>3. t.held = <<>> => \A b \in Blocks : t.base[b] = ToCome(base, held, b)
  BY <1>1, QueueDrained
<1> HIDE DEF t
<1>4. /\ held \in Seq(Frames) /\ inbound \in Seq(Frames) /\ <<>> \in Seq(Frames)
      /\ DOMAIN <<>> = {}
  BY ShownTypes
<1>5. SUFFICES ASSUME joined', Told', held' = <<>>, NEW b \in Blocks \ contested'
               PROVE  ToCome(BaseSeen', Coming', b) = ToCome(server', out', b)
  BY <1>2 DEF AgreeInv
<1>6. /\ BaseSeen = base /\ BaseSeen' = base' /\ HeldSeen = held
      /\ Coming = held \o inbound /\ Coming' = <<>> \o inbound
      /\ UNCHANGED <<present, joined, greeted, contested, server, out, inbound>>
  BY <1>2, <1>5 DEF BaseSeen, HeldSeen, Coming, linkVars, far, history
<1>7. Coming' = inbound
  BY <1>4, <1>6, ConcatEmptySeq
<1>8. Told
  <2>1. HasInit(inbound) => HasInit(Coming)
    BY <1>4, <1>6, InitsOf
  <2> QED
    BY <1>5, <1>6, <1>7, <2>1 DEF Told
<1>9. ToCome(base, held \o inbound, b) = ToCome(server, out, b)
  BY <1>2, <1>5, <1>6, <1>8 DEF AgreeInv
<1>10. ToCome(base, held \o inbound, b) = ToCome(base', inbound, b)
  BY <1>2, <1>3, <1>4, <1>5, PartsCome
<1> QED
  BY <1>6, <1>7, <1>9, <1>10

\* A message is lost on nobody, put in the queue of a page, or handled.
LEMMA ReceiveAgrees ==
  ASSUME ViewTypeOK, WireInv, AgreeInv, Receive
  PROVE  AgreeInv'
<1> DEFINE m == Head(inbound)
           rest == Tail(inbound)
           t == ApplyIncomingMessage(Refs, m)
<1>1. /\ inbound # <<>> /\ inbound' = rest
      /\ greeted' = (greeted \/ (present /\ m.type = "init"))
      /\ UNCHANGED <<linkVars, ready, joined, server, contested>>
  BY DEF Receive
<1>2. /\ held \in Seq(Frames) /\ inbound \in Seq(Frames) /\ <<>> \in Seq(Frames)
      /\ DOMAIN <<>> = {} /\ (ready => present)
  BY ShownTypes DEF ViewTypeOK
<1>3. m \in Frames /\ rest \in Seq(Frames)
  BY <1>1, <1>2, HeadTailProperties
<1>4. HasInit(inbound) <=> m.type = "init" \/ HasInit(rest)
  BY <1>1, <1>2, InitsOfTail
<1>5. present' = present /\ out' = out
  BY <1>1 DEF linkVars
<1>6. CASE ~present
  <2>1. HeldSeen' = <<>>
    BY <1>5, <1>6 DEF HeldSeen
  <2>2. Coming' = rest
    BY <1>1, <1>3, <2>1, ConcatEmptySeq DEF Coming
  <2>3. \A i \in DOMAIN rest : i + 1 \in DOMAIN inbound /\ i + 1 # 1
                               /\ rest[i] = inbound[i + 1]
    BY <1>1, <1>2, HeadTailProperties, LenProperties
  <2> HIDE DEF rest
  <2>4. \A i \in DOMAIN rest : rest[i].type # "init"
    BY <2>3 DEF WireInv, Patches
  <2>5. ~Told'
    BY <1>5, <1>6, <2>2, <2>4 DEF Told, HasInit
  <2> QED
    BY <2>5 DEF AgreeInv
<1>7. CASE present /\ ~ready
  <2>1. held' = Append(held, m) /\ base' = base
    BY <1>7 DEF Receive
  <2>2. BaseSeen' = BaseSeen
    BY <1>5, <2>1 DEF BaseSeen
  <2>3. Coming' = Append(held, m) \o rest /\ Coming = held \o inbound
    BY <1>1, <1>5, <1>7, <2>1 DEF Coming, HeldSeen
  <2>4. Coming' = Coming
    BY <1>1, <1>2, <2>3, MovedOn
  <2>5. HasInit(inbound) => HasInit(Coming)
    BY <1>2, <2>3, InitsOf
  <2>6. Told' => Told
    BY <1>1, <1>4, <1>7, <2>4, <2>5 DEF Told
  <2> QED
    BY <1>1, <1>5, <1>7, <2>2, <2>4, <2>6, AgreementStays
<1>8. CASE present /\ ready
  <2>1. SetRefs(t) /\ Refs \in RefsType
    BY <1>8, TypesAre DEF Receive, ViewTypes
  <2>2. base' = t.base /\ held' = t.held
    BY <2>1 DEF SetRefs
  <2>3. t.held = <<>> =>
          held = <<>> /\ \A b \in Blocks : t.base[b] = After(base, m, b)
    BY <1>3, <2>1, MessageApplied, RefsAre
  <2> HIDE DEF t, m, rest
  <2>4. SUFFICES ASSUME joined', Told', held' = <<>>, NEW b \in Blocks \ contested'
                 PROVE  ToCome(BaseSeen', Coming', b) = ToCome(server', out', b)
    BY <1>1, <1>8 DEF AgreeInv
  <2>5. /\ held = <<>> /\ base'[b] = After(base, m, b)
    BY <2>2, <2>3, <2>4
  <2>6. /\ BaseSeen = base /\ BaseSeen' = base' /\ HeldSeen = <<>> /\ HeldSeen' = <<>>
    BY <1>5, <1>8, <2>4, <2>5 DEF BaseSeen, HeldSeen
  <2>7. Coming = inbound /\ Coming' = rest
    BY <1>1, <1>2, <1>3, <2>6, ConcatEmptySeq DEF Coming
  <2>8. Told
    BY <1>1, <1>4, <1>5, <1>8, <2>4, <2>7 DEF Told
  <2>9. ToCome(base, inbound, b) = ToCome(server, out, b)
    BY <1>1, <2>4, <2>5, <2>6, <2>7, <2>8 DEF AgreeInv
  <2>10. ToCome(base, inbound, b) = ToCome(base', rest, b)
    BY <1>1, <1>2, <2>5, FirstComes DEF m, rest
  <2> QED
    BY <1>1, <1>5, <2>6, <2>7, <2>9, <2>10
<1> QED
  BY <1>2, <1>6, <1>7, <1>8


\* The user's edit: what of it the peer has not also written arrives there.
LEMMA EditAgrees ==
  ASSUME ViewTypeOK, WireInv, AgreeInv, NEW b \in Blocks,
         NEW v \in Versions \union {Absent}, Edit(b, v)
  PROVE  AgreeInv'
<1>1. /\ present /\ ready /\ UNCHANGED <<ready, held, far, greeted, present>>
      /\ \/ UNCHANGED <<base, contested, linkVars>>
         \/ \E m \in Patches :
              /\ \A c \in Blocks : c \in Touches(m) <=> base'[c] # base[c]
              /\ \A c \in Touches(m) : c \in Blocks /\ Given(m)[c] = base'[c]
              /\ Write(m)
              /\ contested' = contested \union
                         (Touches(m) \intersect TouchedBy(inbound))
  BY EditDoes
<1>2. CASE UNCHANGED <<base, contested, linkVars>>
  BY <1>1, <1>2, AgreementApart DEF far, linkVars
<1>3. ASSUME NEW m \in Patches,
             \A c \in Blocks : c \in Touches(m) <=> base'[c] # base[c],
             \A c \in Touches(m) : c \in Blocks /\ Given(m)[c] = base'[c],
             Write(m),
             contested' = contested \union
                         (Touches(m) \intersect TouchedBy(inbound)),
             joined', Told', ready' => held' = <<>>,
             NEW c \in Blocks \ contested'
      PROVE  ToCome(BaseSeen', Coming', c) = ToCome(server', out', c)
  <2>1. /\ held = <<>> /\ joined /\ live
        /\ UNCHANGED <<held, inbound, joined, server>>
    BY <1>1, <1>3 DEF far, ViewTypeOK
  <2>2. /\ BaseSeen = base /\ BaseSeen' = base' /\ HeldSeen = <<>> /\ HeldSeen' = <<>>
    BY <1>1, <2>1 DEF BaseSeen, HeldSeen
  <2>3. /\ inbound \in Seq(Frames) /\ out \in Seq(Outbound)
    BY ShownTypes
  <2>4. Coming = inbound /\ Coming' = inbound
    BY <2>1, <2>2, <2>3, ConcatEmptySeq DEF Coming
  <2>5. Told
    BY <1>1, <1>3, <2>1, <2>4 DEF Told
  <2>6. ToCome(base, inbound, c) = ToCome(server, out, c)
    BY <1>3, <2>1, <2>2, <2>4, <2>5 DEF AgreeInv
  <2>7. out' = Append(out, m) /\ m \in Outbound
    <3>1. out' = out \o <<m>>
      BY <1>3, <2>1 DEF Write, Hand
    <3>2. m \in Outbound
      BY DEF Outbound
    <3> QED
      BY <2>3, <3>1, <3>2, AppendIsConcat
  <2>8. Brings(m) = Touches(m)
    BY BringsOf
  <2>9. ToCome(server, out', c) =
          IF c \in Touches(m) THEN Given(m)[c] ELSE ToCome(server, out, c)
    BY <2>3, <2>7, <2>8, LastComes
  <2>10. CASE c \in Touches(m)
    <3>1. c \notin TouchedBy(inbound)
      BY <1>3, <2>10
    <3>2. ToCome(base', inbound, c) = base'[c]
      BY <2>3, <3>1, Untouched
    <3> QED
      BY <1>3, <2>1, <2>2, <2>4, <2>9, <2>10, <3>2
  <2>11. CASE c \notin Touches(m)
    <3>1. base'[c] = base[c]
      BY <1>3, <2>11
    <3>2. ToCome(base', inbound, c) = ToCome(base, inbound, c)
      BY <3>1, SameBlock
    <3> QED
      BY <2>1, <2>2, <2>4, <2>6, <2>9, <2>11, <3>2
  <2> QED
    BY <2>10, <2>11
<1> QED
  BY <1>1, <1>2, <1>3 DEF AgreeInv

\* The edit of the other writer: it is on its way to the page at once.
LEMMA PeerAgrees ==
  ASSUME ViewTypeOK, AgreeInv, NEW b \in Blocks,
         NEW v \in Versions \union {Absent}, PeerEdits(b, v)
  PROVE  AgreeInv'
<1> DEFINE next == [server EXCEPT ![b] = v]
           m == DiffBlocks(server, next)
<1>1. /\ server[b] # v /\ server' = next
      /\ inbound' = IF joined THEN Append(inbound, m) ELSE inbound
      /\ contested' = contested \union (IF joined THEN {b} \intersect TouchedBy(out)
                                                 ELSE {})
      /\ UNCHANGED <<linkVars, local, joined, greeted>>
  BY DEF PeerEdits
<1>2. /\ server \in Document /\ out \in Seq(Outbound) /\ inbound \in Seq(Frames)
      /\ HeldSeen \in Seq(Frames) /\ Coming \in Seq(Frames)
  BY ShownTypes
<1>3. next \in Document /\ next[b] = v /\ \A c \in Blocks \ {b} : next[c] = server[c]
  BY <1>2, EditedDocument DEF Document
<1>4. /\ m \in Patches
      /\ \A c \in Blocks : c \in Touches(m) <=> next[c] # server[c]
      /\ \A c \in Touches(m) : Given(m)[c] = next[c]
  BY <1>2, <1>3, DiffSound
<1>5. m \in Frames /\ m.type # "init" /\ Brings(m) = Touches(m)
  BY <1>4, BringsOf DEF Frames, Patches
<1> HIDE DEF m, next
<1>6. SUFFICES ASSUME joined', Told', ready' => held' = <<>>,
                      NEW c \in Blocks \ contested'
               PROVE  ToCome(BaseSeen', Coming', c) = ToCome(server', out', c)
  BY DEF AgreeInv
<1>7. /\ joined /\ out' = out /\ (ready => held = <<>>) /\ present' = present
      /\ BaseSeen' = BaseSeen /\ HeldSeen' = HeldSeen
  BY <1>1, <1>6 DEF linkVars, local, BaseSeen, HeldSeen
<1>8. Coming' = Append(Coming, m)
  BY <1>1, <1>2, <1>5, <1>7, AppendedLater DEF Coming
<1>9. Told
  <2>1. \A i \in DOMAIN Append(Coming, m) :
          Append(Coming, m)[i] = m \/ (i \in DOMAIN Coming /\
                                        Append(Coming, m)[i] = Coming[i])
    BY <1>2, <1>5, AppendProperties, LenProperties
  <2>2. HasInit(Append(Coming, m)) => HasInit(Coming)
    BY <1>5, <2>1 DEF HasInit
  <2> QED
    BY <1>1, <1>6, <1>7, <1>8, <2>2 DEF Told
<1>10. ToCome(BaseSeen, Coming, c) = ToCome(server, out, c)
  BY <1>1, <1>6, <1>7, <1>9 DEF AgreeInv
<1>11. ToCome(BaseSeen, Coming', c) =
         IF c \in Touches(m) THEN Given(m)[c] ELSE ToCome(BaseSeen, Coming, c)
  BY <1>2, <1>5, <1>8, LastComes
<1>12. CASE c = b
  <2>1. c \notin TouchedBy(out)
    BY <1>1, <1>6, <1>7, <1>12
  <2>2. ToCome(next, out, c) = next[c]
    BY <1>2, <2>1, Untouched
  <2> QED
    BY <1>1, <1>3, <1>4, <1>7, <1>11, <1>12, <2>2
<1>13. CASE c # b
  <2>1. next[c] = server[c] /\ c \notin Touches(m)
    BY <1>3, <1>4, <1>6, <1>13
  <2>2. ToCome(next, out, c) = ToCome(server, out, c)
    BY <2>1, SameBlock
  <2> QED
    BY <1>1, <1>7, <1>10, <1>11, <2>1, <2>2
<1> QED
  BY <1>12, <1>13

\* The hub greets the page with its document, on top of everything else.
LEMMA JoinAgrees ==
  ASSUME ViewTypeOK, WireInv, BlankInv, HubJoins
  PROVE  AgreeInv'
<1> DEFINE m == [type |-> "init", doc |-> server, blank |-> blank]
<1>1. /\ live /\ ~joined /\ inbound' = Append(inbound, m)
      /\ contested' = TouchedBy(out) \union (IF blank THEN contested ELSE {})
      /\ UNCHANGED <<linkVars, local, server, blank, greeted>>
  BY DEF HubJoins
<1>2. /\ server \in Document /\ out \in Seq(Outbound) /\ inbound \in Seq(Frames)
      /\ held \in Seq(Frames) /\ HeldSeen \in Seq(Frames) /\ <<>> \in Seq(Frames)
      /\ DOMAIN <<>> = {}
  BY ShownTypes
<1>3. m \in Greetings /\ m.doc = server /\ m.type = "init" /\ m.blank = blank
  BY <1>2 DEF Greetings, ViewTypeOK
<1>4. m \in Frames /\ Given(m) = server /\ Brings(m) = IF blank THEN {} ELSE Blocks
  BY <1>3, BringsOf DEF Frames, Given
<1> HIDE DEF m
<1>5. inbound = <<>> /\ queue = <<>>
  BY <1>1 DEF WireInv
<1>6. UNCHANGED <<present, held, base, out>>
  BY <1>1 DEF linkVars, local
<1>7. /\ BaseSeen' = BaseSeen /\ HeldSeen' = HeldSeen
      /\ Coming' = Append(HeldSeen, m)
  <2>1. BaseSeen' = BaseSeen /\ HeldSeen' = HeldSeen
    BY <1>6 DEF BaseSeen, HeldSeen
  <2>2. HeldSeen \o Append(<<>>, m) = Append(HeldSeen \o <<>>, m)
    BY <1>2, <1>4, AppendedLater
  <2>3. HeldSeen \o <<>> = HeldSeen
    BY <1>2, ConcatEmptySeq
  <2> QED
    BY <1>1, <1>5, <2>1, <2>2, <2>3 DEF Coming
<1>8. SUFFICES ASSUME NEW c \in Blocks \ contested'
               PROVE  ToCome(BaseSeen', Coming', c) = ToCome(server', out', c)
  BY DEF AgreeInv
<1>9. ToCome(server, out, c) = server[c]
  BY <1>1, <1>2, <1>8, Untouched
<1>10. ToCome(BaseSeen, Coming', c) =
         IF c \in Brings(m) THEN Given(m)[c] ELSE ToCome(BaseSeen, HeldSeen, c)
  BY <1>2, <1>4, <1>7, LastComes
<1>11. CASE ~blank
  BY <1>1, <1>4, <1>6, <1>7, <1>8, <1>9, <1>10, <1>11
<1>12. CASE blank
  <2>1. server[c] = Absent
    BY <1>8, <1>12 DEF BlankInv, Empty
  <2>2. BaseSeen[c] = Absent
    <3>1. c \notin TouchedBy(queue)
      BY <1>5, <1>2 DEF TouchedBy
    <3>2. c \notin TouchedBy(out) /\ c \notin contested
      BY <1>1, <1>8, <1>12
    <3>3. present => base[c] = Absent
      BY <1>8, <1>12, <3>1, <3>2 DEF BlankInv
    <3> QED
      BY <1>8, <3>3 DEF BaseSeen, Empty
  <2>3. \A i \in DOMAIN HeldSeen : Brings(HeldSeen[i]) = {}
    BY <1>2, <1>12, BringsOf DEF BlankInv, HeldSeen, Void
  <2>4. ToCome(BaseSeen, HeldSeen, c) = BaseSeen[c]
    BY <1>2, <2>3, NothingComes
  <2> QED
    BY <1>1, <1>4, <1>6, <1>7, <1>9, <1>10, <1>12, <2>1, <2>2, <2>4
<1> QED
  BY <1>11, <1>12

\* The hub takes the page's message, which was on its way.
LEMMA TakeAgrees ==
  ASSUME ViewTypeOK, AgreeInv, HubTakes
  PROVE  AgreeInv'
<1> DEFINE m == Head(out)
           rest == Tail(out)
<1>1. /\ out # <<>> /\ out' = rest
      /\ UNCHANGED <<present, local, inbound, joined, history>>
      /\ server' = IF m.type = "patch" THEN ApplyPatch(server, m) ELSE server
  BY DEF HubTakes, Taken
<1>2. out \in Seq(Outbound) /\ server \in Document
  BY ShownTypes
<1>3. m \in Outbound
  BY <1>1, <1>2, HeadTailProperties
<1> HIDE DEF m, rest
<1>4. \A c \in Blocks : server'[c] = After(server, m, c)
  <2>1. CASE m \in Patches
    <3>1. m.type = "patch" /\ Brings(m) = Touches(m)
      BY <2>1, BringsOf DEF Patches
    <3> QED
      BY <1>1, <1>2, <2>1, <3>1, ApplyPatchAt DEF After
  <2>2. CASE m = Identify
    <3>1. m.type # "patch" /\ Brings(m) = {}
      BY <2>2, BringsOf DEF Identify
    <3> QED
      BY <1>1, <3>1 DEF After
  <2> QED
    BY <1>3, <2>1, <2>2 DEF Outbound
<1>5. \A c \in Blocks : ToCome(server, out, c) = ToCome(server', out', c)
  BY <1>1, <1>2, <1>4, FirstComes DEF m, rest
<1>6. UNCHANGED <<BaseSeen, HeldSeen, Coming, Told, ready, held, contested>>
  <2>1. UNCHANGED <<BaseSeen, HeldSeen, ready, held, contested, greeted, present>>
    BY <1>1 DEF BaseSeen, HeldSeen, local, history
  <2>2. UNCHANGED Coming
    BY <1>1, <2>1 DEF Coming
  <2> QED
    BY <2>1, <2>2 DEF Told
<1> QED
  BY <1>1, <1>5, <1>6 DEF AgreeInv

LEMMA AgreeInductive ==
  ASSUME ViewTypeOK, WireInv, BlankInv, AgreeInv, [ViewNext]_viewVars
  PROVE  AgreeInv'
<1>1. CASE MountView
  <2>1. /\ ~present /\ present' /\ base' = Empty /\ held' = <<>> /\ ~greeted'
        /\ UNCHANGED <<out, inbound, joined, server, contested>>
    BY <1>1 DEF MountView, Enter, far
  <2>2. UNCHANGED <<BaseSeen, HeldSeen>>
    BY <2>1 DEF BaseSeen, HeldSeen
  <2>3. UNCHANGED Coming
    BY <2>1, <2>2 DEF Coming
  <2>4. Told' => Told
    BY <2>1, <2>3 DEF Told
  <2>5. ~ready
    BY <2>1 DEF ViewTypeOK
  <2> QED
    BY <2>1, <2>2, <2>3, <2>4, <2>5, AgreementStays
<1>2. CASE LeaveView \/ SocketLost
  BY <1>2 DEF LeaveView, SocketLost, AgreeInv
<1>3. CASE SocketOpens \/ FramesGone
  <2>1. ~joined'
    BY <1>3 DEF SocketOpens, Opened, FramesGone, Gone, far, ViewTypeOK
  <2> QED
    BY <2>1 DEF AgreeInv
<1>4. CASE SuppressionEnds \/ UNCHANGED viewVars
  BY <1>4, AgreementApart
  DEF SuppressionEnds, viewVars, linkVars, local, far, history
<1> QED
  BY <1>1, <1>2, <1>3, <1>4, ReadyAgrees, ReceiveAgrees, EditAgrees, PeerAgrees,
     JoinAgrees, TakeAgrees
  DEF ViewNext

\* BaselineAgrees, for every number of blocks, edits, connections and visits.
THEOREM BaselineAgreesCorrect == ViewSpec => []BaselineAgrees
<1> DEFINE Inv == WireInv /\ BlankInv /\ AgreeInv
<1>1. ViewInit => Inv
  <2> SUFFICES ASSUME ViewInit PROVE Inv
    OBVIOUS
  <2>1. DOMAIN <<>> = {}
    BY EmptySeq
  <2> QED
    BY <2>1 DEF ViewInit, LinkInit, WireInv, BlankInv, AgreeInv
<1>2. ViewTypeOK /\ Inv /\ [ViewNext]_viewVars => Inv'
  BY WireInductive, BlankInductive, AgreeInductive
<1>3. Inv => BaselineAgrees
  BY DEF AgreeInv, BaselineAgrees, BaseSeen, HeldSeen, Coming, Told, HasInit,
         InitToCome
<1> QED
  BY <1>1, <1>2, <1>3, ViewTypeCorrect, PTL DEF ViewSpec

\* EditorFollowsBaseline, for every number of blocks, edits and messages.
THEOREM EditorFollowsCorrect == ViewSpec => EditorFollowsBaseline
<1>1. ASSUME ViewTypeOK, [ViewNext]_viewVars, value = base, value' # base'
      PROVE  \/ edits' = edits + 1 /\ Suppressed(value')
             \/ base' = Empty
  <2>r. /\ Refs \in RefsType /\ ShowsBase(Refs)
        /\ Refs.base = base /\ Refs.value = value
    BY <1>1, TypesAre, RefsAre DEF ViewTypes, ShowsBase
  <2>1. CASE MountView
    BY <2>1 DEF MountView
  <2>2. CASE HandleEditorReady
    <3>1. ShowsBase(Drain(Refs)) /\ SetRefs(Drain(Refs))
      BY <2>r, <2>2, QueueDrained DEF HandleEditorReady
    <3> QED
      BY <1>1, <3>1 DEF ShowsBase, SetRefs
  <2>3. CASE Receive
    <3> DEFINE t == ApplyIncomingMessage(Refs, Head(inbound))
    <3>1. UNCHANGED <<value, base>> \/ SetRefs(t)
      BY <2>3 DEF Receive
    <3>2. Head(inbound) \in Frames
      BY <1>1, <2>3, ShownTypes, HeadTailProperties DEF Receive
    <3>3. ShowsBase(t)
      BY <2>r, <3>2, MessageApplied
    <3> HIDE DEF t
    <3> QED
      BY <1>1, <3>1, <3>3 DEF ShowsBase, SetRefs
  <2>4. ASSUME NEW b \in Blocks, NEW v \in Versions \union {Absent}, Edit(b, v)
        PROVE  edits' = edits + 1 /\ Suppressed(value')
    <3> DEFINE next == [value EXCEPT ![b] = v]
               m == DiffBlocks(base, next)
    <3>1. /\ value' = next /\ edits' = edits + 1 /\ value[b] # v
          /\ Suppressed(next) \/ Touches(m) = {} \/ base' = next
      BY <2>4 DEF Edit
    <3>2. next \in Document /\ base \in Document /\ next[b] = v
      BY <1>1, ShownTypes, EditedDocument DEF Document
    <3>3. \A c \in Blocks : c \in Touches(m) <=> next[c] # base[c]
      BY <3>2, DiffSound
    <3>4. Touches(m) # {}
      BY <1>1, <3>1, <3>2, <3>3
    <3> HIDE DEF next, m
    <3> QED
      BY <1>1, <3>1, <3>4
  <2>5. ASSUME LeaveView \/ SuppressionEnds \/ SocketOpens \/ SocketLost
               \/ HubJoins \/ HubTakes \/ FramesGone \/ UNCHANGED viewVars
               \/ \E b \in Blocks, v \in Versions \union {Absent} : PeerEdits(b, v)
        PROVE  UNCHANGED <<value, base>>
    BY <2>5 DEF LeaveView, SuppressionEnds, SocketOpens, SocketLost, HubJoins,
       HubTakes, FramesGone, PeerEdits, viewVars, local
  <2> QED
    BY <1>1, <2>1, <2>2, <2>3, <2>4, <2>5 DEF ViewNext
<1> QED
  BY <1>1, ViewTypeCorrect, PTL DEF ViewSpec, EditorFollowsBaseline
===============================================================================
