------------------------------ MODULE NoteRoom ------------------------------
(***************************************************************************)
(* The collaboration hub of the notes service for one note                  *)
(* (services/notes/internal/realtime): the rooms a process creates for the  *)
(* note one after the other, the event loop of each room, the goroutines of *)
(* the connections, the debounce timers, the flushes they start and the     *)
(* graceful shutdown, over the tables yjs_state and yjs_updates.            *)
(*                                                                          *)
(* A flush takes the buffer under the room's lock and writes to the         *)
(* database without it, so several flushes are in flight at once. Only what *)
(* a document accounts for is kept of its content: which blocks it has and  *)
(* which edits were merged into it (or replaced by it). The 64-frame send   *)
(* queue of a connection is full when the network says so.                  *)
(***************************************************************************)
EXTENDS Naturals, FiniteSets, Sequences

CONSTANTS
  Clients,         \* connections; each is opened at most once
  UserOf,          \* the user of each connection; the fan-out must not ask
  Rooms,           \* bound: room objects created for the note
  Blocks,          \* block ids of the note
  FlushThreshold,  \* flushThreshold
  ChannelCap,      \* capacity of the join and leave channels
  FrameCap,        \* capacity of the broadcast channel
  MaxEdits,        \* bound: edits the clients make
  Kinds,           \* the frame types the clients send
  Stops,           \* whether the process is asked to stop
  Faulty           \* whether database calls fail and the process crashes

EditKinds == {"upsert", "delete", "update"}
PrivateKinds == {"identify", "cursor"}

ASSUME RoomsAssumption == Rooms # {} /\ Blocks # {}
ASSUME KindsAssumption == Kinds \subseteq EditKinds \union PrivateKinds
ASSUME CapsAssumption ==
  /\ FlushThreshold \in Nat \ {0} /\ ChannelCap \in Nat \ {0}
  /\ FrameCap \in Nat \ {0} /\ MaxEdits \in Nat
ASSUME FlagsAssumption == Stops \in BOOLEAN /\ Faulty \in BOOLEAN

VARIABLES
  entry,         \* h.rooms[noteID]: empty or one room
  status,        \* of a room object: "unused", "running", "closed"
  loop,          \* where run() is: at its select, or in a flush it called
  hand,          \* the frame run() holds while it flushes
  join, leave, broadcast,                \* the channels of a room
  clients,       \* the registered connections of a room
  currentValue, buffer,                  \* under r.mu
  flushTimer,    \* whether r.flushTimer is set
  timers,        \* armed runtime timers; a flush does not stop them
  flights,       \* flushes between the lock and the end of their writes
  conn, of, named,                       \* a connection, its room, its name
  state, log,    \* yjs_state and yjs_updates
  stop,          \* the shutdown sequence of main.run
  sent,          \* history: edits made
  seen,          \* history: edits a connection made or was sent
  dropped        \* history: connections dropped for being slow

loopVars == <<loop, hand>>
channels == <<join, leave, broadcast>>
content == <<currentValue, buffer, flushTimer, timers>>
wires == <<conn, of, named>>
tables == <<state, log>>
history == <<sent, seen, dropped>>
vars == <<entry, status, loopVars, channels, clients, content, flights, wires,
          tables, stop, history>>

Edits == 1..MaxEdits
Document == [blocks: SUBSET Blocks, edits: SUBSET Edits]
Empty == [blocks |-> {}, edits |-> {}]
EditFrame == [kind: Kinds \intersect EditKinds, by: Clients, edit: Edits,
              block: Blocks]
PrivateFrame == [kind: Kinds \intersect PrivateKinds, by: Clients, edit: {0},
                 block: Blocks]
Frame == EditFrame \union PrivateFrame
Flush == [room: Rooms, by: {"loop", "timer", "shutdown"},
          batch: SUBSET Edits, snapshot: Document, stage: {"append", "state"}]

Init ==
  /\ entry = {}
  /\ status = [r \in Rooms |-> "unused"]
  /\ loop = [r \in Rooms |-> "select"]
  /\ hand = [r \in Rooms |-> <<>>]
  /\ join = [r \in Rooms |-> {}]
  /\ leave = [r \in Rooms |-> {}]
  /\ broadcast = [r \in Rooms |-> <<>>]
  /\ clients = [r \in Rooms |-> {}]
  /\ currentValue = [r \in Rooms |-> Empty]
  /\ buffer = [r \in Rooms |-> {}]
  /\ flushTimer = [r \in Rooms |-> FALSE]
  /\ timers = [r \in Rooms |-> 0]
  /\ flights = {}
  /\ conn = [c \in Clients |-> "new"]
  /\ of = [c \in Clients |-> CHOOSE r \in Rooms : TRUE]
  /\ named = [c \in Clients |-> FALSE]
  /\ state = Empty
  /\ log = {}
  /\ stop = "no"
  /\ sent = 0
  /\ seen = [c \in Clients |-> {}]
  /\ dropped = {}

-------------------------------------------------------------------------------
(* HandleNoteWS: getOrCreateRoom (under h.mu), the join, the read pump *)

Attach(c, r) ==
  /\ conn[c] = "new"
  /\ stop # "closing"
  /\ conn' = [conn EXCEPT ![c] = "joining"]
  /\ of' = [of EXCEPT ![c] = r]

FindRoom(c, r) ==
  /\ r \in entry
  /\ Attach(c, r)
  /\ UNCHANGED <<entry, status, loopVars, channels, clients, content, flights,
                 named, tables, stop, history>>

\* Mutant: the map is not looked at.
CreateAnyway == TRUE
NoRoomYet == entry = {}

\* A room object starts with the persisted snapshot, or empty when it could not
\* be read.
CreateRoom(c, r, hydrated) ==
  /\ NoRoomYet
  /\ status[r] = "unused"
  /\ Attach(c, r)
  /\ entry' = {r}
  /\ status' = [status EXCEPT ![r] = "running"]
  /\ currentValue' = [currentValue EXCEPT ![r] = hydrated]
  /\ UNCHANGED <<loopVars, channels, clients, buffer, flushTimer, timers,
                 flights, named, tables, stop, history>>

Join(c) ==
  /\ conn[c] = "joining"
  /\ Cardinality(join[of[c]]) < ChannelCap
  /\ conn' = [conn EXCEPT ![c] = "open"]
  /\ join' = [join EXCEPT ![of[c]] = @ \union {c}]
  /\ UNCHANGED <<entry, status, loopVars, leave, broadcast, clients, content,
                 flights, of, named, tables, stop, history>>

Enqueue(c, frame) ==
  /\ conn[c] = "open"
  /\ Len(broadcast[of[c]]) < FrameCap
  /\ broadcast' = [broadcast EXCEPT ![of[c]] = Append(@, frame)]
  /\ UNCHANGED <<entry, status, loopVars, join, leave, clients, content,
                 flights, wires, tables, stop, dropped>>

SendEdit(c, kind, block) ==
  /\ sent < MaxEdits
  /\ sent' = sent + 1
  /\ seen' = [seen EXCEPT ![c] = @ \union {sent + 1}]
  /\ Enqueue(c, [kind |-> kind, by |-> c, edit |-> sent + 1, block |-> block])

SendPrivate(c, kind) ==
  /\ Enqueue(c, [kind |-> kind, by |-> c, edit |-> 0,
                 block |-> CHOOSE b \in Blocks : TRUE])
  /\ UNCHANGED <<sent, seen>>

\* ReadMessage fails (the browser left, the pong timed out, the hub closed the
\* connection) and the deferred send to the leave channel runs.
Disconnect(c) ==
  /\ conn[c] = "open"
  /\ Cardinality(leave[of[c]]) < ChannelCap
  /\ conn' = [conn EXCEPT ![c] = "gone"]
  /\ leave' = [leave EXCEPT ![of[c]] = @ \union {c}]
  /\ UNCHANGED <<entry, status, loopVars, join, broadcast, clients, content,
                 flights, of, named, tables, stop, history>>

-------------------------------------------------------------------------------
(* run(): the select picks any ready channel *)

Selecting(r) == status[r] = "running" /\ loop[r] = "select"

RegisterClient(r, c) ==
  /\ Selecting(r)
  /\ c \in join[r]
  /\ join' = [join EXCEPT ![r] = @ \ {c}]
  /\ clients' = [clients EXCEPT ![r] = @ \union {c}]
  /\ seen' = [seen EXCEPT ![c] = @ \union currentValue[r].edits]
  /\ UNCHANGED <<entry, status, loopVars, leave, broadcast, content, flights,
                 wires, tables, stop, sent, dropped>>

\* Mutant: peers are told apart by user instead of by connection.
OtherUsers(r, c) == {o \in clients[r] : UserOf[o] # UserOf[c]}
Others(r, c) == clients[r] \ {c}

\* A frame of c goes to the others; slow ones are dropped from the room.
FanOut(r, c, slow) ==
  /\ slow \subseteq Others(r, c)
  /\ clients' = [clients EXCEPT ![r] = @ \ slow]
  /\ dropped' = dropped \union slow

FanOutEdit(r, frame, slow) ==
  /\ FanOut(r, frame.by, slow)
  /\ seen' = [k \in Clients |-> IF k \in Others(r, frame.by) \ slow
                                  THEN seen[k] \union {frame.edit} ELSE seen[k]]

IgnoreLeave(r, c) ==
  /\ Selecting(r)
  /\ c \in leave[r] \ clients[r]
  /\ leave' = [leave EXCEPT ![r] = @ \ {c}]
  /\ UNCHANGED <<entry, status, loopVars, join, broadcast, clients, content,
                 flights, wires, tables, stop, history>>

\* The others are told only when c had identified; the last one to leave makes
\* the loop flush and close.
RemoveClient(r, c, slow) ==
  /\ Selecting(r)
  /\ c \in leave[r] \intersect clients[r]
  /\ slow \subseteq Others(r, c)
  /\ ~named[c] => slow = {}
  /\ leave' = [leave EXCEPT ![r] = @ \ {c}]
  /\ clients' = [clients EXCEPT ![r] = @ \ (slow \union {c})]
  /\ dropped' = dropped \union slow
  /\ loop' = [loop EXCEPT ![r] = IF clients'[r] = {} THEN "flush" ELSE @]
  /\ UNCHANGED <<entry, status, hand, join, broadcast, content, flights, wires,
                 tables, stop, sent, seen>>

Receive(r, kinds) ==
  /\ Selecting(r)
  /\ broadcast[r] # <<>>
  /\ Head(broadcast[r]).kind \in kinds
  /\ broadcast' = [broadcast EXCEPT ![r] = Tail(@)]

Identify(r, slow) ==
  LET c == Head(broadcast[r]).by IN
  /\ Receive(r, {"identify"})
  /\ named' = [named EXCEPT ![c] = TRUE]
  /\ FanOut(r, c, slow)
  /\ UNCHANGED <<entry, status, loopVars, join, leave, content, flights, conn,
                 of, tables, stop, sent, seen>>

Cursor(r, slow) ==
  /\ Receive(r, {"cursor"})
  /\ FanOut(r, Head(broadcast[r]).by, slow)
  /\ UNCHANGED <<entry, status, loopVars, join, leave, content, flights, wires,
                 tables, stop, sent, seen>>

\* mergeSnapshot, or the replacement a full "update" is; either accounts for
\* every edit merged before.
Merged(value, frame) ==
  [edits |-> value.edits \union {frame.edit},
   blocks |-> CASE frame.kind = "upsert" -> value.blocks \union {frame.block}
                [] frame.kind = "delete" -> value.blocks \ {frame.block}
                [] frame.kind = "update" -> {frame.block}]

IsStructural(r, frame) ==
  frame.kind = "delete" \/ frame.block \notin currentValue[r].blocks

\* Must run() flush before it fans the frame out?
FlushesNow(r, frame) ==
  \/ frame.kind # "update" /\ IsStructural(r, frame)
  \/ Cardinality(buffer'[r]) >= FlushThreshold

Merge(r, frame) ==
  /\ currentValue' = [currentValue EXCEPT ![r] = Merged(@, frame)]
  /\ buffer' = [buffer EXCEPT ![r] = @ \union {frame.edit}]

\* AfterFunc, or a Reset, which postpones the timer or, when it has just fired
\* and its flush waits for the lock, arms it once more.
Debounce(r) ==
  /\ flushTimer' = [flushTimer EXCEPT ![r] = TRUE]
  /\ \/ timers' = [timers EXCEPT ![r] = @ + 1]
     \/ flushTimer[r] /\ timers' = timers

EditDebounced(r, slow) ==
  LET frame == Head(broadcast[r]) IN
  /\ Receive(r, EditKinds)
  /\ Merge(r, frame)
  /\ ~FlushesNow(r, frame)
  /\ Debounce(r)
  /\ FanOutEdit(r, frame, slow)
  /\ UNCHANGED <<entry, status, loopVars, join, leave, flights, wires, tables,
                 stop, sent>>

\* An "update" arms the timer even when it flushes.
EditFlushed(r) ==
  LET frame == Head(broadcast[r]) IN
  /\ Receive(r, EditKinds)
  /\ Merge(r, frame)
  /\ FlushesNow(r, frame)
  /\ IF frame.kind = "update" THEN Debounce(r)
                              ELSE UNCHANGED <<flushTimer, timers>>
  /\ loop' = [loop EXCEPT ![r] = "flush"]
  /\ hand' = [hand EXCEPT ![r] = <<frame>>]
  /\ UNCHANGED <<entry, status, join, leave, clients, flights, wires, tables,
                 stop, history>>

-------------------------------------------------------------------------------
(* flush *)

\* Mutant: the buffer is cleared before it is copied.
TakeCleared(r, caller) ==
  /\ flushTimer' = [flushTimer EXCEPT ![r] = FALSE]
  /\ buffer' = [buffer EXCEPT ![r] = {}]
  /\ flights' = IF buffer[r] = {} THEN flights ELSE flights \union
       {[room |-> r, by |-> caller, batch |-> {},
         snapshot |-> currentValue[r], stage |-> "append"]}

\* Under r.mu: the buffer and a copy of the value are taken, the timer unset.
TakeBuffer(r, caller) ==
  /\ flushTimer' = [flushTimer EXCEPT ![r] = FALSE]
  /\ buffer' = [buffer EXCEPT ![r] = {}]
  /\ flights' = IF buffer[r] = {} THEN flights ELSE flights \union
       {[room |-> r, by |-> caller, batch |-> buffer[r],
         snapshot |-> currentValue[r], stage |-> "append"]}

\* Mutant: the call is missing.
LoopSkipsFlush(r) ==
  /\ loop[r] = "flush"
  /\ loop' = [loop EXCEPT ![r] = "flushed"]
  /\ UNCHANGED <<entry, status, hand, channels, clients, content, flights,
                 wires, tables, stop, history>>

LoopFlush(r) ==
  /\ loop[r] = "flush"
  /\ TakeBuffer(r, "loop")
  /\ loop' = [loop EXCEPT ![r] = IF buffer[r] = {} THEN "flushed" ELSE "wait"]
  /\ UNCHANGED <<entry, status, hand, channels, clients, currentValue, timers,
                 wires, tables, stop, history>>

FanOutHand(r, slow) ==
  /\ loop[r] = "flushed"
  /\ hand[r] # <<>>
  /\ FanOutEdit(r, hand[r][1], slow)
  /\ loop' = [loop EXCEPT ![r] = "select"]
  /\ hand' = [hand EXCEPT ![r] = <<>>]
  /\ UNCHANGED <<entry, status, channels, content, flights, wires, tables, stop,
                 sent>>

\* onEmpty and the end of run().
Close(r) ==
  /\ loop[r] = "flushed"
  /\ hand[r] = <<>>
  /\ loop' = [loop EXCEPT ![r] = "select"]
  /\ status' = [status EXCEPT ![r] = "closed"]
  /\ entry' = {}
  /\ UNCHANGED <<hand, channels, clients, content, flights, wires, tables, stop,
                 history>>

\* Mutant: a timer that was never armed.
SomeTimer(r) == status[r] = "running"
TimerArmed(r) == timers[r] > 0

TimerFires(r) ==
  /\ TimerArmed(r)
  /\ timers' = [timers EXCEPT ![r] = @ - 1]
  /\ TakeBuffer(r, "timer")
  /\ UNCHANGED <<entry, status, loopVars, channels, clients, currentValue,
                 wires, tables, stop, history>>

AppendUpdates(f) ==
  /\ f.stage = "append"
  /\ log' = log \union f.batch
  /\ flights' = (flights \ {f}) \union {[f EXCEPT !.stage = "state"]}
  /\ UNCHANGED <<entry, status, loopVars, channels, clients, content, wires,
                 state, stop, history>>

\* The flush returns to its caller.
Return(f) ==
  /\ flights' = flights \ {f}
  /\ loop' = IF f.by = "loop" THEN [loop EXCEPT ![f.room] = "flushed"] ELSE loop
  /\ stop' = IF f.by = "shutdown" THEN "closing" ELSE stop
  /\ UNCHANGED <<entry, status, hand, channels, clients, content, wires, history>>

UpsertState(f) ==
  /\ f.stage = "state"
  /\ state' = f.snapshot
  /\ Return(f)
  /\ UNCHANGED log

-------------------------------------------------------------------------------
(* main.run after the signal: Hub.Shutdown, then the HTTP server, then exit *)

Shutdown ==
  /\ Stops
  /\ stop = "no"
  /\ IF \E r \in entry : buffer[r] # {}
       THEN /\ stop' = "flushing"
            /\ \E r \in entry : TakeBuffer(r, "shutdown")
       ELSE /\ stop' = "closing"
            /\ flushTimer' = [r \in Rooms |-> flushTimer[r] /\ r \notin entry]
            /\ UNCHANGED <<buffer, flights>>
  /\ UNCHANGED <<entry, status, loopVars, channels, clients, currentValue,
                 timers, wires, tables, history>>

\* The process ends, with its rooms, timers and connections; the next one
\* starts with an empty hub.
EndProcess ==
  /\ entry' = {}
  /\ status' = [r \in Rooms |-> IF status[r] = "running" THEN "closed"
                                                         ELSE status[r]]
  /\ loop' = [r \in Rooms |-> "select"]
  /\ hand' = [r \in Rooms |-> <<>>]
  /\ join' = [r \in Rooms |-> {}]
  /\ leave' = [r \in Rooms |-> {}]
  /\ broadcast' = [r \in Rooms |-> <<>>]
  /\ clients' = [r \in Rooms |-> {}]
  /\ buffer' = [r \in Rooms |-> {}]
  /\ flushTimer' = [r \in Rooms |-> FALSE]
  /\ timers' = [r \in Rooms |-> 0]
  /\ flights' = {}
  /\ conn' = [c \in Clients |-> IF conn[c] = "new" THEN "new" ELSE "gone"]
  /\ stop' = "no"
  /\ UNCHANGED <<currentValue, of, named, tables, history>>

Exit == stop = "closing" /\ EndProcess

-------------------------------------------------------------------------------
(* Faults: a call fails, or is applied and reported as failed *)

HydrateFails(c) == \E r \in Rooms : CreateRoom(c, r, Empty)

AppendFails(f) ==
  /\ f.stage = "append"
  /\ log' \in {log, log \union f.batch}
  /\ Return(f)
  /\ UNCHANGED state

UpsertFails(f) ==
  /\ f.stage = "state"
  /\ Return(f)
  /\ UNCHANGED tables

Crash == Faulty /\ EndProcess

-------------------------------------------------------------------------------

Connection(c) ==
  \/ \E r \in Rooms : FindRoom(c, r) \/ CreateRoom(c, r, state)
  \/ Join(c)
  \/ Disconnect(c)
  \/ \E kind \in Kinds \intersect EditKinds, block \in Blocks :
       SendEdit(c, kind, block)
  \/ \E kind \in Kinds \intersect PrivateKinds : SendPrivate(c, kind)
  \/ Faulty /\ HydrateFails(c)

Run(r) ==
  \/ \E c \in Clients : RegisterClient(r, c) \/ IgnoreLeave(r, c)
  \/ \E slow \in SUBSET clients[r] :
       \/ \E c \in Clients : RemoveClient(r, c, slow)
       \/ Identify(r, slow) \/ Cursor(r, slow)
       \/ EditDebounced(r, slow) \/ FanOutHand(r, slow)
  \/ EditFlushed(r)
  \/ LoopFlush(r)
  \/ Close(r)

Write(f) == AppendUpdates(f) \/ UpsertState(f)

Next ==
  \/ \E c \in Clients : Connection(c)
  \/ \E r \in Rooms : Run(r) \/ TimerFires(r)
  \/ \E f \in flights : Write(f) \/ (Faulty /\ (AppendFails(f) \/ UpsertFails(f)))
  \/ Shutdown \/ Exit \/ Crash

Spec == Init /\ [][Next]_vars

\* Goroutines, timers and database calls make progress; the browsers promise
\* nothing. The select of run() is fair between its channels.
FairSpec ==
  /\ Spec
  /\ \A c \in Clients : WF_vars(Join(c))
  /\ \A r \in Rooms : /\ WF_vars(Run(r))
                      /\ WF_vars(TimerFires(r))
                      /\ \A c \in Clients : SF_vars(RegisterClient(r, c))
  /\ WF_vars(\E f \in flights : Write(f))
-------------------------------------------------------------------------------
(* Properties *)

HubTypeOK ==
  /\ entry \subseteq Rooms
  /\ status \in [Rooms -> {"unused", "running", "closed"}]
  /\ loop \in [Rooms -> {"select", "flush", "wait", "flushed"}]
  /\ hand \in [Rooms -> {<<>>} \union {<<f>> : f \in EditFrame}]
  /\ join \in [Rooms -> SUBSET Clients]
  /\ leave \in [Rooms -> SUBSET Clients]
  /\ broadcast \in [Rooms -> Seq(Frame)]
  /\ clients \in [Rooms -> SUBSET Clients]

ContentTypeOK ==
  /\ currentValue \in [Rooms -> Document]
  /\ buffer \in [Rooms -> SUBSET Edits]
  /\ flushTimer \in [Rooms -> BOOLEAN]
  /\ timers \in [Rooms -> Nat]
  /\ flights \subseteq Flush
  /\ state \in Document
  /\ log \subseteq Edits

WireTypeOK ==
  /\ conn \in [Clients -> {"new", "joining", "open", "gone"}]
  /\ of \in [Clients -> Rooms]
  /\ named \in [Clients -> BOOLEAN]
  /\ stop \in {"no", "flushing", "closing"}
  /\ sent \in 0..MaxEdits
  /\ seen \in [Clients -> SUBSET Edits]
  /\ dropped \subseteq Clients

\* Every variable stays in its type.
TypeOK == HubTypeOK /\ ContentTypeOK /\ WireTypeOK

\* One room of a note runs at a time and it is the one the hub gives out, so two
\* event loops never merge edits of the same note side by side: a room leaves
\* the map after its last flush and a new one is created under the same lock.
OneRoomRuns == \A r \in Rooms : status[r] = "running" => entry = {r}

\* However flushes, strays of earlier timers and Resets interleave, an edit in a
\* buffer always has a flush coming: an armed timer, or the loop about to call.
NoStrandedEdits ==
  \A r \in Rooms : buffer[r] # {} => timers[r] > 0 \/ loop[r] = "flush"

\* A registered connection has made or was sent every edit the room's value
\* accounts for, but for the frame the loop holds while it flushes: nothing falls
\* between the init message and the first broadcast, and every other window of
\* the same user is served.
MembersInSync ==
  \A r \in Rooms : \A c \in clients[r] :
    currentValue[r].edits \subseteq
      seen[c] \union {hand[r][i].edit : i \in DOMAIN hand[r]}

\* Without failures and stops, what the running room holds and yjs_updates does
\* not is in its buffer or in a batch that a flush is about to write: no edit falls
\* between a flush and the room's end, the next hydration and a flight that is
\* still out.
Running == {r \in Rooms : status[r] = "running"}
Unlogged == (UNION {currentValue[r].edits : r \in Running}) \ log
Unwritten == {f \in flights : f.stage = "append"}
EditsAccountedFor ==
  Unlogged \subseteq UNION ({buffer[r] : r \in Running}
                              \union {f.batch : f \in Unwritten})

\* Without failures and stops every edit a room buffered reaches yjs_updates,
\* whoever joins, leaves or is dropped in the meantime.
EditsAreLogged ==
  \A e \in Edits : (\E r \in Rooms : e \in buffer[r]) ~> e \in log
===============================================================================
