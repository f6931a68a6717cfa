----------------------------- MODULE BoardRoom ------------------------------
(***************************************************************************)
(* A whiteboard: the canvases that show it (web/.../whiteboard-canvas.tsx),  *)
(* their links to the hub, the rooms the hub makes for it one after the      *)
(* other and what these store (services/whiteboard/internal).                *)
(*                                                                           *)
(* A document is the set of the edits it contains, and every message carries *)
(* a whole document: the last one taken stands. The socket manager is        *)
(* reduced to a link that is up or down (RoomSocket has the whole of it); a  *)
(* connection that breaks and the hub's leave are one step. Acknowledgements *)
(* carry no document, the page drops them, and they are left out. Texts of   *)
(* messages are taken to be read in the order they arrive (external).        *)
(***************************************************************************)
EXTENDS Naturals, Sequences, FiniteSets, SequencesExt

CONSTANTS
  Pages,        \* open windows
  Users,
  UserOf,       \* who sits at each
  SendBuffer,   \* capacity of client.send
  MaxEdits,     \* bound: edits made
  MaxSends,     \* bound: snapshots sent
  MaxRooms,     \* bound: rooms made
  Faulty        \* whether database calls fail and the hub restarts

ASSUME UserOfAssumption == UserOf \in [Pages -> Users]
ASSUME BoundsAssumption ==
  /\ SendBuffer \in Nat \ {0} /\ MaxEdits \in Nat /\ MaxSends \in Nat
  /\ MaxRooms \in Nat
ASSUME FaultyAssumption == Faulty \in BOOLEAN

Rooms == 1..MaxRooms
Documents == SUBSET (1..MaxEdits)
None == {0}
Maybe == Documents \union {None}

VARIABLES
  stage,    \* how far the page is: away, mounted (no editor yet), ready
  doc,      \* the store of the page
  held,     \* pendingDocumentRef
  loaded,   \* loadedSnapshotRef
  timer,    \* debounceTimer is set
  up,       \* pages whose connection the hub took in
  queue,    \* snapshots waiting for a connection
  wire,     \* snapshots on their way to the hub
  inbox,    \* documents on their way to the page
  room,     \* the rooms made so far: currentDoc, len(buffer) > 0, flushTimer
  current,  \* the one in hub.rooms, 0 when there is none
  flushes,  \* flushes between their copy and their last write
  clock,    \* time.Now in flush: one more for every flush
  ops,      \* the newest row of board_ops_hot, at 0 when there is none
  state,    \* board_state.document
  due,      \* history: the last document the hub owed the page
  seen,     \* history: the last document the page took on this connection
  touched,  \* history: edited since a document was loaded
  stale,    \* history: rooms hydrated while an older one had not stored all
  failed,   \* history: an append failed and no snapshot was taken since
  edits, sends   \* counters of the bounds

page == <<stage, doc, held, loaded, timer>>
link == <<up, queue, wire, inbox>>
hub == <<room, current>>
stored == <<flushes, clock, ops, state>>
history == <<due, seen, touched, stale, failed, edits, sends>>
vars == <<page, link, hub, stored, history>>

Room == [doc: Maybe, dirty: BOOLEAN, armed: BOOLEAN]
Row == [doc: Maybe, at: Nat]
NoRow == [doc |-> None, at |-> 0]
Flush == [row: Row, next: {"append", "upsert"}]

Init ==
  /\ stage = [p \in Pages |-> "away"]
  /\ doc = [p \in Pages |-> {}]
  /\ held = [p \in Pages |-> None]
  /\ loaded = [p \in Pages |-> FALSE]
  /\ timer = [p \in Pages |-> FALSE]
  /\ up = {}
  /\ queue = [p \in Pages |-> <<>>]
  /\ wire = [p \in Pages |-> <<>>]
  /\ inbox = [p \in Pages |-> <<>>]
  /\ room = <<>>
  /\ current = 0
  /\ flushes = {}
  /\ clock = 0
  /\ ops = NoRow
  /\ state = None
  /\ due = [p \in Pages |-> None]
  /\ seen = [p \in Pages |-> None]
  /\ touched = [p \in Pages |-> FALSE]
  /\ stale = {}
  /\ failed = FALSE
  /\ edits = 0
  /\ sends = 0

-------------------------------------------------------------------------------
(* The canvas *)

\* The page is opened: connectRoom and the listener.
Mount(p) ==
  /\ stage[p] = "away"
  /\ stage' = [stage EXCEPT ![p] = "mounted"]
  /\ doc' = [doc EXCEPT ![p] = {}]
  /\ held' = [held EXCEPT ![p] = None]
  /\ loaded' = [loaded EXCEPT ![p] = FALSE]
  /\ touched' = [touched EXCEPT ![p] = FALSE]
  /\ UNCHANGED <<timer, link, hub, stored, due, seen, stale, failed, edits,
                 sends>>

\* applySnapshot. Whether the listener of the store takes the load for an edit
\* of the user is the editor's business (external): both happen.
ApplySnapshot(p, d) ==
  /\ doc' = [doc EXCEPT ![p] = d]
  /\ loaded' = [loaded EXCEPT ![p] = TRUE]
  /\ held' = [held EXCEPT ![p] = None]
  /\ touched' = [touched EXCEPT ![p] = FALSE]
  /\ \/ UNCHANGED timer
     \/ timer' = [timer EXCEPT ![p] = TRUE]

\* onMount of the editor; a document that came before it is loaded, ahead of
\* the listener of the store.
EditorMounts(p) ==
  /\ stage[p] = "mounted"
  /\ stage' = [stage EXCEPT ![p] = "ready"]
  /\ IF ~loaded[p] /\ held[p] # None
       THEN /\ doc' = [doc EXCEPT ![p] = held[p]]
            /\ loaded' = [loaded EXCEPT ![p] = TRUE]
            /\ held' = [held EXCEPT ![p] = None]
       ELSE UNCHANGED <<doc, loaded, held>>
  /\ UNCHANGED <<timer, link, hub, stored, history>>

\* Mutant: the first document that came stays the one to load.
ReceiveFirst(p) ==
  /\ inbox[p] # <<>>
  /\ inbox' = [inbox EXCEPT ![p] = Tail(@)]
  /\ seen' = [seen EXCEPT ![p] = Head(inbox[p])]
  /\ IF stage[p] = "ready" THEN ApplySnapshot(p, Head(inbox[p]))
     ELSE /\ held' = [held EXCEPT ![p] = IF @ = None THEN Head(inbox[p]) ELSE @]
          /\ UNCHANGED <<doc, loaded, timer, touched>>
  /\ UNCHANGED <<stage, up, queue, wire, hub, stored, due, stale, failed,
                 edits, sends>>

\* The listener of messages: init and snapshot are handled alike.
Receive(p) ==
  /\ inbox[p] # <<>>
  /\ inbox' = [inbox EXCEPT ![p] = Tail(@)]
  /\ seen' = [seen EXCEPT ![p] = Head(inbox[p])]
  /\ IF stage[p] = "ready" THEN ApplySnapshot(p, Head(inbox[p]))
     ELSE /\ held' = [held EXCEPT ![p] = Head(inbox[p])]
          /\ UNCHANGED <<doc, loaded, timer, touched>>
  /\ UNCHANGED <<stage, up, queue, wire, hub, stored, due, stale, failed,
                 edits, sends>>

\* The user draws; the timer is set, or set again.
Edit(p) ==
  /\ stage[p] = "ready"
  /\ edits < MaxEdits
  /\ edits' = edits + 1
  /\ doc' = [doc EXCEPT ![p] = @ \union {edits'}]
  /\ timer' = [timer EXCEPT ![p] = TRUE]
  /\ touched' = [touched EXCEPT ![p] = TRUE]
  /\ UNCHANGED <<stage, held, loaded, link, hub, stored, due, seen, stale,
                 failed, sends>>

\* 200 ms later: the whole document, on the connection or in the queue.
SendOp(p) ==
  /\ timer[p]
  /\ sends < MaxSends
  /\ sends' = sends + 1
  /\ timer' = [timer EXCEPT ![p] = FALSE]
  /\ IF p \in up
       THEN wire' = [wire EXCEPT ![p] = Append(@, doc[p])] /\ UNCHANGED queue
       ELSE queue' = [queue EXCEPT ![p] = Append(@, doc[p])] /\ UNCHANGED wire
  /\ UNCHANGED <<stage, doc, held, loaded, up, inbox, hub, stored, due, seen,
                 touched, stale, failed, edits>>

-------------------------------------------------------------------------------
(* The room *)

LoopRuns == current # 0
Fresh(d) == [doc |-> d, dirty |-> FALSE, armed |-> FALSE]

\* Mutant: a board_state row is taken as it is.
HydrateFromState == IF state # None THEN state ELSE ops.doc

\* hydrate: board_ops_hot rows have clocks in nanoseconds and the clock of a
\* board_state row is in milliseconds, so that every row is newer than it.
Hydrate == IF ops # NoRow THEN ops.doc ELSE state

\* Mutant: a board without a document is announced as well.
GreetingAlways(d) == <<d>>

\* sendInitialState: nothing is sent for a board without a document.
Greeting(d) == IF d = None THEN <<>> ELSE <<d>>

OthersBusy == flushes # {} \/ \E r \in DOMAIN room : room[r].dirty

\* HandleBoardWS, getOrCreateRoom, join and sendInitialState; the socket manager
\* flushes its queue.
Open(p) ==
  /\ stage[p] # "away"
  /\ p \notin up
  /\ IF LoopRuns
       THEN UNCHANGED <<hub, stale>>
       ELSE /\ Len(room) < MaxRooms
            /\ room' = Append(room, Fresh(Hydrate))
            /\ current' = Len(room')
            /\ stale' = IF OthersBusy THEN stale \union {current'} ELSE stale
  /\ up' = up \union {p}
  /\ wire' = [wire EXCEPT ![p] = queue[p]]
  /\ queue' = [queue EXCEPT ![p] = <<>>]
  /\ LET d == room'[current'].doc IN
       /\ inbox' = [inbox EXCEPT ![p] = Greeting(d)]
       /\ due' = [due EXCEPT ![p] = d]
  /\ seen' = [seen EXCEPT ![p] = None]
  /\ UNCHANGED <<page, stored, touched, failed, edits, sends>>

\* Connections of S are gone; the leave of the last one closes the room, whose
\* flush timer goes on.
Gone(S) ==
  /\ up' = up \ S
  /\ current' = IF up \subseteq S THEN 0 ELSE current
  /\ due' = [p \in Pages |-> IF p \in S THEN None ELSE due[p]]

Others(p) == {q \in up : UserOf[q] # UserOf[p]}
Slow(q) == Len(inbox[q]) >= SendBuffer

\* Mutant: a member whose buffer is full misses the message and stays.
AcceptSkipping(p) ==
  /\ p \in up
  /\ wire[p] # <<>>
  /\ LET d == Head(wire[p]) IN
     /\ wire' = [wire EXCEPT ![p] = Tail(@)]
     /\ room' = [room EXCEPT ![current] = [doc |-> d, dirty |-> TRUE,
                                            armed |-> TRUE]]
     /\ inbox' = [q \in Pages |-> IF q \in Others(p) /\ ~Slow(q)
                                    THEN Append(inbox[q], d) ELSE inbox[q]]
     /\ due' = [q \in Pages |-> IF q \in Others(p) THEN d ELSE due[q]]
  /\ failed' = FALSE
  /\ UNCHANGED <<page, up, queue, current, stored, seen, touched, stale, edits,
                 sends>>

\* handleClientMessage and the broadcast case of the loop. A member whose
\* buffer is full is dropped, unless its write pump took something first.
Accept(p) ==
  /\ p \in up
  /\ wire[p] # <<>>
  /\ \E dropped \in SUBSET {q \in Others(p) : Slow(q)} :
     LET d == Head(wire[p]) IN
     /\ room' = [room EXCEPT ![current] = [doc |-> d, dirty |-> TRUE,
                                            armed |-> TRUE]]
     /\ wire' = [q \in Pages |-> IF q = p THEN Tail(wire[q])
                                 ELSE IF q \in dropped THEN <<>> ELSE wire[q]]
     /\ inbox' = [q \in Pages |-> IF q \in dropped THEN <<>>
                                  ELSE IF q \in Others(p)
                                       THEN Append(inbox[q], d)
                                  ELSE inbox[q]]
     /\ up' = up \ dropped
     /\ due' = [q \in Pages |-> IF q \in dropped THEN None
                                ELSE IF q \in Others(p) THEN d ELSE due[q]]
  /\ failed' = FALSE
  /\ UNCHANGED <<page, queue, current, stored, seen, touched, stale, edits,
                 sends>>

\* The connection breaks: what is on it is gone.
Lose(p) ==
  /\ p \in up
  /\ Gone({p})
  /\ wire' = [wire EXCEPT ![p] = <<>>]
  /\ inbox' = [inbox EXCEPT ![p] = <<>>]
  /\ UNCHANGED <<page, queue, room, stored, seen, touched, stale, failed,
                 edits, sends>>

\* The page is left: disconnectRoom, and the timer is cleared.
Unmount(p) ==
  /\ stage[p] # "away"
  /\ stage' = [stage EXCEPT ![p] = "away"]
  /\ timer' = [timer EXCEPT ![p] = FALSE]
  /\ IF p \in up THEN Gone({p}) ELSE UNCHANGED <<up, current, due>>
  /\ wire' = [wire EXCEPT ![p] = <<>>]
  /\ inbox' = [inbox EXCEPT ![p] = <<>>]
  /\ queue' = [queue EXCEPT ![p] = <<>>]
  /\ UNCHANGED <<doc, held, loaded, room, stored, seen, touched, stale, failed,
                 edits, sends>>

-------------------------------------------------------------------------------
(* flush, 400 ms after the last snapshot of a room, open or not *)

FlushStarts(r) ==
  /\ r \in DOMAIN room
  /\ room[r].armed
  /\ room' = [room EXCEPT ![r].dirty = FALSE, ![r].armed = FALSE]
  /\ clock' = clock + 1
  /\ flushes' = flushes \union
       {[row |-> [doc |-> room[r].doc, at |-> clock'], next |-> "append"]}
  /\ UNCHANGED <<page, link, current, ops, state, history>>

\* BatchAppendBoardOps. Its rows carry the time of the call, which follows the
\* copy of the buffer at once; the last of them is the document.
FlushAppends(f) ==
  /\ f \in flushes /\ f.next = "append"
  /\ ops' = IF f.row.at > ops.at THEN f.row ELSE ops
  /\ flushes' = (flushes \ {f}) \union {[f EXCEPT !.next = "upsert"]}
  /\ UNCHANGED <<page, link, hub, clock, state, history>>

\* UpsertBoardState; two flushes may come here in either order.
FlushUpserts(f) ==
  /\ f \in flushes /\ f.next = "upsert"
  /\ state' = f.row.doc
  /\ flushes' = flushes \ {f}
  /\ UNCHANGED <<page, link, hub, clock, ops, history>>

FlushFails(f) ==
  /\ Faulty
  /\ f \in flushes
  /\ flushes' = flushes \ {f}
  /\ failed' = (failed \/ f.next = "append")
  /\ UNCHANGED <<page, link, hub, clock, ops, state, due, seen, touched, stale,
                 edits, sends>>

\* default_time_to_live of board_ops_hot, three days, outlives any flush.
OpsExpire ==
  /\ ops # NoRow /\ flushes = {}
  /\ ops' = NoRow
  /\ UNCHANGED <<page, link, hub, flushes, clock, state, history>>

\* The process of the hub restarts.
Restart ==
  /\ Faulty
  /\ current # 0
  /\ Gone(up)
  /\ room' = [r \in DOMAIN room |-> Fresh(None)]
  /\ flushes' = {}
  /\ wire' = [p \in Pages |-> <<>>]
  /\ inbox' = [p \in Pages |-> <<>>]
  /\ UNCHANGED <<page, queue, clock, ops, state, seen, touched, stale, failed,
                 edits, sends>>

-------------------------------------------------------------------------------

PageStep(p) ==
  \/ Mount(p) \/ EditorMounts(p) \/ Receive(p) \/ Edit(p) \/ SendOp(p)
  \/ Open(p) \/ Accept(p) \/ Lose(p) \/ Unmount(p)

Next ==
  \/ \E p \in Pages : PageStep(p)
  \/ \E r \in Rooms : FlushStarts(r)
  \/ \E f \in flushes : FlushAppends(f) \/ FlushUpserts(f) \/ FlushFails(f)
  \/ OpsExpire
  \/ Restart

Spec == Init /\ [][Next]_vars

-------------------------------------------------------------------------------
(* Properties *)

TypeOK ==
  /\ stage \in [Pages -> {"away", "mounted", "ready"}]
  /\ doc \in [Pages -> Documents]
  /\ held \in [Pages -> Maybe]
  /\ loaded \in [Pages -> BOOLEAN] /\ timer \in [Pages -> BOOLEAN]
  /\ up \subseteq Pages
  /\ queue \in [Pages -> Seq(Documents)]
  /\ wire \in [Pages -> Seq(Documents)] /\ inbox \in [Pages -> Seq(Documents)]
  /\ room \in Seq(Room) /\ Len(room) <= MaxRooms
  /\ current \in 0..Len(room)
  /\ flushes \subseteq Flush
  /\ clock \in Nat /\ ops \in Row /\ state \in Maybe
  /\ due \in [Pages -> Maybe] /\ seen \in [Pages -> Maybe]
  /\ touched \in [Pages -> BOOLEAN]
  /\ stale \subseteq Rooms /\ failed \in BOOLEAN
  /\ edits \in 0..MaxEdits /\ sends \in 0..MaxSends

(* A member of the room gets the last document somebody else gave it, or is  *)
(* disconnected: whoever has read all that came, and drew nothing since,     *)
(* looks at that document, however the frames came before or after the       *)
(* editor was there (the broadcast loop of hub.go, the message listener and  *)
(* pendingDocumentRef of whiteboard-canvas.tsx).                             *)
MembersFollow ==
  \A p \in up :
    /\ inbox[p] # <<>> => Last(inbox[p]) = due[p]
    /\ inbox[p] = <<>> =>
         /\ seen[p] = due[p]
         /\ stage[p] = "mounted" /\ due[p] # None => held[p] = due[p]
         /\ stage[p] = "ready" /\ due[p] # None /\ ~touched[p] => doc[p] = due[p]

(* Once a room has nothing left to write, the next room starts from its      *)
(* document, although overlapping flushes may leave an older one in          *)
(* board_state: as long as the rows of board_ops_hot last, hydrate finds the *)
(* last one (flush and hydrate of hub.go).                                   *)
QuietRoomIsStored ==
  current # 0 /\ current \notin stale /\ ~OthersBusy /\ ~failed /\ ops # NoRow
    => Hydrate = room[current].doc

===============================================================================
