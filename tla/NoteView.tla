------------------------------ MODULE NoteView ------------------------------
(***************************************************************************)
(* The editor page of a note (web/src/modules/notes/components/             *)
(* note-view.tsx) on top of RoomLink, and at the far end of the link the     *)
(* room of the notes service with one other writer.                         *)
(*                                                                           *)
(* A document gives each block a version, Absent when it has no such block.  *)
(* The two ways applyRemoteValue writes a value into the editor (all of it,  *)
(* or only the blocks whose text changed when neither the set of blocks nor  *)
(* their types differ) leave the same document behind. The editor is taken   *)
(* to give back the value it was given (external).                           *)
(***************************************************************************)
EXTENDS RoomLink

CONSTANTS
  Blocks,      \* block ids
  Versions,    \* contents of a block
  MaxEdits,    \* bound: edits the user makes
  MaxPeer,     \* bound: edits the other writer makes
  MaxVisits,   \* bound: times the page is opened
  MaxOpens     \* bound: connections

ASSUME VersionsAssumption == Versions \subseteq Nat \ {0}

Absent == 0
Document == [Blocks -> Versions \union {Absent}]
Empty == [b \in Blocks |-> Absent]
NoSnapshot == [b \in {} |-> Absent]

VARIABLES
  ready,      \* editorReadyRef
  value,      \* what the editor shows
  base,       \* prevValueRef
  last,       \* lastRemoteSnapshotRef
  applying,   \* applyingRemote: 50 ms timers that have not fired
  held,       \* pendingMessages
  inbound,    \* frames from the hub to this connection
  joined,     \* whether the hub's loop has taken the connection in
  server,     \* the room's document
  blank,      \* whether the room never had a value
  greeted,    \* history: whether this visit got an init
  contested,  \* history: blocks both writers, or lost frames, wrote at once
  edits, peerEdits, visits, opens   \* counters of the bounds

local == <<ready, value, base, last, applying, held>>
far == <<inbound, joined, server, blank>>
history == <<greeted, contested, edits, peerEdits, visits, opens>>
viewVars == <<linkVars, local, far, history>>

Patches == [type: {"patch"}, upserted: UNION {[B -> Versions] : B \in SUBSET Blocks},
            deleted: SUBSET Blocks]
Greetings == [type: {"init"}, doc: Document, blank: BOOLEAN]
Identify == [type |-> "identify"]

ViewInit ==
  /\ LinkInit
  /\ ready = FALSE
  /\ value = Empty
  /\ base = Empty
  /\ last = NoSnapshot
  /\ applying = 0
  /\ held = <<>>
  /\ inbound = <<>>
  /\ joined = FALSE
  /\ server \in Document
  /\ blank = (server = Empty)
  /\ greeted = FALSE
  /\ contested = {}
  /\ edits = 0 /\ peerEdits = 0 /\ visits = 0 /\ opens = 0

-------------------------------------------------------------------------------
(* Patches of blocks *)

DiffBlocks(prev, next) ==
  [type |-> "patch",
   upserted |-> [b \in {c \in Blocks : next[c] # prev[c] /\ next[c] # Absent}
                   |-> next[b]],
   deleted |-> {b \in Blocks : prev[b] # Absent /\ next[b] = Absent}]

\* What is deleted goes last.
ApplyPatch(doc, patch) ==
  [b \in Blocks |-> IF b \in patch.deleted THEN Absent
                    ELSE IF b \in DOMAIN patch.upserted THEN patch.upserted[b]
                    ELSE doc[b]]

Touches(m) ==
  CASE m.type = "patch" -> DOMAIN m.upserted \union m.deleted
    [] m.type = "init" -> Blocks
    [] OTHER -> {}
TouchedBy(messages) == UNION {Touches(messages[i]) : i \in DOMAIN messages}

-------------------------------------------------------------------------------
(* The page's handling of a message, on a record of its refs *)

Refs == [value |-> value, base |-> base, last |-> last,
         applying |-> applying, held |-> held]

SetRefs(r) ==
  /\ value' = r.value
  /\ base' = r.base
  /\ last' = r.last
  /\ applying' = r.applying
  /\ held' = r.held

\* Mutant: every change is taken for a change of text.
PatchTextOnly(r, doc) ==
  IF doc = Empty THEN r
  ELSE [r EXCEPT !.applying = @ + 1, !.last = doc, !.base = doc,
                 !.value = [b \in Blocks |->
                              IF @[b] # Absent /\ doc[b] # Absent THEN doc[b]
                                                                 ELSE @[b]]]
ApplyRemoteValue(r, doc) ==
  IF doc = Empty THEN r
  ELSE [r EXCEPT !.applying = @ + 1, !.value = doc, !.last = doc, !.base = doc]

\* Mutant: the snapshot is shown and the baseline kept.
ApplyWithoutBaseline(r, m) ==
  CASE m.type = "init" /\ ~m.blank -> [r EXCEPT !.value = m.doc, !.last = m.doc]
    [] m.type = "patch" /\ r.base = Empty -> [r EXCEPT !.held = Append(@, m)]
    [] m.type = "patch" /\ r.base # Empty ->
         LET merged == ApplyPatch(r.base, m) IN
         ApplyRemoteValue([r EXCEPT !.base = merged], merged)
    [] OTHER -> r
ApplyIncomingMessage(r, m) ==
  CASE m.type = "init" /\ ~m.blank ->
         ApplyRemoteValue([r EXCEPT !.base = m.doc, !.last = m.doc], m.doc)
    [] m.type = "patch" /\ r.base = Empty -> [r EXCEPT !.held = Append(@, m)]
    [] m.type = "patch" /\ r.base # Empty ->
         LET merged == ApplyPatch(r.base, m) IN
         ApplyRemoteValue([r EXCEPT !.base = merged], merged)
    [] OTHER -> r

\* The queue is emptied and its messages handled in order; a patch that finds no
\* baseline goes back into it.
Drain(r) ==
  LET after[i \in 0..Len(r.held)] ==
        IF i = 0 THEN [r EXCEPT !.held = <<>>]
                 ELSE ApplyIncomingMessage(after[i - 1], r.held[i])
  IN after[Len(r.held)]

-------------------------------------------------------------------------------
(* The page *)

\* A page starts with fresh refs and an editor without blocks.
MountView ==
  /\ visits < MaxVisits
  /\ Enter
  /\ value' = Empty /\ base' = Empty /\ last' = NoSnapshot
  /\ applying' = 0 /\ held' = <<>> /\ ready' = FALSE
  /\ greeted' = FALSE
  /\ visits' = visits + 1
  /\ UNCHANGED <<far, contested, edits, peerEdits, opens>>

LeaveView ==
  /\ Leave
  /\ ready' = FALSE
  /\ joined' = FALSE
  /\ inbound' = <<>>
  /\ UNCHANGED <<value, base, last, applying, held, server, blank, history>>

\* Mutant: the callback of an editor that is gone.
ReadyAnyTime ==
  /\ ~ready
  /\ ready' = TRUE
  /\ SetRefs(Drain(Refs))
  /\ UNCHANGED <<linkVars, far, history>>

HandleEditorReady ==
  /\ present /\ ~ready
  /\ ready' = TRUE
  /\ SetRefs(Drain(Refs))
  /\ UNCHANGED <<linkVars, far, history>>

\* The frame reaches the page's listener, if there is a page.
Receive ==
  /\ inbound # <<>>
  /\ LET m == Head(inbound) IN
     /\ IF ~present THEN UNCHANGED <<value, base, last, applying, held>>
        ELSE IF ~ready THEN /\ held' = Append(held, m)
                            /\ UNCHANGED <<value, base, last, applying>>
        ELSE SetRefs(ApplyIncomingMessage(Refs, m))
     /\ greeted' = (greeted \/ (present /\ m.type = "init"))
  /\ inbound' = Tail(inbound)
  /\ UNCHANGED <<linkVars, ready, joined, server, blank, contested, edits,
                 peerEdits, visits, opens>>

\* The 50 ms after a remote value are over.
SuppressionEnds ==
  /\ applying > 0
  /\ applying' = applying - 1
  /\ UNCHANGED <<linkVars, ready, value, base, last, held, far, history>>

\* onChange after the user gave block b the content v: nothing is sent while a
\* remote value is being applied, nor for a value that equals the last remote
\* one, nor without a difference to the baseline.
Suppressed(next) == applying > 0 \/ next = last
Edit(b, v) ==
  LET next == [value EXCEPT ![b] = v]
      patch == DiffBlocks(base, next)
  IN /\ present /\ ready
     /\ edits < MaxEdits
     /\ value[b] # v
     /\ value' = next
     /\ IF Suppressed(next) \/ Touches(patch) = {}
        THEN /\ base' = base
             /\ contested' = contested
             /\ UNCHANGED linkVars
        ELSE /\ base' = next
             /\ Write(patch)
             /\ contested' = contested \union
                  (Touches(patch) \intersect TouchedBy(inbound))
     /\ edits' = edits + 1
     /\ UNCHANGED <<ready, last, applying, held, far, greeted, peerEdits,
                    visits, opens>>

-------------------------------------------------------------------------------
(* The link and the hub at its end *)

\* On "open" the state listener of a page identifies its user. What an older
\* connection still carried has been taken or is gone by then.
SocketOpens ==
  /\ opens < MaxOpens
  /\ out = <<>>
  /\ Opened(IF present THEN <<Identify>> ELSE <<>>)
  /\ opens' = opens + 1
  /\ UNCHANGED <<local, far, greeted, contested, edits, peerEdits, visits>>

SocketLost ==
  /\ Lost
  /\ joined' = FALSE
  /\ inbound' = <<>>
  /\ UNCHANGED <<local, server, blank, history>>

\* The hub's loop takes the connection in and sends it the room's value.
HubJoins ==
  /\ live /\ ~joined
  /\ joined' = TRUE
  /\ inbound' = Append(inbound,
                       [type |-> "init", doc |-> server, blank |-> blank])
  /\ contested' = TouchedBy(out) \union (IF blank THEN contested ELSE {})
  /\ UNCHANGED <<linkVars, local, server, blank, greeted, edits, peerEdits,
                 visits, opens>>

HubTakes ==
  /\ Taken
  /\ LET m == Head(out) IN
     IF m.type = "patch" THEN server' = ApplyPatch(server, m) /\ blank' = FALSE
                         ELSE UNCHANGED <<server, blank>>
  /\ UNCHANGED <<local, inbound, joined, history>>

FramesGone ==
  /\ Gone
  /\ contested' = contested \union TouchedBy(out)
  /\ UNCHANGED <<local, far, greeted, edits, peerEdits, visits, opens>>

PeerEdits(b, v) ==
  LET patch == DiffBlocks(server, [server EXCEPT ![b] = v]) IN
  /\ peerEdits < MaxPeer
  /\ server[b] # v
  /\ server' = [server EXCEPT ![b] = v]
  /\ blank' = FALSE
  /\ inbound' = IF joined THEN Append(inbound, patch) ELSE inbound
  /\ contested' = contested \union (IF joined THEN {b} \intersect TouchedBy(out)
                                              ELSE {})
  /\ peerEdits' = peerEdits + 1
  /\ UNCHANGED <<linkVars, local, joined, greeted, edits, visits, opens>>

ViewNext ==
  \/ MountView \/ LeaveView \/ HandleEditorReady \/ Receive \/ SuppressionEnds
  \/ \E b \in Blocks, v \in Versions \union {Absent} :
       Edit(b, v) \/ PeerEdits(b, v)
  \/ SocketOpens \/ SocketLost \/ HubJoins \/ HubTakes \/ FramesGone

ViewSpec == ViewInit /\ [][ViewNext]_viewVars

-------------------------------------------------------------------------------
(* Properties *)

ViewTypeOK ==
  /\ value \in Document /\ base \in Document /\ server \in Document
  /\ last \in Document \union {NoSnapshot}
  /\ applying \in Nat
  /\ present \in BOOLEAN /\ live \in BOOLEAN /\ ready \in BOOLEAN
  /\ joined \in BOOLEAN /\ blank \in BOOLEAN /\ greeted \in BOOLEAN
  /\ contested \subseteq Blocks
  /\ held \in Seq(Patches \union Greetings)
  /\ inbound \in Seq(Patches \union Greetings)
  /\ out \in Seq(Patches \union {Identify})
  /\ queue \in Seq(Patches \union {Identify})
  /\ ready => present
  /\ joined => live

\* The blocks a message brings, with the version it gives them: an init of a room
\* that never had a value brings none.
Brings(m) == IF m.type = "init" /\ m.blank THEN {} ELSE Touches(m)
Given(m) == IF m.type = "init" THEN m.doc ELSE ApplyPatch(Empty, m)

\* What document doc has for block b once these messages have arrived.
ToCome(doc, messages, b) ==
  LET bringing == {i \in DOMAIN messages : b \in Brings(messages[i])} IN
  IF bringing = {} THEN doc[b]
  ELSE Given(messages[CHOOSE i \in bringing : \A j \in bringing : j <= i])[b]

InitToCome == \E i \in DOMAIN (held \o inbound) : (held \o inbound)[i].type = "init"

\* Page and room agree on every block the two writers did not write at once: what
\* the page will take for the room's document (and diff its next edit against) is
\* what that document will be, whatever the order of patches, edits, connections
\* and the editor's start. Only a page that set a patch aside, for it had no
\* baseline to put it on, lost it.
BaselineAgrees ==
  present /\ joined /\ (greeted \/ InitToCome) /\ (ready => held = <<>>) =>
    \A b \in Blocks \ contested :
      ToCome(base, held \o inbound, b) = ToCome(server, out, b)

\* What the editor shows leaves the baseline only by an edit the page withholds
\* (while a remote value settles, or back to the last remote value), or when a
\* remote value without blocks arrives, which the page does not show.
EditorFollowsBaseline ==
  [][value = base /\ value' # base' =>
       \/ edits' = edits + 1 /\ Suppressed(value')
       \/ base' = Empty]_viewVars
===============================================================================
