----------------------------- MODULE SharedBlock ----------------------------
(***************************************************************************)
(* One block of a note, open in several pages. An edit changes the block in  *)
(* the page's editor and sends the whole block to the other pages            *)
(* (modules/notes/components/note-view.tsx); the last one to arrive wins.    *)
(* A component renders after its own event at once, after a block that came  *)
(* from elsewhere later: until then its handlers still see the old props.    *)
(*                                                                           *)
(* What a block holds, and what its component keeps to itself, is left to    *)
(* PollBlock, StickyBlock and PictureBlock. Blocks do not touch each other,  *)
(* so one block is enough, and Init chooses its kind.                        *)
(***************************************************************************)
EXTENDS Naturals, Sequences, FiniteSets

CONSTANTS
  Pages,     \* pages that show the note
  MaxEdits   \* bound: edits sent

ASSUME EditsAssumption == MaxEdits \in Nat

VARIABLES
  kind,    \* which block it is
  props,   \* the block in the editor of a page
  seen,    \* the props its component rendered last
  inbox,   \* blocks on their way to a page
  edits    \* bound: edits so far

blockVars == <<kind, props, seen, inbox, edits>>

Kinds == {"poll", "sticky", "picture", "asset"}

BlockInit(k, value) ==
  /\ kind = k
  /\ props = [p \in Pages |-> value]
  /\ seen = props
  /\ inbox = [p \in Pages |-> << >>]
  /\ edits = 0

(* Elements.updateElement, the patch note-view sends for it, and the render  *)
(* at the end of the event.                                                  *)
Put(p, value) ==
  /\ edits < MaxEdits
  /\ edits' = edits + 1
  /\ props' = [props EXCEPT ![p] = value]
  /\ seen' = [seen EXCEPT ![p] = value]
  /\ inbox' = [q \in Pages |->
                 IF q = p THEN inbox[q] ELSE Append(inbox[q], value)]
  /\ UNCHANGED kind

(* applyRemoteValue.                                                         *)
Receive(p) ==
  /\ inbox[p] # << >>
  /\ props' = [props EXCEPT ![p] = Head(inbox[p])]
  /\ inbox' = [inbox EXCEPT ![p] = Tail(@)]
  /\ UNCHANGED <<kind, seen, edits>>

Renders(p) == seen[p] # props[p] /\ seen' = [seen EXCEPT ![p] = props[p]]

Values == {props[p] : p \in Pages} \cup
          UNION {{inbox[p][i] : i \in DOMAIN inbox[p]} : p \in Pages}
=============================================================================
