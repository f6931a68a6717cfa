----------------------------- MODULE StickyBlock ----------------------------
(***************************************************************************)
(* The sticky note                                                           *)
(* (components/editor/plugins/sticky-notes/sticky-notes-coponent.tsx). Its   *)
(* card keeps a position and a text of its own, which a drag and the         *)
(* keyboard change at once and the block only when the drag ends or the      *)
(* text field loses the focus; an effect copies props that changed back into *)
(* the card. A position and a text are one of two; the colour is left out, the *)
(* edit that changes it is not.                                              *)
(***************************************************************************)
EXTENDS SharedBlock

VARIABLES
  card   \* what the component of a page keeps

Places == {"here", "there"}
Texts == {"", "text"}

StickyValues == [alive: BOOLEAN, pos: Places, caption: Texts]
Cards == [pos: Places, text: Texts, dragging: BOOLEAN, typing: BOOLEAN,
          visible: BOOLEAN, orphan: BOOLEAN]

Fresh(value) == [pos |-> value.pos, text |-> value.caption, dragging |-> FALSE,
                 typing |-> FALSE, visible |-> TRUE, orphan |-> FALSE]

NewSticky == [alive |-> TRUE, pos |-> "here", caption |-> ""]

StickyInit ==
  /\ BlockInit("sticky", NewSticky)
  /\ card = [p \in Pages |-> Fresh(NewSticky)]

(* The effects after a render; a block that is gone takes its card along,    *)
(* one that comes back gets a new one.                                       *)
Synced(c, old, new) ==
  IF ~old.alive \/ ~new.alive
  THEN Fresh(new)
  ELSE [c EXCEPT !.pos = IF old.pos = new.pos THEN @ ELSE new.pos,
                 !.text = IF old.caption = new.caption THEN @ ELSE new.caption]

Shown(p) == kind = "sticky" /\ seen[p].alive

(* A change of the card and of the block; when the block is gone already,    *)
(* only of the card (orphan, a history, until there is a new card).          *)
Write(p, changed, value) ==
  IF props[p].alive
  THEN /\ Put(p, value)
       /\ card' = [card EXCEPT ![p] = Synced(changed, seen[p], value)]
  ELSE /\ card' = [card EXCEPT ![p] = [changed EXCEPT !.orphan = TRUE]]
       /\ UNCHANGED blockVars

Change(p, changed) ==
  /\ card' = [card EXCEPT ![p] = changed]
  /\ UNCHANGED blockVars

PointerDown(p) ==
  /\ Shown(p) /\ card[p].visible
  /\ Change(p, [card[p] EXCEPT !.dragging = TRUE])

PointerMove(p) ==
  /\ Shown(p) /\ card[p].dragging
  /\ \E x \in Places : Change(p, [card[p] EXCEPT !.pos = x])

\* Mutant: the card is left where the last move put it.
PointerUpStays(p) ==
  /\ Shown(p) /\ card[p].dragging
  /\ \E x \in Places :
       Write(p, [card[p] EXCEPT !.dragging = FALSE],
                [props[p] EXCEPT !.pos = x])

PointerUp(p) ==
  /\ Shown(p) /\ card[p].dragging
  /\ \E x \in Places :
       Write(p, [card[p] EXCEPT !.dragging = FALSE, !.pos = x],
                [props[p] EXCEPT !.pos = x])

ToggleColor(p) ==
  /\ Shown(p) /\ card[p].visible
  /\ Write(p, card[p], props[p])

Close(p) ==
  /\ Shown(p) /\ card[p].visible
  /\ Write(p, [card[p] EXCEPT !.visible = FALSE],
              [props[p] EXCEPT !.alive = FALSE])

Type(p) ==
  /\ Shown(p) /\ card[p].visible
  /\ \E t \in Texts : Change(p, [card[p] EXCEPT !.text = t, !.typing = TRUE])

CaptionBlur(p) ==
  /\ Shown(p) /\ card[p].typing
  /\ Write(p, [card[p] EXCEPT !.typing = FALSE],
              [props[p] EXCEPT !.caption = card[p].text])

ToggleCard(p) ==
  /\ Shown(p)
  /\ Change(p, [card[p] EXCEPT !.visible = ~@])

RenderSticky(p) ==
  /\ kind = "sticky" /\ Renders(p)
  /\ card' = [card EXCEPT ![p] = Synced(@, seen[p], props[p])]
  /\ UNCHANGED <<kind, props, inbox, edits>>

UseSticky(p) ==
  \/ PointerDown(p) \/ PointerMove(p) \/ PointerUp(p)
  \/ ToggleColor(p) \/ Close(p) \/ Type(p) \/ CaptionBlur(p) \/ ToggleCard(p)
  \/ RenderSticky(p)

(* What the card shows is what the block says, but for a drag or a text that *)
(* is not finished, a block not rendered yet, or a change the page made to a *)
(* block that was gone.                                                      *)
CardTellsBlock(p) ==
  props[p].alive /\ seen[p] = props[p] /\ ~card[p].orphan =>
    /\ card[p].pos = props[p].pos \/ card[p].dragging
    /\ card[p].text = props[p].caption \/ card[p].typing
=============================================================================
