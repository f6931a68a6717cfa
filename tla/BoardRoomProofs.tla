--------------------------- MODULE BoardRoomProofs ---------------------------
(* Proofs about BoardRoom: types, what the members of a room look at, and what *)
(* the next room starts from.                                                  *)
EXTENDS BoardRoom, SequenceTheorems, TLAPS

-------------------------------------------------------------------------------
(* Documents and sequences *)

\* "No document" is told from every document, the empty one included.
LEMMA DocumentKinds ==
  /\ None \in Maybe /\ None \notin Documents /\ {} \in Documents
  /\ \A d \in Documents : d \in Maybe
  /\ \A d \in Maybe : d # None => d \in Documents
  BY BoundsAssumption DEF None, Maybe, Documents

\* What is left of a queue when its head is taken; its last element stays.
LEMMA Dequeue ==
  ASSUME NEW S, NEW s \in Seq(S), s # <<>>
  PROVE  /\ Head(s) \in S /\ Tail(s) \in Seq(S)
         /\ Tail(s) = <<>> => Last(s) = Head(s)
         /\ Tail(s) # <<>> => Last(Tail(s)) = Last(s)
<1>1. /\ Len(s) \in Nat /\ Len(s) >= 1
      /\ Head(s) = s[1] /\ Head(s) \in S
      /\ Tail(s) \in Seq(S) /\ Len(Tail(s)) = Len(s) - 1
      /\ \A i \in 1..Len(Tail(s)) : Tail(s)[i] = s[i + 1]
  BY HeadTailProperties, LenProperties, EmptySeq
<1>2. Tail(s) = <<>> <=> Len(s) = 1
  <2> DEFINE t == Tail(s)
  <2>1. t \in Seq(S) /\ Len(t) = Len(s) - 1
    BY <1>1
  <2> HIDE DEF t
  <2>2. t = <<>> <=> Len(t) = 0
    BY <2>1, EmptySeq
  <2>3. t = <<>> <=> Len(s) = 1
    BY <1>1, <2>1, <2>2
  <2> QED
    BY <2>3 DEF t
<1>3. Tail(s) # <<>> => Last(Tail(s)) = Last(s)
  BY <1>1, <1>2 DEF Last
<1> QED
  BY <1>1, <1>2, <1>3 DEF Last

\* What comes in is last.
LEMMA Enqueue ==
  ASSUME NEW S, NEW s \in Seq(S), NEW d \in S
  PROVE  /\ Append(s, d) \in Seq(S)
         /\ Append(s, d) # <<>>
         /\ Last(Append(s, d)) = d
  BY AppendProperties, LenProperties DEF Last

-------------------------------------------------------------------------------
(* Types *)

PageTypeOK ==
  /\ stage \in [Pages -> {"away", "mounted", "ready"}]
  /\ doc \in [Pages -> Documents]
  /\ held \in [Pages -> Maybe]
  /\ loaded \in [Pages -> BOOLEAN] /\ timer \in [Pages -> BOOLEAN]
  /\ touched \in [Pages -> BOOLEAN]
  /\ edits \in 0..MaxEdits /\ sends \in 0..MaxSends

LinkTypeOK ==
  /\ up \subseteq Pages
  /\ queue \in [Pages -> Seq(Documents)]
  /\ wire \in [Pages -> Seq(Documents)] /\ inbox \in [Pages -> Seq(Documents)]
  /\ due \in [Pages -> Maybe] /\ seen \in [Pages -> Maybe]

HubTypeOK ==
  /\ room \in Seq(Room) /\ Len(room) <= MaxRooms
  /\ current \in 0..Len(room)
  /\ stale \subseteq Rooms

StoreTypeOK ==
  /\ flushes \subseteq Flush
  /\ clock \in Nat /\ ops \in Row /\ state \in Maybe
  /\ failed \in BOOLEAN

\* The four groups are the type invariant.
LEMMA TypeParts ==
  TypeOK <=> PageTypeOK /\ LinkTypeOK /\ HubTypeOK /\ StoreTypeOK
  BY DEF TypeOK, PageTypeOK, LinkTypeOK, HubTypeOK, StoreTypeOK

\* Every step keeps the canvases in their types.
LEMMA PageInductive ==
  ASSUME PageTypeOK, LinkTypeOK, [Next]_vars
  PROVE  PageTypeOK'
<1> USE DEF PageTypeOK
<1>1. ASSUME NEW p \in Pages, Mount(p)
      PROVE  PageTypeOK'
  BY <1>1, DocumentKinds DEF Mount
<1>2. ASSUME NEW p \in Pages, EditorMounts(p)
      PROVE  PageTypeOK'
  BY <1>2, DocumentKinds DEF EditorMounts, history
<1>3. ASSUME NEW p \in Pages, Receive(p)
      PROVE  PageTypeOK'
  <2>1. Head(inbox[p]) \in Documents
    BY <1>3, Dequeue DEF Receive, LinkTypeOK
  <2> QED
    BY <1>3, <2>1, DocumentKinds DEF Receive, ApplySnapshot
<1>4. ASSUME NEW p \in Pages, Edit(p)
      PROVE  PageTypeOK'
  BY <1>4, BoundsAssumption DEF Edit, Documents
<1>5. ASSUME NEW p \in Pages, SendOp(p)
      PROVE  PageTypeOK'
  BY <1>5, BoundsAssumption DEF SendOp
<1>6. ASSUME NEW p \in Pages, Open(p) \/ Accept(p) \/ Lose(p)
      PROVE  PageTypeOK'
  BY <1>6 DEF Open, Accept, Lose, page
<1>7. ASSUME NEW p \in Pages, Unmount(p)
      PROVE  PageTypeOK'
  BY <1>7 DEF Unmount
<1>8. ASSUME NEW r \in Rooms, FlushStarts(r)
      PROVE  PageTypeOK'
  BY <1>8 DEF FlushStarts, page, history
<1>9. ASSUME NEW f \in flushes,
             FlushAppends(f) \/ FlushUpserts(f) \/ FlushFails(f)
      PROVE  PageTypeOK'
  BY <1>9 DEF FlushAppends, FlushUpserts, FlushFails, page, history
<1>10. CASE OpsExpire \/ Restart
  BY <1>10 DEF OpsExpire, Restart, page, history
<1>11. CASE UNCHANGED vars
  BY <1>11 DEF vars, page, history
<1> QED
  BY <1>1, <1>2, <1>3, <1>4, <1>5, <1>6, <1>7, <1>8, <1>9, <1>10, <1>11
  DEF Next, PageStep

\* A document to start from; a room that starts from it.
LEMMA Hydrated ==
  ASSUME StoreTypeOK
  PROVE  Hydrate \in Maybe /\ Fresh(Hydrate) \in Room
  BY DEF StoreTypeOK, Hydrate, Fresh, Row, Room

\* The hub the page meets when it connects, and what it is sent first.
LEMMA OpenMeets ==
  ASSUME HubTypeOK, StoreTypeOK, NEW p \in Pages, Open(p)
  PROVE  /\ HubTypeOK'
         /\ current' # 0 /\ current' \in DOMAIN room'
         /\ room'[current'].doc \in Maybe
         /\ Greeting(room'[current'].doc) \in Seq(Documents)
<1>1. /\ HubTypeOK'
      /\ current' # 0 /\ current' \in 1..Len(room')
      /\ DOMAIN room' = 1..Len(room') /\ room'[current'] \in Room
  <2>1. CASE LoopRuns
    BY <2>1, LenProperties DEF Open, HubTypeOK, LoopRuns, hub
  <2>2. CASE ~LoopRuns
    <3>1. /\ room' = Append(room, Fresh(Hydrate))
          /\ Len(room) < MaxRooms /\ current' = Len(room')
          /\ stale' \subseteq stale \union {current'}
      BY <2>2 DEF Open
    <3>2. /\ room' \in Seq(Room) /\ Len(room') = Len(room) + 1
          /\ DOMAIN room' = 1..Len(room')
      BY <3>1, Hydrated, AppendProperties, LenProperties DEF HubTypeOK
    <3>3. Len(room) \in Nat
      BY LenProperties DEF HubTypeOK
    <3>4. current' \in Rooms /\ current' \in 1..Len(room')
      BY <3>1, <3>2, <3>3, BoundsAssumption DEF Rooms
    <3>5. room'[current'] \in Room
      BY <3>2, <3>4, ElementOfSeq
    <3> QED
      BY <3>1, <3>2, <3>3, <3>4, <3>5, BoundsAssumption DEF HubTypeOK
  <2> QED
    BY <2>1, <2>2
<1>2. room'[current'].doc \in Maybe
  BY <1>1 DEF Room
<1>3. \A d \in Maybe : Greeting(d) \in Seq(Documents)
  BY DocumentKinds DEF Greeting
<1> QED
  BY <1>1, <1>2, <1>3

\* A document a connected page sends reaches the room it is in.
LEMMA Accepted ==
  ASSUME LinkTypeOK, HubTypeOK, NEW p \in Pages, Accept(p)
  PROVE  /\ Head(wire[p]) \in Documents
         /\ room' = [room EXCEPT ![current] =
              [doc |-> Head(wire[p]), dirty |-> TRUE, armed |-> TRUE]]
         /\ HubTypeOK'
<1>1. /\ Head(wire[p]) \in Documents
      /\ room' = [room EXCEPT ![current] =
           [doc |-> Head(wire[p]), dirty |-> TRUE, armed |-> TRUE]]
      /\ UNCHANGED <<current, stale>>
  BY Dequeue DEF Accept, LinkTypeOK
<1> DEFINE new == [doc |-> Head(wire[p]), dirty |-> TRUE, armed |-> TRUE]
<1>2. new \in Room
  BY <1>1, DocumentKinds DEF Room
<1> HIDE DEF new
<1>3. room' \in Seq(Room) /\ Len(room') = Len(room)
  <2>1. CASE current \in 1..Len(room)
    BY <1>1, <1>2, <2>1, ExceptSeq DEF HubTypeOK, new
  <2>2. CASE current \notin 1..Len(room)
    <3>1. room' = room
      BY <1>1, <2>2, LenProperties DEF HubTypeOK, new
    <3> QED
      BY <3>1 DEF HubTypeOK
  <2> QED
    BY <2>1, <2>2
<1> QED
  BY <1>1, <1>3 DEF HubTypeOK

\* Every step keeps the connections in their types.
LEMMA LinkInductive ==
  ASSUME TypeOK, [Next]_vars
  PROVE  LinkTypeOK'
<1>t. PageTypeOK /\ LinkTypeOK /\ HubTypeOK /\ StoreTypeOK
  BY TypeParts
<1> USE DEF LinkTypeOK
<1>e. <<>> \in Seq(Documents)
  OBVIOUS
<1>1. ASSUME NEW p \in Pages, Mount(p) \/ EditorMounts(p) \/ Edit(p)
      PROVE  LinkTypeOK'
  BY <1>1, <1>t DEF Mount, EditorMounts, Edit, link, history
<1>2. ASSUME NEW p \in Pages, Receive(p)
      PROVE  LinkTypeOK'
  <2>1. Head(inbox[p]) \in Documents /\ Tail(inbox[p]) \in Seq(Documents)
    BY <1>2, <1>t, Dequeue DEF Receive
  <2> QED
    BY <1>2, <1>t, <2>1, DocumentKinds DEF Receive
<1>3. ASSUME NEW p \in Pages, SendOp(p)
      PROVE  LinkTypeOK'
  <2>1. /\ Append(wire[p], doc[p]) \in Seq(Documents)
        /\ Append(queue[p], doc[p]) \in Seq(Documents)
    BY <1>t, Enqueue DEF PageTypeOK
  <2> QED
    BY <1>3, <1>t, <2>1 DEF SendOp
<1>4. ASSUME NEW p \in Pages, Open(p)
      PROVE  LinkTypeOK'
  <2>1. /\ room'[current'].doc \in Maybe
        /\ Greeting(room'[current'].doc) \in Seq(Documents)
    BY <1>4, <1>t, OpenMeets
  <2> DEFINE d == room'[current'].doc
  <2>2. /\ up' = up \union {p}
        /\ wire' = [wire EXCEPT ![p] = queue[p]]
        /\ queue' = [queue EXCEPT ![p] = <<>>]
        /\ inbox' = [inbox EXCEPT ![p] = Greeting(d)]
        /\ due' = [due EXCEPT ![p] = d]
        /\ seen' = [seen EXCEPT ![p] = None]
    BY <1>4 DEF Open
  <2>3. d \in Maybe /\ Greeting(d) \in Seq(Documents)
    BY <2>1
  <2> HIDE DEF d
  <2> QED
    BY <1>t, <1>e, <2>2, <2>3, DocumentKinds
<1>5. ASSUME NEW p \in Pages, Accept(p)
      PROVE  LinkTypeOK'
  <2>1. /\ Head(wire[p]) \in Documents /\ Tail(wire[p]) \in Seq(Documents)
        /\ \A q \in Pages :
             Append(inbox[q], Head(wire[p])) \in Seq(Documents)
    BY <1>5, <1>t, Dequeue, Enqueue DEF Accept
  <2> DEFINE d == Head(wire[p])
  <2>2. PICK dropped \in SUBSET {q \in Others(p) : Slow(q)} :
          /\ wire' = [q \in Pages |-> IF q = p THEN Tail(wire[q])
                                 ELSE IF q \in dropped THEN <<>> ELSE wire[q]]
          /\ inbox' = [q \in Pages |-> IF q \in dropped THEN <<>>
                                  ELSE IF q \in Others(p)
                                       THEN Append(inbox[q], d)
                                  ELSE inbox[q]]
          /\ up' = up \ dropped
          /\ due' = [q \in Pages |-> IF q \in dropped THEN None
                                ELSE IF q \in Others(p) THEN d ELSE due[q]]
    BY <1>5, Zenon DEF Accept
  <2>3. d \in Maybe /\ UNCHANGED <<queue, seen>>
    BY <1>5, <2>1, DocumentKinds DEF Accept
  <2>4. wire' \in [Pages -> Seq(Documents)]
    BY <1>t, <1>e, <2>1, <2>2
  <2>5. inbox' \in [Pages -> Seq(Documents)]
    BY <1>t, <1>e, <2>1, <2>2
  <2> HIDE DEF d
  <2>6. due' \in [Pages -> Maybe]
    BY <1>t, <2>2, <2>3, DocumentKinds
  <2> QED
    BY <1>t, <2>2, <2>3, <2>4, <2>5, <2>6
<1>6. ASSUME NEW p \in Pages, Lose(p)
      PROVE  LinkTypeOK'
  BY <1>6, <1>t, <1>e, DocumentKinds DEF Lose, Gone
<1>7. ASSUME NEW p \in Pages, Unmount(p)
      PROVE  LinkTypeOK'
  <2>1. /\ up' \subseteq up /\ due' \in [Pages -> Maybe]
    BY <1>7, <1>t, DocumentKinds DEF Unmount, Gone
  <2> QED
    BY <1>7, <1>t, <1>e, <2>1 DEF Unmount
<1>8. ASSUME NEW r \in Rooms, FlushStarts(r)
      PROVE  LinkTypeOK'
  BY <1>8, <1>t DEF FlushStarts, link, history
<1>9. ASSUME NEW f \in flushes,
             FlushAppends(f) \/ FlushUpserts(f) \/ FlushFails(f)
      PROVE  LinkTypeOK'
  BY <1>9, <1>t DEF FlushAppends, FlushUpserts, FlushFails, link, history
<1>10. CASE OpsExpire
  BY <1>10, <1>t DEF OpsExpire, link, history
<1>11. CASE Restart
  BY <1>11, <1>t, <1>e, DocumentKinds DEF Restart, Gone
<1>12. CASE UNCHANGED vars
  BY <1>12, <1>t DEF vars, link, history
<1> QED
  BY <1>1, <1>2, <1>3, <1>4, <1>5, <1>6, <1>7, <1>8, <1>9, <1>10, <1>11, <1>12
  DEF Next, PageStep

\* Every step keeps the rooms in their types.
LEMMA HubInductive ==
  ASSUME TypeOK, [Next]_vars
  PROVE  HubTypeOK'
<1>t. PageTypeOK /\ LinkTypeOK /\ HubTypeOK /\ StoreTypeOK
  BY TypeParts
<1>z. 0 \in 0..Len(room) /\ Len(room) \in Nat
  BY <1>t, LenProperties DEF HubTypeOK
<1>1. ASSUME NEW p \in Pages,
             \/ Mount(p) \/ EditorMounts(p) \/ Receive(p) \/ Edit(p)
             \/ SendOp(p)
      PROVE  HubTypeOK'
  BY <1>1, <1>t
  DEF Mount, EditorMounts, Receive, Edit, SendOp, hub, history, HubTypeOK
<1>2. ASSUME NEW p \in Pages, Open(p)
      PROVE  HubTypeOK'
  BY <1>2, <1>t, OpenMeets
<1>3. ASSUME NEW p \in Pages, Accept(p)
      PROVE  HubTypeOK'
  BY <1>3, <1>t, Accepted
<1>4. ASSUME NEW p \in Pages, Lose(p) \/ Unmount(p)
      PROVE  HubTypeOK'
  BY <1>4, <1>t, <1>z DEF Lose, Unmount, Gone, HubTypeOK
<1>5. ASSUME NEW r \in Rooms, FlushStarts(r)
      PROVE  HubTypeOK'
  <2> DEFINE new == [room[r] EXCEPT !.dirty = FALSE, !.armed = FALSE]
  <2>1. r \in 1..Len(room) /\ room[r] \in Room
    BY <1>5, <1>t, LenProperties, ElementOfSeq DEF FlushStarts, HubTypeOK
  <2>2. new \in Room
    BY <2>1 DEF Room
  <2>3. room' = [room EXCEPT ![r] = new] /\ UNCHANGED <<current, stale>>
    BY <1>5 DEF FlushStarts, history
  <2> HIDE DEF new
  <2>4. room' \in Seq(Room) /\ Len(room') = Len(room)
    BY <1>t, <2>1, <2>2, <2>3, ExceptSeq DEF HubTypeOK
  <2> QED
    BY <1>t, <2>3, <2>4 DEF HubTypeOK
<1>6. ASSUME NEW f \in flushes,
             FlushAppends(f) \/ FlushUpserts(f) \/ FlushFails(f)
      PROVE  HubTypeOK'
  BY <1>6, <1>t
  DEF FlushAppends, FlushUpserts, FlushFails, hub, history, HubTypeOK
<1>7. CASE OpsExpire
  BY <1>7, <1>t DEF OpsExpire, hub, history, HubTypeOK
<1>8. CASE Restart
  <2>1. Fresh(None) \in Room
    BY DocumentKinds DEF Fresh, Room
  <2>2. room' = [r \in 1..Len(room) |-> Fresh(None)]
    BY <1>8, <1>t, LenProperties DEF Restart, HubTypeOK
  <2>3. room' \in Seq(Room) /\ Len(room') = Len(room)
    BY <1>z, <2>1, <2>2
  <2> QED
    BY <1>8, <1>t, <1>z, <2>3 DEF Restart, Gone, HubTypeOK
<1>9. CASE UNCHANGED vars
  BY <1>9, <1>t DEF vars, hub, history, HubTypeOK
<1> QED
  BY <1>1, <1>2, <1>3, <1>4, <1>5, <1>6, <1>7, <1>8, <1>9 DEF Next, PageStep

\* Every step keeps the flushes and the tables in their types.
LEMMA StoreInductive ==
  ASSUME TypeOK, [Next]_vars
  PROVE  StoreTypeOK'
<1>t. PageTypeOK /\ LinkTypeOK /\ HubTypeOK /\ StoreTypeOK
  BY TypeParts
<1> USE DEF StoreTypeOK
<1>1. ASSUME NEW p \in Pages,
             \/ Mount(p) \/ EditorMounts(p) \/ Receive(p) \/ Edit(p)
             \/ SendOp(p) \/ Open(p) \/ Lose(p) \/ Unmount(p)
      PROVE  StoreTypeOK'
  BY <1>1, <1>t
  DEF Mount, EditorMounts, Receive, Edit, SendOp, Open, Lose, Unmount, stored,
      history
<1>2. ASSUME NEW p \in Pages, Accept(p)
      PROVE  StoreTypeOK'
  BY <1>2, <1>t DEF Accept, stored
<1>3. ASSUME NEW r \in Rooms, FlushStarts(r)
      PROVE  StoreTypeOK'
  <2> DEFINE new == [row |-> [doc |-> room[r].doc, at |-> clock + 1],
                     next |-> "append"]
  <2>1. room[r] \in Room
    BY <1>3, <1>t, LenProperties, ElementOfSeq DEF FlushStarts, HubTypeOK
  <2>2. new \in Flush
    BY <1>t, <2>1 DEF Room, Row, Flush
  <2>3. /\ flushes' = flushes \union {new} /\ clock' = clock + 1
        /\ UNCHANGED <<ops, state, failed>>
    BY <1>3 DEF FlushStarts, history
  <2> HIDE DEF new
  <2> QED
    BY <1>t, <2>2, <2>3
<1>4. ASSUME NEW f \in flushes, FlushAppends(f)
      PROVE  StoreTypeOK'
  <2> DEFINE new == [f EXCEPT !.next = "upsert"]
  <2>1. new \in Flush /\ f.row \in Row
    BY <1>t DEF Flush
  <2>2. /\ flushes' = (flushes \ {f}) \union {new} /\ ops' \in {ops, f.row}
        /\ UNCHANGED <<clock, state, failed>>
    BY <1>4 DEF FlushAppends, history
  <2> HIDE DEF new
  <2> QED
    BY <1>t, <2>1, <2>2
<1>5. ASSUME NEW f \in flushes, FlushUpserts(f)
      PROVE  StoreTypeOK'
  BY <1>5, <1>t DEF FlushUpserts, Flush, Row, history
<1>6. ASSUME NEW f \in flushes, FlushFails(f)
      PROVE  StoreTypeOK'
  BY <1>6, <1>t DEF FlushFails
<1>7. CASE OpsExpire
  BY <1>7, <1>t, DocumentKinds DEF OpsExpire, NoRow, Row, history
<1>8. CASE Restart
  BY <1>8, <1>t DEF Restart
<1>9. CASE UNCHANGED vars
  BY <1>9, <1>t DEF vars, stored, history
<1> QED
  BY <1>1, <1>2, <1>3, <1>4, <1>5, <1>6, <1>7, <1>8, <1>9 DEF Next, PageStep

\* TypeOK, for every set of pages, capacity of a send buffer and every bound.
THEOREM TypeCorrect == Spec => []TypeOK
<1>1. Init => TypeOK
  <2> SUFFICES ASSUME Init
               PROVE  TypeOK
    OBVIOUS
  <2>1. PageTypeOK
    BY DocumentKinds, BoundsAssumption DEF Init, PageTypeOK
  <2>2. LinkTypeOK
    BY DocumentKinds DEF Init, LinkTypeOK
  <2>3. HubTypeOK
    BY BoundsAssumption DEF Init, HubTypeOK
  <2>4. StoreTypeOK
    BY DocumentKinds DEF Init, StoreTypeOK, NoRow, Row
  <2> QED
    BY <2>1, <2>2, <2>3, <2>4, TypeParts
<1>2. TypeOK /\ [Next]_vars => TypeOK'
  <2> SUFFICES ASSUME TypeOK, [Next]_vars
               PROVE  TypeOK'
    OBVIOUS
  <2>1. PageTypeOK' /\ LinkTypeOK' /\ HubTypeOK' /\ StoreTypeOK'
    BY TypeParts, PageInductive, LinkInductive, HubInductive, StoreInductive
  <2> QED
    BY <2>1
    DEF TypeOK, PageTypeOK, LinkTypeOK, HubTypeOK, StoreTypeOK
<1> QED
  BY <1>1, <1>2, PTL DEF Spec

-------------------------------------------------------------------------------
(* Members follow *)

\* The inductive strengthening of MembersFollow: the page of a member is there,
\* and a page loads nothing before its editor is.
FollowInv ==
  /\ MembersFollow
  /\ \A p \in up : stage[p] # "away"
  /\ \A p \in Pages : stage[p] = "mounted" => ~loaded[p]

\* What MembersFollow asks of one page.
Follows(p) ==
  /\ inbox[p] # <<>> => Last(inbox[p]) = due[p]
  /\ inbox[p] = <<>> =>
       /\ seen[p] = due[p]
       /\ stage[p] = "mounted" /\ due[p] # None => held[p] = due[p]
       /\ stage[p] = "ready" /\ due[p] # None /\ ~touched[p] => doc[p] = due[p]

\* A page that keeps what it looks at and what is on its way keeps following.
LEMMA FollowsKept ==
  ASSUME NEW p \in Pages, Follows(p),
         UNCHANGED <<inbox[p], due[p], seen[p], stage[p], held[p], touched[p],
                     doc[p]>>
  PROVE  Follows(p)'
  BY DEF Follows

\* Every step keeps FollowInv.
LEMMA FollowInductive ==
  ASSUME TypeOK, FollowInv, [Next]_vars
  PROVE  FollowInv'
<1>t. PageTypeOK /\ LinkTypeOK /\ HubTypeOK /\ StoreTypeOK
  BY TypeParts
<1>f. \A p \in up : Follows(p) /\ p \in Pages
  BY <1>t DEF FollowInv, MembersFollow, Follows, LinkTypeOK
<1>q. ASSUME \A p \in up' : Follows(p)' /\ stage'[p] # "away",
             \A p \in Pages : stage'[p] = "mounted" => ~loaded'[p]
      PROVE  FollowInv'
  BY <1>q DEF FollowInv, MembersFollow, Follows
\* Only the page itself changes.
<1>a. ASSUME NEW p \in Pages,
             \A q \in up' : q # p => q \in up,
             p \in up' => Follows(p)' /\ stage'[p] # "away",
             stage'[p] = "mounted" => ~loaded'[p],
             \A q \in Pages \ {p} :
               UNCHANGED <<inbox[q], due[q], seen[q], stage[q], held[q],
                           touched[q], doc[q], loaded[q]>>
      PROVE  FollowInv'
  <2>1. \A q \in up' : q # p => Follows(q)' /\ stage'[q] # "away"
    BY <1>a, <1>f, FollowsKept DEF FollowInv
  <2>2. \A q \in Pages : stage'[q] = "mounted" => ~loaded'[q]
    BY <1>a DEF FollowInv
  <2> QED
    BY <1>a, <1>q, <2>1, <2>2
\* No page changes, some may be disconnected.
<1>b. ASSUME up' \subseteq up, UNCHANGED <<stage, loaded>>,
             \A q \in up' :
               UNCHANGED <<inbox[q], due[q], seen[q], held[q], touched[q],
                           doc[q]>>
      PROVE  FollowInv'
  <2>1. \A q \in up' : Follows(q)' /\ stage'[q] # "away"
    BY <1>b, <1>f, FollowsKept DEF FollowInv
  <2> QED
    BY <1>b, <1>q, <2>1 DEF FollowInv
<1>1. ASSUME NEW p \in Pages, Mount(p)
      PROVE  FollowInv'
  BY <1>1, <1>a, <1>t DEF Mount, FollowInv, link, history, PageTypeOK
<1>2. ASSUME NEW p \in Pages, EditorMounts(p)
      PROVE  FollowInv'
  <2>1. p \in up => Follows(p)'
    BY <1>2, <1>f, <1>t
    DEF EditorMounts, FollowInv, Follows, link, history, PageTypeOK
  <2> QED
    BY <1>2, <1>a, <1>t, <2>1 DEF EditorMounts, link, history, PageTypeOK
<1>3. ASSUME NEW p \in Pages, Receive(p)
      PROVE  FollowInv'
  <2> DEFINE d == Head(inbox[p])
             rest == Tail(inbox[p])
  <2>1. /\ rest = <<>> => d = Last(inbox[p])
        /\ rest # <<>> => Last(rest) = Last(inbox[p])
        /\ inbox[p] # <<>>
    BY <1>3, <1>t, Dequeue DEF Receive, LinkTypeOK
  <2>2. /\ inbox'[p] = rest /\ seen'[p] = d
        /\ UNCHANGED <<stage, due, up>>
        /\ stage[p] = "ready" => doc'[p] = d
        /\ stage[p] # "ready" => held'[p] = d /\ loaded'[p] = loaded[p]
    BY <1>3, <1>t DEF Receive, ApplySnapshot, LinkTypeOK, PageTypeOK
  <2> HIDE DEF d, rest
  <2>3. p \in up => Follows(p)' /\ stage'[p] # "away"
    BY <1>f, <2>1, <2>2 DEF FollowInv, Follows
  <2>4. stage'[p] = "mounted" => ~loaded'[p]
    BY <2>2 DEF FollowInv
  <2>5. \A q \in Pages \ {p} :
          UNCHANGED <<inbox[q], due[q], seen[q], stage[q], held[q],
                      touched[q], doc[q], loaded[q]>>
    BY <1>3, <1>t DEF Receive, ApplySnapshot, LinkTypeOK, PageTypeOK
  <2> QED
    BY <1>a, <2>2, <2>3, <2>4, <2>5
<1>4. ASSUME NEW p \in Pages, Edit(p)
      PROVE  FollowInv'
  <2>1. p \in up => Follows(p)'
    BY <1>4, <1>f, <1>t DEF Edit, Follows, link, PageTypeOK
  <2> QED
    BY <1>4, <1>a, <1>t, <2>1 DEF Edit, FollowInv, link, PageTypeOK
<1>5. ASSUME NEW p \in Pages, SendOp(p)
      PROVE  FollowInv'
  BY <1>5, <1>b DEF SendOp
<1>6. ASSUME NEW p \in Pages, Open(p)
      PROVE  FollowInv'
  <2> DEFINE d == room'[current'].doc
  <2>1. d \in Maybe
    BY <1>6, <1>t, OpenMeets
  <2>2. /\ inbox' = [inbox EXCEPT ![p] = Greeting(d)]
        /\ due' = [due EXCEPT ![p] = d]
        /\ seen' = [seen EXCEPT ![p] = None]
        /\ up' = up \union {p} /\ stage[p] # "away"
        /\ UNCHANGED <<stage, doc, held, loaded, touched>>
    BY <1>6 DEF Open, page
  <2>3. d # None => Greeting(d) # <<>> /\ Last(Greeting(d)) = d
    BY <2>1, DocumentKinds DEF Greeting, Last
  <2>4. d = None => Greeting(d) = <<>>
    BY DEF Greeting
  <2> HIDE DEF d
  <2>5. Follows(p)'
    BY <1>t, <2>2, <2>3, <2>4 DEF Follows, LinkTypeOK
  <2>6. \A q \in Pages \ {p} :
          UNCHANGED <<inbox[q], due[q], seen[q], stage[q], held[q],
                      touched[q], doc[q], loaded[q]>>
    BY <1>t, <2>2 DEF LinkTypeOK
  <2> QED
    BY <1>a, <2>2, <2>5, <2>6 DEF FollowInv
<1>7. ASSUME NEW p \in Pages, Accept(p)
      PROVE  FollowInv'
  <2> DEFINE d == Head(wire[p])
  <2>1. PICK dropped \in SUBSET {q \in Others(p) : Slow(q)} :
          /\ inbox' = [q \in Pages |-> IF q \in dropped THEN <<>>
                                  ELSE IF q \in Others(p)
                                       THEN Append(inbox[q], d)
                                  ELSE inbox[q]]
          /\ up' = up \ dropped
          /\ due' = [q \in Pages |-> IF q \in dropped THEN None
                                ELSE IF q \in Others(p) THEN d ELSE due[q]]
    BY <1>7, Zenon DEF Accept
  <2>2. UNCHANGED <<stage, doc, held, loaded, touched, seen>>
    BY <1>7 DEF Accept, page
  <2>0. d \in Documents
    BY <1>7, <1>t, Accepted
  <2> HIDE DEF d
  <2>3. \A q \in Pages : /\ Append(inbox[q], d) # <<>>
                         /\ Last(Append(inbox[q], d)) = d
    BY <1>t, <2>0, Enqueue DEF LinkTypeOK
  <2>4. ASSUME NEW q \in up'
        PROVE  Follows(q)'
    <3>1. q \in up /\ q \in Pages /\ q \notin dropped
      BY <1>f, <2>1
    <3>2. CASE q \in Others(p)
      <4>1. inbox'[q] = Append(inbox[q], d) /\ due'[q] = d
        BY <2>1, <3>1, <3>2
      <4> QED
        BY <2>3, <3>1, <4>1 DEF Follows
    <3>3. CASE q \notin Others(p)
      <4>1. inbox'[q] = inbox[q] /\ due'[q] = due[q]
        BY <2>1, <3>1, <3>3
      <4> QED
        BY <1>f, <2>2, <3>1, <4>1, FollowsKept
    <3> QED
      BY <3>2, <3>3
  <2> QED
    BY <1>q, <2>1, <2>2, <2>4 DEF FollowInv
<1>8. ASSUME NEW p \in Pages, Lose(p)
      PROVE  FollowInv'
  <2>1. \A q \in up' : q \in Pages \ {p}
    BY <1>8, <1>f DEF Lose, Gone
  <2> QED
    BY <1>8, <1>b, <1>t, <2>1 DEF Lose, Gone, page, LinkTypeOK
<1>9. ASSUME NEW p \in Pages, Unmount(p)
      PROVE  FollowInv'
  <2>1. p \notin up' /\ \A q \in up' : q \in up
    BY <1>9 DEF Unmount, Gone
  <2>2. \A q \in Pages \ {p} : due'[q] = due[q]
    BY <1>9, <1>t DEF Unmount, Gone, LinkTypeOK
  <2> QED
    BY <1>9, <1>a, <1>t, <2>1, <2>2 DEF Unmount, LinkTypeOK, PageTypeOK
<1>10. ASSUME NEW r \in Rooms, FlushStarts(r)
      PROVE  FollowInv'
  BY <1>10, <1>b DEF FlushStarts, page, link, history
<1>11. ASSUME NEW f \in flushes,
             FlushAppends(f) \/ FlushUpserts(f) \/ FlushFails(f)
      PROVE  FollowInv'
  BY <1>11, <1>b
  DEF FlushAppends, FlushUpserts, FlushFails, page, link, history
<1>12. CASE OpsExpire
  BY <1>12, <1>b DEF OpsExpire, page, link, history
<1>13. CASE Restart
  BY <1>13, <1>b DEF Restart, Gone, page
<1>14. CASE UNCHANGED vars
  BY <1>14, <1>b DEF vars, page, link, history
<1> QED
  BY <1>1, <1>2, <1>3, <1>4, <1>5, <1>6, <1>7, <1>8, <1>9, <1>10, <1>11,
     <1>12, <1>13, <1>14
  DEF Next, PageStep

\* MembersFollow, for any number of pages and users, every capacity of a send
\* buffer, and with failures and restarts.
THEOREM MembersFollowCorrect == Spec => []MembersFollow
<1>1. Init => FollowInv
  BY DEF Init, FollowInv, MembersFollow
<1>2. TypeOK /\ FollowInv /\ [Next]_vars => FollowInv'
  BY FollowInductive
<1>3. FollowInv => MembersFollow
  BY DEF FollowInv
<1> QED
  BY <1>1, <1>2, <1>3, TypeCorrect, PTL DEF Spec

-------------------------------------------------------------------------------
(* Quiet rooms are stored *)

\* Every flush has a time of its own, and the newest row of board_ops_hot is not
\* that of a flush which has yet to append.
ClockInv ==
  /\ ops.at <= clock
  /\ \A f \in flushes : 0 < f.row.at /\ f.row.at <= clock
  /\ \A f \in flushes : f.next = "append" => f.row.at # ops.at
  /\ \A f, g \in flushes : f.row.at = g.row.at => f = g

\* A room with something to write has its timer set; members have a room.
RoomInv ==
  /\ \A r \in DOMAIN room : room[r].armed <=> room[r].dirty
  /\ up # {} => current # 0

\* Document d is what hydrate will find: the newest flush is about to append it,
Coming(d) ==
  \E f \in flushes : f.next = "append" /\ f.row.doc = d /\ f.row.at = clock

\* or it is the newest row, and no flush in flight can put another above it.
Found(d) ==
  /\ ops # NoRow => ops.doc = d
  /\ \A f \in flushes : f.next = "append" =>
       ops # NoRow /\ f.row.at < ops.at

\* The inductive strengthening of QuietRoomIsStored, of a room hydrated when all
\* was stored: only that room has something to write, and while it has not, its
\* document is the one hydrate will find.
StoredInv ==
  current # 0 /\ current \notin stale =>
    /\ \A r \in DOMAIN room : room[r].dirty => r = current
    /\ \/ room[current].dirty \/ failed
       \/ Coming(room[current].doc) \/ Found(room[current].doc)

\* The rooms are a sequence; every entry is a room.
LEMMA RoomsTyped ==
  ASSUME HubTypeOK
  PROVE  /\ Len(room) \in Nat /\ DOMAIN room = 1..Len(room)
         /\ \A r \in DOMAIN room : room[r] \in Room
         /\ current # 0 => current \in DOMAIN room
  BY LenProperties, ElementOfSeq DEF HubTypeOK

\* A flush clears what it copied, of its own room only.
LEMMA FlushClears ==
  ASSUME HubTypeOK, NEW r \in Rooms, FlushStarts(r)
  PROVE  /\ r \in DOMAIN room /\ DOMAIN room' = DOMAIN room
         /\ \A q \in DOMAIN room : q # r => room'[q] = room[q]
         /\ room'[r].doc = room[r].doc
         /\ ~room'[r].dirty /\ ~room'[r].armed
<1> DEFINE new == [room[r] EXCEPT !.dirty = FALSE, !.armed = FALSE]
<1>1. r \in DOMAIN room /\ room[r] \in Room
  BY RoomsTyped DEF FlushStarts
<1>2. new.doc = room[r].doc /\ new.dirty = FALSE /\ new.armed = FALSE
  BY <1>1 DEF Room
<1>3. room' = [room EXCEPT ![r] = new]
  BY DEF FlushStarts
<1> HIDE DEF new
<1>4. /\ DOMAIN room' = DOMAIN room /\ room'[r] = new
      /\ \A q \in DOMAIN room : q # r => room'[q] = room[q]
  BY <1>1, <1>3
<1> QED
  BY <1>1, <1>2, <1>4

\* Every step keeps ClockInv.
LEMMA ClockInductive ==
  ASSUME TypeOK, ClockInv, [Next]_vars
  PROVE  ClockInv'
<1>t. HubTypeOK /\ StoreTypeOK
  BY TypeParts
<1>n. /\ clock \in Nat /\ ops.at \in Nat
      /\ \A f \in flushes : f.row.at \in Nat
  BY <1>t DEF StoreTypeOK, Row, Flush
<1>1. ASSUME flushes' \subseteq flushes, UNCHANGED <<clock, ops>>
      PROVE  ClockInv'
  BY <1>1 DEF ClockInv
<1>2. ASSUME NEW p \in Pages, PageStep(p)
      PROVE  ClockInv'
  BY <1>1, <1>2
  DEF PageStep, Mount, EditorMounts, Receive, Edit, SendOp, Open, Accept,
      Lose, Unmount, stored
<1>3. ASSUME NEW r \in Rooms, FlushStarts(r)
      PROVE  ClockInv'
  <2> DEFINE new == [row |-> [doc |-> room[r].doc, at |-> clock + 1],
                     next |-> "append"]
  <2>1. new.row.at = clock + 1
    OBVIOUS
  <2>2. /\ flushes' = flushes \union {new} /\ clock' = clock + 1
        /\ UNCHANGED ops
    BY <1>3 DEF FlushStarts
  <2> HIDE DEF new
  <2> QED
    BY <1>n, <2>1, <2>2 DEF ClockInv
<1>4. ASSUME NEW f \in flushes, FlushAppends(f)
      PROVE  ClockInv'
  <2> DEFINE new == [f EXCEPT !.next = "upsert"]
  <2>1. new.row = f.row /\ new.next = "upsert"
    BY <1>t DEF StoreTypeOK, Flush
  <2>2. /\ flushes' = (flushes \ {f}) \union {new} /\ f.next = "append"
        /\ ops' \in {ops, f.row} /\ UNCHANGED clock
    BY <1>4 DEF FlushAppends
  <2> HIDE DEF new
  <2>3. ops'.at <= clock'
    BY <2>2 DEF ClockInv
  <2>4. \A g \in flushes' : 0 < g.row.at /\ g.row.at <= clock'
    BY <2>1, <2>2 DEF ClockInv
  <2>5. \A g \in flushes' : g.next = "append" => g.row.at # ops'.at
    BY <2>1, <2>2 DEF ClockInv
  <2>6. \A g, h \in flushes' : g.row.at = h.row.at => g = h
    BY <2>1, <2>2 DEF ClockInv
  <2> QED
    BY <2>3, <2>4, <2>5, <2>6 DEF ClockInv
<1>5. ASSUME NEW f \in flushes, FlushUpserts(f) \/ FlushFails(f)
      PROVE  ClockInv'
  BY <1>1, <1>5 DEF FlushUpserts, FlushFails
<1>6. CASE OpsExpire
  BY <1>6, <1>n DEF OpsExpire, NoRow, ClockInv
<1>7. CASE Restart
  BY <1>1, <1>7 DEF Restart
<1>8. CASE UNCHANGED vars
  BY <1>1, <1>8 DEF vars, stored
<1> QED
  BY <1>2, <1>3, <1>4, <1>5, <1>6, <1>7, <1>8 DEF Next

\* Every step keeps RoomInv.
LEMMA RoomInductive ==
  ASSUME TypeOK, RoomInv, [Next]_vars
  PROVE  RoomInv'
<1>t. LinkTypeOK /\ HubTypeOK /\ StoreTypeOK
  BY TypeParts
<1>1. ASSUME NEW p \in Pages,
             \/ Mount(p) \/ EditorMounts(p) \/ Receive(p) \/ Edit(p)
             \/ SendOp(p)
      PROVE  RoomInv'
  BY <1>1
  DEF Mount, EditorMounts, Receive, Edit, SendOp, hub, link, history, RoomInv
<1>2. ASSUME NEW p \in Pages, Open(p)
      PROVE  RoomInv'
  <2>1. current' # 0
    BY <1>2, <1>t, OpenMeets
  <2>2. CASE LoopRuns
    BY <1>2, <2>1, <2>2 DEF Open, hub, RoomInv
  <2>3. CASE ~LoopRuns
    <3> DEFINE new == Fresh(Hydrate)
    <3>1. /\ new \in Room /\ new.dirty = FALSE /\ new.armed = FALSE
      BY <1>t, Hydrated DEF Fresh
    <3>2. room' = Append(room, new)
      BY <1>2, <2>3 DEF Open
    <3> HIDE DEF new
    <3>3. /\ DOMAIN room' = 1..(Len(room) + 1) /\ room'[Len(room) + 1] = new
          /\ \A r \in DOMAIN room : room'[r] = room[r]
      BY <1>t, <3>1, <3>2, AppendProperties, LenProperties, RoomsTyped
      DEF HubTypeOK
    <3>4. \A r \in DOMAIN room' : r = Len(room) + 1 \/ r \in DOMAIN room
      BY <1>t, <3>3, RoomsTyped
    <3> QED
      BY <2>1, <3>1, <3>3, <3>4 DEF RoomInv
  <2> QED
    BY <2>2, <2>3
<1>3. ASSUME NEW p \in Pages, Accept(p)
      PROVE  RoomInv'
  <2> DEFINE new == [doc |-> Head(wire[p]), dirty |-> TRUE, armed |-> TRUE]
  <2>1. new.dirty = TRUE /\ new.armed = TRUE
    OBVIOUS
  <2>2. /\ room' = [room EXCEPT ![current] = new] /\ p \in up
        /\ UNCHANGED current
    BY <1>3, <1>t, Accepted DEF Accept
  <2> HIDE DEF new
  <2>3. current \in DOMAIN room /\ current # 0
    BY <1>t, <2>2, RoomsTyped DEF RoomInv
  <2>4. /\ DOMAIN room' = DOMAIN room /\ room'[current] = new
        /\ \A r \in DOMAIN room : r # current => room'[r] = room[r]
    BY <2>2, <2>3
  <2> QED
    BY <2>1, <2>2, <2>3, <2>4 DEF RoomInv
<1>4. ASSUME NEW p \in Pages, Lose(p) \/ Unmount(p)
      PROVE  RoomInv'
  BY <1>4 DEF Lose, Unmount, Gone, RoomInv
<1>5. ASSUME NEW r \in Rooms, FlushStarts(r)
      PROVE  RoomInv'
  <2>1. UNCHANGED <<up, current>>
    BY <1>5 DEF FlushStarts, link
  <2> QED
    BY <1>5, <1>t, <2>1, FlushClears DEF RoomInv
<1>6. ASSUME NEW f \in flushes,
             FlushAppends(f) \/ FlushUpserts(f) \/ FlushFails(f)
      PROVE  RoomInv'
  BY <1>6 DEF FlushAppends, FlushUpserts, FlushFails, hub, link, RoomInv
<1>7. CASE OpsExpire
  BY <1>7 DEF OpsExpire, hub, link, RoomInv
<1>8. CASE Restart
  <2>1. \A r \in DOMAIN room' : room'[r].dirty = FALSE /\ room'[r].armed = FALSE
    BY <1>8 DEF Restart, Fresh
  <2>2. up' = {}
    BY <1>8 DEF Restart, Gone
  <2> QED
    BY <2>1, <2>2 DEF RoomInv
<1>9. CASE UNCHANGED vars
  BY <1>9 DEF vars, hub, link, RoomInv
<1> QED
  BY <1>1, <1>2, <1>3, <1>4, <1>5, <1>6, <1>7, <1>8, <1>9 DEF Next, PageStep

\* Every step keeps StoredInv.
LEMMA StoredInductive ==
  ASSUME TypeOK, ClockInv, RoomInv, StoredInv, [Next]_vars
  PROVE  StoredInv'
<1>t. LinkTypeOK /\ HubTypeOK /\ StoreTypeOK
  BY TypeParts
<1>n. /\ clock \in Nat /\ ops.at \in Nat
      /\ \A f \in flushes : f.row.at \in Nat
  BY <1>t DEF StoreTypeOK, Row, Flush
\* Nothing is said of a hub without a room.
<1>z. ASSUME current' = 0
      PROVE  StoredInv'
  BY <1>z DEF StoredInv
\* The room goes on, and nothing is written.
<1>a. ASSUME UNCHANGED <<room, current, stale, failed, flushes, clock, ops>>
      PROVE  StoredInv'
  BY <1>a DEF StoredInv, Coming, Found
<1>1. ASSUME NEW p \in Pages,
             \/ Mount(p) \/ EditorMounts(p) \/ Receive(p) \/ Edit(p)
             \/ SendOp(p)
      PROVE  StoredInv'
  BY <1>1, <1>a
  DEF Mount, EditorMounts, Receive, Edit, SendOp, hub, stored, history
<1>2. ASSUME NEW p \in Pages, Open(p)
      PROVE  StoredInv'
  <2>1. CASE LoopRuns
    BY <1>2, <1>a, <2>1 DEF Open, hub, stored
  <2>2. CASE ~LoopRuns
    <3> SUFFICES ASSUME current' # 0, current' \notin stale'
                 PROVE  StoredInv'
      BY DEF StoredInv
    <3> DEFINE new == Fresh(Hydrate)
    <3>1. new \in Room /\ new.dirty = FALSE /\ new.doc = Hydrate
      BY <1>t, Hydrated DEF Fresh
    <3>2. /\ room' = Append(room, new) /\ current' = Len(room')
          /\ UNCHANGED <<flushes, clock, ops, state>>
          /\ ~OthersBusy
      BY <1>2, <2>2 DEF Open, stored
    <3> HIDE DEF new
    <3>3. /\ DOMAIN room' = 1..(Len(room) + 1) /\ room'[Len(room) + 1] = new
          /\ \A r \in DOMAIN room : room'[r] = room[r]
          /\ current' = Len(room) + 1
      BY <1>t, <3>1, <3>2, AppendProperties, LenProperties, RoomsTyped
      DEF HubTypeOK
    <3>4. \A r \in DOMAIN room' : r = Len(room) + 1 \/ r \in DOMAIN room
      BY <1>t, <3>3, RoomsTyped
    <3>5. \A r \in DOMAIN room' : ~room'[r].dirty
      BY <3>1, <3>2, <3>3, <3>4 DEF OthersBusy
    <3>6. ops' # NoRow => ops'.doc = room'[current'].doc
      BY <3>1, <3>2, <3>3 DEF Hydrate
    <3>7. Found(room[current].doc)'
      BY <3>2, <3>6 DEF Found, OthersBusy
    <3> QED
      BY <3>5, <3>7 DEF StoredInv
  <2> QED
    BY <2>1, <2>2
<1>3. ASSUME NEW p \in Pages, Accept(p)
      PROVE  StoredInv'
  <2> DEFINE new == [doc |-> Head(wire[p]), dirty |-> TRUE, armed |-> TRUE]
  <2>1. new.dirty = TRUE
    OBVIOUS
  <2>2. /\ room' = [room EXCEPT ![current] = new] /\ p \in up
        /\ UNCHANGED <<current, stale>>
    BY <1>3, <1>t, Accepted DEF Accept
  <2> HIDE DEF new
  <2>3. current \in DOMAIN room /\ current # 0
    BY <1>t, <2>2, RoomsTyped DEF RoomInv
  <2>4. /\ DOMAIN room' = DOMAIN room /\ room'[current] = new
        /\ \A r \in DOMAIN room : r # current => room'[r] = room[r]
    BY <2>2, <2>3
  <2> QED
    BY <2>1, <2>2, <2>3, <2>4 DEF StoredInv
<1>4. ASSUME NEW p \in Pages, Lose(p) \/ Unmount(p)
      PROVE  StoredInv'
  <2>1. /\ UNCHANGED <<room, stale, failed, flushes, clock, ops>>
        /\ current' = 0 \/ current' = current
    BY <1>4 DEF Lose, Unmount, Gone, stored
  <2> QED
    BY <1>a, <1>z, <2>1
<1>5. ASSUME NEW r \in Rooms, FlushStarts(r)
      PROVE  StoredInv'
  <2> SUFFICES ASSUME current' # 0, current' \notin stale'
               PROVE  StoredInv'
    BY DEF StoredInv
  <2> DEFINE new == [row |-> [doc |-> room[r].doc, at |-> clock + 1],
                     next |-> "append"]
  <2>1. /\ new.next = "append" /\ new.row.doc = room[r].doc
        /\ new.row.at = clock + 1
    OBVIOUS
  <2>2. /\ flushes' = flushes \union {new} /\ clock' = clock + 1
        /\ UNCHANGED <<ops, current, stale, failed>>
    BY <1>5 DEF FlushStarts, history
  <2> HIDE DEF new
  <2>3. /\ r \in DOMAIN room /\ DOMAIN room' = DOMAIN room
        /\ \A q \in DOMAIN room : q # r => room'[q] = room[q]
        /\ room'[r].doc = room[r].doc /\ ~room'[r].dirty
    BY <1>5, <1>t, FlushClears
  <2>4. r = current
    BY <1>5, <2>2, <2>3 DEF FlushStarts, StoredInv, RoomInv
  <2>5. Coming(room[current].doc)'
    BY <2>1, <2>2, <2>3, <2>4 DEF Coming
  <2> QED
    BY <2>2, <2>3, <2>4, <2>5 DEF StoredInv
<1>6. ASSUME NEW f \in flushes, FlushAppends(f)
      PROVE  StoredInv'
  <2> DEFINE new == [f EXCEPT !.next = "upsert"]
             d == room[current].doc
  <2>1. new.row = f.row /\ new.next = "upsert"
    BY <1>t DEF StoreTypeOK, Flush
  <2>2. /\ flushes' = (flushes \ {f}) \union {new} /\ f.next = "append"
        /\ ops' = IF f.row.at > ops.at THEN f.row ELSE ops
        /\ UNCHANGED <<room, current, stale, failed, clock>>
    BY <1>6 DEF FlushAppends, hub, history
  <2> HIDE DEF new
  <2>3. CASE Coming(d)
    <3>1. PICK g \in flushes :
            g.next = "append" /\ g.row.doc = d /\ g.row.at = clock
      BY <2>3 DEF Coming
    <3>2. CASE g = f
      <4>1. f.row.at > ops.at
        BY <1>n, <3>1, <3>2 DEF ClockInv
      <4>2. ops' = f.row /\ ops' # NoRow /\ ops'.doc = d
        BY <1>n, <2>2, <3>1, <3>2, <4>1 DEF NoRow
      <4>3. \A h \in flushes' : h.next = "append" => h.row.at < ops'.at
        BY <1>n, <2>1, <2>2, <3>1, <3>2, <4>2 DEF ClockInv
      <4>4. Found(room[current].doc)'
        BY <2>2, <4>2, <4>3 DEF Found
      <4> QED
        BY <2>2, <4>4 DEF StoredInv
    <3>3. CASE g # f
      <4>1. g \in flushes'
        BY <2>2, <3>3
      <4>2. Coming(room[current].doc)'
        BY <2>2, <3>1, <4>1 DEF Coming
      <4> QED
        BY <2>2, <4>2 DEF StoredInv
    <3> QED
      BY <3>2, <3>3
  <2>4. CASE Found(d)
    <3>1. ops' = ops
      BY <1>n, <2>2, <2>4 DEF Found
    <3>2. Found(room[current].doc)'
      BY <2>1, <2>2, <2>4, <3>1 DEF Found
    <3> QED
      BY <2>2, <3>2 DEF StoredInv
  <2>5. CASE room[current].dirty \/ failed
    BY <2>2, <2>5 DEF StoredInv
  <2> QED
    BY <2>2, <2>3, <2>4, <2>5 DEF StoredInv
<1>7. ASSUME NEW f \in flushes, FlushUpserts(f) \/ FlushFails(f)
      PROVE  StoredInv'
  <2>1. /\ flushes' = flushes \ {f}
        /\ UNCHANGED <<room, current, stale, clock, ops>>
    BY <1>7 DEF FlushUpserts, FlushFails, hub, history
  <2>2. failed' \/ (f.next # "append" /\ failed' = failed)
    <3>1. CASE FlushUpserts(f)
      BY <3>1 DEF FlushUpserts, history
    <3>2. CASE FlushFails(f)
      <4>1. failed' = (failed \/ f.next = "append")
        BY <3>2 DEF FlushFails
      <4>2. failed \in BOOLEAN
        BY <1>t DEF StoreTypeOK
      <4> QED
        BY <4>1, <4>2, Zenon
    <3> QED
      BY <1>7, <3>1, <3>2
  <2>3. CASE failed'
    BY <2>1, <2>3 DEF StoredInv
  <2>4. CASE f.next # "append" /\ failed' = failed
    <3>1. Coming(room[current].doc) => Coming(room[current].doc)'
      BY <2>1, <2>4 DEF Coming
    <3>2. Found(room[current].doc) => Found(room[current].doc)'
      BY <2>1, <2>4 DEF Found
    <3> QED
      BY <2>1, <2>4, <3>1, <3>2 DEF StoredInv
  <2> QED
    BY <2>2, <2>3, <2>4
<1>8. CASE OpsExpire
  <2>1. /\ flushes' = {} /\ ops' = NoRow
        /\ UNCHANGED <<room, current, stale, failed>>
    BY <1>8 DEF OpsExpire, hub, history
  <2>2. Found(room[current].doc)'
    BY <2>1 DEF Found
  <2> QED
    BY <2>1, <2>2 DEF StoredInv
<1>9. CASE Restart
  BY <1>9, <1>z DEF Restart, Gone
<1>10. CASE UNCHANGED vars
  BY <1>10, <1>a DEF vars, hub, stored, history
<1> QED
  BY <1>1, <1>2, <1>3, <1>4, <1>5, <1>6, <1>7, <1>8, <1>9, <1>10
  DEF Next, PageStep

\* QuietRoomIsStored, for any number of pages, rooms and edits, with overlapping
\* flushes, failures and restarts.
THEOREM QuietRoomIsStoredCorrect == Spec => []QuietRoomIsStored
<1>1. Init => ClockInv /\ RoomInv /\ StoredInv
  BY DEF Init, ClockInv, RoomInv, StoredInv, NoRow
<1>2. TypeOK /\ ClockInv /\ RoomInv /\ StoredInv /\ [Next]_vars
        => ClockInv' /\ RoomInv' /\ StoredInv'
  BY ClockInductive, RoomInductive, StoredInductive
<1>3. TypeOK /\ StoredInv => QuietRoomIsStored
  <2> SUFFICES ASSUME TypeOK, StoredInv, current # 0, current \notin stale,
                      ~OthersBusy, ~failed, ops # NoRow
               PROVE  Hydrate = room[current].doc
    BY DEF QuietRoomIsStored
  <2>1. current \in DOMAIN room
    BY RoomsTyped, TypeParts
  <2>2. Found(room[current].doc)
    BY <2>1 DEF StoredInv, OthersBusy, Coming
  <2> QED
    BY <2>2 DEF Found, Hydrate
<1> QED
  BY <1>1, <1>2, <1>3, TypeCorrect, PTL DEF Spec

===============================================================================
