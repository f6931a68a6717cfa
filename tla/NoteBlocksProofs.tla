--------------------------- MODULE NoteBlocksProofs --------------------------
(* Proofs about the blocks of a note, for any number of pages, users, options, *)
(* assets and edits: types, what pages tell each other, and what they show.    *)
EXTENDS NoteBlocks, SequenceTheorems, FiniteSetTheorems, TLAPS

-------------------------------------------------------------------------------
(* The block, whatever it holds *)

(* Every block, in an editor, rendered or on its way, is one of S.            *)
AllIn(S) ==
  /\ props \in [Pages -> S] /\ seen \in [Pages -> S]
  /\ inbox \in [Pages -> Seq(S)]

LEMMA BlocksOfKind ==
  /\ kind = "poll" => Blocks = PollValues
  /\ kind = "sticky" => Blocks = StickyValues
  /\ IsPicture => Blocks = PictureValues
<1>1. kind = "poll" => Blocks = PollValues
  BY Zenon DEF Blocks
<1>2. kind = "sticky" => Blocks = StickyValues
  <2>1. "sticky" # "poll"
    OBVIOUS
  <2> QED
    BY <2>1, Zenon DEF Blocks
<1>3. IsPicture => Blocks = PictureValues
  <2>1. IsPicture => kind # "poll" /\ kind # "sticky"
    BY DEF IsPicture
  <2> QED
    BY <2>1, Zenon DEF Blocks
<1> QED
  BY <1>1, <1>2, <1>3

LEMMA BlocksStay == kind' = kind => Blocks' = Blocks
<1>1. PollValues' = PollValues /\ StickyValues' = StickyValues
      /\ PictureValues' = PictureValues
  OBVIOUS
<1> QED
  BY <1>1, Zenon DEF Blocks

LEMMA Wider ==
  ASSUME NEW S, NEW T, S \subseteq T, AllIn(S)
  PROVE  AllIn(T)
<1>1. Seq(S) \subseteq Seq(T)
  BY SeqMonotonic
<1> QED
  BY <1>1 DEF AllIn

LEMMA PutKeeps ==
  ASSUME NEW S, AllIn(S), NEW p \in Pages, NEW v \in S, Put(p, v)
  PROVE  AllIn(S)'
<1>1. ASSUME NEW s \in Seq(S) PROVE Append(s, v) \in Seq(S)
  BY AppendProperties
<1> QED
  BY <1>1 DEF AllIn, Put

LEMMA ReceiveKeeps ==
  ASSUME NEW S, AllIn(S), NEW p \in Pages, Receive(p)
  PROVE  AllIn(S)'
<1>1. inbox[p] \in Seq(S) /\ inbox[p] # << >>
  BY DEF AllIn, Receive
<1>2. Head(inbox[p]) \in S /\ Tail(inbox[p]) \in Seq(S)
  BY <1>1, HeadTailProperties
<1> DEFINE h == Head(inbox[p])  t == Tail(inbox[p])
<1>3. /\ props' = [props EXCEPT ![p] = h] /\ inbox' = [inbox EXCEPT ![p] = t]
      /\ seen' = seen
  BY DEF Receive
<1> HIDE DEF h, t
<1>4. h \in S /\ t \in Seq(S)
  BY <1>2 DEF h, t
<1> QED
  BY <1>3, <1>4 DEF AllIn

LEMMA RenderKeeps ==
  ASSUME NEW S, AllIn(S), NEW p \in Pages, Renders(p), UNCHANGED <<props, inbox>>
  PROVE  AllIn(S)'
BY DEF AllIn, Renders

LEMMA StayKeeps ==
  ASSUME NEW S, AllIn(S), UNCHANGED blockVars
  PROVE  AllIn(S)'
BY DEF AllIn, blockVars

(* What all blocks are is what Values says.                                   *)
LEMMA ValuesIn ==
  ASSUME NEW S, AllIn(S)
  PROVE  Values \subseteq S
<1>1. ASSUME NEW p \in Pages, NEW i \in DOMAIN inbox[p] PROVE inbox[p][i] \in S
  BY <1>1, ElementOfSeq, LenProperties DEF AllIn
<1> QED
  BY <1>1 DEF AllIn, Values

-------------------------------------------------------------------------------
(* Types *)

BlockTyped == kind \in Kinds /\ edits \in 0..MaxEdits /\ AllIn(Blocks)

PollTyped ==
  /\ who \in [Pages -> Users \cup {Anonymous}]
  /\ minted \subseteq Options /\ cast \subseteq Users \X Options

Uploads == [stage: {"idle", "put", "register", "answer"},
            asset: Assets \cup {None}]

StoreTyped ==
  /\ upload \in [Pages -> Uploads]
  /\ used \subseteq Assets /\ stored \subseteq used /\ registered \subseteq used

FetchTyped ==
  /\ frame \in [Pages -> [blob: Keys, loading: BOOLEAN]]
  /\ asked \in [Pages -> Keys]
  /\ excuse \in [Pages -> {"none", "skipped", "failed"}]
  /\ cache \in [Pages -> SUBSET stored] /\ pending \in [Pages -> SUBSET used]
  /\ flights \in [Pages -> SUBSET (Keys \ {None})]

(* An upload under way belongs to a picture; its object is in the bucket once *)
(* the put was answered and in the table once the registration was.           *)
UploadsProceed ==
  \A p \in Pages : upload[p] # NoUpload =>
    /\ IsPicture
    /\ upload[p].asset \in used
    /\ upload[p].stage \in {"register", "answer"} => upload[p].asset \in stored
    /\ upload[p].stage = "answer" => upload[p].asset \in registered

TypeInv == TypeOK /\ UploadsProceed

LEMMA TypeParts ==
  TypeOK <=> /\ BlockTyped /\ PollTyped /\ card \in [Pages -> Cards]
             /\ StoreTyped /\ FetchTyped
BY DEF TypeOK, BlockTyped, AllIn, PollTyped, StoreTyped, FetchTyped, Uploads

(* What Put, Receive and a render do to the type of the block.                *)
LEMMA PutTyped ==
  ASSUME BlockTyped, NEW p \in Pages, NEW v \in Blocks, Put(p, v)
  PROVE  BlockTyped'
<1>1. kind' = kind /\ edits' = edits + 1 /\ edits < MaxEdits
  BY DEF Put
<1>2. AllIn(Blocks)'
  <2>1. Blocks' = Blocks
    BY <1>1, BlocksStay
  <2> QED
    BY <2>1, PutKeeps DEF BlockTyped, AllIn
<1> QED
  BY <1>1, <1>2, EditsAssumption DEF BlockTyped

LEMMA StayTyped ==
  ASSUME BlockTyped, UNCHANGED blockVars
  PROVE  BlockTyped'
<1>1. Blocks' = Blocks
  BY BlocksStay DEF blockVars
<1> QED
  BY <1>1 DEF BlockTyped, AllIn, blockVars

LEMMA ReceiveTyped ==
  ASSUME BlockTyped, NEW p \in Pages, Receive(p)
  PROVE  BlockTyped'
<1>1. Blocks' = Blocks
  BY BlocksStay DEF Receive
<1>2. AllIn(Blocks)'
  BY <1>1, ReceiveKeeps DEF BlockTyped, AllIn
<1> QED
  BY <1>2 DEF BlockTyped, Receive

LEMMA RenderTyped ==
  ASSUME BlockTyped, NEW p \in Pages, Renders(p),
         UNCHANGED <<kind, props, inbox, edits>>
  PROVE  BlockTyped'
<1>1. Blocks' = Blocks
  BY BlocksStay
<1>2. AllIn(Blocks)'
  BY <1>1, RenderKeeps DEF BlockTyped, AllIn
<1> QED
  BY <1>2 DEF BlockTyped

LEMMA NewPoll ==
  ASSUME NEW two \in SUBSET Options
  PROVE  [options |-> two, votes |-> NoVotes] \in PollValues
BY DEF PollValues, NoVotes

LEMMA Revoted ==
  ASSUME NEW v \in PollValues, NEW o \in Options, NEW f \in [Users -> 0..2]
  PROVE  /\ [v EXCEPT !.votes[o] = f] \in PollValues
         /\ [v EXCEPT !.votes[o] = f].options = v.options
         /\ [v EXCEPT !.votes[o] = f].votes = [v.votes EXCEPT ![o] = f]
BY DEF PollValues

LEMMA Shortened ==
  ASSUME NEW v \in PollValues, NEW o \in Options
  PROVE  LET new == [v EXCEPT !.options = @ \ {o}, !.votes[o] = NoVotes[o]]
         IN  /\ new \in PollValues
             /\ new.options = v.options \ {o}
             /\ new.votes = [v.votes EXCEPT ![o] = NoVotes[o]]
<1> DEFINE none == NoVotes[o]
<1>1. none \in [Users -> 0..2]
  BY DEF NoVotes
<1> HIDE DEF none
<1> DEFINE new == [v EXCEPT !.options = @ \ {o}, !.votes[o] = none]
<1>2. new \in PollValues
  BY <1>1 DEF PollValues
<1>3. /\ new.options = v.options \ {o}
      /\ new.votes = [v.votes EXCEPT ![o] = none]
  BY DEF PollValues
<1> QED
  BY <1>2, <1>3 DEF none

LEMMA Lengthened ==
  ASSUME NEW v \in PollValues, NEW o \in Options
  PROVE  LET new == [v EXCEPT !.options = @ \cup {o}]
         IN  /\ new \in PollValues
             /\ new.options = v.options \cup {o}
             /\ new.votes = v.votes
BY DEF PollValues

-------------------------------------------------------------------------------
(* Polls *)

SoundPolls == {v \in PollValues : PollSound(v)}

(* The polls that may be around once the step is made.                        *)
SoundThen == {v \in PollValues : PollSound(v)'}

LEMMA StillSound ==
  ASSUME cast \subseteq cast'
  PROVE  SoundPolls \subseteq SoundThen
BY DEF SoundPolls, SoundThen, PollSound

(* A vote is toggled for the user of the page, once.                          *)
LEMMA VotePuts ==
  ASSUME BlockTyped, PollTyped, NEW p \in Pages, Vote(p)
  PROVE  /\ PollTyped' /\ cast \subseteq cast'
         /\ \E v \in PollValues :
              Put(p, v) /\ (seen[p] \in SoundPolls => v \in SoundThen)
<1>1. kind = "poll" /\ seen[p] \in PollValues
  BY BlocksOfKind DEF Vote, BlockTyped, AllIn
<1>2. who[p] \in Users
  BY DEF Vote, SignedIn, PollTyped
<1>3. PICK o \in seen[p].options :
        /\ Put(p, [seen[p] EXCEPT !.votes[o] =
                     Toggled(seen[p].votes[o], seen[p].votes[o], who[p])])
        /\ cast' = cast \cup {<<who[p], o>>}
  BY Zenon DEF Vote
<1> DEFINE u == who[p]
           was == seen[p].votes[o]
           is == Toggled(was, was, u)
           v == [seen[p] EXCEPT !.votes[o] = is]
<1>4. o \in Options
  BY <1>1 DEF PollValues
<1>5. was \in [Users -> 0..2] /\ u \in Users
  BY <1>1, <1>2, <1>4 DEF PollValues
<1>6. /\ is \in [Users -> 0..2]
      /\ \A w \in Users : w # u => is[w] = was[w]
      /\ is[u] = 0 \/ (was[u] = 0 /\ is[u] = 1)
  <2> HIDE DEF was, u
  <2>1. was[u] \in 0..2
    BY <1>5
  <2>2. CASE was[u] > 0
    <3>1. is = [was EXCEPT ![u] = 0]
      BY <2>2 DEF Toggled
    <3> QED
      BY <1>5, <3>1
  <2>3. CASE ~(was[u] > 0)
    <3>1. was[u] = 0
      BY <2>1, <2>3
    <3>2. is = [was EXCEPT ![u] = @ + 1]
      BY <2>3, Zenon DEF Toggled
    <3> QED
      BY <1>5, <3>1, <3>2
  <2> QED
    BY <2>2, <2>3
<1> HIDE DEF is
<1>7. /\ v \in PollValues /\ v.options = seen[p].options
      /\ v.votes = [seen[p].votes EXCEPT ![o] = is]
  BY <1>1, <1>4, <1>6, Revoted
<1>8. Put(p, v) /\ cast' = cast \cup {<<u, o>>}
  BY <1>3 DEF is
<1>9. ASSUME seen[p] \in SoundPolls PROVE v \in SoundThen
  <2>0. PICK c : c = v
    OBVIOUS
  <2> HIDE DEF v, u
  <2>1. PollSound(seen[p])
    BY <1>9 DEF SoundPolls
  <2>2. ASSUME NEW q \in Options, NEW w \in Users
        PROVE  /\ c.votes[q][w] <= 1
               /\ c.votes[q][w] > 0 => q \in c.options /\ <<w, q>> \in cast'
    <3>1. CASE q = o
      <4>1. c.votes[q] = is
        BY <1>1, <1>4, <1>7, <2>0, <3>1 DEF PollValues
      <4>2. CASE w = u
        BY <1>6, <1>7, <2>0, <1>8, <3>1, <4>1, <4>2
      <4>3. CASE w # u
        <5>1. c.votes[q][w] = seen[p].votes[q][w]
          BY <1>6, <3>1, <4>1, <4>3
        <5> QED
          BY <1>7, <1>8, <2>0, <2>1, <5>1 DEF PollSound
      <4> QED
        BY <4>2, <4>3
    <3>2. CASE q # o
      <4>1. c.votes[q] = seen[p].votes[q]
        BY <1>1, <1>7, <2>0, <3>2 DEF PollValues
      <4> QED
        BY <1>7, <1>8, <2>0, <2>1, <4>1 DEF PollSound
    <3> QED
      BY <3>1, <3>2
  <2>3. PollSound(c)'
    BY <1>7, <2>0, <2>1, <2>2 DEF PollSound
  <2> QED
    BY <1>7, <2>0, <2>3 DEF SoundThen
<1>10. PollTyped' /\ cast \subseteq cast'
  BY <1>4, <1>5, <1>8 DEF Vote, PollTyped
<1> QED
  BY <1>7, <1>8, <1>9, <1>10

(* The other handlers do not vote, and leave two options.                     *)
LEMMA EditPuts ==
  ASSUME BlockTyped, PollTyped, NEW p \in Pages,
         \/ RetextOption(p) \/ RetextQuestion(p)
         \/ AddOption(p) \/ DeleteOption(p)
  PROVE  /\ PollTyped' /\ cast \subseteq cast'
         /\ \E v \in PollValues :
              /\ Put(p, v)
              /\ {seen[p], props[p]} \subseteq SoundPolls => v \in SoundThen
<1>1. /\ kind = "poll"
      /\ seen[p] \in PollValues /\ props[p] \in PollValues
      /\ cast' = cast
  BY BlocksOfKind
  DEF RetextOption, RetextQuestion, AddOption, DeleteOption, BlockTyped, AllIn,
      pollVars
<1>2. SoundPolls \subseteq SoundThen
  BY <1>1, StillSound
<1>3. CASE RetextOption(p) \/ RetextQuestion(p)
  <2>1. PollTyped'
    BY <1>3 DEF RetextOption, RetextQuestion, PollTyped, pollVars
  <2> QED
    BY <1>1, <1>2, <1>3, <2>1 DEF RetextOption, RetextQuestion
<1>4. CASE AddOption(p)
  <2>1. PICK o \in Options \ minted :
          /\ Put(p, [seen[p] EXCEPT !.options = @ \cup {o}])
          /\ minted' = minted \cup {o}
    BY <1>4, Zenon DEF AddOption
  <2>2. PICK v : v = [seen[p] EXCEPT !.options = @ \cup {o}]
    OBVIOUS
  <2>3. /\ v \in PollValues /\ v.options = seen[p].options \cup {o}
        /\ v.votes = seen[p].votes
    BY <1>1, <2>2, Lengthened
  <2>4. ASSUME seen[p] \in SoundPolls PROVE v \in SoundThen
    <3>1. IsFiniteSet(v.options)
      BY <2>3, OptionsAssumption, FS_Subset DEF PollValues
    <3>2. Cardinality(v.options) >= Cardinality(seen[p].options)
      BY <2>3, <3>1, FS_Subset
    <3>3. Cardinality(seen[p].options) \in Nat /\ Cardinality(v.options) \in Nat
      BY <2>3, <3>1, FS_Subset, FS_CardinalityType
    <3>4. PollSound(v)'
      BY <1>1, <2>3, <2>4, <3>2, <3>3 DEF SoundPolls, PollSound
    <3> QED
      BY <2>3, <3>4 DEF SoundThen
  <2>5. PollTyped'
    BY <1>4, <2>1 DEF AddOption, PollTyped
  <2> QED
    BY <1>1, <2>1, <2>2, <2>3, <2>4, <2>5
<1>5. CASE DeleteOption(p)
  <2>1. PICK o \in seen[p].options :
          /\ Cardinality(seen[p].options) > 2
          /\ Put(p, [seen[p] EXCEPT !.options = @ \ {o},
                                    !.votes[o] = NoVotes[o]])
    BY <1>5, Zenon DEF DeleteOption
  <2>2. o \in Options
    BY <1>1 DEF PollValues
  <2>3. PICK v : v = [seen[p] EXCEPT !.options = @ \ {o},
                                     !.votes[o] = NoVotes[o]]
    OBVIOUS
  <2>4. /\ v \in PollValues /\ v.options = seen[p].options \ {o}
        /\ v.votes = [seen[p].votes EXCEPT ![o] = NoVotes[o]]
    BY <1>1, <2>2, <2>3, Shortened
  <2>5. ASSUME seen[p] \in SoundPolls PROVE v \in SoundThen
    <3>1. IsFiniteSet(seen[p].options)
      BY <1>1, OptionsAssumption, FS_Subset DEF PollValues
    <3>2. Cardinality(v.options) >= 2
      <4>1. Cardinality(v.options) = Cardinality(seen[p].options) - 1
        BY <2>1, <2>4, <3>1, FS_RemoveElement
      <4>2. Cardinality(seen[p].options) \in Nat
        BY <3>1, FS_CardinalityType
      <4> QED
        BY <2>1, <4>1, <4>2
    <3>3. PollSound(seen[p])
      BY <2>5 DEF SoundPolls
    <3>4. ASSUME NEW q \in Options, NEW u \in Users
          PROVE  /\ v.votes[q][u] <= 1
                 /\ v.votes[q][u] > 0 =>
                      q \in v.options /\ <<u, q>> \in cast'
      <4>1. CASE q = o
        <5>1. v.votes[q] = NoVotes[q]
          BY <1>1, <2>4, <4>1 DEF PollValues
        <5>2. v.votes[q][u] = 0
          BY <5>1 DEF NoVotes
        <5> QED
          BY <5>2
      <4>2. CASE q # o
        <5>1. v.votes[q] = seen[p].votes[q]
          BY <1>1, <2>4, <4>2 DEF PollValues
        <5> QED
          BY <1>1, <2>4, <3>3, <4>2, <5>1 DEF PollSound
      <4> QED
        BY <4>1, <4>2
    <3>5. PollSound(v)'
      BY <3>2, <3>4 DEF PollSound
    <3> QED
      BY <2>4, <3>5 DEF SoundThen
  <2>6. PollTyped'
    BY <1>5 DEF DeleteOption, PollTyped, pollVars
  <2> QED
    BY <1>1, <2>1, <2>3, <2>4, <2>5, <2>6
<1> QED
  BY <1>3, <1>4, <1>5

-------------------------------------------------------------------------------
(* Sticky notes *)

(* The inductive strengthening of CardTellsBlock: the card follows what was   *)
(* rendered, whether or not the block has changed since.                      *)
CardFollows(c, value) ==
  value.alive /\ ~c.orphan =>
    /\ c.pos = value.pos \/ c.dragging
    /\ c.text = value.caption \/ c.typing

CardsFollow ==
  kind = "sticky" => \A p \in Pages : CardFollows(card[p], seen[p])

LEMMA FreshCard ==
  ASSUME NEW v \in StickyValues
  PROVE  Fresh(v) \in Cards /\ CardFollows(Fresh(v), v)
BY DEF StickyValues, Cards, Fresh, CardFollows

(* The effects keep up with a block that changed under a card that followed   *)
(* the old one but for what the user has just ended.                          *)
LEMMA SyncedFollows ==
  ASSUME NEW c \in Cards, NEW old \in StickyValues, NEW new \in StickyValues
  PROVE  /\ Synced(c, old, new) \in Cards
         /\ ( /\ old.pos = new.pos => c.pos = new.pos \/ c.dragging \/ c.orphan
              /\ old.caption = new.caption =>
                   c.text = new.caption \/ c.typing \/ c.orphan )
            => CardFollows(Synced(c, old, new), new)
<1>1. CASE ~old.alive \/ ~new.alive
  <2>1. Synced(c, old, new) = Fresh(new)
    BY <1>1 DEF Synced
  <2> QED
    BY <2>1, FreshCard
<1>2. CASE old.alive /\ new.alive
  <2> DEFINE s == Synced(c, old, new)
  <2>1. s = [c EXCEPT
              !.pos = IF old.pos = new.pos THEN @ ELSE new.pos,
              !.text = IF old.caption = new.caption THEN @ ELSE new.caption]
    BY <1>2, Zenon DEF Synced
  <2>2. /\ s \in Cards /\ s.orphan = c.orphan
        /\ s.dragging = c.dragging /\ s.typing = c.typing
        /\ s.pos = IF old.pos = new.pos THEN c.pos ELSE new.pos
        /\ s.text = IF old.caption = new.caption THEN c.text ELSE new.caption
    BY <2>1 DEF Cards, StickyValues
  <2> HIDE DEF s
  <2>3. (old.pos = new.pos => c.pos = new.pos \/ c.dragging \/ c.orphan)
          => (~s.orphan => s.pos = new.pos \/ s.dragging)
    BY <2>2
  <2>4. (old.caption = new.caption =>
           c.text = new.caption \/ c.typing \/ c.orphan)
          => (~s.orphan => s.text = new.caption \/ s.typing)
    BY <2>2
  <2> QED
    BY <2>2, <2>3, <2>4 DEF CardFollows, s
<1> QED
  BY <1>1, <1>2 DEF StickyValues

StickyTyped == BlockTyped /\ card \in [Pages -> Cards]

(* A change of the card alone.                                                *)
LEMMA ChangeFollows ==
  ASSUME StickyTyped, CardsFollow, NEW p \in Pages, NEW c \in Cards,
         kind = "sticky" => CardFollows(c, seen[p]), Change(p, c)
  PROVE  StickyTyped' /\ CardsFollow'
<1>1. card' = [card EXCEPT ![p] = c] /\ UNCHANGED blockVars
  BY DEF Change
<1>2. StickyTyped'
  BY <1>1, StayTyped DEF StickyTyped
<1>3. CardsFollow'
  BY <1>1 DEF CardsFollow, StickyTyped, blockVars, CardFollows
<1> QED
  BY <1>2, <1>3

(* A change that goes to the block as well, if it is still there.             *)
LEMMA WriteFollows ==
  ASSUME StickyTyped, CardsFollow, kind = "sticky", NEW p \in Pages,
         NEW c \in Cards, NEW v \in StickyValues, Write(p, c, v),
         seen[p].pos = v.pos => c.pos = v.pos \/ c.dragging \/ c.orphan,
         seen[p].caption = v.caption =>
           c.text = v.caption \/ c.typing \/ c.orphan
  PROVE  StickyTyped' /\ CardsFollow'
<1>1. CASE props[p].alive
  <2> DEFINE s == Synced(c, seen[p], v)
  <2>1. Put(p, v) /\ card' = [card EXCEPT ![p] = s]
    BY <1>1 DEF Write
  <2>2. seen[p] \in StickyValues /\ v \in Blocks
    BY BlocksOfKind DEF StickyTyped, BlockTyped, AllIn
  <2>3. s \in Cards /\ CardFollows(s, v)
    BY <2>2, SyncedFollows
  <2> HIDE DEF s
  <2>4. StickyTyped'
    BY <2>1, <2>2, <2>3, PutTyped DEF StickyTyped
  <2>5. /\ seen' = [seen EXCEPT ![p] = v]
        /\ seen \in [Pages -> Blocks] /\ card \in [Pages -> Cards]
    BY <2>1 DEF Put, StickyTyped, BlockTyped, AllIn
  <2>6. CardsFollow'
    <3> SUFFICES ASSUME NEW q \in Pages PROVE CardFollows(card[q], seen[q])'
      BY DEF CardsFollow
    <3>1. CASE q = p
      <4>1. card'[q] = s /\ seen'[q] = v
        BY <2>1, <2>5, <3>1
      <4> QED
        BY <2>3, <4>1 DEF CardFollows
    <3>2. CASE q # p
      <4>1. card'[q] = card[q] /\ seen'[q] = seen[q]
        BY <2>1, <2>5, <3>2
      <4> QED
        BY <4>1 DEF CardsFollow, CardFollows
    <3> QED
      BY <3>1, <3>2
  <2> QED
    BY <2>4, <2>6
<1>2. CASE ~props[p].alive
  <2> DEFINE s == [c EXCEPT !.orphan = TRUE]
  <2>1. card' = [card EXCEPT ![p] = s] /\ UNCHANGED blockVars
    BY <1>2 DEF Write
  <2>2. s \in Cards /\ s.orphan = TRUE
    BY DEF Cards
  <2> HIDE DEF s
  <2>3. StickyTyped'
    BY <2>1, <2>2, StayTyped DEF StickyTyped
  <2>4. CardsFollow'
    BY <2>1, <2>2 DEF CardsFollow, CardFollows, StickyTyped, blockVars
  <2> QED
    BY <2>3, <2>4
<1> QED
  BY <1>1, <1>2

LEMMA StickyKept ==
  ASSUME StickyTyped, CardsFollow, NEW p \in Pages, UseSticky(p)
  PROVE  StickyTyped' /\ CardsFollow'
<1>1. kind = "sticky"
  BY DEF UseSticky, PointerDown, PointerMove, PointerUp, ToggleColor, Close, Type,
         CaptionBlur, ToggleCard, RenderSticky, Shown
<1>2. /\ card[p] \in Cards
      /\ seen[p] \in StickyValues /\ props[p] \in StickyValues
      /\ CardFollows(card[p], seen[p])
  BY <1>1, BlocksOfKind DEF StickyTyped, BlockTyped, AllIn, CardsFollow
<1>3. ~(seen[p].alive /\ ~card[p].orphan)
        \/ ( /\ card[p].pos = seen[p].pos \/ card[p].dragging
             /\ card[p].text = seen[p].caption \/ card[p].typing )
  BY <1>2 DEF CardFollows
<1>4. CASE PointerDown(p)
  <2> DEFINE c == [card[p] EXCEPT !.dragging = TRUE]
  <2>1. c \in Cards /\ CardFollows(c, seen[p])
    BY <1>2, <1>3 DEF Cards, CardFollows
  <2> QED
    BY <1>4, <2>1, ChangeFollows DEF PointerDown
<1>5. CASE PointerMove(p)
  <2>1. PICK x \in Places : Change(p, [card[p] EXCEPT !.pos = x])
    BY <1>5 DEF PointerMove
  <2> DEFINE c == [card[p] EXCEPT !.pos = x]
  <2>2. c \in Cards /\ CardFollows(c, seen[p])
    BY <1>2, <1>3, <1>5 DEF Cards, CardFollows, PointerMove
  <2> QED
    BY <2>1, <2>2, ChangeFollows
<1>6. CASE PointerUp(p)
  <2>1. PICK x \in Places :
          Write(p, [card[p] EXCEPT !.dragging = FALSE, !.pos = x],
                   [props[p] EXCEPT !.pos = x])
    BY <1>6 DEF PointerUp
  <2> DEFINE c == [card[p] EXCEPT !.dragging = FALSE, !.pos = x]
             v == [props[p] EXCEPT !.pos = x]
  <2>2. /\ c \in Cards /\ c.pos = x /\ c.text = card[p].text
        /\ c.typing = card[p].typing /\ c.orphan = card[p].orphan
    BY <1>2 DEF Cards
  <2>3. /\ v \in StickyValues /\ v.pos = x /\ v.caption = props[p].caption
    BY <1>2 DEF StickyValues
  <2> HIDE DEF c, v
  <2>4. seen[p].caption = v.caption =>
          c.text = v.caption \/ c.typing \/ c.orphan
    BY <1>3, <1>6, <2>2 DEF PointerUp, Shown
  <2> QED
    BY <1>1, <2>1, <2>2, <2>3, <2>4, WriteFollows DEF c, v
<1>7. CASE ToggleColor(p)
  <2>1. /\ seen[p].pos = props[p].pos =>
             card[p].pos = props[p].pos \/ card[p].dragging \/ card[p].orphan
        /\ seen[p].caption = props[p].caption =>
             card[p].text = props[p].caption \/ card[p].typing \/ card[p].orphan
    BY <1>3, <1>7 DEF ToggleColor, Shown
  <2> QED
    BY <1>1, <1>2, <1>7, <2>1, WriteFollows DEF ToggleColor
<1>8. CASE Close(p)
  <2> DEFINE c == [card[p] EXCEPT !.visible = FALSE]
             v == [props[p] EXCEPT !.alive = FALSE]
  <2>1. /\ c \in Cards /\ c.pos = card[p].pos /\ c.text = card[p].text
        /\ c.dragging = card[p].dragging
        /\ c.typing = card[p].typing /\ c.orphan = card[p].orphan
    BY <1>2 DEF Cards
  <2>2. /\ v \in StickyValues /\ v.pos = props[p].pos
        /\ v.caption = props[p].caption
    BY <1>2 DEF StickyValues
  <2>3. Write(p, c, v)
    BY <1>8 DEF Close
  <2> HIDE DEF c, v
  <2>4. /\ seen[p].pos = v.pos => c.pos = v.pos \/ c.dragging \/ c.orphan
        /\ seen[p].caption = v.caption =>
             c.text = v.caption \/ c.typing \/ c.orphan
    BY <1>3, <1>8, <2>1, <2>2 DEF Close, Shown
  <2> QED
    BY <1>1, <2>1, <2>2, <2>3, <2>4, WriteFollows
<1>9. CASE Type(p)
  <2>1. PICK t \in Texts :
          Change(p, [card[p] EXCEPT !.text = t, !.typing = TRUE])
    BY <1>9 DEF Type
  <2> DEFINE c == [card[p] EXCEPT !.text = t, !.typing = TRUE]
  <2>2. c \in Cards /\ CardFollows(c, seen[p])
    BY <1>2, <1>3 DEF Cards, CardFollows
  <2> QED
    BY <2>1, <2>2, ChangeFollows
<1>10. CASE CaptionBlur(p)
  <2> DEFINE c == [card[p] EXCEPT !.typing = FALSE]
             v == [props[p] EXCEPT !.caption = card[p].text]
  <2>1. /\ c \in Cards /\ c.pos = card[p].pos /\ c.text = card[p].text
        /\ c.dragging = card[p].dragging /\ c.orphan = card[p].orphan
    BY <1>2 DEF Cards
  <2>2. /\ v \in StickyValues /\ v.pos = props[p].pos
        /\ v.caption = card[p].text
    BY <1>2 DEF StickyValues, Cards
  <2>3. Write(p, c, v)
    BY <1>10 DEF CaptionBlur
  <2> HIDE DEF c, v
  <2>4. seen[p].pos = v.pos => c.pos = v.pos \/ c.dragging \/ c.orphan
    BY <1>3, <1>10, <2>1, <2>2 DEF CaptionBlur, Shown
  <2> QED
    BY <1>1, <2>1, <2>2, <2>3, <2>4, WriteFollows
<1>11. CASE ToggleCard(p)
  <2> DEFINE c == [card[p] EXCEPT !.visible = ~@]
  <2>1. /\ c \in Cards /\ c.pos = card[p].pos /\ c.text = card[p].text
        /\ c.dragging = card[p].dragging
        /\ c.typing = card[p].typing /\ c.orphan = card[p].orphan
    BY <1>2 DEF Cards
  <2>2. Change(p, c)
    BY <1>11 DEF ToggleCard
  <2> HIDE DEF c
  <2>3. CardFollows(c, seen[p])
    BY <1>3, <2>1 DEF CardFollows
  <2> QED
    BY <2>1, <2>2, <2>3, ChangeFollows
<1>12. CASE RenderSticky(p)
  <2> DEFINE s == Synced(card[p], seen[p], props[p])
  <2>1. /\ Renders(p) /\ UNCHANGED <<kind, props, inbox, edits>>
        /\ card' = [card EXCEPT ![p] = s]
    BY <1>12 DEF RenderSticky
  <2>2. s \in Cards
    BY <1>2, SyncedFollows
  <2>3. CardFollows(s, props[p])
    <3>1. CASE seen[p].alive
      BY <1>2, <1>3, <3>1, SyncedFollows
    <3>2. CASE ~seen[p].alive
      BY <1>2, <3>2, FreshCard DEF Synced
    <3> QED
      BY <3>1, <3>2
  <2> HIDE DEF s
  <2>4. StickyTyped'
    BY <2>1, <2>2, RenderTyped DEF StickyTyped
  <2>5. CardsFollow'
    BY <2>1, <2>3
    DEF CardsFollow, CardFollows, StickyTyped, BlockTyped, AllIn, Renders
  <2> QED
    BY <2>4, <2>5
<1> QED
  BY <1>4, <1>5, <1>6, <1>7, <1>8, <1>9, <1>10, <1>11, <1>12 DEF UseSticky

-------------------------------------------------------------------------------
(* Pictures: uploads *)

Grows == used \subseteq used' /\ stored \subseteq stored'
           /\ registered \subseteq registered'

LEMMA KindStays ==
  ASSUME NEW p \in Pages, UsePicture(p)
  PROVE  kind' = kind
BY DEF UsePicture, StartUpload, PutObject, RegisterAsset, UploadAnswers, UploadFails,
       Undo, RenderPicture, Remount, ShownFetchAnswers, LateFetchAnswers, Resolve,
       ResolveAnswers, Place, Put, CallFails, blockVars

LEMMA UploadsKept ==
  ASSUME StoreTyped, UploadsProceed, NEW p \in Pages, UsePicture(p)
  PROVE  StoreTyped' /\ UploadsProceed' /\ Grows
<1>k. IsPicture' <=> IsPicture
  BY KindStays DEF IsPicture
\* Another upload goes on as it was.
<1>a. ASSUME NEW u \in Uploads, upload' = [upload EXCEPT ![p] = u], Grows,
             used' \subseteq Assets,
             stored' \subseteq used', registered' \subseteq used',
             u # NoUpload =>
               /\ IsPicture /\ u.asset \in used'
               /\ u.stage \in {"register", "answer"} => u.asset \in stored'
               /\ u.stage = "answer" => u.asset \in registered'
      PROVE  StoreTyped' /\ UploadsProceed'
  <2>1. StoreTyped'
    BY <1>a DEF StoreTyped
  <2>2. ASSUME NEW q \in Pages, upload'[q] # NoUpload
        PROVE  /\ IsPicture' /\ upload'[q].asset \in used'
               /\ upload'[q].stage \in {"register", "answer"} =>
                    upload'[q].asset \in stored'
               /\ upload'[q].stage = "answer" => upload'[q].asset \in registered'
    <3>1. CASE q = p
      <4>1. upload'[q] = u
        BY <1>a, <3>1 DEF StoreTyped
      <4> QED
        BY <1>a, <1>k, <2>2, <4>1
    <3>2. CASE q # p
      <4>1. upload'[q] = upload[q]
        BY <1>a, <3>2 DEF StoreTyped
      <4> QED
        BY <1>a, <1>k, <2>2, <4>1 DEF UploadsProceed, Grows
    <3> QED
      BY <3>1, <3>2
  <2> QED
    BY <2>1, <2>2 DEF UploadsProceed, NoUpload
<1>u. upload[p] \in Uploads
  BY DEF StoreTyped
<1>n. NoUpload \in Uploads
  BY DEF NoUpload, Uploads
<1>1. CASE StartUpload(p)
  <2>1. PICK a \in Assets \ used :
          /\ upload' = [upload EXCEPT ![p] = [stage |-> "put", asset |-> a]]
          /\ used' = used \cup {a}
    BY <1>1 DEF StartUpload
  <2> DEFINE u == [stage |-> "put", asset |-> a]
  <2>2. u \in Uploads /\ u.stage = "put" /\ u.asset = a
    BY DEF Uploads
  <2>3. IsPicture /\ UNCHANGED <<stored, registered>>
    BY <1>1 DEF StartUpload
  <2> HIDE DEF u
  <2>4. upload' = [upload EXCEPT ![p] = u]
    BY <2>1 DEF u
  <2>5. Grows
    BY <2>1, <2>3 DEF Grows
  <2>6. StoreTyped' /\ UploadsProceed'
    BY <1>a, <2>1, <2>2, <2>3, <2>4, <2>5 DEF StoreTyped
  <2> QED
    BY <2>5, <2>6
<1>2. CASE PutObject(p)
  <2> DEFINE u == [upload[p] EXCEPT !.stage = "register"]
  <2>1. u \in Uploads /\ u.stage = "register" /\ u.asset = upload[p].asset
    BY <1>u DEF Uploads
  <2>2. /\ upload' = [upload EXCEPT ![p] = u] /\ upload[p].stage = "put"
        /\ stored' = stored \cup {upload[p].asset}
        /\ UNCHANGED <<used, registered>>
    BY <1>2 DEF PutObject
  <2> HIDE DEF u
  <2>3. IsPicture /\ upload[p].asset \in used
    BY <2>2 DEF UploadsProceed, NoUpload
  <2>4. Grows
    BY <2>2 DEF Grows
  <2>5. StoreTyped' /\ UploadsProceed'
    BY <1>a, <2>1, <2>2, <2>3, <2>4 DEF StoreTyped
  <2> QED
    BY <2>4, <2>5
<1>3. CASE RegisterAsset(p)
  <2> DEFINE u == [upload[p] EXCEPT !.stage = "answer"]
  <2>1. u \in Uploads /\ u.stage = "answer" /\ u.asset = upload[p].asset
    BY <1>u DEF Uploads
  <2>2. /\ upload' = [upload EXCEPT ![p] = u] /\ upload[p].stage = "register"
        /\ registered' = registered \cup {upload[p].asset}
        /\ UNCHANGED <<used, stored>>
    BY <1>3 DEF RegisterAsset
  <2> HIDE DEF u
  <2>3. /\ IsPicture /\ upload[p].asset \in used
        /\ upload[p].asset \in stored
    BY <2>2 DEF UploadsProceed, NoUpload
  <2>4. Grows
    BY <2>2 DEF Grows
  <2>5. StoreTyped' /\ UploadsProceed'
    BY <1>a, <2>1, <2>2, <2>3, <2>4 DEF StoreTyped
  <2> QED
    BY <2>4, <2>5
<1>4. CASE UploadAnswers(p)
  <2>1. /\ upload' = [upload EXCEPT ![p] = NoUpload]
        /\ UNCHANGED <<used, stored, registered>>
    BY <1>4 DEF UploadAnswers
  <2>2. Grows
    BY <2>1 DEF Grows
  <2>3. StoreTyped' /\ UploadsProceed'
    BY <1>a, <1>n, <2>1, <2>2 DEF StoreTyped
  <2> QED
    BY <2>2, <2>3
<1>5. CASE UploadFails(p)
  <2>1. /\ upload' = [upload EXCEPT ![p] = NoUpload] /\ upload[p] # NoUpload
        /\ used' = used
        /\ stored' \in {stored, stored \cup {upload[p].asset}}
        /\ registered' \in {registered, registered \cup {upload[p].asset}}
    BY <1>5 DEF UploadFails, CallFails
  <2>2. upload[p].asset \in used
    BY <2>1 DEF UploadsProceed
  <2>3. Grows
    BY <2>1 DEF Grows
  <2>4. StoreTyped' /\ UploadsProceed'
    BY <1>a, <1>n, <2>1, <2>2, <2>3 DEF StoreTyped
  <2> QED
    BY <2>3, <2>4
<1>6. ASSUME UNCHANGED <<upload, used, stored, registered>>
      PROVE  StoreTyped' /\ UploadsProceed' /\ Grows
  BY <1>6, <1>k DEF StoreTyped, UploadsProceed, Grows
<1> QED
  BY <1>1, <1>2, <1>3, <1>4, <1>5, <1>6
  DEF UsePicture, Undo, RenderPicture, Remount, ShownFetchAnswers,
      LateFetchAnswers, Resolve, ResolveAnswers

-------------------------------------------------------------------------------
(* Pictures: fetches *)

(* What a block may name.                                                     *)
Good == (stored \cap registered) \cup {None, Local}

SoundPictures == {v \in PictureValues : v.key \in Good}

PicturesSound == IsPicture => AllIn(SoundPictures)

(* What a page has, or fetches, some block has named.                         *)
FetchesSound ==
  \A p \in Pages :
    cache[p] \subseteq Good /\ asked[p] \in Good /\ flights[p] \subseteq Good

(* The inductive strengthening of FrameSettled: the fetch the renderer waits  *)
(* for is that of the key it rendered.                                        *)
FrameFollows(p) ==
  /\ FrameSettled(p)
  /\ kind = "picture" /\ asked[p] # None => asked[p] = seen[p].key

FramesFollow == \A p \in Pages : FrameFollows(p)

FetchInv == FetchTyped /\ FetchesSound /\ FramesFollow

LEMMA GoodGrows == Grows => Good \subseteq Good'
BY DEF Grows, Good

(* The block of a page names a key, and the renderer notices.                 *)
LEMMA EffectKeeps ==
  ASSUME FetchInv, NEW p \in Pages, NEW key \in Keys, key \in Good', Grows,
         Effect(p, key), UNCHANGED <<kind, cache, frame, pending>>,
         kind = "picture" =>
           seen'[p].key = key /\ \A q \in Pages \ {p} : seen'[q] = seen[q]
  PROVE  FetchInv'
<1>g. Good \subseteq Good'
  BY GoodGrows
<1>1. CASE kind = "picture" /\ key # seen[p].key
  <2> DEFINE skips == key = None \/ key \in cache[p]
             f == flights[p] \cup ({asked[p]} \ {None})
             a == IF skips THEN None ELSE key
             e == IF skips THEN "skipped" ELSE "none"
  <2>1. /\ flights' = [flights EXCEPT ![p] = f]
        /\ asked' = [asked EXCEPT ![p] = a]
        /\ excuse' = [excuse EXCEPT ![p] = e]
    BY <1>1, Zenon DEF Effect, KeyChanges
  <2>2. /\ f \subseteq Keys \ {None} /\ f \subseteq Good'
        /\ a \in Keys /\ a \in Good' /\ e \in {"none", "skipped"}
        /\ a = None => e = "skipped"
        /\ a # None => a = key
    BY <1>g DEF FetchInv, FetchTyped, FetchesSound, Keys, Good
  <2> HIDE DEF f, a, e
  <2>3. FetchTyped'
    BY <2>1, <2>2 DEF FetchInv, FetchTyped, Grows
  <2>4. FetchesSound'
    BY <1>g, <2>1, <2>2 DEF FetchInv, FetchTyped, FetchesSound
  <2>5. FrameFollows(p)'
    BY <1>1, <2>1, <2>2 DEF FrameFollows, FrameSettled, FetchInv, FetchTyped
  <2>6. ASSUME NEW q \in Pages, q # p PROVE FrameFollows(q)'
    BY <1>1, <2>1, <2>6
    DEF FrameFollows, FrameSettled, FetchInv, FetchTyped, FramesFollow
  <2>7. FramesFollow'
    BY <2>5, <2>6 DEF FramesFollow
  <2> QED
    BY <2>3, <2>4, <2>7 DEF FetchInv
<1>2. CASE ~(kind = "picture" /\ key # seen[p].key)
  <2>1. UNCHANGED <<flights, asked, excuse>>
    BY <1>2 DEF Effect, KeyStays
  <2>2. FetchTyped'
    BY <2>1 DEF FetchInv, FetchTyped, Grows
  <2>3. FetchesSound'
    BY <1>g, <2>1 DEF FetchInv, FetchesSound
  <2>4. ASSUME NEW q \in Pages, kind = "picture" PROVE seen'[q].key = seen[q].key
    BY <1>2, <2>4
  <2>5. FramesFollow'
    BY <2>1, <2>4 DEF FetchInv, FramesFollow, FrameFollows, FrameSettled
  <2> QED
    BY <2>2, <2>3, <2>5 DEF FetchInv
<1> QED
  BY <1>1, <1>2

(* Nothing happens to the blocks and fetches.                                 *)
LEMMA FetchesStay ==
  ASSUME FetchInv, Grows,
         UNCHANGED <<blockVars, cache, frame, asked, flights, pending, excuse>>
  PROVE  FetchInv'
<1>1. FetchTyped'
  BY DEF FetchInv, FetchTyped, Grows
<1>2. FetchesSound'
  BY GoodGrows DEF FetchInv, FetchesSound
<1>3. FramesFollow'
  BY DEF FetchInv, FramesFollow, FrameFollows, FrameSettled, blockVars
<1> QED
  BY <1>1, <1>2, <1>3 DEF FetchInv

(* Sound pictures stay sound.                                                 *)
LEMMA PicturesStay ==
  ASSUME Grows, AllIn(SoundPictures), NEW S, S = SoundPictures'
  PROVE  AllIn(S)
<1>1. SoundPictures \subseteq S
  BY GoodGrows DEF SoundPictures, PictureValues, Keys
<1> QED
  BY <1>1, Wider

(* The block of a page gets a picture that may be named.                      *)
LEMMA PlaceKeeps ==
  ASSUME BlockTyped, PicturesSound, FetchInv, IsPicture, NEW p \in Pages,
         NEW key \in Keys, key \in Good', Grows, Place(p, key),
         UNCHANGED <<cache, frame, pending>>
  PROVE  BlockTyped' /\ PicturesSound' /\ FetchInv'
<1> DEFINE v == [key |-> key]
<1>1. v \in PictureValues /\ v.key = key
  BY DEF PictureValues
<1>2. Put(p, v) /\ Effect(p, key)
  BY DEF Place
<1> HIDE DEF v
<1>3. BlockTyped'
  BY <1>1, <1>2, BlocksOfKind, PutTyped
<1>4. /\ kind' = kind /\ seen' = [seen EXCEPT ![p] = v]
      /\ seen \in [Pages -> Blocks]
  BY <1>2 DEF Put, BlockTyped, AllIn
<1>5. FetchInv'
  <2>1. seen'[p].key = key /\ \A q \in Pages \ {p} : seen'[q] = seen[q]
    BY <1>1, <1>4
  <2> QED
    BY <1>2, <1>4, <2>1, EffectKeeps
<1>6. PicturesSound'
  <2>1. PICK S : S = SoundPictures'
    OBVIOUS
  <2>2. v \in S
    BY <1>1, <2>1 DEF SoundPictures, PictureValues, Keys
  <2>3. AllIn(S)
    BY <2>1, PicturesStay DEF PicturesSound
  <2>4. AllIn(S)'
    BY <1>2, <2>2, <2>3, PutKeeps
  <2> QED
    BY <2>1, <2>4 DEF PicturesSound, AllIn
<1> QED
  BY <1>3, <1>5, <1>6

(* Nothing happens to the blocks while the bucket and the table grow.         *)
LEMMA PicturesStill ==
  ASSUME BlockTyped, PicturesSound, Grows, UNCHANGED blockVars
  PROVE  BlockTyped' /\ PicturesSound'
<1>1. BlockTyped'
  BY StayTyped
<1>2. ASSUME IsPicture PROVE AllIn(SoundPictures)'
  <2>1. PICK S : S = SoundPictures'
    OBVIOUS
  <2>2. AllIn(S)
    BY <1>2, <2>1, PicturesStay DEF PicturesSound
  <2>3. AllIn(S)'
    BY <2>2, StayKeeps
  <2> QED
    BY <2>1, <2>3 DEF AllIn
<1>3. IsPicture' <=> IsPicture
  BY DEF IsPicture, blockVars
<1> QED
  BY <1>1, <1>2, <1>3 DEF PicturesSound

(* The component of a page renders, with the effect of its picture.           *)
LEMMA PictureRenders ==
  ASSUME BlockTyped, PicturesSound, IsPicture, NEW p \in Pages,
         seen' = [seen EXCEPT ![p] = props[p]],
         UNCHANGED <<kind, props, inbox, edits, stored, registered>>
  PROVE  BlockTyped' /\ PicturesSound'
<1>1. Blocks' = Blocks
  BY BlocksStay
<1>2. BlockTyped'
  BY <1>1 DEF BlockTyped, AllIn
<1>3. SoundPictures' = SoundPictures
  BY DEF SoundPictures, PictureValues, Keys, Good
<1>4. PicturesSound'
  BY <1>3 DEF PicturesSound, AllIn
<1> QED
  BY <1>2, <1>4

(* The picture a block of a page names.                                       *)
LEMMA NamedKey ==
  ASSUME PicturesSound, IsPicture, NEW p \in Pages
  PROVE  /\ props[p].key \in Keys /\ props[p].key \in Good
         /\ seen[p].key \in Keys /\ seen[p].key \in Good
BY DEF PicturesSound, AllIn, SoundPictures, PictureValues

PictureInv ==
  BlockTyped /\ PicturesSound /\ StoreTyped /\ UploadsProceed /\ FetchInv

LEMMA ShownFetchKeeps ==
  ASSUME PictureInv, NEW p \in Pages, ShownFetchAnswers(p)
  PROVE  FetchInv'
<1>1. /\ kind = "picture" /\ asked[p] # None /\ asked[p] = seen[p].key
      /\ asked[p] \in Keys /\ asked[p] \in Good
  BY DEF PictureInv, FetchInv, FetchTyped, FetchesSound, FramesFollow,
         FrameFollows, ShownFetchAnswers
<1>2. /\ asked' = [asked EXCEPT ![p] = None]
      /\ UNCHANGED <<blockVars, flights, pending, stored, registered, used>>
  BY DEF ShownFetchAnswers
<1>3. None \in Keys /\ None \in Good /\ Good' = Good
  BY <1>2 DEF Keys, Good
<1>4. /\ FetchTyped /\ FetchesSound /\ FramesFollow
      /\ kind' = kind /\ seen' = seen
  BY <1>2 DEF PictureInv, FetchInv, blockVars
<1>5. CASE /\ asked[p] \in stored
           /\ cache' = [cache EXCEPT ![p] = @ \cup {asked[p]}]
           /\ frame' = [frame EXCEPT ![p] =
                          [blob |-> asked[p], loading |-> FALSE]]
           /\ UNCHANGED excuse
  <2> DEFINE f == [blob |-> asked[p], loading |-> FALSE]
  <2>1. f \in [blob: Keys, loading: BOOLEAN]
    BY <1>1
  <2>2. f.blob = asked[p] /\ f.loading = FALSE
    OBVIOUS
  <2>3. frame' = [frame EXCEPT ![p] = f]
    BY <1>5
  <2> HIDE DEF f
  <2>4. FetchTyped'
    BY <1>2, <1>3, <1>4, <1>5, <2>1, <2>3 DEF FetchTyped
  <2>5. FetchesSound'
    BY <1>1, <1>2, <1>3, <1>4, <1>5 DEF FetchTyped, FetchesSound
  <2>6. FramesFollow'
    BY <1>1, <1>2, <1>4, <1>5, <2>2, <2>3
    DEF FetchTyped, FramesFollow, FrameFollows, FrameSettled
  <2> QED
    BY <2>4, <2>5, <2>6 DEF FetchInv
<1>6. CASE /\ frame' = [frame EXCEPT ![p].loading = FALSE]
           /\ excuse' = [excuse EXCEPT ![p] = "failed"]
           /\ UNCHANGED cache
  <2> DEFINE f == [frame[p] EXCEPT !.loading = FALSE]
  <2>1. f \in [blob: Keys, loading: BOOLEAN] /\ frame' = [frame EXCEPT ![p] = f]
    BY <1>4, <1>6 DEF FetchTyped
  <2> HIDE DEF f
  <2>2. FetchTyped'
    <3>1. excuse' \in [Pages -> {"none", "skipped", "failed"}]
      BY <1>4, <1>6 DEF FetchTyped
    <3>2. frame' \in [Pages -> [blob: Keys, loading: BOOLEAN]]
      BY <1>4, <2>1 DEF FetchTyped
    <3>3. asked' \in [Pages -> Keys]
      BY <1>2, <1>3, <1>4 DEF FetchTyped
    <3> QED
      BY <1>2, <1>4, <1>6, <3>1, <3>2, <3>3 DEF FetchTyped
  <2>3. FetchesSound'
    BY <1>2, <1>3, <1>4, <1>6 DEF FetchTyped, FetchesSound
  <2>4. FramesFollow'
    BY <1>2, <1>4, <1>6, <2>1
    DEF FetchTyped, FramesFollow, FrameFollows, FrameSettled
  <2> QED
    BY <2>2, <2>3, <2>4 DEF FetchInv
<1> QED
  BY <1>5, <1>6, Zenon DEF ShownFetchAnswers

LEMMA RemountKeeps ==
  ASSUME PictureInv, NEW p \in Pages, Remount(p)
  PROVE  FetchInv'
<1> DEFINE key == props[p].key
           fetch == key # None /\ key \notin cache[p]
           f == [blob |-> IF fetch THEN None ELSE key, loading |-> fetch]
           g == flights[p] \cup ({asked[p]} \ {None})
           a == IF fetch THEN key ELSE None
<1>1. /\ kind = "picture" /\ seen' = [seen EXCEPT ![p] = props[p]]
      /\ frame' = [frame EXCEPT ![p] = f]
      /\ flights' = [flights EXCEPT ![p] = g]
      /\ asked' = [asked EXCEPT ![p] = a]
      /\ excuse' = [excuse EXCEPT ![p] = "none"]
      /\ UNCHANGED <<kind, cache, pending, stored, registered, used>>
  BY Zenon DEF Remount
<1>2. /\ FetchTyped /\ FetchesSound /\ FramesFollow
      /\ key \in Keys /\ key \in Good
      /\ seen \in [Pages -> Blocks]
  BY <1>1, NamedKey DEF PictureInv, FetchInv, IsPicture, BlockTyped, AllIn
<1>3. /\ f \in [blob: Keys, loading: BOOLEAN]
      /\ g \subseteq Keys \ {None} /\ g \subseteq Good
      /\ a \in Keys /\ a \in Good
      /\ a # None => a = key
  BY <1>2 DEF FetchTyped, FetchesSound, Keys, Good
<1>4. a = None => f.loading = FALSE /\ f.blob = key
  <2>1. ASSUME a = None PROVE ~fetch
    BY <2>1
  <2> QED
    BY <2>1
<1>5. Good' = Good
  BY <1>1 DEF Good
<1>6. \A q \in Pages : seen'[q] = IF q = p THEN props[p] ELSE seen[q]
  BY <1>1, <1>2
<1>k. key = props[p].key
  OBVIOUS
<1> HIDE DEF key, fetch, f, g, a
<1>7. FetchTyped'
  BY <1>1, <1>2, <1>3 DEF FetchTyped
<1>8. FetchesSound'
  BY <1>1, <1>2, <1>3, <1>5 DEF FetchTyped, FetchesSound
<1>9. FrameFollows(p)'
  BY <1>1, <1>2, <1>3, <1>4, <1>6, <1>k
  DEF FetchTyped, FrameFollows, FrameSettled
<1>10. ASSUME NEW q \in Pages, q # p PROVE FrameFollows(q)'
  BY <1>1, <1>2, <1>6, <1>10
  DEF FetchTyped, FramesFollow, FrameFollows, FrameSettled
<1>11. FramesFollow'
  BY <1>9, <1>10 DEF FramesFollow
<1> QED
  BY <1>7, <1>8, <1>11 DEF FetchInv

LEMMA BoardFetchKeeps ==
  ASSUME PictureInv, NEW p \in Pages,
         LateFetchAnswers(p) \/ Resolve(p) \/ ResolveAnswers(p)
  PROVE  BlockTyped' /\ PicturesSound' /\ FetchInv'
<1>1. /\ UNCHANGED <<used, stored, registered, frame, asked, excuse>>
      /\ Grows /\ Good' = Good
  BY DEF LateFetchAnswers, Resolve, ResolveAnswers, Grows, Good
<1>2. /\ FetchTyped /\ FetchesSound /\ FramesFollow /\ StoreTyped
      /\ BlockTyped /\ PicturesSound
  BY DEF PictureInv, FetchInv
<1>3. CASE LateFetchAnswers(p)
  <2>1. /\ kind = "picture" /\ UNCHANGED <<blockVars, cache, pending>>
        /\ \E key \in flights[p] :
             flights' = [flights EXCEPT ![p] = @ \ {key}]
    BY <1>3 DEF LateFetchAnswers
  <2>2. FetchTyped'
    BY <1>1, <1>2, <2>1 DEF FetchTyped
  <2>3. FetchesSound'
    BY <1>1, <1>2, <2>1 DEF FetchTyped, FetchesSound
  <2>4. FramesFollow'
    BY <1>1, <1>2, <2>1 DEF FramesFollow, FrameFollows, FrameSettled, blockVars
  <2> QED
    BY <1>1, <1>2, <2>1, <2>2, <2>3, <2>4, PicturesStill DEF FetchInv
<1>4. CASE Resolve(p)
  <2> DEFINE key == seen[p].key
  <2>1. /\ kind = "asset" /\ key \in Assets
        /\ pending' = [pending EXCEPT ![p] = @ \cup {key}]
        /\ flights' = [flights EXCEPT ![p] = @ \cup {key}]
        /\ UNCHANGED <<blockVars, cache>>
    BY <1>4 DEF Resolve
  <2>2. key \in Good /\ key \in Keys /\ key # None
    BY <1>2, <2>1, NamedKey, AssetsAssumption DEF IsPicture
  <2>3. key \in used
    BY <1>2, <2>1, <2>2, AssetsAssumption DEF Good, StoreTyped
  <2> HIDE DEF key
  <2>4. FetchTyped'
    BY <1>1, <1>2, <2>1, <2>2, <2>3 DEF FetchTyped
  <2>5. FetchesSound'
    BY <1>1, <1>2, <2>1, <2>2 DEF FetchTyped, FetchesSound
  <2>6. FramesFollow'
    BY <1>1, <1>2, <2>1 DEF FramesFollow, FrameFollows, FrameSettled, blockVars
  <2> QED
    BY <1>1, <1>2, <2>1, <2>4, <2>5, <2>6, PicturesStill DEF FetchInv
<1>5. CASE ResolveAnswers(p)
  <2>1. PICK key \in flights[p] :
          /\ flights' = [flights EXCEPT ![p] = @ \ {key}]
          /\ \/ /\ key \in stored
                /\ cache' = [cache EXCEPT ![p] = @ \cup {key}]
                /\ Put(p, props[p])
             \/ UNCHANGED cache /\ UNCHANGED blockVars
    BY <1>5, Zenon DEF ResolveAnswers
  <2>2. kind = "asset" /\ kind' = kind /\ pending' = pending
    BY <1>5, <2>1 DEF ResolveAnswers, Put, blockVars
  <2>3. key \in Good
    BY <1>2, <2>1 DEF FetchesSound
  <2>4. FetchTyped'
    BY <1>1, <1>2, <2>1, <2>2 DEF FetchTyped
  <2>5. FetchesSound'
    BY <1>1, <1>2, <2>1, <2>3 DEF FetchTyped, FetchesSound
  <2>6. FramesFollow'
    BY <2>2 DEF FramesFollow, FrameFollows, FrameSettled
  <2>7. FetchInv'
    BY <2>4, <2>5, <2>6 DEF FetchInv
  <2>8. CASE UNCHANGED blockVars
    BY <1>1, <1>2, <2>7, <2>8, PicturesStill
  <2>9. CASE Put(p, props[p])
    <3>1. BlockTyped'
      BY <1>2, <2>9, PutTyped DEF BlockTyped, AllIn
    <3>2. AllIn(SoundPictures)
      BY <1>2, <2>2 DEF PicturesSound, IsPicture
    <3>3. PICK S : S = SoundPictures
      OBVIOUS
    <3>4. AllIn(S)'
      BY <2>9, <3>2, <3>3, PutKeeps DEF AllIn
    <3>5. SoundPictures' = S
      BY <1>1, <3>3 DEF SoundPictures, PictureValues, Keys
    <3>6. PicturesSound'
      BY <3>4, <3>5 DEF PicturesSound, AllIn
    <3> QED
      BY <2>7, <3>1, <3>6
  <2> QED
    BY <2>1, <2>8, <2>9
<1> QED
  BY <1>3, <1>4, <1>5

(* Every step of a picture keeps its invariant.                               *)
LEMMA PictureKept ==
  ASSUME PictureInv, NEW p \in Pages, UsePicture(p)
  PROVE  PictureInv'
<1>1. StoreTyped' /\ UploadsProceed' /\ Grows
  BY UploadsKept DEF PictureInv
<1>2. /\ BlockTyped /\ PicturesSound /\ FetchInv
      /\ Good \subseteq Good'
  BY <1>1, GoodGrows DEF PictureInv
<1>3. CASE StartUpload(p) \/ PutObject(p) \/ RegisterAsset(p)
  <2>1. /\ UNCHANGED blockVars
        /\ UNCHANGED <<cache, frame, asked, flights, pending, excuse>>
    BY <1>3 DEF StartUpload, PutObject, RegisterAsset, KeyStays
  <2> QED
    BY <1>1, <1>2, <2>1, PicturesStill, FetchesStay DEF PictureInv
<1>4. CASE UploadAnswers(p)
  <2>1. /\ upload[p].stage = "answer" /\ Place(p, upload[p].asset)
        /\ UNCHANGED <<stored, registered, cache, frame, pending>>
    BY <1>4 DEF UploadAnswers
  <2>2. /\ IsPicture /\ upload[p].asset \in stored
        /\ upload[p].asset \in registered
    BY <2>1 DEF PictureInv, UploadsProceed, NoUpload
  <2>3. upload[p].asset \in Good' /\ upload[p].asset \in Keys
    BY <1>2, <2>2 DEF Good, Keys, PictureInv, StoreTyped
  <2> QED
    BY <1>1, <1>2, <2>1, <2>2, <2>3, PlaceKeeps DEF PictureInv
<1>5. CASE UploadFails(p)
  <2>1. UNCHANGED <<cache, frame, pending>>
    BY <1>5 DEF UploadFails, CallFails
  <2>2. CASE kind = "picture"
    <3>1. Place(p, Local) /\ IsPicture
      BY <1>5, <2>2 DEF UploadFails, IsPicture
    <3>2. Local \in Good' /\ Local \in Keys
      BY DEF Good, Keys
    <3> QED
      BY <1>1, <1>2, <2>1, <3>1, <3>2, PlaceKeeps DEF PictureInv
  <2>3. CASE kind # "picture"
    <3>1. UNCHANGED <<blockVars, asked, flights, excuse>>
      BY <1>5, <2>3 DEF UploadFails, KeyStays
    <3> QED
      BY <1>1, <1>2, <2>1, <3>1, PicturesStill, FetchesStay DEF PictureInv
  <2> QED
    BY <2>2, <2>3
<1>6. CASE Undo(p)
  <2>1. PICK key \in (cache[p] \cup {None}) \ {props[p].key} : Place(p, key)
    BY <1>6 DEF Undo
  <2>2. IsPicture /\ UNCHANGED <<cache, frame, pending>>
    BY <1>6 DEF Undo
  <2>3. key \in Good' /\ key \in Keys
    <3>1. CASE key \in cache[p]
      <4>1. key \in Good /\ key \in stored
        BY <1>2, <3>1 DEF FetchInv, FetchTyped, FetchesSound
      <4> QED
        BY <1>2, <4>1 DEF PictureInv, StoreTyped, Keys
    <3>2. CASE key = None
      BY <3>2 DEF Good, Keys
    <3> QED
      BY <2>1, <3>1, <3>2
  <2> QED
    BY <1>1, <1>2, <2>1, <2>2, <2>3, PlaceKeeps DEF PictureInv
<1>7. CASE RenderPicture(p)
  <2>1. /\ IsPicture /\ seen' = [seen EXCEPT ![p] = props[p]]
        /\ Effect(p, props[p].key)
        /\ UNCHANGED <<kind, props, inbox, edits, stored, registered, cache,
                       frame, pending>>
    BY <1>7 DEF RenderPicture, Renders
  <2>2. props[p].key \in Keys /\ props[p].key \in Good'
    BY <1>2, <2>1, NamedKey
  <2>3. seen'[p].key = props[p].key /\ \A q \in Pages \ {p} : seen'[q] = seen[q]
    BY <1>2, <2>1 DEF BlockTyped, AllIn
  <2>4. FetchInv'
    BY <1>1, <1>2, <2>1, <2>2, <2>3, EffectKeeps
  <2> QED
    BY <1>1, <1>2, <2>1, <2>4, PictureRenders DEF PictureInv
<1>8. CASE Remount(p)
  <2>1. /\ IsPicture /\ seen' = [seen EXCEPT ![p] = props[p]]
        /\ UNCHANGED <<kind, props, inbox, edits, stored, registered>>
    BY <1>8 DEF Remount, IsPicture
  <2> QED
    BY <1>1, <1>2, <1>8, <2>1, PictureRenders, RemountKeeps DEF PictureInv
<1>9. CASE ShownFetchAnswers(p)
  <2>1. UNCHANGED blockVars
    BY <1>9 DEF ShownFetchAnswers
  <2> QED
    BY <1>1, <1>2, <1>9, <2>1, PicturesStill, ShownFetchKeeps DEF PictureInv
<1>10. CASE LateFetchAnswers(p) \/ Resolve(p) \/ ResolveAnswers(p)
  BY <1>1, <1>10, BoardFetchKeeps DEF PictureInv
<1> QED
  BY <1>3, <1>4, <1>5, <1>6, <1>7, <1>8, <1>9, <1>10 DEF UsePicture

-------------------------------------------------------------------------------
(* All blocks *)

PollsSound == kind = "poll" => AllIn(SoundPolls)

(* The inductive invariant, one part for each kind of block.                  *)
BlocksInv ==
  /\ BlockTyped /\ PollTyped /\ card \in [Pages -> Cards]
  /\ StoreTyped /\ UploadsProceed
  /\ PollsSound /\ CardsFollow /\ PicturesSound /\ FetchInv

(* A new block is the same in every page.                                     *)
LEMMA StartsIn ==
  ASSUME NEW k \in Kinds, NEW S, NEW v \in S, BlockInit(k, v)
  PROVE  kind = k /\ edits = 0 /\ seen = props /\ AllIn(S)
BY EmptySeq DEF BlockInit, AllIn

LEMMA PictureStarts ==
  ASSUME PictureIdle, kind = "picture" => \A p \in Pages : seen[p].key = None
  PROVE  StoreTyped /\ UploadsProceed /\ FetchInv
<1>1. StoreTyped /\ UploadsProceed
  BY DEF PictureIdle, StoreTyped, UploadsProceed, Uploads, NoUpload
<1>2. FetchTyped /\ FetchesSound
  BY DEF PictureIdle, FetchTyped, FetchesSound, Empty, Keys, Good
<1>3. FramesFollow
  BY DEF PictureIdle, FramesFollow, FrameFollows, FrameSettled, Empty
<1> QED
  BY <1>1, <1>2, <1>3 DEF FetchInv

LEMMA BlocksStart == Init => BlocksInv
<1>1. ASSUME PollInit, StickyIdle, PictureIdle PROVE BlocksInv
  <2>1. PICK two \in SUBSET Options :
          /\ Cardinality(two) = 2
          /\ BlockInit("poll", [options |-> two, votes |-> NoVotes])
          /\ minted = two
    BY <1>1 DEF PollInit
  <2>2. PollTyped
    BY <1>1, <2>1 DEF PollInit, PollTyped
  <2> DEFINE v == [options |-> two, votes |-> NoVotes]
  <2>3. v \in PollValues /\ v.options = two /\ v.votes = NoVotes
    BY NewPoll
  <2> HIDE DEF v
  <2>4. PollSound(v)
    BY <2>1, <2>3 DEF PollSound, NoVotes
  <2>5. BlockInit("poll", v) /\ "poll" \in Kinds /\ v \in SoundPolls
    BY <2>1, <2>3, <2>4 DEF v, Kinds, SoundPolls
  <2>6. kind = "poll" /\ edits = 0 /\ AllIn(SoundPolls)
    BY <2>5, StartsIn
  <2>7. BlockTyped
    BY <2>3, <2>5, <2>6, BlocksOfKind, StartsIn, EditsAssumption DEF BlockTyped
  <2>8. card \in [Pages -> Cards]
    BY <1>1, FreshCard DEF StickyIdle, NewSticky, StickyValues, Places, Texts
  <2>9. StoreTyped /\ UploadsProceed /\ FetchInv
    BY <1>1, <2>6, PictureStarts
  <2> QED
    BY <2>2, <2>6, <2>7, <2>8, <2>9
    DEF BlocksInv, PollsSound, CardsFollow, PicturesSound, IsPicture
<1>2. ASSUME StickyInit, PollIdle, PictureIdle PROVE BlocksInv
  <2>1. NewSticky \in StickyValues
    BY DEF NewSticky, StickyValues, Places, Texts
  <2>2. BlockInit("sticky", NewSticky) /\ "sticky" \in Kinds
    BY <1>2 DEF StickyInit, Kinds
  <2>3. kind = "sticky" /\ edits = 0 /\ AllIn(StickyValues)
    BY <2>1, <2>2, StartsIn
  <2>4. BlockTyped
    BY <2>2, <2>3, BlocksOfKind, EditsAssumption DEF BlockTyped
  <2>5. card \in [Pages -> Cards]
    BY <1>2, <2>1, FreshCard DEF StickyInit
  <2>6. CardsFollow
    <3>1. \A p \in Pages : seen[p] = NewSticky /\ card[p] = Fresh(NewSticky)
      BY <1>2 DEF StickyInit, BlockInit
    <3> QED
      BY <2>1, <3>1, FreshCard DEF CardsFollow
  <2>7. PollTyped
    BY <1>2 DEF PollIdle, PollTyped
  <2>8. StoreTyped /\ UploadsProceed /\ FetchInv
    BY <1>2, <2>3, PictureStarts
  <2> QED
    BY <2>3, <2>4, <2>5, <2>6, <2>7, <2>8
    DEF BlocksInv, PollsSound, PicturesSound, IsPicture
<1>3. ASSUME PictureInit, PollIdle, StickyIdle PROVE BlocksInv
  <2> DEFINE v == [key |-> None]
  <2>1. PICK k \in {"picture", "asset"} : BlockInit(k, v)
    BY <1>3 DEF PictureInit
  <2>2. v \in SoundPictures /\ v.key = None
    BY DEF SoundPictures, PictureValues, Keys, Good
  <2> HIDE DEF v
  <2>3. k \in Kinds
    BY <2>1 DEF Kinds
  <2>4. kind = k /\ edits = 0 /\ AllIn(SoundPictures)
    BY <2>1, <2>2, <2>3, StartsIn
  <2>5. IsPicture /\ kind # "poll" /\ kind # "sticky"
    BY <2>1, <2>4 DEF IsPicture
  <2>6. BlockTyped
    <3>1. SoundPictures \subseteq PictureValues
      BY DEF SoundPictures
    <3>2. AllIn(PictureValues)
      BY <2>4, <3>1, Wider
    <3> QED
      BY <2>3, <2>4, <2>5, <3>2, BlocksOfKind, EditsAssumption DEF BlockTyped
  <2>7. card \in [Pages -> Cards]
    BY <1>3, FreshCard DEF StickyIdle, NewSticky, StickyValues, Places, Texts
  <2>8. PollTyped
    BY <1>3 DEF PollIdle, PollTyped
  <2>9. \A p \in Pages : seen[p].key = None
    BY <2>1, <2>2 DEF BlockInit
  <2>10. StoreTyped /\ UploadsProceed /\ FetchInv
    BY <1>3, <2>9, PictureStarts DEF PictureInit
  <2> QED
    BY <2>4, <2>5, <2>6, <2>7, <2>8, <2>10
    DEF BlocksInv, PollsSound, CardsFollow, PicturesSound
<1> QED
  BY <1>1, <1>2, <1>3 DEF Init

(* What the steps of the other kinds leave of a picture.                      *)
LEMMA PictureRests ==
  ASSUME StoreTyped, UploadsProceed, FetchInv, kind' = kind, ~IsPicture,
         UNCHANGED pictureVars
  PROVE  StoreTyped' /\ UploadsProceed' /\ PicturesSound' /\ FetchInv'
<1>1. ~IsPicture'
  BY DEF IsPicture
<1>2. StoreTyped' /\ UploadsProceed'
  BY <1>1 DEF StoreTyped, UploadsProceed, pictureVars
<1>3. FetchTyped' /\ FetchesSound'
  BY DEF FetchInv, FetchTyped, FetchesSound, Good, pictureVars
<1>4. FramesFollow'
  BY <1>1 DEF FramesFollow, FrameFollows, FrameSettled, IsPicture
<1> QED
  BY <1>1, <1>2, <1>3, <1>4 DEF PicturesSound, FetchInv

(* A block that arrives is one that was sent.                                 *)
LEMMA ArrivalKept ==
  ASSUME BlocksInv, NEW p \in Pages, Arrives(p)
  PROVE  BlocksInv'
<1>1. /\ Receive(p) /\ kind' = kind /\ seen' = seen
      /\ UNCHANGED <<who, minted, cast, card>> /\ UNCHANGED pictureVars
  BY DEF Arrives, Receive, pollVars
<1>2. BlockTyped'
  BY <1>1, ReceiveTyped DEF BlocksInv
<1>3. PollTyped' /\ card' \in [Pages -> Cards]
  BY <1>1 DEF BlocksInv, PollTyped
<1>4. StoreTyped' /\ UploadsProceed' /\ FetchTyped' /\ FetchesSound'
  BY <1>1 DEF BlocksInv, StoreTyped, UploadsProceed, FetchInv, FetchTyped,
              FetchesSound, IsPicture, Good, pictureVars
<1>5. CardsFollow' /\ FramesFollow'
  BY <1>1 DEF BlocksInv, CardsFollow, CardFollows, FetchInv, FramesFollow,
              FrameFollows, FrameSettled, pictureVars
<1>6. PollsSound'
  <2>1. PICK S : S = SoundPolls
    OBVIOUS
  <2>2. SoundPolls' = S
    BY <1>1, <2>1 DEF SoundPolls, PollSound, PollValues
  <2>3. kind = "poll" => AllIn(S)'
    BY <1>1, <2>1, ReceiveKeeps DEF BlocksInv, PollsSound
  <2> QED
    BY <1>1, <2>2, <2>3 DEF PollsSound, AllIn
<1>7. PicturesSound'
  <2>1. PICK S : S = SoundPictures
    OBVIOUS
  <2>2. SoundPictures' = S
    BY <1>1, <2>1 DEF SoundPictures, PictureValues, Keys, Good, pictureVars
  <2>3. IsPicture => AllIn(S)'
    BY <1>1, <2>1, ReceiveKeeps DEF BlocksInv, PicturesSound
  <2> QED
    BY <1>1, <2>2, <2>3 DEF PicturesSound, AllIn, IsPicture
<1> QED
  BY <1>2, <1>3, <1>4, <1>5, <1>6, <1>7 DEF BlocksInv, FetchInv

(* A handler of a poll.                                                       *)
LEMMA PollKept ==
  ASSUME BlocksInv, NEW p \in Pages, UsePoll(p), UNCHANGED <<card, pictureVars>>
  PROVE  BlocksInv'
<1>0. kind = "poll" /\ BlockTyped /\ PollTyped /\ AllIn(SoundPolls)
  BY DEF BlocksInv, PollsSound, UsePoll, Vote, RetextOption, RetextQuestion,
         AddOption, DeleteOption, RenderPoll
\* The rest of the state has nothing to do with polls.
<1>r. ASSUME kind' = kind, BlockTyped', PollTyped', PollsSound'
      PROVE  BlocksInv'
  <2>1. ~IsPicture
    BY <1>0 DEF IsPicture
  <2>2. StoreTyped' /\ UploadsProceed' /\ PicturesSound' /\ FetchInv'
    BY <1>r, <2>1, PictureRests DEF BlocksInv
  <2>3. CardsFollow' /\ card' \in [Pages -> Cards]
    BY <1>0, <1>r DEF BlocksInv, CardsFollow
  <2> QED
    BY <1>r, <2>2, <2>3 DEF BlocksInv
<1>1. CASE RenderPoll(p) /\ UNCHANGED pollVars
  <2>1. /\ Renders(p) /\ UNCHANGED <<kind, props, inbox, edits>>
        /\ UNCHANGED <<who, minted, cast>>
    BY <1>1 DEF RenderPoll, pollVars
  <2>2. BlockTyped' /\ PollTyped'
    BY <1>0, <2>1, RenderTyped DEF PollTyped
  <2>3. PICK S : S = SoundPolls
    OBVIOUS
  <2>4. SoundPolls' = S
    BY <2>1, <2>3 DEF SoundPolls, PollSound, PollValues
  <2>5. AllIn(S)'
    BY <1>0, <2>1, <2>3, RenderKeeps
  <2> QED
    BY <1>r, <2>1, <2>2, <2>4, <2>5 DEF PollsSound, AllIn
<1>2. CASE \/ Vote(p) \/ RetextOption(p) \/ RetextQuestion(p)
           \/ AddOption(p) \/ DeleteOption(p)
  <2>1. seen[p] \in SoundPolls /\ props[p] \in SoundPolls
    BY <1>0 DEF AllIn
  <2>2. PollTyped' /\ cast \subseteq cast'
    BY <1>0, <1>2, VotePuts, EditPuts
  <2>3. PICK v \in PollValues : Put(p, v) /\ v \in SoundThen
    BY <1>0, <1>2, <2>1, VotePuts, EditPuts
  <2>4. kind' = kind /\ BlockTyped'
    BY <1>0, <2>3, BlocksOfKind, PutTyped DEF Put
  <2>5. PICK S : S = SoundThen
    OBVIOUS
  <2>6. AllIn(S)
    BY <1>0, <2>2, <2>5, StillSound, Wider
  <2>7. AllIn(S)'
    BY <2>3, <2>5, <2>6, PutKeeps
  <2>8. SoundPolls' = S
    BY <2>5 DEF SoundPolls, SoundThen, PollValues
  <2> QED
    BY <1>r, <2>2, <2>4, <2>7, <2>8 DEF PollsSound, AllIn
<1> QED
  BY <1>1, <1>2 DEF UsePoll

LEMMA BlocksStep == BlocksInv /\ [Next]_vars => BlocksInv'
<1> SUFFICES ASSUME BlocksInv, [Next]_vars PROVE BlocksInv'
  OBVIOUS
<1>1. ASSUME NEW p \in Pages, Arrives(p) PROVE BlocksInv'
  BY <1>1, ArrivalKept
<1>2. ASSUME NEW p \in Pages, UsePoll(p), UNCHANGED <<card, pictureVars>>
      PROVE  BlocksInv'
  BY <1>2, PollKept
<1>3. ASSUME NEW p \in Pages, UseSticky(p), UNCHANGED <<pollVars, pictureVars>>
      PROVE  BlocksInv'
  <2>1. StickyTyped' /\ CardsFollow'
    BY <1>3, StickyKept DEF BlocksInv, StickyTyped
  <2>2. kind = "sticky" /\ kind' = kind
    BY <1>3
    DEF UseSticky, PointerDown, PointerMove, PointerUp, ToggleColor, Close, Type,
        CaptionBlur, ToggleCard, RenderSticky, Shown, Change, Write, Put, blockVars
  <2>3. StoreTyped' /\ UploadsProceed' /\ PicturesSound' /\ FetchInv'
    BY <1>3, <2>2, PictureRests DEF BlocksInv, IsPicture
  <2>4. PollTyped' /\ PollsSound'
    BY <1>3, <2>2 DEF BlocksInv, PollTyped, PollsSound, pollVars
  <2> QED
    BY <2>1, <2>3, <2>4 DEF BlocksInv, StickyTyped
<1>4. ASSUME NEW p \in Pages, UsePicture(p), UNCHANGED <<pollVars, card>>
      PROVE  BlocksInv'
  <2>1. PictureInv'
    BY <1>4, PictureKept DEF BlocksInv, PictureInv
  <2>2. IsPicture /\ kind' = kind
    BY <1>4, KindStays
    DEF BlocksInv, UploadsProceed, NoUpload, UsePicture, StartUpload, PutObject,
        RegisterAsset, UploadAnswers, UploadFails, CallFails, Undo,
        RenderPicture, Remount, ShownFetchAnswers, LateFetchAnswers, Resolve,
        ResolveAnswers, IsPicture
  <2>3. PollTyped' /\ PollsSound' /\ CardsFollow' /\ card' \in [Pages -> Cards]
    BY <1>4, <2>2
    DEF BlocksInv, PollTyped, PollsSound, CardsFollow, IsPicture, pollVars
  <2> QED
    BY <2>1, <2>3 DEF BlocksInv, PictureInv
<1>5. CASE UNCHANGED vars
  <2>1. /\ UNCHANGED blockVars /\ UNCHANGED <<who, minted, cast, card>>
        /\ UNCHANGED pictureVars
    BY <1>5 DEF vars, pollVars
  <2>2. BlockTyped'
    BY <2>1, StayTyped DEF BlocksInv
  <2>3. PollTyped' /\ card' \in [Pages -> Cards] /\ PollsSound' /\ CardsFollow'
    BY <2>1 DEF BlocksInv, PollTyped, PollsSound, AllIn, SoundPolls, PollSound,
                PollValues, CardsFollow, CardFollows, blockVars
  <2>4. StoreTyped' /\ UploadsProceed' /\ Grows
    BY <2>1 DEF BlocksInv, StoreTyped, UploadsProceed, Grows, IsPicture,
                pictureVars, blockVars
  <2>5. PicturesSound' /\ FetchInv'
    BY <2>1, <2>4, PicturesStill, FetchesStay DEF BlocksInv, pictureVars
  <2> QED
    BY <2>2, <2>3, <2>4, <2>5 DEF BlocksInv
<1> QED
  BY <1>1, <1>2, <1>3, <1>4, <1>5 DEF Next

LEMMA BlocksInductive == Spec => []BlocksInv
BY BlocksStart, BlocksStep, PTL DEF Spec

(* Every variable keeps its type, and the blocks are of the kind chosen, for  *)
(* any number of pages and assets.                                            *)
THEOREM TypeCorrect == Spec => []TypeOK
<1>1. BlocksInv => TypeOK
  BY TypeParts DEF BlocksInv, FetchInv
<1> QED
  BY <1>1, BlocksInductive, PTL

(* SharedBlocksSound, for any number of pages, users, options and assets: what *)
(* pages tell each other of a poll or a picture is sound, whoever edits and    *)
(* whichever call of an upload fails.                                          *)
THEOREM SharedBlocksSoundCorrect == Spec => []SharedBlocksSound
<1>1. BlocksInv => SharedBlocksSound
  <2> SUFFICES ASSUME BlocksInv, NEW v \in Values
               PROVE  /\ kind = "poll" => PollSound(v)
                      /\ IsPicture => v.key \in Good
    BY DEF SharedBlocksSound, Good
  <2>1. kind = "poll" => PollSound(v)
    BY ValuesIn DEF BlocksInv, PollsSound, SoundPolls
  <2>2. IsPicture => v.key \in Good
    BY ValuesIn DEF BlocksInv, PicturesSound, SoundPictures
  <2> QED
    BY <2>1, <2>2
<1> QED
  BY <1>1, BlocksInductive, PTL

(* PageTellsBlock: the card of a sticky note and the frame of a picture show   *)
(* what the block says, in every order in which blocks, fetches and renders    *)
(* come.                                                                       *)
THEOREM PageTellsBlockCorrect == Spec => []PageTellsBlock
<1>1. BlocksInv => PageTellsBlock
  <2> SUFFICES ASSUME BlocksInv, NEW p \in Pages
               PROVE  (kind = "sticky" => CardTellsBlock(p)) /\ FrameSettled(p)
    BY DEF PageTellsBlock
  <2>1. kind = "sticky" => CardTellsBlock(p)
    BY DEF BlocksInv, CardsFollow, CardFollows, CardTellsBlock
  <2>2. FrameSettled(p)
    BY DEF BlocksInv, FetchInv, FramesFollow, FrameFollows
  <2> QED
    BY <2>1, <2>2
<1> QED
  BY <1>1, BlocksInductive, PTL

===============================================================================
