------------------------------ MODULE NoteBlocks ----------------------------
(***************************************************************************)
(* The blocks with a behaviour of their own, as SharedBlock describes them:  *)
(* Init chooses one kind, the others stay idle.                              *)
(***************************************************************************)
EXTENDS PollBlock, StickyBlock, PictureBlock

ASSUME OptionsAssumption == IsFiniteSet(Options) /\ Cardinality(Options) >= 2
ASSUME AssetsAssumption == {None, Local} \cap Assets = {}

vars == <<blockVars, pollVars, card, pictureVars>>

PollIdle ==
  who = [p \in Pages |-> Anonymous] /\ minted = {} /\ cast = {}

StickyIdle == card = [p \in Pages |-> Fresh(NewSticky)]

Init ==
  \/ PollInit /\ StickyIdle /\ PictureIdle
  \/ StickyInit /\ PollIdle /\ PictureIdle
  \/ PictureInit /\ PollIdle /\ StickyIdle

Arrives(p) == Receive(p) /\ UNCHANGED <<pollVars, card, pictureVars>>

Next ==
  \E p \in Pages :
    \/ Arrives(p)
    \/ UsePoll(p) /\ UNCHANGED <<card, pictureVars>>
    \/ UseSticky(p) /\ UNCHANGED <<pollVars, pictureVars>>
    \/ UsePicture(p) /\ UNCHANGED <<pollVars, card>>

Spec == Init /\ [][Next]_vars
------------------------------------------------------------------------------
Blocks == CASE kind = "poll" -> PollValues
            [] kind = "sticky" -> StickyValues
            [] OTHER -> PictureValues

(* Types, of the block of the kind that was chosen.                          *)
TypeOK ==
  /\ kind \in Kinds /\ edits \in 0 .. MaxEdits
  /\ props \in [Pages -> Blocks] /\ seen \in [Pages -> Blocks]
  /\ inbox \in [Pages -> Seq(Blocks)]
  /\ who \in [Pages -> Users \cup {Anonymous}]
  /\ minted \subseteq Options /\ cast \subseteq Users \X Options
  /\ card \in [Pages -> Cards]
  /\ upload \in [Pages -> [stage: {"idle", "put", "register", "answer"},
                           asset: Assets \cup {None}]]
  /\ used \subseteq Assets /\ stored \subseteq used /\ registered \subseteq used
  /\ frame \in [Pages -> [blob: Keys, loading: BOOLEAN]]
  /\ asked \in [Pages -> Keys]
  /\ excuse \in [Pages -> {"none", "skipped", "failed"}]
  /\ cache \in [Pages -> SUBSET stored] /\ pending \in [Pages -> SUBSET used]
  /\ flights \in [Pages -> SUBSET (Keys \ {None})]

(* What pages tell each other is sound, whoever edited last: a poll keeps    *)
(* two options and counts nobody twice for one, nor anybody who never voted  *)
(* for it (every handler of poll-component.tsx sends the whole list, computed *)
(* from props that may be old); a picture a block names can be downloaded:   *)
(* it is in the bucket and in the asset table (the order of the calls in     *)
(* uploadNoteAssetAction and uploadAssetAction, each of which can fail).     *)
SharedBlocksSound ==
  \A value \in Values :
    /\ kind = "poll" => PollSound(value)
    /\ IsPicture => value.key \in (stored \cap registered) \cup {None, Local}

(* A page shows what its block says: the card of a sticky note, but for a    *)
(* drag or a text that is not finished (sticky-notes-coponent.tsx, whose     *)
(* state is a copy kept in step by two effects), and the frame of a picture  *)
(* once nothing is fetched for it (asset-image-renderer.tsx, whose fetches   *)
(* may answer after the block got another picture).                          *)
PageTellsBlock ==
  \A p \in Pages : (kind = "sticky" => CardTellsBlock(p)) /\ FrameSettled(p)
=============================================================================
