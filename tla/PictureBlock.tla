----------------------------- MODULE PictureBlock ---------------------------
(***************************************************************************)
(* A picture, of a note or of a board. The page hands the file to a server   *)
(* action, which puts it into the object store and registers it with the     *)
(* service (actions/note-assets.ts, actions/whiteboard-assets.ts); only then *)
(* does the block name it. To show it the page downloads it again:           *)
(*                                                                           *)
(*   - of a note through components/editor/asset-image-renderer.tsx, whose   *)
(*     effect fetches the picture of a new key unless the page has it;       *)
(*   - of a board through the asset store of whiteboard-canvas.tsx, which    *)
(*     fetches a picture once and then touches the asset, as a user edit.    *)
(*                                                                           *)
(* A file is known by the id it was given; its name and bytes are left out.  *)
(***************************************************************************)
EXTENDS SharedBlock

CONSTANTS
  Assets   \* ids an upload can get

VARIABLES
  upload,      \* the upload of a page under way, and how far it is
  used,        \* ids handed out
  stored,      \* objects in the bucket
  registered,  \* rows of the asset table
  cache,       \* pictures a page has as object URLs
  frame,       \* what the renderer of a page shows
  asked,       \* the fetch the renderer waits for
  flights,     \* other fetches under way
  pending,     \* board: pendingFetchesRef
  excuse       \* history: why a frame need not show its key

pictureVars ==
  <<upload, used, stored, registered, cache, frame, asked, flights, pending,
    excuse>>

None == "none"
Local == "local"   \* a note's block after a failed upload: an object URL
Keys == Assets \cup {None, Local}

PictureValues == [key: Keys]
NoUpload == [stage |-> "idle", asset |-> None]
Empty == [blob |-> None, loading |-> FALSE]

PictureIdle ==
  /\ upload = [p \in Pages |-> NoUpload]
  /\ used = {} /\ stored = {} /\ registered = {}
  /\ cache = [p \in Pages |-> {}]
  /\ frame = [p \in Pages |-> Empty]
  /\ asked = [p \in Pages |-> None]
  /\ flights = [p \in Pages |-> {}]
  /\ pending = [p \in Pages |-> {}]
  /\ excuse = [p \in Pages |-> "none"]

PictureInit ==
  /\ \E k \in {"picture", "asset"} : BlockInit(k, [key |-> None])
  /\ PictureIdle

IsPicture == kind \in {"picture", "asset"}

------------------------------------------------------------------------------
(* The effect of a renderer whose key changed. The fetch under way is        *)
(* cancelled; for no key, and for a key the page has, the effect returns     *)
(* with the frame as it was.                                                 *)
KeyChanges(p, key) ==
  LET skips == key = None \/ key \in cache[p] IN
  /\ flights' = [flights EXCEPT ![p] = @ \cup ({asked[p]} \ {None})]
  /\ asked' = [asked EXCEPT ![p] = IF skips THEN None ELSE key]
  /\ excuse' = [excuse EXCEPT ![p] = IF skips THEN "skipped" ELSE "none"]

KeyStays == UNCHANGED <<flights, asked, excuse>>

Effect(p, key) ==
  IF kind = "picture" /\ key # seen[p].key THEN KeyChanges(p, key)
  ELSE KeyStays

(* The block gets the picture, or the renderer catches up with the block.    *)
Place(p, key) == Put(p, [key |-> key]) /\ Effect(p, key)

RenderPicture(p) ==
  /\ IsPicture /\ Renders(p) /\ Effect(p, props[p].key)
  /\ UNCHANGED <<kind, props, inbox, edits>>
  /\ UNCHANGED <<upload, used, stored, registered, cache, frame, pending>>

(* The block is mounted anew: the state starts from the cache, which         *)
(* outlives it.                                                              *)
Remount(p) ==
  /\ kind = "picture"
  /\ LET key == props[p].key
         fetch == key # None /\ key \notin cache[p]
     IN /\ seen' = [seen EXCEPT ![p] = props[p]]
        /\ frame' = [frame EXCEPT ![p] =
             [blob |-> IF fetch THEN None ELSE key, loading |-> fetch]]
        /\ flights' = [flights EXCEPT ![p] = @ \cup ({asked[p]} \ {None})]
        /\ asked' = [asked EXCEPT ![p] = IF fetch THEN key ELSE None]
        /\ excuse' = [excuse EXCEPT ![p] = "none"]
  /\ UNCHANGED <<kind, props, inbox, edits>>
  /\ UNCHANGED <<upload, used, stored, registered, cache, pending>>

------------------------------------------------------------------------------
(* uploadNoteAssetAction and uploadAssetAction.                              *)
StartUpload(p) ==
  /\ IsPicture /\ upload[p] = NoUpload
  /\ \E a \in Assets \ used :
       /\ upload' = [upload EXCEPT ![p] = [stage |-> "put", asset |-> a]]
       /\ used' = used \cup {a}
  /\ UNCHANGED blockVars /\ KeyStays
  /\ UNCHANGED <<stored, registered, cache, frame, pending>>

PutObject(p) ==
  /\ upload[p].stage = "put"
  /\ stored' = stored \cup {upload[p].asset}
  /\ upload' = [upload EXCEPT ![p].stage = "register"]
  /\ UNCHANGED blockVars /\ KeyStays
  /\ UNCHANGED <<used, registered, cache, frame, pending>>

RegisterAsset(p) ==
  /\ upload[p].stage = "register"
  /\ registered' = registered \cup {upload[p].asset}
  /\ upload' = [upload EXCEPT ![p].stage = "answer"]
  /\ UNCHANGED blockVars /\ KeyStays
  /\ UNCHANGED <<used, stored, cache, frame, pending>>

UploadAnswers(p) ==
  /\ upload[p].stage = "answer"
  /\ Place(p, upload[p].asset)
  /\ upload' = [upload EXCEPT ![p] = NoUpload]
  /\ UNCHANGED <<used, stored, registered, cache, frame, pending>>

(* A call of the action fails, before or after it did its work. The image    *)
(* plugin of a note then places the file as an object URL of the page; the   *)
(* editor of a board places nothing.                                         *)
CallFails(p) ==
  LET a == {upload[p].asset} IN
  /\ upload[p] # NoUpload
  /\ \/ UNCHANGED <<stored, registered>>
     \/ /\ upload[p].stage = "put"
        /\ stored' = stored \cup a /\ UNCHANGED registered
     \/ /\ upload[p].stage = "register"
        /\ registered' = registered \cup a /\ UNCHANGED stored
  /\ upload' = [upload EXCEPT ![p] = NoUpload]
  /\ UNCHANGED <<used, cache, frame, pending>>

\* Mutant: the plugin takes the id although the upload failed.
UploadFailsUnseen(p) ==
  /\ CallFails(p)
  /\ IF kind = "picture" THEN Place(p, upload[p].asset)
     ELSE UNCHANGED blockVars /\ KeyStays

UploadFails(p) ==
  /\ CallFails(p)
  /\ IF kind = "picture" THEN Place(p, Local)
     ELSE UNCHANGED blockVars /\ KeyStays

(* The editor's own undo and redo bring back what the page has shown.        *)
Undo(p) ==
  /\ IsPicture
  /\ \E key \in (cache[p] \cup {None}) \ {props[p].key} : Place(p, key)
  /\ UNCHANGED <<upload, used, stored, registered, cache, frame, pending>>

------------------------------------------------------------------------------
\* Mutant: the URL is kept whatever the answer was.
ShownFetchKept(p) ==
  /\ kind = "picture" /\ asked[p] # None
  /\ cache' = [cache EXCEPT ![p] = @ \cup {asked[p]}]
  /\ frame' = [frame EXCEPT ![p] = [blob |-> asked[p], loading |-> FALSE]]
  /\ asked' = [asked EXCEPT ![p] = None]
  /\ UNCHANGED blockVars
  /\ UNCHANGED <<upload, used, stored, registered, flights, pending, excuse>>

(* downloadNoteAssetAction and downloadAssetAction: only what is stored can  *)
(* be downloaded, and any download may fail.                                 *)
ShownFetchAnswers(p) ==
  /\ kind = "picture" /\ asked[p] # None
  /\ \/ /\ asked[p] \in stored
        /\ cache' = [cache EXCEPT ![p] = @ \cup {asked[p]}]
        /\ frame' = [frame EXCEPT ![p] = [blob |-> asked[p], loading |-> FALSE]]
        /\ UNCHANGED excuse
     \/ /\ frame' = [frame EXCEPT ![p].loading = FALSE]
        /\ excuse' = [excuse EXCEPT ![p] = "failed"]
        /\ UNCHANGED cache
  /\ asked' = [asked EXCEPT ![p] = None]
  /\ UNCHANGED blockVars
  /\ UNCHANGED <<upload, used, stored, registered, flights, pending>>

\* Mutant: the answer of a cancelled fetch is shown.
LateFetchShown(p) ==
  /\ kind = "picture"
  /\ \E key \in flights[p] :
       /\ flights' = [flights EXCEPT ![p] = @ \ {key}]
       /\ frame' = [frame EXCEPT ![p] = [blob |-> key, loading |-> FALSE]]
  /\ UNCHANGED blockVars
  /\ UNCHANGED <<upload, used, stored, registered, cache, asked, pending,
                 excuse>>

(* A cancelled fetch does not even fill the cache.                           *)
LateFetchAnswers(p) ==
  /\ kind = "picture"
  /\ \E key \in flights[p] : flights' = [flights EXCEPT ![p] = @ \ {key}]
  /\ UNCHANGED blockVars
  /\ UNCHANGED <<upload, used, stored, registered, cache, frame, asked,
                 pending, excuse>>

(* The asset store's resolve, called whenever the board draws the picture.   *)
Resolve(p) ==
  /\ kind = "asset"
  /\ LET key == seen[p].key IN
     /\ key \in Assets \ (cache[p] \cup pending[p])
     /\ pending' = [pending EXCEPT ![p] = @ \cup {key}]
     /\ flights' = [flights EXCEPT ![p] = @ \cup {key}]
  /\ UNCHANGED blockVars
  /\ UNCHANGED <<upload, used, stored, registered, cache, frame, asked, excuse>>

(* updateAssets makes the board draw it again, and is sent like an edit of   *)
(* the user. A failed download is not tried again.                           *)
ResolveAnswers(p) ==
  /\ kind = "asset"
  /\ \E key \in flights[p] :
       /\ flights' = [flights EXCEPT ![p] = @ \ {key}]
       /\ \/ /\ key \in stored
             /\ cache' = [cache EXCEPT ![p] = @ \cup {key}]
             /\ Put(p, props[p])
          \/ UNCHANGED cache /\ UNCHANGED blockVars
  /\ UNCHANGED <<upload, used, stored, registered, frame, asked, pending,
                 excuse>>

UsePicture(p) ==
  \/ StartUpload(p) \/ PutObject(p) \/ RegisterAsset(p)
  \/ UploadAnswers(p) \/ UploadFails(p) \/ Undo(p)
  \/ RenderPicture(p) \/ Remount(p)
  \/ ShownFetchAnswers(p) \/ LateFetchAnswers(p)
  \/ Resolve(p) \/ ResolveAnswers(p)

(* A frame that waits for nothing shows the picture its block names, unless  *)
(* the download failed or the effect skipped a key it had already.           *)
FrameSettled(p) ==
  kind = "picture" /\ asked[p] = None /\ excuse[p] = "none"
    => ~frame[p].loading /\ frame[p].blob = seen[p].key
=============================================================================
