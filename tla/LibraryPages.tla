---------------------------- MODULE LibraryPages ----------------------------
(***************************************************************************)
(* One browser over the catalogue: the workspace picker of the sidebar       *)
(* (modules/dashboard/components/dashboard-sidebar.tsx with                  *)
(* components/ui/combobox.tsx), the library of a workspace                   *)
(* (modules/workspace/components/workspace-view.tsx), and the pages of notes *)
(* and whiteboards, which are addressed by title alone. Another member makes *)
(* notes, whiteboards and workspaces of the same names at any time.          *)
(*                                                                           *)
(* Notes and the library are in the dashboard layout, with the sidebar;      *)
(* whiteboards are not. A call outlives the page that made it, and what it   *)
(* does to the address when it is answered, it does wherever the user is.    *)
(***************************************************************************)
EXTENDS Catalogue

CONSTANT MaxMoves  \* bound: what the user does besides reading

ASSUME MovesAssumption == MaxMoves \in Nat

VARIABLES
  moves,   \* bound: how many so far
  route,   \* the address, and what the page there found
  tab,     \* activeTab, by the kind it shows
  shelf,   \* what the library knows of the notes and boards of its workspace
  asked,   \* calls of the mutation hooks of the library on the screen
  picker,  \* the picker of the sidebar
  options  \* the cached list of workspaces

pageVars == <<moves, route, tab, shelf, asked, picker, options>>
vars == <<catalogueVars, pageVars>>

(* `search' is workspaceSearch of the sidebar, cleared when the menu closes; *)
(* `typed' is inputValue of the combobox, which is not.                      *)
Pickers == [open: BOOLEAN, search: Names \cup {None}, typed: Names \cup {None}]
Closed == [open |-> FALSE, search |-> None, typed |-> None]

(* The page of a workspace has its id in the address, or whatever was pushed *)
(* there, and shows an error unless it was `loaded'. The page of a note or   *)
(* board has a title; `link' is the thing whose row or creation led there,   *)
(* `found' what the service found.                                           *)
Routes == [page: {"space"}, space: Spaces \cup Names, loaded: BOOLEAN] \cup
          [page: Papers, link: Calls, found: Calls \cup {None}]

Empty == [k \in Papers |-> {}]

InSidebar == route.page # "board"
InLibrary == route.page = "space" /\ route.loaded

(* GetWorkspace looks into the other table of members than the lists do.     *)
Loads(w) ==
  w \in Homes \cup {v \in db.members \cap db.rows : call[v].by = "me"}

Stored(kind, w) ==
  {c \in db.listed : /\ call[c].op = kind /\ call[c].space = w
                     /\ w \in SpacesOf("me")}

Init ==
  /\ CatalogueInit
  /\ moves = 0
  /\ route \in [page: {"space"}, space: Homes, loaded: {TRUE}]
  /\ tab = "board"
  /\ shelf = Empty
  /\ asked = {}
  /\ picker = Closed
  /\ options = Homes

-----------------------------------------------------------------------------
Move == moves < MaxMoves /\ moves' = moves + 1

(* Every library starts on the whiteboards, which the server has read for    *)
(* it; its hooks know of no call.                                            *)
ShowSpace(w) ==
  /\ route' = [page |-> "space", space |-> w, loaded |-> Loads(w)]
  /\ tab' = "board"
  /\ shelf' = [Empty EXCEPT !["board"] = Stored("board", w)]
  /\ asked' = {}

(* GetNoteBySlug, GetBoardBySlug: the workspaces of the user one after the   *)
(* other, the first that has the title. The sidebar goes with its layout.    *)
Titled(kind, t) ==
  {db.titles[<<kind, w, t>>] : w \in SpacesOf("me")} \ {None}

Finds(kind, t) == IF Titled(kind, t) = {} THEN {None} ELSE Titled(kind, t)

ShowPaper(kind, c, t) ==
  /\ \E found \in Finds(kind, t) :
       route' = [page |-> kind, link |-> c, found |-> found]
  /\ tab' = "board" /\ shelf' = Empty /\ asked' = {}

(* The landing page goes to the first workspace listed.                      *)
OpenLanding ==
  /\ route.page \in Papers
  /\ Move
  /\ \E w \in Listing("me") : ShowSpace(w)
  /\ db' = Backfilled("me")
  /\ UNCHANGED <<call, faults, picker, options>>

OpenTab(kind) ==
  /\ InLibrary /\ tab # kind
  /\ tab' = kind
  /\ UNCHANGED <<catalogueVars, moves, route, shelf, asked, picker, options>>

(* A list is fetched when its tab is opened or its data stale.               *)
FetchShelf ==
  /\ InLibrary /\ route.space \in SpacesOf("me")
  /\ shelf[tab] # Stored(tab, route.space)
  /\ shelf' = [shelf EXCEPT ![tab] = Stored(tab, route.space)]
  /\ UNCHANGED <<catalogueVars, moves, route, tab, asked, picker, options>>

OpenRow(c) ==
  /\ InLibrary /\ c \in shelf[tab]
  /\ Move
  /\ ShowPaper(tab, c, call[c].title)
  /\ picker' = IF tab = "board" THEN Closed ELSE picker
  /\ UNCHANGED <<catalogueVars, options>>

(* handleCreateNote, handleCreateWhiteboard: one of each kind at a time.     *)
IsPending(kind) ==
  \E c \in asked : call[c].op = kind /\ call[c].at # "done"

CreatePaper(c) ==
  /\ InLibrary /\ ~IsPending(tab)
  /\ Move
  /\ \E n \in Names : Send(c, tab, "me", route.space, n)
  /\ asked' = asked \cup {c}
  /\ UNCHANGED <<db, faults, route, tab, shelf, picker, options>>

-----------------------------------------------------------------------------
(* The picker. A workspace matches what is typed when it has that name.      *)
Matching(n) == {w \in options \cap Calls : Base(w) = n}

OpenPicker ==
  /\ InSidebar /\ ~picker.open
  /\ Move
  /\ picker' = [picker EXCEPT !.open = TRUE]
  /\ UNCHANGED <<catalogueVars, route, tab, shelf, asked, options>>

ClosePicker ==
  /\ picker.open
  /\ picker' = [picker EXCEPT !.open = FALSE, !.search = None]
  /\ UNCHANGED <<catalogueVars, moves, route, tab, shelf, asked, options>>

TypeName(n) ==
  /\ picker.open /\ picker.typed # n
  /\ picker' = [picker EXCEPT !.search = n, !.typed = n]
  /\ UNCHANGED <<catalogueVars, moves, route, tab, shelf, asked, options>>

(* handleWorkspaceChange. Choosing the workspace that is on the screen only   *)
(* closes the menu; on the page of a note, the first one listed counts as it.*)
GoToSpace(w) ==
  /\ ShowSpace(w)
  /\ picker' = [picker EXCEPT !.open = FALSE, !.search = None]

SelectWorkspace(w) ==
  /\ picker.open
  /\ w \in (IF picker.typed = None THEN options ELSE Matching(picker.typed))
  /\ route.page = "space" => route.space # w
  /\ Move
  /\ GoToSpace(w)
  /\ UNCHANGED <<catalogueVars, options>>

(* handleWorkspaceSearchKeyDown: the menu stays open, a call that is pending *)
(* holds back nothing.                                                       *)
PressEnter(c) ==
  /\ picker.open /\ picker.search # None /\ Matching(picker.search) = {}
  /\ Move
  /\ Send(c, "workspace", "me", None, picker.search)
  /\ UNCHANGED <<db, faults, route, tab, shelf, asked, picker, options>>

(* ComboboxCreateNew: the call is sent, and then the name that was typed is  *)
(* chosen as if it were the id of a workspace.                               *)
PressCreateNew(c) ==
  /\ picker.open /\ picker.typed # None /\ Matching(picker.typed) = {}
  /\ Move
  /\ Send(c, "workspace", "me", None, picker.typed)
  /\ GoToSpace(picker.typed)
  /\ UNCHANGED <<db, faults, options>>

-----------------------------------------------------------------------------
Done(c) == call' = [call EXCEPT ![c].at = "done"]

\* Mutant: the client goes to the title it drew.
TitleDrawn(c) == <<Base(c), 1>>

TitleReturned(c) == call[c].title

Answered(c) == call[c].at = "answered" /\ call[c].by = "me"

(* onSuccess refetches the lists that are on the screen; then the page of    *)
(* the new note or board is opened, whatever the user has opened meanwhile.  *)
PaperCreated(c) ==
  /\ Answered(c) /\ call[c].op \in Papers /\ call[c].ok
  /\ Done(c)
  /\ ShowPaper(call[c].op, c, TitleReturned(c))
  /\ picker' = IF call[c].op = "board" THEN Closed ELSE picker
  /\ UNCHANGED <<db, faults, moves, options>>

(* onSuccess refetches the list of workspaces; then the new one is opened.   *)
WorkspaceCreated(c) ==
  /\ Answered(c) /\ call[c].op = "workspace" /\ call[c].ok
  /\ Done(c)
  /\ options' = Listing("me")
  /\ db' = Backfilled("me")
  /\ GoToSpace(c)
  /\ UNCHANGED <<faults, moves>>

(* A creation that failed leaves everything as it was, whatever address the  *)
(* picker has gone to.                                                       *)
CreationFailed(c) ==
  /\ Answered(c) /\ ~call[c].ok
  /\ Done(c)
  /\ UNCHANGED <<db, faults, pageVars>>

(* The sidebar refetches its list when it is stale.                          *)
FetchOptions ==
  /\ InSidebar /\ options # Listing("me")
  /\ options' = Listing("me")
  /\ db' = Backfilled("me")
  /\ UNCHANGED <<call, faults, moves, route, tab, shelf, asked, picker>>

(* The other member's browser, of which only the calls are followed.         *)
OtherCreates(c) ==
  /\ \E n \in Names :
       \/ \E kind \in Papers, w \in Homes : Send(c, kind, "other", w, n)
       \/ Send(c, "workspace", "other", None, n)
  /\ UNCHANGED <<db, faults, pageVars>>

-----------------------------------------------------------------------------
Work(c) == Serve(c) /\ UNCHANGED pageVars

Browse(c) ==
  \/ OpenRow(c) \/ CreatePaper(c) \/ PressEnter(c) \/ PressCreateNew(c)
  \/ PaperCreated(c) \/ WorkspaceCreated(c) \/ CreationFailed(c)

Next ==
  \/ OpenLanding \/ FetchShelf \/ FetchOptions \/ OpenPicker \/ ClosePicker
  \/ \E kind \in Papers : OpenTab(kind)
  \/ \E n \in Names : TypeName(n)
  \/ \E w \in Spaces : SelectWorkspace(w)
  \/ \E c \in Calls : Work(c) \/ Browse(c) \/ OtherCreates(c)

Spec == Init /\ [][Next]_vars

-----------------------------------------------------------------------------
TypeOK ==
  /\ CatalogueTypeOK
  /\ moves \in 0..MaxMoves
  /\ route \in Routes
  /\ tab \in Papers
  /\ shelf \in [Papers -> SUBSET Calls]
  /\ asked \subseteq Calls
  /\ picker \in Pickers
  /\ options \in SUBSET Spaces

(* Notes are addressed by title, and reserveNoteTitle makes titles unique    *)
(* only within a workspace: a link to a note, from its row or its creation,  *)
(* finds that note, or one of the same title in another workspace. It never  *)
(* finds another note of the same workspace, and never none                  *)
(* (notes_service.go:40-60 and 350-400; false for whiteboards).              *)
NotesFoundByTitle ==
  route.page = "note" =>
    /\ route.found # None
    /\ route.found # route.link =>
         call[route.found].space # call[route.link].space

(* Workspaces whose creation was answered with success have names of their   *)
(* own, whatever calls failed half way and took back what they had written   *)
(* (workspace_service.go:52-63, "so names stay unique").                     *)
CreatedNamesDiffer ==
  \A c, d \in Calls :
    /\ call[c].op = "workspace" /\ call[d].op = "workspace"
    /\ call[c].ok /\ call[d].ok /\ Base(c) = Base(d)
    => c = d
=============================================================================
