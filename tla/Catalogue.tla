----------------------------- MODULE Catalogue ------------------------------
(***************************************************************************)
(* How workspaces, notes and whiteboards come into being: CreateWorkspace,   *)
(* CreateNote and CreateBoard, each a sequence of statements over tables     *)
(* that no transaction ties together, any of which may fail, with or without *)
(* effect. What a call makes is named by the call.                           *)
(*                                                                           *)
(* Nothing here is renamed or deleted: the web client has no way to ask for  *)
(* it. The table of slugs, which nothing reads, is left out.                 *)
(***************************************************************************)
EXTENDS Naturals

CONSTANTS
  Calls,        \* calls that can be made, and so the things that can exist
  Homes,        \* workspaces that exist from the start, with both users in
  Names,        \* names a user types, titles the client draws
  MaxAttempts,  \* maxTitleReserveAttempts
  MaxFaults     \* bound: statements that fail

ASSUME AttemptsAssumption == MaxAttempts \in Nat \ {0}
ASSUME FaultsAssumption == MaxFaults \in Nat
ASSUME HomesAssumption == Homes \cap Calls = {}

VARIABLES call, db, faults

catalogueVars == <<call, db, faults>>

None == "none"
ASSUME NoneAssumption == None \notin Calls
Users == {"me", "other"}
Spaces == Homes \cup Calls
Papers == {"note", "board"}

(* A title is the drawn name and the number that makes it unique.            *)
Titles == Names \X (1..MaxAttempts)

Ops == {"unused", "workspace"} \cup Papers
Stations == {"unused", "sent", "reserve", "insert", "byId", "byTitle",
             "name", "row", "member", "view", "undoMember", "undoRow",
             "undoName", "answered", "done"}

CallRecord == [op: Ops, by: Users, space: Spaces \cup {None},
               title: Titles \cup {None}, at: Stations, ok: BOOLEAN]

Unused == [op |-> "unused", by |-> "me", space |-> None, title |-> None,
           at |-> "unused", ok |-> FALSE]

(* The tables, as sets of what was inserted, but for the two that are looked *)
(* up by name: `titles' by kind, workspace and title, `names' by name.       *)
TitleKeys == Papers \X Spaces \X Titles

Tables == [listed: SUBSET Calls, byId: SUBSET Calls,
           titles: [TitleKeys -> Calls \cup {None}],
           names: [Names -> Calls \cup {None}],
           rows: SUBSET Calls, members: SUBSET Calls, view: SUBSET Calls]

CatalogueInit ==
  /\ call = [c \in Calls |-> Unused]
  /\ db = [listed |-> {}, byId |-> {}, titles |-> [k \in TitleKeys |-> None],
           names |-> [n \in Names |-> None],
           rows |-> {}, members |-> {}, view |-> {}]
  /\ faults = 0

-----------------------------------------------------------------------------
Base(c) == call[c].title[1]
TitleKey(c) == <<call[c].op, call[c].space, call[c].title>>

(* HasWorkspaceAccess and ListWorkspaceIDsForUser read the table by user,    *)
(* in which a new workspace has its owner only.                              *)
SpacesOf(u) == Homes \cup {w \in db.view : call[w].by = u}

Send(c, op, u, w, n) ==
  /\ call[c] = Unused
  /\ call' = [call EXCEPT ![c] =
       [op |-> op, by |-> u, space |-> w, title |-> <<n, 1>>,
        at |-> IF op = "workspace" THEN "name" ELSE "sent", ok |-> FALSE]]

Answer(c, ok) == call' = [call EXCEPT ![c].at = "answered", ![c].ok = ok]
GoTo(c, station) == call' = [call EXCEPT ![c].at = station]

CheckAccess(c) ==
  /\ call[c].at = "sent"
  /\ IF call[c].space \in SpacesOf(call[c].by)
     THEN GoTo(c, IF call[c].op = "note" THEN "reserve" ELSE "insert")
     ELSE Answer(c, FALSE)
  /\ UNCHANGED <<db, faults>>

-----------------------------------------------------------------------------
(* reserveNoteTitle: INSERT ... IF NOT EXISTS, the next number when taken,   *)
(* an error when they are used up.                                           *)
Free(c) == db.titles[TitleKey(c)] = None

\* Mutant: the reservation is a plain insert, as it is for boards.
FreeAlways(c) == TRUE

IsFree(c) == Free(c)

NextTitle(c) == <<Base(c), call[c].title[2] + 1>>

Reserve(c) ==
  /\ call[c].at = "reserve" /\ IsFree(c)
  /\ db' = [db EXCEPT !.titles[TitleKey(c)] = c]
  /\ GoTo(c, "insert")
  /\ UNCHANGED faults

\* Mutant: one attempt too many.
RetitleTooOften(c) ==
  /\ call[c].at = "reserve" /\ ~IsFree(c)
  /\ IF call[c].title[2] <= MaxAttempts
     THEN call' = [call EXCEPT ![c].title = NextTitle(c)]
     ELSE Answer(c, FALSE)
  /\ UNCHANGED <<db, faults>>

Retitle(c) ==
  /\ call[c].at = "reserve" /\ ~IsFree(c)
  /\ IF call[c].title[2] < MaxAttempts
     THEN call' = [call EXCEPT ![c].title = NextTitle(c)]
     ELSE Answer(c, FALSE)
  /\ UNCHANGED <<db, faults>>

(* CreateWorkspace: the name, by a conditional insert as well.               *)
Named(c) == db.names[Base(c)] = None

\* Mutant: the name is written whoever has it.
NamedAlways(c) == TRUE

IsNameFree(c) == Named(c)

ReserveName(c) ==
  /\ call[c].at = "name"
  /\ IF IsNameFree(c)
     THEN /\ db' = [db EXCEPT !.names[Base(c)] = c]
          /\ GoTo(c, "row")
     ELSE Answer(c, FALSE) /\ UNCHANGED db
  /\ UNCHANGED faults

-----------------------------------------------------------------------------
(* The statements that follow, what each writes, and where a call goes when  *)
(* it worked and when it did not: the rows by id and the titles of boards    *)
(* are only logged, and a workspace is taken back from the last insert on.   *)
Plain == {"insert", "byId", "byTitle", "row", "member", "view",
          "undoMember", "undoRow", "undoName"}

Written(c) ==
  CASE call[c].at = "insert"     -> [db EXCEPT !.listed = @ \cup {c}]
    [] call[c].at = "byId"       -> [db EXCEPT !.byId = @ \cup {c}]
    [] call[c].at = "byTitle"    -> [db EXCEPT !.titles[TitleKey(c)] = c]
    [] call[c].at = "row"        -> [db EXCEPT !.rows = @ \cup {c}]
    [] call[c].at = "member"     -> [db EXCEPT !.members = @ \cup {c}]
    [] call[c].at = "view"       -> [db EXCEPT !.view = @ \cup {c}]
    [] call[c].at = "undoMember" -> [db EXCEPT !.members = @ \ {c}]
    [] call[c].at = "undoRow"    -> [db EXCEPT !.rows = @ \ {c}]
    [] call[c].at = "undoName"   -> [db EXCEPT !.names[Base(c)] = None]

AfterSuccess(c) ==
  CASE call[c].at = "insert"     -> "byId"
    [] call[c].at = "byId"       ->
         IF call[c].op = "board" THEN "byTitle" ELSE "answered"
    [] call[c].at = "row"        -> "member"
    [] call[c].at = "member"     -> "view"
    [] call[c].at = "undoMember" -> "undoRow"
    [] call[c].at = "undoRow"    -> "undoName"
    [] OTHER                     -> "answered"

AfterFailure(c) ==
  CASE call[c].at = "row"  -> "undoName"
    [] call[c].at = "view" -> "undoMember"
    [] call[c].at \in {"insert", "member"} -> "answered"
    [] OTHER -> AfterSuccess(c)

Undoing == {"undoMember", "undoRow", "undoName"}

Execute(c) ==
  /\ call[c].at \in Plain
  /\ db' = Written(c)
  /\ IF AfterSuccess(c) = "answered"
     THEN Answer(c, call[c].at \notin Undoing)
     ELSE GoTo(c, AfterSuccess(c))
  /\ UNCHANGED faults

(* A statement that fails may have been applied all the same.                *)
Fault == faults < MaxFaults /\ faults' = faults + 1

ExecuteFails(c) ==
  /\ call[c].at \in Plain
  /\ Fault
  /\ db' \in {db, Written(c)}
  /\ IF AfterFailure(c) = "answered"
     THEN Answer(c, call[c].at \in {"byId", "byTitle"})
     ELSE GoTo(c, AfterFailure(c))

Reserved(c) ==
  CASE call[c].at = "reserve" /\ IsFree(c) ->
         [db EXCEPT !.titles[TitleKey(c)] = c]
    [] call[c].at = "name" /\ IsNameFree(c) -> [db EXCEPT !.names[Base(c)] = c]
    [] OTHER -> db

ReservationFails(c) ==
  /\ call[c].at \in {"reserve", "name"}
  /\ Fault
  /\ db' \in {db, Reserved(c)}
  /\ Answer(c, FALSE)

(* The answer gets lost on its way.                                          *)
AnswerLost(c) ==
  /\ call[c].at = "answered" /\ call[c].ok
  /\ Fault
  /\ Answer(c, FALSE)
  /\ UNCHANGED db

Serve(c) ==
  \/ CheckAccess(c) \/ Reserve(c) \/ Retitle(c) \/ ReserveName(c)
  \/ Execute(c) \/ ExecuteFails(c) \/ ReservationFails(c) \/ AnswerLost(c)

(* ListMyWorkspaces: both tables of members, and the rows they lead to. A    *)
(* membership that only the first one has is copied to the second.           *)
Listing(u) ==
  Homes \cup {w \in (db.view \cup db.members) \cap db.rows : call[w].by = u}

Backfilled(u) ==
  [db EXCEPT !.view = @ \cup {w \in db.members : call[w].by = u}]

CatalogueTypeOK ==
  /\ call \in [Calls -> CallRecord]
  /\ db \in Tables
  /\ faults \in 0..MaxFaults
=============================================================================
