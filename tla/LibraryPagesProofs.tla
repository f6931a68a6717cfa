-------------------------- MODULE LibraryPagesProofs --------------------------
(***************************************************************************)
(* Proofs about the catalogue and the browser over it: types, that created   *)
(* workspaces have names of their own, and that the link to a note leads to  *)
(* it or to one of another workspace, for any number of calls, names,        *)
(* attempts and failing statements.                                          *)
(***************************************************************************)
EXTENDS LibraryPages, TLAPS

-------------------------------------------------------------------------------
(* The inductive invariant of the catalogue *)

(* Where a call of each kind may be.                                          *)
Creating == {"row", "member", "view", "undoMember", "undoRow", "undoName"}
Path(op) ==
  CASE op = "unused"    -> {"unused"}
    [] op = "note"      -> {"sent", "reserve", "insert", "byId", "answered",
                            "done"}
    [] op = "board"     -> {"sent", "insert", "byId", "byTitle", "answered",
                            "done"}
    [] op = "workspace" -> {"name", "answered", "done"} \cup Creating

CallShape ==
  \A c \in Calls :
    /\ call[c].at \in Path(call[c].op)
    /\ call[c].op # "unused" => call[c].title \in Titles
    /\ call[c].op \in Papers => call[c].space \in Spaces
    /\ call[c].ok => call[c].at \in {"answered", "done"}

(* What is in a table was put there by a call of its kind that got that far.  *)
Unplaced == {"unused", "sent", "reserve"}
TablesShape ==
  /\ \A c \in db.listed : call[c].op \in Papers /\ call[c].at \notin Unplaced
  /\ \A c \in db.members \cup db.view : call[c].op = "workspace"

(* A workspace has its name from the reservation until it is taken back.      *)
NameKept ==
  \A c \in Calls :
    call[c].op = "workspace" /\ (call[c].at \in Creating \/ call[c].ok)
      => db.names[Base(c)] = c

(* The entry of a title belongs to a call with that title, which passed the   *)
(* reservation; a note that did has its entry for good.                       *)
TitleOwned ==
  \A k \in TitleKeys, c \in Calls : db.titles[k] = c =>
    TitleKey(c) = k /\ call[c].at \notin Unplaced

Placed(c) == \/ call[c].at \in {"insert", "byId"}
             \/ call[c].ok
             \/ c \in db.listed

TitleKept ==
  \A c \in Calls :
    call[c].op = "note" /\ Placed(c) => db.titles[TitleKey(c)] = c

(* Whoever makes a note or a board is a member of its workspace.              *)
AccessChecked ==
  \A c \in Calls :
    /\ call[c].op \in Papers
    /\ call[c].at \in {"reserve", "insert", "byId", "byTitle"} \/ call[c].ok
    => call[c].space \in SpacesOf(call[c].by)

CatalogueInv ==
  /\ CatalogueTypeOK /\ CallShape /\ TablesShape
  /\ NameKept /\ TitleOwned /\ TitleKept /\ AccessChecked

(* What no step of the catalogue takes away from the pages.                   *)
Kept ==
  /\ db.listed \subseteq db.listed'
  /\ \A u \in Users : SpacesOf(u) \subseteq SpacesOf(u)'
  /\ \A c \in Calls : call[c].op # "unused" =>
       /\ call'[c].op = call[c].op /\ call'[c].space = call[c].space
       /\ call'[c].by = call[c].by

-------------------------------------------------------------------------------

LEMMA UnusedIsCall == Unused \in CallRecord
BY DEF Unused, CallRecord, Ops, Papers, Users, Stations, None

LEMMA NoTables ==
  [listed |-> {}, byId |-> {}, titles |-> [k \in TitleKeys |-> None],
   names |-> [n \in Names |-> None],
   rows |-> {}, members |-> {}, view |-> {}] \in Tables
BY DEF Tables

LEMMA CatalogueStarts == CatalogueInit => CatalogueInv
<1> SUFFICES ASSUME CatalogueInit PROVE CatalogueInv
  OBVIOUS
<1>1. CatalogueTypeOK
  BY UnusedIsCall, NoTables, FaultsAssumption DEF CatalogueInit, CatalogueTypeOK
<1>2. \A c \in Calls : call[c].op = "unused" /\ call[c].at = "unused"
                       /\ ~call[c].ok
  BY DEF CatalogueInit, Unused
<1>3. /\ db.listed = {} /\ db.members = {} /\ db.view = {}
      /\ \A k \in TitleKeys : db.titles[k] = None
  BY DEF CatalogueInit
<1>4. CallShape
  BY <1>2 DEF CallShape, Path, Papers
<1>5. TablesShape /\ NameKept /\ TitleOwned /\ TitleKept /\ AccessChecked
  BY <1>2, <1>3, NoneAssumption
  DEF TablesShape, NameKept, TitleOwned, TitleKept, AccessChecked, Papers
<1> QED
  BY <1>1, <1>4, <1>5 DEF CatalogueInv

(* A call is sent.                                                            *)
LEMMA SendKeeps ==
  ASSUME CatalogueInv, NEW c \in Calls, NEW op \in Ops \ {"unused"},
         NEW u \in Users, NEW w \in Spaces \cup {None}, NEW n \in Names,
         op \in Papers => w \in Spaces,
         Send(c, op, u, w, n), UNCHANGED <<db, faults>>
  PROVE  CatalogueInv' /\ Kept
<1> DEFINE station == IF op = "workspace" THEN "name" ELSE "sent"
<1> DEFINE new == [op |-> op, by |-> u, space |-> w, title |-> <<n, 1>>,
                   at |-> station, ok |-> FALSE]
<1>1. <<n, 1>> \in Titles
  BY AttemptsAssumption DEF Titles
<1>2. new \in CallRecord
  BY <1>1 DEF CallRecord, Stations
<1>3. call' = [call EXCEPT ![c] = new] /\ call[c] = Unused
  BY DEF Send
<1>4. /\ call'[c] = new
      /\ \A d \in Calls : d # c => call'[d] = call[d]
      /\ call[c].op = "unused" /\ call[c].at = "unused"
      /\ \A d \in Calls : call[d].op # "unused" => call'[d] = call[d]
  BY <1>3 DEF Unused, CatalogueInv, CatalogueTypeOK
<1>5. CatalogueTypeOK'
  BY <1>2, <1>3 DEF CatalogueInv, CatalogueTypeOK
<1>6. new.op = op /\ new.at = station /\ new.title \in Titles
      /\ new.space = w /\ ~new.ok
  BY <1>1
<1>7. CallShape'
  <2>1. new.at \in Path(op)
    BY <1>6 DEF Path, Ops, Papers
  <2>2. ASSUME NEW d \in Calls, d # c
        PROVE  /\ call'[d].at \in Path(call'[d].op)
               /\ call'[d].op # "unused" => call'[d].title \in Titles
               /\ call'[d].op \in Papers => call'[d].space \in Spaces
               /\ call'[d].ok => call'[d].at \in {"answered", "done"}
    BY <2>2, <1>4 DEF CatalogueInv, CallShape
  <2> QED
    BY <2>1, <2>2, <1>4, <1>6 DEF CallShape
<1>8. TablesShape'
  BY <1>4 DEF CatalogueInv, TablesShape, CatalogueTypeOK, Tables, Papers
<1>9. NameKept'
  BY <1>4, <1>6 DEF CatalogueInv, NameKept, Creating, Base
<1>10. TitleOwned'
  <2> SUFFICES ASSUME NEW k \in TitleKeys, NEW d \in Calls, db.titles[k] = d
               PROVE  TitleKey(d)' = k /\ call'[d].at \notin Unplaced
    BY DEF TitleOwned
  <2>1. d # c
    BY <1>4 DEF CatalogueInv, TitleOwned, Unplaced
  <2> QED
    BY <2>1, <1>4 DEF CatalogueInv, TitleOwned, TitleKey
<1>11. TitleKept'
  <2>1. c \notin db.listed
    BY <1>4 DEF CatalogueInv, TablesShape, Papers
  <2>2. ~Placed(c)'
    BY <2>1, <1>4, <1>6 DEF Placed
  <2> QED
    BY <2>2, <1>4 DEF CatalogueInv, TitleKept, Placed, TitleKey
<1>12. \A v \in Users : SpacesOf(v)' = SpacesOf(v)
  <2>1. \A x \in db.view : x \in Calls /\ call'[x] = call[x]
    BY <1>4 DEF CatalogueInv, TablesShape, CatalogueTypeOK, Tables
  <2> QED
    BY <2>1 DEF SpacesOf
<1>13. AccessChecked'
  BY <1>4, <1>6, <1>12
  DEF CatalogueInv, AccessChecked, CatalogueTypeOK, CallRecord
<1>14. Kept
  BY <1>4, <1>12 DEF Kept
<1> QED
  BY <1>5, <1>7, <1>8, <1>9, <1>10, <1>11, <1>13, <1>14 DEF CatalogueInv

-------------------------------------------------------------------------------
(* The steps of a call *)

(* A step of c leaves the other calls alone, and what c is to make.           *)
Frame(c) ==
  /\ call' \in [Calls -> CallRecord]
  /\ \A d \in Calls : d # c => call'[d] = call[d]
  /\ call'[c].op = call[c].op /\ call'[c].by = call[c].by
  /\ call'[c].space = call[c].space /\ call'[c].title = call[c].title

LEMMA GoToFrame ==
  ASSUME CatalogueTypeOK, NEW c \in Calls, NEW s \in Stations, GoTo(c, s)
  PROVE  Frame(c) /\ call'[c].at = s /\ call'[c].ok = call[c].ok
<1>1. [call[c] EXCEPT !.at = s] \in CallRecord
  BY DEF CatalogueTypeOK, CallRecord
<1>2. call' = [call EXCEPT ![c] = [call[c] EXCEPT !.at = s]]
  BY DEF GoTo
<1> QED
  BY <1>1, <1>2 DEF CatalogueTypeOK, CallRecord, Frame

LEMMA AnswerFrame ==
  ASSUME CatalogueTypeOK, NEW c \in Calls, NEW ok \in BOOLEAN, Answer(c, ok)
  PROVE  Frame(c) /\ call'[c].at = "answered" /\ call'[c].ok = ok
<1>1. [call[c] EXCEPT !.at = "answered", !.ok = ok] \in CallRecord
  BY DEF CatalogueTypeOK, CallRecord, Stations
<1>2. call' = [call EXCEPT ![c] = [call[c] EXCEPT !.at = "answered", !.ok = ok]]
  BY DEF Answer, CatalogueTypeOK
<1> QED
  BY <1>1, <1>2 DEF CatalogueTypeOK, CallRecord, Frame

LEMMA FrameKeys ==
  ASSUME NEW c \in Calls, Frame(c)
  PROVE  \A d \in Calls : /\ Base(d)' = Base(d) /\ TitleKey(d)' = TitleKey(d)
                          /\ call'[d].op = call[d].op
                          /\ call'[d].by = call[d].by
                          /\ call'[d].space = call[d].space
BY DEF Frame, Base, TitleKey

(* What a statement after the reservation may do to the tables, whether it    *)
(* was applied or not, and where it leads.                                    *)
Effect(c) ==
  /\ db' \in Tables
  /\ db.listed \subseteq db'.listed
  /\ db'.listed \subseteq
       db.listed \cup (IF call[c].at = "insert" THEN {c} ELSE {})
  /\ db.view \subseteq db'.view
  /\ db'.view \subseteq db.view \cup (IF call[c].at = "view" THEN {c} ELSE {})
  /\ db'.members \subseteq
       db.members \cup (IF call[c].at = "member" THEN {c} ELSE {})
  /\ \A n \in Names : n # Base(c) => db'.names[n] = db.names[n]
  /\ call[c].at # "undoName" => db'.names = db.names
  /\ \/ db'.titles = db.titles
     \/ /\ call[c].at = "byTitle"
        /\ db'.titles = [db.titles EXCEPT ![TitleKey(c)] = c]

Onward(c) ==
  /\ Frame(c)
  /\ call'[c].at \in Path(call[c].op) \ (Unplaced \cup {"done"})
  /\ call'[c].at \in Creating => call[c].at # "undoName"
  /\ call'[c].ok => call'[c].at = "answered" /\ call[c].at \notin Undoing

LEMMA KeysExist ==
  ASSUME CatalogueInv, NEW c \in Calls, call[c].op # "unused"
  PROVE  /\ Base(c) \in Names
         /\ call[c].op \in Papers => TitleKey(c) \in TitleKeys
BY DEF CatalogueInv, CallShape, Base, TitleKey, Titles, TitleKeys

LEMMA PlainKind ==
  ASSUME CatalogueInv, NEW c \in Calls, call[c].at \in Plain
  PROVE  /\ call[c].op \in {"note", "board", "workspace"}
         /\ call[c].at \in {"insert", "byId"} => call[c].op \in Papers
         /\ call[c].at = "byTitle" => call[c].op = "board"
         /\ call[c].at \in Creating => call[c].op = "workspace"
         /\ ~call[c].ok
<1>1. call[c].op \in Ops /\ call[c].at \in Path(call[c].op)
  BY DEF CatalogueInv, CallShape, CatalogueTypeOK, CallRecord
<1>2. ~call[c].ok
  BY DEF CatalogueInv, CallShape, Plain
<1> QED
  BY <1>1, <1>2 DEF Path, Plain, Ops, Papers, Creating

LEMMA WrittenEffect ==
  ASSUME CatalogueInv, NEW c \in Calls, call[c].at \in Plain,
         db' \in {db, Written(c)}
  PROVE  Effect(c)
<1>1. db \in Tables
  BY DEF CatalogueInv, CatalogueTypeOK
<1>2. CASE db' = db
  BY <1>1, <1>2 DEF Effect
<1>3. CASE db' = Written(c)
  <2>1. Base(c) \in Names
    BY PlainKind, KeysExist
  <2>2. call[c].at = "byTitle" => TitleKey(c) \in TitleKeys
    BY PlainKind, KeysExist DEF Papers
  <2>3. CASE call[c].at = "insert"
    BY <1>1, <1>3, <2>3 DEF Written, Effect, Tables
  <2>4. CASE call[c].at = "byId"
    BY <1>1, <1>3, <2>4 DEF Written, Effect, Tables
  <2>5. CASE call[c].at = "byTitle"
    BY <1>1, <1>3, <2>2, <2>5 DEF Written, Effect, Tables
  <2>6. CASE call[c].at = "row"
    BY <1>1, <1>3, <2>6 DEF Written, Effect, Tables
  <2>7. CASE call[c].at = "member"
    BY <1>1, <1>3, <2>7 DEF Written, Effect, Tables
  <2>8. CASE call[c].at = "view"
    BY <1>1, <1>3, <2>8 DEF Written, Effect, Tables
  <2>9. CASE call[c].at = "undoMember"
    BY <1>1, <1>3, <2>9 DEF Written, Effect, Tables
  <2>10. CASE call[c].at = "undoRow"
    BY <1>1, <1>3, <2>10 DEF Written, Effect, Tables
  <2>11. CASE call[c].at = "undoName"
    BY <1>1, <1>3, <2>1, <2>11 DEF Written, Effect, Tables
  <2> QED
    BY <2>3, <2>4, <2>5, <2>6, <2>7, <2>8, <2>9, <2>10, <2>11 DEF Plain
<1> QED
  BY <1>2, <1>3

LEMMA ExecuteOnward ==
  ASSUME CatalogueInv, NEW c \in Calls, Execute(c) \/ ExecuteFails(c)
  PROVE  Onward(c)
<1>1. CatalogueTypeOK /\ call[c].at \in Plain
  BY DEF CatalogueInv, Execute, ExecuteFails
<1>2. /\ call[c].op \in {"note", "board", "workspace"}
      /\ call[c].at \in {"insert", "byId"} => call[c].op \in Papers
      /\ call[c].at = "byTitle" => call[c].op = "board"
      /\ call[c].at \in Creating => call[c].op = "workspace"
      /\ ~call[c].ok
  BY <1>1, PlainKind
<1>3. ASSUME NEW s \in {AfterSuccess(c), AfterFailure(c)}, s # "answered",
             GoTo(c, s)
      PROVE  Onward(c)
  <2>1. /\ s \in Path(call[c].op) \ (Unplaced \cup {"done"})
        /\ s \in Stations
        /\ call[c].at # "undoName"
    BY <1>1, <1>2, <1>3
    DEF AfterSuccess, AfterFailure, Path, Plain, Creating, Unplaced, Stations,
        Papers
  <2>2. Frame(c) /\ call'[c].at = s /\ call'[c].ok = call[c].ok
    BY <1>1, <1>3, <2>1, GoToFrame
  <2> QED
    BY <1>2, <2>1, <2>2 DEF Onward
<1>4. ASSUME NEW ok \in BOOLEAN, Answer(c, ok),
             ok => call[c].at \notin Undoing
      PROVE  Onward(c)
  <2>1. Frame(c) /\ call'[c].at = "answered" /\ call'[c].ok = ok
    BY <1>1, <1>4, AnswerFrame
  <2> QED
    BY <1>2, <1>4, <2>1 DEF Onward, Path, Unplaced, Creating, Papers
<1>5. CASE Execute(c)
  <2>1. CASE AfterSuccess(c) = "answered"
    <3>1. Answer(c, call[c].at \notin Undoing)
      BY <1>5, <2>1 DEF Execute
    <3> QED
      BY <1>4, <3>1
  <2>2. CASE AfterSuccess(c) # "answered"
    BY <1>3, <1>5, <2>2 DEF Execute
  <2> QED
    BY <2>1, <2>2
<1>6. CASE ExecuteFails(c)
  <2>1. CASE AfterFailure(c) = "answered"
    <3>1. Answer(c, call[c].at \in {"byId", "byTitle"})
      BY <1>6, <2>1 DEF ExecuteFails
    <3>2. /\ (call[c].at \in {"byId", "byTitle"}) \in BOOLEAN
          /\ call[c].at \in {"byId", "byTitle"} => call[c].at \notin Undoing
      BY DEF Undoing
    <3> QED
      BY <1>4, <3>1, <3>2
  <2>2. CASE AfterFailure(c) # "answered"
    BY <1>3, <1>6, <2>2 DEF ExecuteFails
  <2> QED
    BY <2>1, <2>2
<1> QED
  BY <1>5, <1>6

(* Such a step keeps the invariant.                                           *)
LEMMA OnwardKeeps ==
  ASSUME CatalogueInv, NEW c \in Calls, call[c].at \in Plain,
         Effect(c), Onward(c), faults' \in 0..MaxFaults
  PROVE  CatalogueInv' /\ Kept
<1>1. /\ call[c].op \in {"note", "board", "workspace"}
      /\ call[c].at \in {"insert", "byId"} => call[c].op \in Papers
      /\ call[c].at = "byTitle" => call[c].op = "board"
      /\ call[c].at \in Creating => call[c].op = "workspace"
      /\ ~call[c].ok
  BY PlainKind
<1>2. /\ call' \in [Calls -> CallRecord]
      /\ \A d \in Calls : d # c => call'[d] = call[d]
      /\ call'[c].op = call[c].op /\ call'[c].by = call[c].by
      /\ call'[c].space = call[c].space /\ call'[c].title = call[c].title
      /\ call'[c].at \in Path(call[c].op) \ (Unplaced \cup {"done"})
      /\ call'[c].at \in Creating => call[c].at # "undoName"
      /\ call'[c].ok => call'[c].at = "answered" /\ call[c].at \notin Undoing
  BY DEF Onward, Frame
<1>3. \A d \in Calls : /\ Base(d)' = Base(d) /\ TitleKey(d)' = TitleKey(d)
                       /\ call'[d].op = call[d].op
                       /\ call'[d].by = call[d].by
                       /\ call'[d].space = call[d].space
  BY FrameKeys DEF Onward
<1>4. db \in Tables /\ db' \in Tables
  BY DEF Effect, CatalogueInv, CatalogueTypeOK
<1>5. CatalogueTypeOK'
  BY <1>2, <1>4 DEF CatalogueTypeOK
<1>6. CallShape'
  BY <1>2 DEF CatalogueInv, CallShape
<1>7. TablesShape'
  <2>1. \A d \in db'.listed :
          d \in Calls /\ call'[d].op \in Papers /\ call'[d].at \notin Unplaced
    BY <1>1, <1>2, <1>4
    DEF Effect, CatalogueInv, TablesShape, Tables
  <2>2. \A d \in db'.members \cup db'.view : call'[d].op = "workspace"
    BY <1>1, <1>3, <1>4
    DEF Effect, CatalogueInv, TablesShape, Tables, Creating
  <2> QED
    BY <2>1, <2>2 DEF TablesShape
<1>8. NameKept'
  <2>1. ASSUME NEW d \in Calls, d # c, call[d].op = "workspace",
               call[d].at \in Creating \/ call[d].ok
        PROVE  db'.names[Base(d)] = d
    <3>1. db.names[Base(d)] = d
      BY <2>1 DEF CatalogueInv, NameKept
    <3>2. CASE call[c].at # "undoName"
      BY <3>1, <3>2 DEF Effect
    <3>3. CASE call[c].at = "undoName"
      <4>1. db.names[Base(c)] = c
        BY <1>1, <3>3 DEF CatalogueInv, NameKept, Creating
      <4>2. Base(d) # Base(c) /\ Base(d) \in Names
        BY <2>1, <3>1, <4>1, KeysExist
      <4> QED
        BY <3>1, <4>2 DEF Effect
    <3> QED
      BY <3>2, <3>3
  <2>2. ASSUME call[c].op = "workspace", call'[c].at \in Creating \/ call'[c].ok
        PROVE  db'.names[Base(c)] = c
    <3>1. call[c].at \in Creating /\ call[c].at # "undoName"
      BY <1>1, <1>2, <2>2 DEF Creating, Plain, Undoing, Papers
    <3>2. db.names[Base(c)] = c
      BY <2>2, <3>1 DEF CatalogueInv, NameKept
    <3> QED
      BY <3>1, <3>2 DEF Effect
  <2> QED
    BY <2>1, <2>2, <1>2, <1>3 DEF NameKept
<1>9. \A k \in TitleKeys :
        db'.titles[k] = db.titles[k]
          \/ (db'.titles[k] = c /\ TitleKey(c) = k /\ call[c].op = "board")
  BY <1>1, <1>4 DEF Effect, Tables
<1>10. TitleOwned'
  <2> SUFFICES ASSUME NEW k \in TitleKeys, NEW d \in Calls, db'.titles[k] = d
               PROVE  TitleKey(d)' = k /\ call'[d].at \notin Unplaced
    BY DEF TitleOwned
  <2>1. CASE db'.titles[k] = db.titles[k]
    <3>1. TitleKey(d) = k /\ call[d].at \notin Unplaced
      BY <2>1 DEF CatalogueInv, TitleOwned
    <3> QED
      BY <3>1, <1>2, <1>3
  <2>2. CASE db'.titles[k] = c /\ TitleKey(c) = k
    BY <2>2, <1>2, <1>3
  <2> QED
    BY <1>9, <2>1, <2>2
<1>11. TitleKept'
  <2> SUFFICES ASSUME NEW d \in Calls, call[d].op = "note", Placed(d)'
               PROVE  db'.titles[TitleKey(d)] = d
    BY <1>3 DEF TitleKept
  <2>1. Placed(d)
    <3>1. CASE d # c
      BY <1>2, <3>1 DEF Placed, Effect
    <3>2. CASE d = c
      <4>1. call[c].at \in {"insert", "byId"}
        BY <3>2, <1>1 DEF Plain, Creating, Undoing
      <4> QED
        BY <3>2, <4>1 DEF Placed
    <3> QED
      BY <3>1, <3>2
  <2>2. db.titles[TitleKey(d)] = d
    BY <2>1 DEF CatalogueInv, TitleKept
  <2>3. TitleKey(d) \in TitleKeys
    BY KeysExist DEF Papers
  <2>4. TitleKey(c) = TitleKey(d) => call[c].op = "note"
    BY DEF TitleKey
  <2> QED
    BY <1>9, <2>2, <2>3, <2>4
<1>12. \A u \in Users : SpacesOf(u) \subseteq SpacesOf(u)'
  BY <1>3, <1>4 DEF SpacesOf, Effect, Tables
<1>13. AccessChecked'
  <2> SUFFICES ASSUME NEW d \in Calls, call[d].op \in Papers,
                      \/ call'[d].at \in {"reserve", "insert", "byId", "byTitle"}
                      \/ call'[d].ok
               PROVE  call[d].space \in SpacesOf(call[d].by)'
    BY <1>3 DEF AccessChecked
  <2>1. \/ call[d].at \in {"reserve", "insert", "byId", "byTitle"}
        \/ call[d].ok
    BY <1>1, <1>2 DEF Plain, Creating, Undoing, Papers
  <2>2. call[d].space \in SpacesOf(call[d].by) /\ call[d].by \in Users
    BY <2>1 DEF CatalogueInv, AccessChecked, CatalogueTypeOK, CallRecord
  <2> QED
    BY <2>2, <1>12, <1>3
<1>14. Kept
  BY <1>3, <1>12 DEF Kept, Effect
<1> QED
  BY <1>5, <1>6, <1>7, <1>8, <1>10, <1>11, <1>13, <1>14 DEF CatalogueInv

-------------------------------------------------------------------------------
(* The other steps of a call *)

(* The tables stay, but for memberships copied to the table by user.          *)
Widened ==
  /\ db' \in Tables
  /\ db'.listed = db.listed /\ db'.members = db.members
  /\ db'.names = db.names /\ db'.titles = db.titles
  /\ db.view \subseteq db'.view /\ db'.view \subseteq db.view \cup db.members

LEMMA SameIsWidened ==
  ASSUME CatalogueInv, UNCHANGED db
  PROVE  Widened
BY DEF Widened, CatalogueInv, CatalogueTypeOK

LEMMA BackfilledIsWidened ==
  ASSUME CatalogueInv, NEW u \in Users, db' = Backfilled(u)
  PROVE  Widened
BY DEF Widened, CatalogueInv, CatalogueTypeOK, Backfilled, Tables

(* The list of workspaces is read while no call moves.                        *)
LEMMA WidenedKeeps ==
  ASSUME CatalogueInv, Widened, UNCHANGED <<call, faults>>
  PROVE  CatalogueInv' /\ Kept
<1>1. CatalogueTypeOK' /\ CallShape' /\ TablesShape'
  BY DEF Widened, CatalogueInv, CatalogueTypeOK, CallShape, TablesShape
<1>2. NameKept' /\ TitleOwned' /\ TitleKept'
  BY DEF Widened, CatalogueInv, NameKept, TitleOwned, TitleKept, Placed,
         TitleKey, Base
<1>3. \A u \in Users : SpacesOf(u) \subseteq SpacesOf(u)'
  BY DEF Widened, SpacesOf
<1>4. AccessChecked'
  BY <1>3 DEF CatalogueInv, AccessChecked, CatalogueTypeOK, CallRecord
<1>5. Kept
  BY <1>3 DEF Kept, Widened
<1> QED
  BY <1>1, <1>2, <1>4, <1>5 DEF CatalogueInv

(* A call is refused, loses its answer, or has it taken by the page.          *)
LEMMA EndKeeps ==
  ASSUME CatalogueInv, Widened, NEW c \in Calls, Frame(c),
         call[c].op # "unused", call'[c].at \in {"answered", "done"},
         call'[c].ok => call[c].ok, faults' \in 0..MaxFaults
  PROVE  CatalogueInv' /\ Kept
<1>1. /\ call' \in [Calls -> CallRecord]
      /\ \A d \in Calls : d # c => call'[d] = call[d]
      /\ call'[c].op = call[c].op /\ call'[c].title = call[c].title
      /\ call'[c].space = call[c].space /\ call'[c].by = call[c].by
  BY DEF Frame
<1>2. \A d \in Calls : /\ Base(d)' = Base(d) /\ TitleKey(d)' = TitleKey(d)
                       /\ call'[d].op = call[d].op
                       /\ call'[d].by = call[d].by
                       /\ call'[d].space = call[d].space
  BY FrameKeys
<1>3. CatalogueTypeOK'
  BY <1>1 DEF CatalogueTypeOK, Widened
<1>4. CallShape'
  <2>1. call[c].op \in {"note", "board", "workspace"}
    BY DEF CatalogueInv, CatalogueTypeOK, CallRecord, Ops, Papers
  <2>2. call'[c].at \in Path(call[c].op)
    BY <2>1 DEF Path
  <2> QED
    BY <2>2, <1>1 DEF CatalogueInv, CallShape
<1>5. TablesShape'
  BY <1>1, <1>2
  DEF CatalogueInv, TablesShape, Widened, Unplaced, CatalogueTypeOK, Tables
<1>6. NameKept'
  BY <1>1, <1>2 DEF CatalogueInv, NameKept, Widened, Creating
<1>7. TitleOwned'
  <2> SUFFICES ASSUME NEW k \in TitleKeys, NEW d \in Calls, db.titles[k] = d
               PROVE  TitleKey(d)' = k /\ call'[d].at \notin Unplaced
    BY DEF TitleOwned, Widened
  <2> QED
    BY <1>1, <1>2 DEF CatalogueInv, TitleOwned, Unplaced
<1>8. TitleKept'
  <2>1. \A d \in Calls : Placed(d)' => Placed(d)
    BY <1>1 DEF Placed, Widened
  <2> QED
    BY <2>1, <1>2 DEF CatalogueInv, TitleKept, Widened
<1>9. \A u \in Users : SpacesOf(u) \subseteq SpacesOf(u)'
  BY <1>2 DEF Widened, SpacesOf, CatalogueInv, CatalogueTypeOK, Tables
<1>10. AccessChecked'
  <2>1. \A d \in Calls :
          \/ call'[d].at \in {"reserve", "insert", "byId", "byTitle"}
          \/ call'[d].ok
          => \/ call[d].at \in {"reserve", "insert", "byId", "byTitle"}
             \/ call[d].ok
    BY <1>1
  <2>2. \A d \in Calls : call[d].by \in Users
    BY DEF CatalogueInv, CatalogueTypeOK, CallRecord
  <2> QED
    BY <2>1, <2>2, <1>2, <1>9 DEF CatalogueInv, AccessChecked
<1>11. Kept
  BY <1>2, <1>9 DEF Kept, Widened
<1> QED
  BY <1>3, <1>4, <1>5, <1>6, <1>7, <1>8, <1>10, <1>11 DEF CatalogueInv

(* The access check lets a call go on.                                        *)
LEMMA GrantKeeps ==
  ASSUME CatalogueInv, NEW c \in Calls, Frame(c), UNCHANGED <<db, faults>>,
         call[c].at = "sent", call[c].space \in SpacesOf(call[c].by),
         call'[c].at = IF call[c].op = "note" THEN "reserve" ELSE "insert",
         call'[c].ok = call[c].ok
  PROVE  CatalogueInv' /\ Kept
<1>1. /\ call' \in [Calls -> CallRecord]
      /\ \A d \in Calls : d # c => call'[d] = call[d]
      /\ call'[c].op = call[c].op /\ call'[c].title = call[c].title
      /\ call'[c].space = call[c].space /\ call'[c].by = call[c].by
  BY DEF Frame
<1>2. \A d \in Calls : /\ Base(d)' = Base(d) /\ TitleKey(d)' = TitleKey(d)
                       /\ call'[d].op = call[d].op
                       /\ call'[d].by = call[d].by
                       /\ call'[d].space = call[d].space
  BY FrameKeys
<1>3. call[c].op \in Papers /\ ~call[c].ok /\ ~call'[c].ok
  <2>1. call[c].op \in Ops /\ call[c].at \in Path(call[c].op)
    BY DEF CatalogueInv, CallShape, CatalogueTypeOK, CallRecord
  <2>2. call[c].op \in Papers
    BY <2>1 DEF Path, Ops, Papers, Creating
  <2>3. ~call[c].ok
    BY DEF CatalogueInv, CallShape
  <2> QED
    BY <2>2, <2>3
<1>4. CatalogueTypeOK'
  BY <1>1 DEF CatalogueInv, CatalogueTypeOK
<1>5. CallShape'
  BY <1>1, <1>3 DEF CatalogueInv, CallShape, Path, Papers
<1>6. c \notin db.listed
  BY DEF CatalogueInv, TablesShape, Unplaced
<1>7. TablesShape'
  BY <1>1, <1>2, <1>6 DEF CatalogueInv, TablesShape, CatalogueTypeOK, Tables
<1>8. NameKept'
  BY <1>1, <1>2, <1>3 DEF CatalogueInv, NameKept, Papers
<1>9. TitleOwned'
  <2> SUFFICES ASSUME NEW k \in TitleKeys, NEW d \in Calls, db.titles[k] = d
               PROVE  TitleKey(d)' = k /\ call'[d].at \notin Unplaced
    BY DEF TitleOwned
  <2>1. d # c
    BY DEF CatalogueInv, TitleOwned, Unplaced
  <2> QED
    BY <2>1, <1>1, <1>2 DEF CatalogueInv, TitleOwned
<1>10. TitleKept'
  <2>1. \A d \in Calls : call[d].op = "note" /\ Placed(d)' => Placed(d)
    BY <1>1, <1>3, <1>6 DEF Placed
  <2> QED
    BY <2>1, <1>2 DEF CatalogueInv, TitleKept
<1>11. \A u \in Users : SpacesOf(u)' = SpacesOf(u)
  BY <1>2 DEF SpacesOf, CatalogueInv, CatalogueTypeOK, Tables
<1>12. AccessChecked'
  <2>1. \A d \in Calls : call[d].by \in Users
    BY DEF CatalogueInv, CatalogueTypeOK, CallRecord
  <2> QED
    BY <2>1, <1>1, <1>2, <1>11 DEF CatalogueInv, AccessChecked
<1>13. Kept
  BY <1>2, <1>11 DEF Kept
<1> QED
  BY <1>4, <1>5, <1>7, <1>8, <1>9, <1>10, <1>12, <1>13 DEF CatalogueInv

(* The title is written, whether the call hears of it or not.                 *)
LEMMA ReserveKeeps ==
  ASSUME CatalogueInv, NEW c \in Calls, Frame(c), faults' \in 0..MaxFaults,
         call[c].at = "reserve", IsFree(c),
         db' = [db EXCEPT !.titles[TitleKey(c)] = c],
         call'[c].at \in {"insert", "answered"}, ~call'[c].ok
  PROVE  CatalogueInv' /\ Kept
<1>1. /\ call' \in [Calls -> CallRecord]
      /\ \A d \in Calls : d # c => call'[d] = call[d]
      /\ call'[c].op = call[c].op /\ call'[c].title = call[c].title
      /\ call'[c].space = call[c].space /\ call'[c].by = call[c].by
  BY DEF Frame
<1>2. \A d \in Calls : /\ Base(d)' = Base(d) /\ TitleKey(d)' = TitleKey(d)
                       /\ call'[d].op = call[d].op
                       /\ call'[d].by = call[d].by
                       /\ call'[d].space = call[d].space
  BY FrameKeys
<1>3. call[c].op = "note"
  <2>1. call[c].op \in Ops /\ call[c].at \in Path(call[c].op)
    BY DEF CatalogueInv, CallShape, CatalogueTypeOK, CallRecord
  <2> QED
    BY <2>1 DEF Path, Ops, Papers, Creating
<1>4. TitleKey(c) \in TitleKeys /\ db.titles[TitleKey(c)] = None
  BY <1>3, KeysExist DEF IsFree, Free, Papers
<1>5. /\ db \in Tables /\ db' \in Tables
      /\ db'.listed = db.listed /\ db'.members = db.members
      /\ db'.view = db.view /\ db'.names = db.names
      /\ db'.titles = [db.titles EXCEPT ![TitleKey(c)] = c]
  BY <1>4 DEF CatalogueInv, CatalogueTypeOK, Tables
<1>6. db'.titles[TitleKey(c)] = c
      /\ \A k \in TitleKeys : k # TitleKey(c) => db'.titles[k] = db.titles[k]
  BY <1>4, <1>5 DEF Tables
<1>7. CatalogueTypeOK'
  BY <1>1, <1>5 DEF CatalogueTypeOK
<1>8. CallShape'
  BY <1>1, <1>3 DEF CatalogueInv, CallShape, Path, Papers
<1>9. c \notin db.listed
  BY DEF CatalogueInv, TablesShape, Unplaced
<1>10. TablesShape'
  BY <1>1, <1>2, <1>5, <1>9 DEF CatalogueInv, TablesShape, Tables
<1>11. NameKept'
  BY <1>1, <1>2, <1>3, <1>5 DEF CatalogueInv, NameKept
<1>12. TitleOwned'
  <2> SUFFICES ASSUME NEW k \in TitleKeys, NEW d \in Calls, db'.titles[k] = d
               PROVE  TitleKey(d)' = k /\ call'[d].at \notin Unplaced
    BY DEF TitleOwned
  <2>1. CASE k = TitleKey(c)
    BY <2>1, <1>1, <1>2, <1>6 DEF Unplaced
  <2>2. CASE k # TitleKey(c)
    <3>1. TitleKey(d) = k /\ call[d].at \notin Unplaced
      BY <2>2, <1>6 DEF CatalogueInv, TitleOwned
    <3> QED
      BY <2>2, <3>1, <1>1, <1>2
  <2> QED
    BY <2>1, <2>2
<1>13. TitleKept'
  <2> SUFFICES ASSUME NEW d \in Calls, call[d].op = "note", Placed(d)'
               PROVE  db'.titles[TitleKey(d)] = d
    BY <1>2 DEF TitleKept
  <2>1. CASE d = c
    BY <2>1, <1>6
  <2>2. CASE d # c
    <3>1. db.titles[TitleKey(d)] = d
      BY <2>2, <1>1, <1>5 DEF CatalogueInv, TitleKept, Placed
    <3>2. TitleKey(d) # TitleKey(c) /\ TitleKey(d) \in TitleKeys
      BY <1>4, <3>1, NoneAssumption, KeysExist DEF Papers
    <3> QED
      BY <3>1, <3>2, <1>6
  <2> QED
    BY <2>1, <2>2
<1>14. \A u \in Users : SpacesOf(u)' = SpacesOf(u)
  BY <1>2, <1>5 DEF SpacesOf, Tables
<1>15. AccessChecked'
  <2>1. \A d \in Calls : call[d].by \in Users
    BY DEF CatalogueInv, CatalogueTypeOK, CallRecord
  <2> QED
    BY <2>1, <1>1, <1>2, <1>14 DEF CatalogueInv, AccessChecked
<1>16. Kept
  BY <1>2, <1>5, <1>14 DEF Kept
<1> QED
  BY <1>7, <1>8, <1>10, <1>11, <1>12, <1>13, <1>15, <1>16 DEF CatalogueInv

(* So is the name of a workspace.                                             *)
LEMMA NameKeeps ==
  ASSUME CatalogueInv, NEW c \in Calls, Frame(c), faults' \in 0..MaxFaults,
         call[c].at = "name", IsNameFree(c),
         db' = [db EXCEPT !.names[Base(c)] = c],
         call'[c].at \in {"row", "answered"}, ~call'[c].ok
  PROVE  CatalogueInv' /\ Kept
<1>1. /\ call' \in [Calls -> CallRecord]
      /\ \A d \in Calls : d # c => call'[d] = call[d]
      /\ call'[c].op = call[c].op /\ call'[c].title = call[c].title
      /\ call'[c].space = call[c].space /\ call'[c].by = call[c].by
  BY DEF Frame
<1>2. \A d \in Calls : /\ Base(d)' = Base(d) /\ TitleKey(d)' = TitleKey(d)
                       /\ call'[d].op = call[d].op
                       /\ call'[d].by = call[d].by
                       /\ call'[d].space = call[d].space
  BY FrameKeys
<1>3. call[c].op = "workspace"
  <2>1. call[c].op \in Ops /\ call[c].at \in Path(call[c].op)
    BY DEF CatalogueInv, CallShape, CatalogueTypeOK, CallRecord
  <2> QED
    BY <2>1 DEF Path, Ops, Papers, Creating
<1>4. Base(c) \in Names /\ db.names[Base(c)] = None
  BY <1>3, KeysExist DEF IsNameFree, Named
<1>5. /\ db \in Tables /\ db' \in Tables
      /\ db'.listed = db.listed /\ db'.members = db.members
      /\ db'.view = db.view /\ db'.titles = db.titles
      /\ db'.names = [db.names EXCEPT ![Base(c)] = c]
  BY <1>4 DEF CatalogueInv, CatalogueTypeOK, Tables
<1>6. CatalogueTypeOK'
  BY <1>1, <1>5 DEF CatalogueTypeOK
<1>7. CallShape'
  BY <1>1, <1>3 DEF CatalogueInv, CallShape, Path, Papers, Creating
<1>8. c \notin db.listed
  BY <1>3 DEF CatalogueInv, TablesShape, Papers
<1>9. TablesShape'
  BY <1>1, <1>2, <1>5, <1>8 DEF CatalogueInv, TablesShape, Tables
<1>10. NameKept'
  <2> SUFFICES ASSUME NEW d \in Calls, call[d].op = "workspace",
                      call'[d].at \in Creating \/ call'[d].ok
               PROVE  db'.names[Base(d)] = d
    BY <1>2 DEF NameKept
  <2>1. CASE d = c
    BY <2>1, <1>4, <1>5 DEF Tables
  <2>2. CASE d # c
    <3>1. db.names[Base(d)] = d
      BY <2>2, <1>1 DEF CatalogueInv, NameKept
    <3>2. Base(d) # Base(c) /\ Base(d) \in Names
      BY <1>4, <3>1, NoneAssumption, KeysExist
    <3> QED
      BY <3>1, <3>2, <1>5 DEF Tables
  <2> QED
    BY <2>1, <2>2
<1>11. TitleOwned'
  <2> SUFFICES ASSUME NEW k \in TitleKeys, NEW d \in Calls, db.titles[k] = d
               PROVE  TitleKey(d)' = k /\ call'[d].at \notin Unplaced
    BY <1>5 DEF TitleOwned
  <2> QED
    BY <1>1, <1>2 DEF CatalogueInv, TitleOwned, Unplaced
<1>12. TitleKept'
  BY <1>1, <1>2, <1>3, <1>5 DEF CatalogueInv, TitleKept, Placed
<1>13. \A u \in Users : SpacesOf(u)' = SpacesOf(u)
  BY <1>2, <1>5 DEF SpacesOf, Tables
<1>14. AccessChecked'
  <2>1. \A d \in Calls : call[d].by \in Users
    BY DEF CatalogueInv, CatalogueTypeOK, CallRecord
  <2> QED
    BY <2>1, <1>1, <1>2, <1>3, <1>13 DEF CatalogueInv, AccessChecked, Papers
<1>15. Kept
  BY <1>2, <1>5, <1>13 DEF Kept
<1> QED
  BY <1>6, <1>7, <1>9, <1>10, <1>11, <1>12, <1>14, <1>15 DEF CatalogueInv

(* The next number is tried.                                                  *)
LEMMA RetitleKeeps ==
  ASSUME CatalogueInv, NEW c \in Calls, UNCHANGED <<db, faults>>,
         call[c].at = "reserve", call[c].title[2] < MaxAttempts,
         call' = [call EXCEPT ![c].title = NextTitle(c)]
  PROVE  CatalogueInv' /\ Kept
<1> DEFINE new == [call[c] EXCEPT !.title = NextTitle(c)]
<1>1. call[c].op = "note"
  <2>1. call[c].op \in Ops /\ call[c].at \in Path(call[c].op)
    BY DEF CatalogueInv, CallShape, CatalogueTypeOK, CallRecord
  <2> QED
    BY <2>1 DEF Path, Ops, Papers, Creating
<1>2. NextTitle(c) \in Titles
  <2>1. call[c].title \in Titles
    BY <1>1 DEF CatalogueInv, CallShape
  <2> QED
    BY <2>1, AttemptsAssumption DEF Titles, NextTitle, Base
<1>3. new \in CallRecord
  BY <1>2 DEF CatalogueInv, CatalogueTypeOK, CallRecord
<1>4. /\ call' = [call EXCEPT ![c] = new]
      /\ call \in [Calls -> CallRecord]
  BY DEF CatalogueInv, CatalogueTypeOK
<1>5. /\ call' \in [Calls -> CallRecord]
      /\ \A d \in Calls : d # c => call'[d] = call[d]
      /\ call'[c].at = "reserve" /\ call'[c].title = NextTitle(c)
      /\ \A d \in Calls : /\ call'[d].op = call[d].op
                          /\ call'[d].by = call[d].by
                          /\ call'[d].space = call[d].space
                          /\ call'[d].at = call[d].at
                          /\ call'[d].ok = call[d].ok
  BY <1>3, <1>4 DEF CallRecord
<1>6. CatalogueTypeOK'
  BY <1>5 DEF CatalogueInv, CatalogueTypeOK
<1>7. CallShape'
  BY <1>2, <1>5 DEF CatalogueInv, CallShape
<1>8. TablesShape' /\ c \notin db.listed
  BY <1>5 DEF CatalogueInv, TablesShape, CatalogueTypeOK, Tables, Unplaced
<1>9. NameKept'
  BY <1>1, <1>5 DEF CatalogueInv, NameKept, Base
<1>10. TitleOwned'
  <2> SUFFICES ASSUME NEW k \in TitleKeys, NEW d \in Calls, db.titles[k] = d
               PROVE  TitleKey(d)' = k /\ call'[d].at \notin Unplaced
    BY DEF TitleOwned
  <2>1. d # c
    BY DEF CatalogueInv, TitleOwned, Unplaced
  <2> QED
    BY <2>1, <1>5 DEF CatalogueInv, TitleOwned, TitleKey
<1>11. TitleKept'
  <2>1. ~call[c].ok
    BY DEF CatalogueInv, CallShape
  <2>2. ~Placed(c)'
    BY <2>1, <1>5, <1>8 DEF Placed
  <2> QED
    BY <2>2, <1>5 DEF CatalogueInv, TitleKept, Placed, TitleKey
<1>12. \A u \in Users : SpacesOf(u)' = SpacesOf(u)
  BY <1>5 DEF SpacesOf, CatalogueInv, CatalogueTypeOK, Tables
<1>13. AccessChecked'
  <2>1. \A d \in Calls : call[d].by \in Users
    BY DEF CatalogueInv, CatalogueTypeOK, CallRecord
  <2> QED
    BY <2>1, <1>5, <1>12 DEF CatalogueInv, AccessChecked
<1>14. Kept
  BY <1>5, <1>12 DEF Kept
<1> QED
  BY <1>6, <1>7, <1>8, <1>9, <1>10, <1>11, <1>13, <1>14 DEF CatalogueInv

LEMMA KindAt ==
  ASSUME CatalogueInv, NEW c \in Calls
  PROVE  /\ call[c].at # "unused" <=> call[c].op # "unused"
         /\ call[c].at = "sent" => call[c].op \in Papers
BY DEF CatalogueInv, CallShape, CatalogueTypeOK, CallRecord, Ops, Papers, Path,
       Creating

(* A call whose answer is no, with the tables as they are.                    *)
LEMMA RefusedKeeps ==
  ASSUME CatalogueInv, NEW c \in Calls, Answer(c, FALSE), UNCHANGED db,
         faults' \in 0..MaxFaults, call[c].at # "unused"
  PROVE  CatalogueInv' /\ Kept
<1>1. Frame(c) /\ call'[c].at = "answered" /\ call'[c].ok = FALSE
  BY AnswerFrame DEF CatalogueInv
<1> QED
  BY <1>1, SameIsWidened, KindAt, EndKeeps

LEMMA ServeKeeps ==
  ASSUME CatalogueInv, NEW c \in Calls, Serve(c)
  PROVE  CatalogueInv' /\ Kept
<1>1. CatalogueTypeOK /\ faults \in 0..MaxFaults
  BY DEF CatalogueInv, CatalogueTypeOK
<1>2. Fault => faults' \in 0..MaxFaults
  BY <1>1, FaultsAssumption DEF Fault
<1>3. CASE CheckAccess(c)
  <2>1. CASE call[c].space \in SpacesOf(call[c].by)
    <3> DEFINE s == IF call[c].op = "note" THEN "reserve" ELSE "insert"
    <3>1. GoTo(c, s) /\ s \in Stations
      BY <1>3, <2>1 DEF CheckAccess, Stations
    <3>2. Frame(c) /\ call'[c].at = s /\ call'[c].ok = call[c].ok
      BY <1>1, <3>1, GoToFrame
    <3> QED
      BY <1>3, <2>1, <3>2, GrantKeeps DEF CheckAccess
  <2>2. CASE call[c].space \notin SpacesOf(call[c].by)
    BY <1>1, <1>3, <2>2, RefusedKeeps DEF CheckAccess
  <2> QED
    BY <2>1, <2>2
<1>4. CASE Reserve(c)
  <2>1. Frame(c) /\ call'[c].at = "insert" /\ call'[c].ok = call[c].ok
    BY <1>1, <1>4, GoToFrame DEF Reserve, Stations
  <2>2. ~call[c].ok
    BY <1>4 DEF Reserve, CatalogueInv, CallShape
  <2> QED
    BY <1>1, <1>4, <2>1, <2>2, ReserveKeeps DEF Reserve
<1>5. CASE Retitle(c)
  <2>1. CASE call[c].title[2] < MaxAttempts
    BY <1>5, <2>1, RetitleKeeps DEF Retitle
  <2>2. CASE ~(call[c].title[2] < MaxAttempts)
    BY <1>1, <1>5, <2>2, RefusedKeeps DEF Retitle
  <2> QED
    BY <2>1, <2>2
<1>6. CASE ReserveName(c)
  <2>1. CASE IsNameFree(c)
    <3>1. Frame(c) /\ call'[c].at = "row" /\ call'[c].ok = call[c].ok
      BY <1>1, <1>6, <2>1, GoToFrame DEF ReserveName, Stations
    <3>2. ~call[c].ok
      BY <1>6 DEF ReserveName, CatalogueInv, CallShape
    <3> QED
      BY <1>1, <1>6, <2>1, <3>1, <3>2, NameKeeps DEF ReserveName
  <2>2. CASE ~IsNameFree(c)
    BY <1>1, <1>6, <2>2, RefusedKeeps DEF ReserveName
  <2> QED
    BY <2>1, <2>2
<1>7. CASE Execute(c)
  <2>1. call[c].at \in Plain /\ db' \in {db, Written(c)} /\ UNCHANGED faults
    BY <1>7 DEF Execute
  <2> QED
    BY <1>1, <1>7, <2>1, WrittenEffect, ExecuteOnward, OnwardKeeps
<1>8. CASE ExecuteFails(c)
  <2>1. call[c].at \in Plain /\ db' \in {db, Written(c)} /\ Fault
    BY <1>8 DEF ExecuteFails
  <2> QED
    BY <1>2, <1>8, <2>1, WrittenEffect, ExecuteOnward, OnwardKeeps
<1>9. CASE ReservationFails(c)
  <2>1. /\ call[c].at \in {"reserve", "name"} /\ faults' \in 0..MaxFaults
        /\ Answer(c, FALSE)
    BY <1>2, <1>9 DEF ReservationFails
  <2>2. Frame(c) /\ call'[c].at = "answered" /\ ~call'[c].ok
    BY <1>1, <2>1, AnswerFrame
  <2>3. CASE db' = db
    BY <2>1, <2>3, RefusedKeeps
  <2>4. CASE call[c].at = "reserve" /\ IsFree(c) /\ db' = Reserved(c)
    <3>1. db' = [db EXCEPT !.titles[TitleKey(c)] = c]
      BY <2>4 DEF Reserved
    <3> QED
      BY <2>1, <2>2, <2>4, <3>1, ReserveKeeps
  <2>5. CASE call[c].at = "name" /\ IsNameFree(c) /\ db' = Reserved(c)
    <3>1. db' = [db EXCEPT !.names[Base(c)] = c]
      BY <2>5 DEF Reserved
    <3> QED
      BY <2>1, <2>2, <2>5, <3>1, NameKeeps
  <2> QED
    BY <1>9, <2>1, <2>3, <2>4, <2>5 DEF ReservationFails, Reserved
<1>10. CASE AnswerLost(c)
  BY <1>2, <1>10, RefusedKeeps DEF AnswerLost
<1> QED
  BY <1>3, <1>4, <1>5, <1>6, <1>7, <1>8, <1>9, <1>10 DEF Serve

-------------------------------------------------------------------------------
(* The pages *)

PageTypeOK ==
  /\ moves \in 0..MaxMoves
  /\ route \in Routes
  /\ tab \in Papers
  /\ shelf \in [Papers -> SUBSET Calls]
  /\ asked \subseteq Calls
  /\ picker \in Pickers
  /\ options \in SUBSET Spaces

(* The page of a workspace that loaded is that of one; the page of a note     *)
(* holds what its title was owned by when it was opened.                      *)
RouteSound ==
  /\ route.page = "space" /\ route.loaded => route.space \in Spaces
  /\ route.page = "note" =>
       /\ route.found \in Calls /\ call[route.found].op # "unused"
       /\ call[route.link].op # "unused"
       /\ route.found # route.link =>
            call[route.found].space # call[route.link].space

(* The library shows what is listed in a workspace of the user.               *)
ShelfSound ==
  \A kind \in Papers : \A c \in shelf[kind] :
    c \in db.listed /\ call[c].op = kind /\ call[c].space \in SpacesOf("me")

PagesInv == CatalogueInv /\ PageTypeOK /\ RouteSound /\ ShelfSound

LEMMA RoutesCases ==
  ASSUME route \in Routes
  PROVE  /\ route.page = "space" => /\ route.space \in Spaces \cup Names
                                   /\ route.loaded \in BOOLEAN
         /\ route.page \in Papers => /\ route.link \in Calls
                                     /\ route.found \in Calls \cup {None}
         /\ route.page \in Papers \cup {"space"}
BY DEF Routes, Papers

(* What a step of the catalogue leaves sound while the page stays.            *)
LEMMA RouteStays ==
  ASSUME PageTypeOK, RouteSound, Kept, UNCHANGED route
  PROVE  RouteSound'
<1>1. route.page = "note" => route.link \in Calls
  BY RoutesCases DEF PageTypeOK, Papers
<1> QED
  BY <1>1 DEF RouteSound, Kept

LEMMA ShelfStays ==
  ASSUME CatalogueInv, ShelfSound, Kept, UNCHANGED shelf
  PROVE  ShelfSound'
<1> SUFFICES ASSUME NEW kind \in Papers, NEW c \in shelf[kind]
             PROVE  /\ c \in db'.listed /\ call'[c].op = kind
                    /\ call'[c].space \in SpacesOf("me")'
  BY DEF ShelfSound
<1>1. /\ c \in db.listed /\ call[c].op = kind
      /\ call[c].space \in SpacesOf("me")
  BY DEF ShelfSound
<1>2. c \in Calls
  BY <1>1 DEF CatalogueInv, CatalogueTypeOK, Tables
<1> QED
  BY <1>1, <1>2 DEF Kept, Papers, Users

LEMMA StoredSound ==
  ASSUME CatalogueInv, NEW kind \in Papers, NEW w, NEW c \in Stored(kind, w)
  PROVE  /\ c \in Calls /\ c \in db.listed
         /\ call[c].op = kind /\ call[c].space \in SpacesOf("me")
BY DEF Stored, CatalogueInv, CatalogueTypeOK, Tables

(* A workspace, or an address that is none, is opened.                        *)
LEMMA ShowSpaceSound ==
  ASSUME CatalogueInv, Kept, NEW w \in Spaces \cup Names, ShowSpace(w)
  PROVE  /\ route' \in Routes /\ tab' \in Papers
         /\ shelf' \in [Papers -> SUBSET Calls] /\ asked' \subseteq Calls
         /\ RouteSound' /\ ShelfSound'
<1>1. Loads(w) \in BOOLEAN /\ (Loads(w) => w \in Spaces)
  BY DEF Loads, CatalogueInv, CatalogueTypeOK, Tables, Spaces
<1>2. route' = [page |-> "space", space |-> w, loaded |-> Loads(w)]
  BY DEF ShowSpace
<1>3. route' \in Routes
  BY <1>1, <1>2 DEF Routes
<1>4. RouteSound'
  <2>1. route'.page = "space" /\ route'.space = w
    BY <1>2
  <2>2. route'.loaded = Loads(w)
    BY <1>2
  <2> QED
    BY <1>1, <2>1, <2>2 DEF RouteSound
<1>5. /\ shelf' = [k \in Papers |-> IF k = "board" THEN Stored("board", w) ELSE {}]
      /\ tab' = "board" /\ asked' = {}
  BY DEF ShowSpace, Empty, Papers
<1>6. shelf' \in [Papers -> SUBSET Calls]
  BY <1>5, StoredSound DEF Papers
<1>7. ShelfSound'
  <2> SUFFICES ASSUME NEW kind \in Papers, NEW c \in shelf'[kind]
               PROVE  /\ c \in db'.listed /\ call'[c].op = kind
                      /\ call'[c].space \in SpacesOf("me")'
    BY DEF ShelfSound
  <2>1. kind = "board" /\ c \in Stored("board", w)
    BY <1>5
  <2>2. /\ c \in Calls /\ c \in db.listed
        /\ call[c].op = kind /\ call[c].space \in SpacesOf("me")
    BY <2>1, StoredSound
  <2> QED
    BY <2>2 DEF Kept, Papers, Users
<1> QED
  BY <1>3, <1>4, <1>5, <1>6, <1>7 DEF Papers

(* A note that holds its title is found by it, or one of another workspace.   *)
LEMMA FoundSound ==
  ASSUME CatalogueInv, NEW c \in Calls, call[c].op = "note", Placed(c),
         call[c].space \in SpacesOf("me"),
         NEW found \in Finds("note", call[c].title)
  PROVE  /\ found \in Calls /\ call[found].op # "unused"
         /\ found # c => call[found].space # call[c].space
<1>1. /\ TitleKey(c) = <<"note", call[c].space, call[c].title>>
      /\ TitleKey(c) \in TitleKeys
      /\ db.titles[TitleKey(c)] = c
  BY KeysExist DEF TitleKey, CatalogueInv, TitleKept, Papers
<1>2. c \in Titled("note", call[c].title)
  BY <1>1, NoneAssumption DEF Titled
<1>3. found \in Titled("note", call[c].title)
  BY <1>2 DEF Finds
<1>4. PICK w \in SpacesOf("me") :
        found = db.titles[<<"note", w, call[c].title>>] /\ found # None
  BY <1>3 DEF Titled
<1> DEFINE k == <<"note", w, call[c].title>>
<1>5. k \in TitleKeys
  <2>1. w \in Spaces
    BY DEF SpacesOf, CatalogueInv, CatalogueTypeOK, Tables, Spaces
  <2>2. call[c].title \in Titles
    BY DEF CatalogueInv, CallShape
  <2> QED
    BY <2>1, <2>2 DEF TitleKeys, Papers
<1>6. found \in Calls
  BY <1>4, <1>5 DEF CatalogueInv, CatalogueTypeOK, Tables
<1>7. TitleKey(found) = k /\ call[found].at \notin Unplaced
  BY <1>4, <1>5, <1>6 DEF CatalogueInv, TitleOwned
<1>8. call[found].space = w
  BY <1>7 DEF TitleKey
<1>9. w = call[c].space => found = c
  BY <1>1, <1>4
<1> QED
  BY <1>6, <1>7, <1>8, <1>9, KindAt DEF Unplaced

LEMMA ShowPaperSound ==
  ASSUME CatalogueInv, Kept, NEW kind \in Papers, NEW c \in Calls,
         call[c].op = kind, Placed(c), call[c].space \in SpacesOf("me"),
         ShowPaper(kind, c, call[c].title)
  PROVE  /\ route' \in Routes /\ tab' \in Papers
         /\ shelf' \in [Papers -> SUBSET Calls] /\ asked' \subseteq Calls
         /\ RouteSound' /\ ShelfSound'
<1>1. PICK found \in Finds(kind, call[c].title) :
        route' = [page |-> kind, link |-> c, found |-> found]
  BY DEF ShowPaper
<1>2. found \in Calls \cup {None}
  <2>1. call[c].title \in Titles
    BY DEF CatalogueInv, CallShape, Papers
  <2>2. \A w \in SpacesOf("me") :
          db.titles[<<kind, w, call[c].title>>] \in Calls \cup {None}
    <3>1. \A w \in SpacesOf("me") : w \in Spaces
      BY DEF SpacesOf, CatalogueInv, CatalogueTypeOK, Tables, Spaces
    <3> QED
      BY <2>1, <3>1 DEF CatalogueInv, CatalogueTypeOK, Tables, TitleKeys
  <2> QED
    BY <2>2 DEF Finds, Titled
<1>3. route' \in Routes
  BY <1>1, <1>2 DEF Routes
<1>4. RouteSound'
  <2>1. route'.page = kind /\ route'.link = c /\ route'.found = found
    BY <1>1
  <2>2. CASE kind = "note"
    <3>1. /\ found \in Calls /\ call[found].op # "unused"
          /\ found # c => call[found].space # call[c].space
      BY <2>2, FoundSound
    <3> QED
      BY <2>1, <2>2, <3>1 DEF RouteSound, Kept
  <2>3. CASE kind = "board"
    BY <2>1, <2>3 DEF RouteSound
  <2> QED
    BY <2>2, <2>3 DEF Papers
<1>5. /\ shelf' = Empty /\ tab' = "board" /\ asked' = {}
  BY DEF ShowPaper
<1> QED
  BY <1>3, <1>4, <1>5 DEF Papers, Empty, ShelfSound

LEMMA ListingSpaces ==
  ASSUME CatalogueInv
  PROVE  Listing("me") \subseteq Spaces
BY DEF Listing, CatalogueInv, CatalogueTypeOK, Tables, Spaces

LEMMA DoneKeeps ==
  ASSUME CatalogueInv, Widened, NEW c \in Calls, Done(c), UNCHANGED faults,
         call[c].at = "answered"
  PROVE  CatalogueInv' /\ Kept
<1>1. CatalogueTypeOK /\ GoTo(c, "done") /\ faults \in 0..MaxFaults
  BY DEF CatalogueInv, CatalogueTypeOK, Done, GoTo
<1>2. Frame(c) /\ call'[c].at = "done" /\ call'[c].ok = call[c].ok
  BY <1>1, GoToFrame DEF Stations
<1> QED
  BY <1>1, <1>2, KindAt, EndKeeps

(* The address and the library stay.                                          *)
LEMMA ElsewhereKeeps ==
  ASSUME PagesInv, CatalogueInv', Kept, PageTypeOK', UNCHANGED <<route, shelf>>
  PROVE  PagesInv'
BY RouteStays, ShelfStays DEF PagesInv

LEMMA PagesStart == Init => PagesInv
<1> SUFFICES ASSUME Init PROVE PagesInv
  OBVIOUS
<1>1. CatalogueInv
  BY CatalogueStarts DEF Init
<1>2. route \in [page: {"space"}, space: Homes, loaded: {TRUE}]
  BY DEF Init
<1>3. route \in Routes /\ route.page = "space" /\ route.space \in Spaces
  BY <1>2 DEF Routes, Spaces
<1>4. PageTypeOK
  BY <1>3, MovesAssumption DEF Init, PageTypeOK, Papers, Empty, Pickers, Closed, Spaces
<1>5. RouteSound /\ ShelfSound
  BY <1>3 DEF Init, RouteSound, ShelfSound, Empty
<1> QED
  BY <1>1, <1>4, <1>5 DEF PagesInv

LEMMA BrowseKeeps ==
  ASSUME PagesInv, NEW c \in Calls, Browse(c)
  PROVE  PagesInv'
<1>1. /\ CatalogueInv /\ PageTypeOK /\ RouteSound /\ ShelfSound
      /\ picker \in Pickers /\ Closed \in Pickers
      /\ Move => moves' \in 0..MaxMoves
  BY MovesAssumption DEF PagesInv, PageTypeOK, Closed, Pickers, Move
<1>2. CASE OpenRow(c)
  <2>1. /\ c \in shelf[tab] /\ tab \in Papers /\ Move
        /\ ShowPaper(tab, c, call[c].title)
        /\ UNCHANGED <<call, db, faults, options>>
    BY <1>1, <1>2 DEF OpenRow, catalogueVars, PageTypeOK
  <2>2. call[c].op = tab /\ Placed(c) /\ call[c].space \in SpacesOf("me")
    BY <1>1, <2>1 DEF ShelfSound, Placed
  <2>3. CatalogueInv' /\ Kept
    BY <1>1, <2>1, SameIsWidened, WidenedKeeps
  <2>4. picker' \in Pickers
    BY <1>1, <1>2 DEF OpenRow
  <2>5. /\ route' \in Routes /\ tab' \in Papers
        /\ shelf' \in [Papers -> SUBSET Calls] /\ asked' \subseteq Calls
        /\ RouteSound' /\ ShelfSound'
    BY <1>1, <2>1, <2>2, <2>3, ShowPaperSound
  <2> QED
    BY <1>1, <2>1, <2>3, <2>4, <2>5 DEF PagesInv, PageTypeOK
<1>3. CASE CreatePaper(c)
  <2>1. tab \in Papers /\ route.space \in Spaces
    BY <1>1, <1>3 DEF CreatePaper, InLibrary, RouteSound, PageTypeOK
  <2>2. PICK n \in Names : Send(c, tab, "me", route.space, n)
    BY <1>3 DEF CreatePaper
  <2>3. CatalogueInv' /\ Kept
    BY <1>1, <1>3, <2>1, <2>2, SendKeeps DEF CreatePaper, Ops, Papers, Users
  <2>4. PageTypeOK' /\ UNCHANGED <<route, shelf>>
    BY <1>1, <1>3 DEF CreatePaper, PageTypeOK
  <2> QED
    BY <2>3, <2>4, ElsewhereKeeps
<1>4. CASE PressEnter(c)
  <2>1. picker.search \in Names
    BY <1>1, <1>4 DEF PressEnter, Pickers
  <2>2. CatalogueInv' /\ Kept
    BY <1>1, <1>4, <2>1, SendKeeps DEF PressEnter, Ops, Papers, Users
  <2>3. PageTypeOK' /\ UNCHANGED <<route, shelf>>
    BY <1>1, <1>4 DEF PressEnter, PageTypeOK
  <2> QED
    BY <2>2, <2>3, ElsewhereKeeps
<1>5. CASE PressCreateNew(c)
  <2>1. picker.typed \in Names
    BY <1>1, <1>5 DEF PressCreateNew, Pickers
  <2>2. CatalogueInv' /\ Kept
    BY <1>1, <1>5, <2>1, SendKeeps DEF PressCreateNew, Ops, Papers, Users
  <2>3. ShowSpace(picker.typed) /\ picker' \in Pickers
    BY <1>1, <1>5 DEF PressCreateNew, GoToSpace, Pickers
  <2>4. /\ route' \in Routes /\ tab' \in Papers
        /\ shelf' \in [Papers -> SUBSET Calls] /\ asked' \subseteq Calls
        /\ RouteSound' /\ ShelfSound'
    BY <1>1, <2>1, <2>2, <2>3, ShowSpaceSound
  <2> QED
    BY <1>1, <1>5, <2>2, <2>3, <2>4 DEF PressCreateNew, PagesInv, PageTypeOK
<1>6. CASE PaperCreated(c)
  <2>1. /\ call[c].at = "answered" /\ call[c].by = "me" /\ call[c].ok
        /\ call[c].op \in Papers /\ Done(c) /\ UNCHANGED <<db, faults>>
        /\ ShowPaper(call[c].op, c, call[c].title)
    BY <1>6 DEF PaperCreated, Answered, TitleReturned
  <2>2. CatalogueInv' /\ Kept
    BY <1>1, <2>1, SameIsWidened, DoneKeeps
  <2>3. Placed(c) /\ call[c].space \in SpacesOf("me")
    BY <1>1, <2>1 DEF Placed, CatalogueInv, AccessChecked
  <2>4. /\ route' \in Routes /\ tab' \in Papers
        /\ shelf' \in [Papers -> SUBSET Calls] /\ asked' \subseteq Calls
        /\ RouteSound' /\ ShelfSound'
    BY <1>1, <2>1, <2>2, <2>3, ShowPaperSound
  <2>5. picker' \in Pickers
    BY <1>1, <1>6 DEF PaperCreated
  <2> QED
    BY <1>1, <1>6, <2>2, <2>4, <2>5 DEF PaperCreated, PagesInv, PageTypeOK
<1>7. CASE WorkspaceCreated(c)
  <2>1. /\ call[c].at = "answered" /\ Done(c) /\ UNCHANGED <<faults, moves>>
        /\ db' = Backfilled("me") /\ options' = Listing("me")
        /\ ShowSpace(c) /\ picker' \in Pickers
    BY <1>1, <1>7 DEF WorkspaceCreated, Answered, GoToSpace, Pickers
  <2>2. CatalogueInv' /\ Kept
    BY <1>1, <2>1, BackfilledIsWidened, DoneKeeps DEF Users
  <2>3. c \in Spaces
    BY DEF Spaces
  <2>4. /\ route' \in Routes /\ tab' \in Papers
        /\ shelf' \in [Papers -> SUBSET Calls] /\ asked' \subseteq Calls
        /\ RouteSound' /\ ShelfSound'
    BY <1>1, <2>1, <2>2, <2>3, ShowSpaceSound
  <2> QED
    BY <1>1, <2>1, <2>2, <2>4, ListingSpaces DEF PagesInv, PageTypeOK
<1>8. CASE CreationFailed(c)
  <2>1. CatalogueInv' /\ Kept
    BY <1>1, <1>8, SameIsWidened, DoneKeeps DEF CreationFailed, Answered
  <2>2. PageTypeOK' /\ UNCHANGED <<route, shelf>>
    BY <1>1, <1>8 DEF CreationFailed, PageTypeOK, pageVars
  <2> QED
    BY <2>1, <2>2, ElsewhereKeeps
<1> QED
  BY <1>2, <1>3, <1>4, <1>5, <1>6, <1>7, <1>8 DEF Browse

LEMMA PagesNext == PagesInv /\ [Next]_vars => PagesInv'
<1> SUFFICES ASSUME PagesInv, [Next]_vars PROVE PagesInv'
  OBVIOUS
<1>1. /\ CatalogueInv /\ PageTypeOK /\ RouteSound /\ ShelfSound
      /\ Move => moves' \in 0..MaxMoves
  BY MovesAssumption DEF PagesInv, PageTypeOK, Move
<1>2. UNCHANGED <<call, db, faults>> => CatalogueInv' /\ Kept
  BY <1>1, SameIsWidened, WidenedKeeps
<1>3. CASE OpenLanding
  <2>1. PICK w \in Listing("me") : ShowSpace(w)
    BY <1>3 DEF OpenLanding
  <2>2. /\ db' = Backfilled("me") /\ UNCHANGED <<call, faults, picker, options>>
        /\ w \in Spaces /\ Move
    BY <1>1, <1>3, ListingSpaces DEF OpenLanding
  <2>3. CatalogueInv' /\ Kept
    BY <1>1, <2>2, BackfilledIsWidened, WidenedKeeps DEF Users
  <2>4. /\ route' \in Routes /\ tab' \in Papers
        /\ shelf' \in [Papers -> SUBSET Calls] /\ asked' \subseteq Calls
        /\ RouteSound' /\ ShelfSound'
    BY <1>1, <2>1, <2>2, <2>3, ShowSpaceSound
  <2> QED
    BY <1>1, <2>2, <2>3, <2>4 DEF PagesInv, PageTypeOK
<1>4. CASE FetchShelf
  <2>1. /\ UNCHANGED <<call, db, faults, moves, route, tab, asked, picker, options>>
        /\ shelf' = [shelf EXCEPT ![tab] = Stored(tab, route.space)]
        /\ tab \in Papers
    BY <1>1, <1>4 DEF FetchShelf, catalogueVars, PageTypeOK
  <2>2. PageTypeOK'
    BY <1>1, <2>1, StoredSound DEF PageTypeOK
  <2>3. CatalogueInv' /\ RouteSound'
    BY <1>1, <1>2, <2>1, RouteStays
  <2>4. ShelfSound'
    <3> SUFFICES ASSUME NEW kind \in Papers, NEW c \in shelf'[kind]
                 PROVE  /\ c \in db.listed /\ call[c].op = kind
                        /\ call[c].space \in SpacesOf("me")
      BY <2>1 DEF ShelfSound, SpacesOf
    <3>1. CASE kind = tab
      BY <1>1, <2>1, <3>1, StoredSound DEF PageTypeOK
    <3>2. CASE kind # tab
      BY <1>1, <2>1, <3>2 DEF ShelfSound, PageTypeOK
    <3> QED
      BY <3>1, <3>2
  <2> QED
    BY <2>2, <2>3, <2>4 DEF PagesInv
<1>5. CASE FetchOptions
  <2>1. CatalogueInv' /\ Kept
    BY <1>1, <1>5, BackfilledIsWidened, WidenedKeeps DEF FetchOptions, Users
  <2>2. PageTypeOK' /\ UNCHANGED <<route, shelf>>
    BY <1>1, <1>5, ListingSpaces DEF FetchOptions, PageTypeOK
  <2> QED
    BY <2>1, <2>2, ElsewhereKeeps
<1>6. CASE OpenPicker \/ ClosePicker \/ (\E n \in Names : TypeName(n))
  <2>1. PageTypeOK' /\ UNCHANGED <<call, db, faults, route, shelf>>
    BY <1>1, <1>6
    DEF OpenPicker, ClosePicker, TypeName, PageTypeOK, Pickers, catalogueVars
  <2> QED
    BY <1>2, <2>1, ElsewhereKeeps
<1>7. ASSUME NEW kind \in Papers, OpenTab(kind) PROVE PagesInv'
  <2>1. PageTypeOK' /\ UNCHANGED <<call, db, faults, route, shelf>>
    BY <1>1, <1>7 DEF OpenTab, PageTypeOK, catalogueVars
  <2> QED
    BY <1>2, <2>1, ElsewhereKeeps
<1>8. ASSUME NEW w \in Spaces, SelectWorkspace(w) PROVE PagesInv'
  <2>1. /\ Move /\ ShowSpace(w) /\ picker' \in Pickers
        /\ UNCHANGED <<call, db, faults, options>>
    BY <1>1, <1>8
    DEF SelectWorkspace, GoToSpace, PageTypeOK, Pickers, catalogueVars
  <2>2. /\ route' \in Routes /\ tab' \in Papers
        /\ shelf' \in [Papers -> SUBSET Calls] /\ asked' \subseteq Calls
        /\ RouteSound' /\ ShelfSound'
    BY <1>1, <1>2, <2>1, ShowSpaceSound
  <2> QED
    BY <1>1, <1>2, <2>1, <2>2 DEF PagesInv, PageTypeOK
<1>9. ASSUME NEW c \in Calls, Work(c) PROVE PagesInv'
  <2>1. CatalogueInv' /\ Kept
    BY <1>1, <1>9, ServeKeeps DEF Work
  <2>2. PageTypeOK' /\ UNCHANGED <<route, shelf>>
    BY <1>1, <1>9 DEF Work, pageVars, PageTypeOK
  <2> QED
    BY <2>1, <2>2, ElsewhereKeeps
<1>10. ASSUME NEW c \in Calls, OtherCreates(c) PROVE PagesInv'
  <2>1. PICK n \in Names :
          \/ \E kind \in Papers, w \in Homes : Send(c, kind, "other", w, n)
          \/ Send(c, "workspace", "other", None, n)
    BY <1>10 DEF OtherCreates
  <2>2. UNCHANGED <<db, faults>>
    BY <1>10 DEF OtherCreates
  <2>3. ASSUME Send(c, "workspace", "other", None, n)
        PROVE  CatalogueInv' /\ Kept
    BY <1>1, <2>2, <2>3, SendKeeps DEF Ops, Papers, Users
  <2>4. ASSUME NEW kind \in Papers, NEW w \in Homes,
               Send(c, kind, "other", w, n)
        PROVE  CatalogueInv' /\ Kept
    BY <1>1, <2>2, <2>4, SendKeeps DEF Ops, Papers, Users, Spaces
  <2>5. CatalogueInv' /\ Kept
    BY <2>1, <2>3, <2>4
  <2>6. PageTypeOK' /\ UNCHANGED <<route, shelf>>
    BY <1>1, <1>10 DEF OtherCreates, pageVars, PageTypeOK
  <2> QED
    BY <2>5, <2>6, ElsewhereKeeps
<1>11. CASE UNCHANGED vars
  <2>1. UNCHANGED <<call, db, faults, route, shelf>> /\ PageTypeOK'
    BY <1>1, <1>11 DEF vars, catalogueVars, pageVars, PageTypeOK
  <2> QED
    BY <1>2, <2>1, ElsewhereKeeps
<1> QED
  BY <1>3, <1>4, <1>5, <1>6, <1>7, <1>8, <1>9, <1>10, <1>11, BrowseKeeps DEF Next

-------------------------------------------------------------------------------
(* The theorems *)

LEMMA PagesAlways == Spec => []PagesInv
BY PagesStart, PagesNext, PTL DEF Spec

(* Every call is at a station of its kind, every table holds what its calls   *)
(* wrote, and every page what it can show.                                    *)
THEOREM TypeCorrect == Spec => []TypeOK
<1>1. PagesInv => TypeOK
  BY DEF PagesInv, PageTypeOK, CatalogueInv, TypeOK
<1> QED
  BY <1>1, PagesAlways, PTL

(* CreatedNamesDiffer: workspaces that were created have names of their own,  *)
(* however many calls fail half way and take back what they wrote.            *)
THEOREM CreatedNamesDifferCorrect == Spec => []CreatedNamesDiffer
<1>1. PagesInv => CreatedNamesDiffer
  BY DEF PagesInv, CatalogueInv, NameKept, CreatedNamesDiffer
<1> QED
  BY <1>1, PagesAlways, PTL

(* NotesFoundByTitle: the link to a note finds it, or one of the same title   *)
(* in another workspace, whoever else makes notes of that title.              *)
THEOREM NotesFoundByTitleCorrect == Spec => []NotesFoundByTitle
<1>1. PagesInv => NotesFoundByTitle
  BY NoneAssumption DEF PagesInv, RouteSound, NotesFoundByTitle
<1> QED
  BY <1>1, PagesAlways, PTL

===============================================================================
