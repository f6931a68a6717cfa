------------------------ MODULE WorkspacePagesProofs ------------------------
(* Proofs about the workspace pages over the workspace service, for any       *)
(* number of users, links and calls at once: the type invariant; a link that  *)
(* was used, rejected or reset lets nobody in who asks afterwards; the link   *)
(* in the dialog works; the list of workspaces is never an old one taken for  *)
(* a valid one.                                                               *)
EXTENDS WorkspacePages, TLAPS

-----------------------------------------------------------------------------
(* The inductive invariant *)

(* What a call's record says about its link: there is one wherever the        *)
(* service uses it, a call that was late knows a closed link, and an accept   *)
(* that found its link open was not late.                                     *)
RecordSound(r, shut) ==
  /\ \/ r.op \in {"accept", "reject"}
     \/ r.at \in {"unlist", "delete", "list"}
     => r.token \in Tokens
  /\ r.op = "accept" /\ r.late => r.token \in shut
  /\ r.op = "accept" /\ r.at \in {"mark", "join", "joinView"} => ~r.late

(* A closed link is never open again, and none is made in its place.          *)
ClosedRows == \A t \in closed : row[t] \notin {"open", "unmade"}

LinksInv ==
  /\ ServiceTypeOK
  /\ \A c \in Calls : RecordSound(call[c], closed)
  /\ ClosedRows

PageTypes ==
  /\ page \in [Users -> PageKinds]
  /\ link \in [Users -> Tokens \cup {NoToken}]
  /\ dialog \in [Users -> BOOLEAN]
  /\ shown \in [Users -> Tokens \cup {NoToken}]
  /\ latest \in [Users -> [Hooks -> Calls \cup {NoCall}]]
  /\ copied \subseteq Tokens
  /\ \A u \in Users : dialog[u] \/ shown[u] # NoToken => page[u] = "manager"
  /\ \A u \in Users : page[u] = "invite" => link[u] \in Tokens
  /\ troubled \in [Users -> BOOLEAN]

ListTypes ==
  /\ list \in [Viewers -> Lists]
  /\ stray \in [Viewers -> StrayStations]
  /\ behind \in [Viewers -> BOOLEAN]

-----------------------------------------------------------------------------
(* The calls *)

LEMMA IdleSound == Idle \in CallRecord /\ \A shut : RecordSound(Idle, shut)
BY OwnerAssumption
DEF Idle, CallRecord, Ops, Stations, RecordSound

(* A step of one call leaves the others sound: no link is opened again.       *)
LEMMA OneCallMoves ==
  ASSUME LinksInv, NEW c \in Calls, NEW r \in CallRecord,
         call' = [call EXCEPT ![c] = r],
         closed \subseteq closed', RecordSound(r, closed')
  PROVE  /\ call' \in [Calls -> CallRecord]
         /\ \A d \in Calls : RecordSound(call'[d], closed')
<1>1. ASSUME NEW d \in Calls PROVE RecordSound(call'[d], closed')
  BY <1>1 DEF LinksInv, ServiceTypeOK, RecordSound
<1> QED
  BY <1>1 DEF LinksInv, ServiceTypeOK

LEMMA Moving ==
  ASSUME LinksInv, NEW c \in Calls, NEW station \in Stations,
         GoTo(c, station), closed \subseteq closed',
         station \in {"unlist", "delete", "list"} => call[c].token \in Tokens,
         call[c].op = "accept" /\ station \in {"mark", "join", "joinView"}
           => ~call[c].late
  PROVE  /\ call' \in [Calls -> CallRecord]
         /\ \A d \in Calls : RecordSound(call'[d], closed')
<1> DEFINE r == [call[c] EXCEPT !.at = station]
<1>1. call[c] \in CallRecord /\ RecordSound(call[c], closed)
  BY DEF LinksInv, ServiceTypeOK
<1>2. r \in CallRecord
  BY <1>1 DEF CallRecord
<1>3. /\ r.op = call[c].op /\ r.at = station /\ r.token = call[c].token
      /\ r.late = call[c].late
  BY <1>1 DEF CallRecord
<1>4. RecordSound(r, closed')
  BY <1>1, <1>3 DEF RecordSound
<1>5. call' = [call EXCEPT ![c] = r]
  BY DEF GoTo, LinksInv, ServiceTypeOK
<1> HIDE DEF r
<1> QED
  BY <1>2, <1>4, <1>5, OneCallMoves

LEMMA Answering ==
  ASSUME LinksInv, NEW c \in Calls, NEW ok \in BOOLEAN,
         Answer(c, ok), closed \subseteq closed'
  PROVE  /\ call' \in [Calls -> CallRecord]
         /\ \A d \in Calls : RecordSound(call'[d], closed')
<1> DEFINE r == [call[c] EXCEPT !.at = "answered", !.ok = ok]
<1>1. call[c] \in CallRecord /\ RecordSound(call[c], closed)
  BY DEF LinksInv, ServiceTypeOK
<1>2. r \in CallRecord
  BY <1>1 DEF CallRecord, Stations
<1>3. /\ r.op = call[c].op /\ r.at = "answered" /\ r.token = call[c].token
      /\ r.late = call[c].late
  BY <1>1 DEF CallRecord
<1>4. RecordSound(r, closed')
  BY <1>1, <1>3 DEF RecordSound
<1>5. call' = [call EXCEPT ![c] = r]
  BY DEF Answer, LinksInv, ServiceTypeOK
<1> HIDE DEF r
<1> QED
  BY <1>2, <1>4, <1>5, OneCallMoves

(* A reset goes from link to link, and every one it visits exists.            *)
LEMMA Resetting ==
  ASSUME LinksInv, NEW record \in CallRecord, record.op = "invite",
         NEW rest \in SUBSET Tokens, NEW after \in NextReset(record, rest)
  PROVE  after \in CallRecord /\ RecordSound(after, closed')
<1>1. CASE rest = {}
  <2>1. after = [record EXCEPT !.at = "insert", !.todo = {}]
    BY <1>1 DEF NextReset
  <2>2. after.op = "invite" /\ after.at = "insert"
    BY <2>1 DEF CallRecord
  <2> QED
    BY <2>1, <2>2 DEF CallRecord, Stations, RecordSound
<1>2. CASE rest # {}
  <2>1. PICK t \in rest :
          after = [record EXCEPT !.at = "unlist", !.token = t,
                                 !.todo = rest \ {t}]
    BY <1>2 DEF NextReset
  <2>2. after.op = "invite" /\ after.at = "unlist" /\ after.token = t
    BY <2>1 DEF CallRecord
  <2>3. t \in Tokens /\ rest \ {t} \in SUBSET Tokens
    OBVIOUS
  <2> QED
    BY <2>1, <2>2, <2>3 DEF CallRecord, Stations, RecordSound
<1> QED
  BY <1>1, <1>2

LEMMA AfterDeleteSound ==
  ASSUME LinksInv, NEW c \in Calls, NEW after \in AfterDelete(call[c]),
         closed \subseteq closed'
  PROVE  after \in CallRecord /\ RecordSound(after, closed')
<1>1. call[c] \in CallRecord /\ RecordSound(call[c], closed)
  BY DEF LinksInv, ServiceTypeOK
<1>2. CASE call[c].op = "invite"
  <2>1. after \in NextReset(call[c], call[c].todo)
    BY <1>2 DEF AfterDelete
  <2>2. call[c].todo \in SUBSET Tokens
    BY <1>1 DEF CallRecord
  <2> QED
    BY <1>1, <1>2, <2>1, <2>2, Resetting
<1>3. CASE call[c].op # "invite"
  <2>1. after = [call[c] EXCEPT !.at = "answered", !.ok = TRUE]
    BY <1>3 DEF AfterDelete
  <2>2. /\ after.op = call[c].op /\ after.at = "answered"
        /\ after.token = call[c].token /\ after.late = call[c].late
    BY <1>1, <2>1 DEF CallRecord
  <2>3. after \in CallRecord
    BY <1>1, <2>1 DEF CallRecord, Stations
  <2> QED
    BY <1>1, <2>2, <2>3 DEF RecordSound
<1> QED
  BY <1>2, <1>3

-----------------------------------------------------------------------------
(* The statements of the service *)

LEMMA SharedStatements ==
  ASSUME LinksInv, NEW c \in Calls, UNCHANGED faults,
         Unlist(c) \/ Delete(c)
  PROVE  LinksInv'
<1>1. CASE Unlist(c)
  <2>1. call[c].token \in Tokens
    BY <1>1 DEF Unlist, LinksInv, RecordSound
  <2>2. GoTo(c, "delete") /\ UNCHANGED <<row, inviter, member, view, histories>>
        /\ listed' \subseteq listed
    BY <1>1 DEF Unlist
  <2>3. /\ call' \in [Calls -> CallRecord]
        /\ \A d \in Calls : RecordSound(call'[d], closed')
    BY <2>1, <2>2, Moving DEF Stations, histories
  <2> QED
    BY <2>2, <2>3 DEF LinksInv, ServiceTypeOK, ClosedRows, histories
<1>2. CASE Delete(c)
  <2> DEFINE t == call[c].token
  <2>1. t \in Tokens
    BY <1>2 DEF Delete, LinksInv, RecordSound
  <2>2. /\ row' = [row EXCEPT ![t] = "removed"]
        /\ closed' = closed \cup {t}
        /\ spent' \subseteq closed'
        /\ UNCHANGED <<listed, inviter, member, view>>
    BY <1>2 DEF Delete, LinksInv, ServiceTypeOK
  <2>3. PICK after \in AfterDelete(call[c]) : call' = [call EXCEPT ![c] = after]
    BY <1>2 DEF Delete
  <2>4. after \in CallRecord /\ RecordSound(after, closed')
    BY <2>2, <2>3, AfterDeleteSound
  <2>5. /\ call' \in [Calls -> CallRecord]
        /\ \A d \in Calls : RecordSound(call'[d], closed')
    BY <2>2, <2>3, <2>4, OneCallMoves
  <2>6. ClosedRows'
    BY <2>1, <2>2 DEF LinksInv, ServiceTypeOK, ClosedRows
  <2> QED
    BY <2>1, <2>2, <2>5, <2>6 DEF LinksInv, ServiceTypeOK, RowStates
<1> QED
  BY <1>1, <1>2

(* A link is made in a row that was never written.                            *)
LEMMA InviteStatements ==
  ASSUME LinksInv, NEW c \in Calls, UNCHANGED faults, Invite(c)
  PROVE  LinksInv'
<1>1. call[c] \in CallRecord
  BY DEF LinksInv, ServiceTypeOK
<1>2. CASE InviteChecks(c)
  <2>1. GoTo(c, "scan") \/ Answer(c, FALSE)
    BY <1>2 DEF InviteChecks
  <2>2. UNCHANGED <<row, listed, inviter, member, view, closed, spent>>
    BY <1>2 DEF InviteChecks, tables, histories
  <2>3. /\ call' \in [Calls -> CallRecord]
        /\ \A d \in Calls : RecordSound(call'[d], closed')
    BY <2>1, <2>2, Moving, Answering DEF Stations
  <2> QED
    BY <2>2, <2>3 DEF LinksInv, ServiceTypeOK, ClosedRows
<1>3. CASE InviteScans(c)
  <2> DEFINE mine == {t \in listed : inviter[t] = call[c].user}
  <2>1. PICK after \in NextReset(call[c], mine) :
          call' = [call EXCEPT ![c] = after]
    BY <1>3 DEF InviteScans
  <2>2. mine \in SUBSET Tokens
    BY DEF LinksInv, ServiceTypeOK
  <2>3. UNCHANGED <<row, listed, inviter, member, view, closed, spent>>
    BY <1>3 DEF InviteScans, tables, histories
  <2>4. call[c].op = "invite"
    BY <1>3 DEF InviteScans, At
  <2> HIDE DEF mine
  <2>5. after \in CallRecord /\ RecordSound(after, closed')
    BY <1>1, <2>1, <2>2, <2>4, Resetting
  <2>6. /\ call' \in [Calls -> CallRecord]
        /\ \A d \in Calls : RecordSound(call'[d], closed')
    BY <2>1, <2>3, <2>5, OneCallMoves
  <2> QED
    BY <2>3, <2>6 DEF LinksInv, ServiceTypeOK, ClosedRows
<1>4. CASE InviteInserts(c)
  <2>1. PICK t \in Tokens :
          /\ row[t] = "unmade"
          /\ row' = [row EXCEPT ![t] = "open"]
          /\ inviter' = [inviter EXCEPT ![t] = call[c].user]
          /\ call' = [call EXCEPT ![c].at = "list", ![c].token = t]
    BY <1>4 DEF InviteInserts
  <2> DEFINE after == [call[c] EXCEPT !.at = "list", !.token = t]
  <2>2. /\ call[c].op = "invite"
        /\ UNCHANGED <<listed, member, view, closed, spent>>
    BY <1>4 DEF InviteInserts, At, histories
  <2>3. after \in CallRecord
    BY <1>1 DEF CallRecord, Stations
  <2>4. after.op = "invite" /\ after.at = "list" /\ after.token = t
    BY <1>1, <2>2 DEF CallRecord
  <2>5. RecordSound(after, closed')
    BY <2>4 DEF RecordSound
  <2>6. call' = [call EXCEPT ![c] = after]
    BY <2>1 DEF LinksInv, ServiceTypeOK
  <2> HIDE DEF after
  <2>7. /\ call' \in [Calls -> CallRecord]
        /\ \A d \in Calls : RecordSound(call'[d], closed')
    BY <2>2, <2>3, <2>5, <2>6, OneCallMoves
  <2>8. call[c].user \in Users
    BY <1>1 DEF CallRecord
  <2>9. ClosedRows'
    BY <2>1, <2>2 DEF LinksInv, ServiceTypeOK, ClosedRows
  <2> QED
    BY <2>1, <2>2, <2>7, <2>8, <2>9 DEF LinksInv, ServiceTypeOK, RowStates
<1>5. CASE InviteLists(c)
  <2>1. call[c].token \in Tokens
    BY <1>5 DEF InviteLists, At, LinksInv, RecordSound
  <2>2. /\ Answer(c, TRUE) /\ listed' = listed \cup {call[c].token}
        /\ UNCHANGED <<row, inviter, member, view, closed, spent>>
    BY <1>5 DEF InviteLists, histories
  <2>3. /\ call' \in [Calls -> CallRecord]
        /\ \A d \in Calls : RecordSound(call'[d], closed')
    BY <2>2, Answering
  <2> QED
    BY <2>1, <2>2, <2>3 DEF LinksInv, ServiceTypeOK, ClosedRows
<1> QED
  BY <1>2, <1>3, <1>4, <1>5 DEF Invite

(* An accept that finds its link open was not late: a closed link is not      *)
(* open. What it then writes closes the link.                                 *)
LEMMA AcceptStatements ==
  ASSUME LinksInv, NEW c \in Calls, UNCHANGED faults, Accept(c)
  PROVE  LinksInv'
<1>1. /\ call[c] \in CallRecord /\ RecordSound(call[c], closed)
      /\ call[c].op = "accept" /\ call[c].token \in Tokens
  BY DEF LinksInv, ServiceTypeOK, RecordSound, Accept, AcceptReads,
         AcceptMarks, AcceptJoins, AcceptJoinsView, At
<1>2. call[c].user \in Users
  BY <1>1 DEF CallRecord
<1>3. CASE AcceptReads(c)
  <2>1. UNCHANGED <<row, listed, inviter, member, view, closed, spent>>
    BY <1>3 DEF AcceptReads, tables, histories
  <2>2. \/ GoTo(c, "mark") /\ row[call[c].token] = "open"
        \/ Answer(c, FALSE)
    BY <1>3 DEF AcceptReads
  <2>3. row[call[c].token] = "open" => ~call[c].late
    BY <1>1 DEF LinksInv, ClosedRows, RecordSound
  <2>4. /\ call' \in [Calls -> CallRecord]
        /\ \A d \in Calls : RecordSound(call'[d], closed')
    BY <2>1, <2>2, <2>3, Moving, Answering DEF Stations
  <2> QED
    BY <2>1, <2>4 DEF LinksInv, ServiceTypeOK, ClosedRows
<1>4. CASE AcceptMarks(c)
  <2> DEFINE t == call[c].token
  <2>1. /\ row' = [row EXCEPT ![t] = IF @ = "stub" THEN @ ELSE Marked(@)]
        /\ closed' = closed \cup {t} /\ spent' = spent \cup {t}
        /\ GoTo(c, "join") /\ UNCHANGED <<listed, inviter, member, view>>
    BY <1>4 DEF AcceptMarks
  <2>2. ~call[c].late
    BY <1>1, <1>4 DEF AcceptMarks, At, RecordSound
  <2>3. /\ call' \in [Calls -> CallRecord]
        /\ \A d \in Calls : RecordSound(call'[d], closed')
    BY <2>1, <2>2, Moving DEF Stations
  <2>4. row' \in [Tokens -> RowStates] /\ ClosedRows'
    BY <1>1, <2>1 DEF LinksInv, ServiceTypeOK, ClosedRows, Marked, RowStates
  <2> QED
    BY <1>1, <2>1, <2>3, <2>4 DEF LinksInv, ServiceTypeOK
<1>5. CASE AcceptJoins(c)
  <2>1. /\ member' = [member EXCEPT ![call[c].user] = "member"]
        /\ GoTo(c, "joinView")
        /\ UNCHANGED <<row, listed, inviter, view, closed, spent>>
    BY <1>5 DEF AcceptJoins, histories
  <2>2. ~call[c].late
    BY <1>1, <1>5 DEF AcceptJoins, At, RecordSound
  <2>3. /\ call' \in [Calls -> CallRecord]
        /\ \A d \in Calls : RecordSound(call'[d], closed')
    BY <2>1, <2>2, Moving DEF Stations
  <2> QED
    BY <1>2, <2>1, <2>3 DEF LinksInv, ServiceTypeOK, ClosedRows, Roles
<1>6. CASE AcceptJoinsView(c)
  <2>1. /\ view' = [view EXCEPT ![call[c].user] = "member"]
        /\ GoTo(c, "unlist")
        /\ UNCHANGED <<row, listed, inviter, member, closed, spent>>
    BY <1>6 DEF AcceptJoinsView, histories
  <2>2. /\ call' \in [Calls -> CallRecord]
        /\ \A d \in Calls : RecordSound(call'[d], closed')
    BY <1>1, <2>1, Moving DEF Stations
  <2> QED
    BY <1>2, <2>1, <2>2 DEF LinksInv, ServiceTypeOK, ClosedRows, Roles
<1> QED
  BY <1>3, <1>4, <1>5, <1>6 DEF Accept

LEMMA OtherStatements ==
  ASSUME LinksInv, NEW c \in Calls, UNCHANGED faults, Reject(c) \/ Remove(c)
  PROVE  LinksInv'
<1>1. call[c] \in CallRecord /\ RecordSound(call[c], closed)
  BY DEF LinksInv, ServiceTypeOK
<1>2. call[c].user \in Users
  BY <1>1 DEF CallRecord
<1>3. CASE Reject(c)
  <2>1. /\ call[c].token \in Tokens
        /\ GoTo(c, "unlist") \/ Answer(c, FALSE)
        /\ UNCHANGED <<row, listed, inviter, member, view, closed, spent>>
    BY <1>1, <1>3 DEF Reject, At, RecordSound, tables, histories
  <2>2. /\ call' \in [Calls -> CallRecord]
        /\ \A d \in Calls : RecordSound(call'[d], closed')
    BY <2>1, Moving, Answering DEF Stations
  <2> QED
    BY <2>1, <2>2 DEF LinksInv, ServiceTypeOK, ClosedRows
<1>4. CASE RemoveChecks(c)
  <2>1. /\ GoTo(c, "leave") \/ Answer(c, FALSE)
        /\ UNCHANGED <<row, listed, inviter, member, view, closed, spent>>
    BY <1>4 DEF RemoveChecks, tables, histories
  <2>2. /\ call' \in [Calls -> CallRecord]
        /\ \A d \in Calls : RecordSound(call'[d], closed')
    BY <2>1, Moving, Answering DEF Stations
  <2> QED
    BY <2>1, <2>2 DEF LinksInv, ServiceTypeOK, ClosedRows
<1>5. CASE RemoveLeaves(c)
  <2>1. /\ member' = [member EXCEPT ![call[c].user] = NoRole]
        /\ GoTo(c, "leaveView")
        /\ UNCHANGED <<row, listed, inviter, view, closed, spent>>
    BY <1>5 DEF RemoveLeaves, histories
  <2>2. /\ call' \in [Calls -> CallRecord]
        /\ \A d \in Calls : RecordSound(call'[d], closed')
    BY <2>1, Moving DEF Stations
  <2> QED
    BY <1>2, <2>1, <2>2 DEF LinksInv, ServiceTypeOK, ClosedRows
<1>6. CASE RemoveLeavesView(c)
  <2>1. /\ view' = [view EXCEPT ![call[c].user] = NoRole]
        /\ Answer(c, TRUE)
        /\ UNCHANGED <<row, listed, inviter, member, closed, spent>>
    BY <1>6 DEF RemoveLeavesView, histories
  <2>2. /\ call' \in [Calls -> CallRecord]
        /\ \A d \in Calls : RecordSound(call'[d], closed')
    BY <2>1, Answering
  <2> QED
    BY <1>2, <2>1, <2>2 DEF LinksInv, ServiceTypeOK, ClosedRows
<1> QED
  BY <1>3, <1>4, <1>5, <1>6 DEF Remove

LEMMA ServeKeeps ==
  ASSUME LinksInv, NEW c \in Calls, Serve(c)
  PROVE  LinksInv'
<1>1. CASE CallFails(c)
  <2>1. /\ Answer(c, FALSE) /\ faults' = faults + 1
        /\ UNCHANGED <<row, listed, inviter, member, view, closed, spent>>
    BY <1>1 DEF CallFails, tables, histories
  <2>2. /\ call' \in [Calls -> CallRecord]
        /\ \A d \in Calls : RecordSound(call'[d], closed')
    BY <2>1, Answering
  <2> QED
    BY <2>1, <2>2 DEF LinksInv, ServiceTypeOK, ClosedRows
<1> QED
  BY <1>1, SharedStatements, InviteStatements, AcceptStatements,
     OtherStatements
  DEF Serve

-----------------------------------------------------------------------------
(* The pages and the calls they send *)

(* What is neither a call nor a table of links leaves the invariant.          *)
LEMMA LinksUntouched ==
  ASSUME LinksInv, UNCHANGED <<row, listed, inviter, member, call, histories>>,
         view' \in [Users -> Roles \cup {NoRole}], faults' \in Nat
  PROVE  LinksInv'
BY DEF LinksInv, ServiceTypeOK, ClosedRows, RecordSound, histories

LEMMA ServiceRests ==
  ASSUME LinksInv, UNCHANGED serviceVars
  PROVE  LinksInv'
BY LinksUntouched DEF LinksInv, ServiceTypeOK, serviceVars, tables

LEMMA SendKeeps ==
  ASSUME LinksInv, NEW c \in Calls, NEW op \in Hooks, NEW u \in Users,
         NEW t \in Tokens \cup {NoToken},
         op \in {"accept", "reject"} => t \in Tokens,
         Send(c, op, u, t), UNCHANGED <<tables, faults, histories>>
  PROVE  LinksInv'
<1> DEFINE sent == [Idle EXCEPT !.op = op, !.user = u, !.at = "sent",
                      !.token = t, !.late = t \in closed,
                      !.alone = Inviting(u) = {}]
<1>1. sent \in CallRecord
  <2>1. ASSUME NEW late \in BOOLEAN, NEW alone \in BOOLEAN
        PROVE  [Idle EXCEPT !.op = op, !.user = u, !.at = "sent", !.token = t,
                            !.late = late, !.alone = alone] \in CallRecord
    BY IdleSound DEF CallRecord, Hooks, Ops, Stations
  <2>2. (t \in closed) \in BOOLEAN /\ (Inviting(u) = {}) \in BOOLEAN
    OBVIOUS
  <2> QED
    BY <2>1, <2>2
<1>2. /\ sent.op = op /\ sent.at = "sent" /\ sent.token = t
      /\ sent.late <=> t \in closed
  BY DEF Idle
<1>3. /\ closed' = closed
      /\ UNCHANGED <<row, listed, inviter, member, view, spent>>
  BY DEF tables, histories
<1>4. RecordSound(sent, closed')
  BY <1>2, <1>3 DEF RecordSound
<1>5. ASSUME NEW d \in Calls
      PROVE  call'[d] \in CallRecord /\ RecordSound(call'[d], closed')
  <2>1. call[d] \in CallRecord /\ RecordSound(call[d], closed)
    BY DEF LinksInv, ServiceTypeOK
  <2>2. CASE d = c
    <3>1. call'[d] = sent
      BY <2>2 DEF Send
    <3> QED
      BY <1>1, <1>4, <3>1 DEF RecordSound
  <2>3. CASE d # c /\ call'[d] = call[d]
    BY <1>3, <2>1, <2>3 DEF RecordSound
  <2>4. CASE d # c /\ call'[d] = [call[d] EXCEPT !.alone = FALSE]
    <3>1. call'[d] \in CallRecord
      BY <2>1, <2>4 DEF CallRecord
    <3>2. /\ call'[d].op = call[d].op /\ call'[d].at = call[d].at
          /\ call'[d].token = call[d].token /\ call'[d].late = call[d].late
      BY <2>1, <2>4 DEF CallRecord
    <3> QED
      BY <1>3, <2>1, <3>1, <3>2 DEF RecordSound
  <2> QED
    BY <2>2, <2>3, <2>4 DEF Send
<1>6. call' \in [Calls -> CallRecord]
  <2>1. call' = [d \in Calls |-> call'[d]]
    BY DEF Send
  <2> QED
    BY <1>5, <2>1
<1> QED
  BY <1>3, <1>5, <1>6 DEF LinksInv, ServiceTypeOK, ClosedRows

LEMMA ForgetKeeps ==
  ASSUME LinksInv, NEW c \in Calls, Forget(c),
         UNCHANGED <<tables, faults, histories>>
  PROVE  LinksInv'
<1>1. UNCHANGED <<row, listed, inviter, member, view, closed, spent>>
  BY DEF tables, histories
<1>2. /\ call' \in [Calls -> CallRecord]
      /\ \A d \in Calls : RecordSound(call'[d], closed')
  BY <1>1, IdleSound, OneCallMoves DEF Forget
<1> QED
  BY <1>1, <1>2 DEF LinksInv, ServiceTypeOK, ClosedRows

LEMMA ShowKeeps ==
  ASSUME PageTypes, NEW u \in Users, NEW kind \in PageKinds,
         NEW t \in Tokens \cup {NoToken}, kind = "invite" => t \in Tokens,
         Show(u, kind, t), UNCHANGED <<copied, troubled>>
  PROVE  PageTypes'
<1>1. NoCalls \in [Hooks -> Calls \cup {NoCall}]
  BY DEF NoCalls
<1> QED
  BY <1>1 DEF Show, PageTypes

LEMMA MutateKeeps ==
  ASSUME LinksInv, PageTypes, NEW u \in Users, NEW hook \in Hooks,
         NEW t \in Tokens \cup {NoToken},
         hook \in {"accept", "reject"} => t \in Tokens,
         Mutate(u, hook, t), UNCHANGED <<tables, faults, histories>>
  PROVE  /\ LinksInv'
         /\ latest' \in [Users -> [Hooks -> Calls \cup {NoCall}]]
<1>1. PICK c \in Calls :
        /\ Send(c, hook, u, t)
        /\ latest' = [latest EXCEPT ![u][hook] = c]
  BY DEF Mutate
<1> QED
  BY <1>1, SendKeeps DEF PageTypes

LEMMA InvalidateKeeps ==
  ASSUME ListTypes, NEW u \in Users, Invalidate(u)
  PROVE  ListTypes'
<1>1. CASE u \notin Viewers
  BY <1>1 DEF Invalidate, ListTypes
<1>2. CASE u \in Viewers
  <2>1. /\ list' = [list EXCEPT ![u].invalid = TRUE, ![u].fetch = NewFetch]
        /\ stray' \in {stray, [stray EXCEPT ![u] = Dropped(list[u].fetch)]}
        /\ behind' = [behind EXCEPT ![u] = TRUE]
    BY <1>2 DEF Invalidate, ListTypes
  <2>2. NewFetch \in Fetches
    BY DEF NewFetch, Fetches
  <2>3. Dropped(list[u].fetch) \in StrayStations
    BY DEF Dropped, StrayStations
  <2>4. list[u] \in Lists
    BY <1>2 DEF ListTypes
  <2>5. [list[u] EXCEPT !.invalid = TRUE, !.fetch = NewFetch] \in Lists
    BY <2>2, <2>4 DEF Lists
  <2>6. list' \in [Viewers -> Lists]
    BY <2>1, <2>5 DEF ListTypes
  <2> QED
    BY <2>1, <2>3, <2>6 DEF ListTypes
<1> QED
  BY <1>1, <1>2

PagesInv == LinksInv /\ PageTypes /\ ListTypes

LEMMA BrowseKeeps ==
  ASSUME PagesInv, NEW u \in Users, Browse(u)
  PROVE  PagesInv'
<1> USE DEF PagesInv
<1>1. UNCHANGED <<list, stray, behind>>
  BY DEF Browse, OpenMembers, OpenLink, LeavePage, OpenInviteDialog,
         CloseInviteDialog, ResetLink, CopyLink, AcceptLink, RejectLink,
         LeaveWorkspace
<1>2. ListTypes'
  BY <1>1 DEF ListTypes
<1>3. CASE OpenMembers(u) \/ OpenLink(u) \/ LeavePage(u)
  <2>1. \E kind \in PageKinds, t \in Tokens \cup {NoToken} :
          /\ kind = "invite" => t \in Tokens
          /\ Show(u, kind, t)
    BY <1>3 DEF OpenMembers, OpenLink, LeavePage, PageKinds, PageTypes
  <2>2. UNCHANGED <<copied, troubled, serviceVars>>
    BY <1>3 DEF OpenMembers, OpenLink, LeavePage
  <2> QED
    BY <1>2, <2>1, <2>2, ShowKeeps, ServiceRests
<1>4. CASE OpenInviteDialog(u) /\ shown[u] # NoToken
  <2>1. /\ dialog' = [dialog EXCEPT ![u] = TRUE] /\ page[u] = "manager"
        /\ UNCHANGED <<serviceVars, page, link, shown, latest, copied,
                       troubled>>
    BY <1>4 DEF OpenInviteDialog, serviceVars
  <2> QED
    BY <1>2, <2>1, ServiceRests DEF PageTypes
<1>5. CASE (OpenInviteDialog(u) /\ shown[u] = NoToken) \/ ResetLink(u)
  <2>1. /\ Mutate(u, "invite", NoToken)
        /\ UNCHANGED <<tables, faults, histories, page, link, shown, copied>>
        /\ \/ dialog' = dialog
           \/ dialog' = [dialog EXCEPT ![u] = TRUE] /\ page[u] = "manager"
        /\ troubled' = [troubled EXCEPT ![u] = @ \/ Inviting(u) # {}]
    BY <1>5 DEF OpenInviteDialog, ResetLink, GenerateInviteCode
  <2>2. /\ LinksInv'
        /\ latest' \in [Users -> [Hooks -> Calls \cup {NoCall}]]
    BY <2>1, MutateKeeps DEF Hooks
  <2>3. troubled' \in [Users -> BOOLEAN]
    BY <2>1 DEF PageTypes
  <2> QED
    BY <1>2, <2>1, <2>2, <2>3 DEF PageTypes
<1>6. CASE CloseInviteDialog(u)
  <2>1. /\ dialog' = [dialog EXCEPT ![u] = FALSE]
        /\ UNCHANGED <<serviceVars, page, link, shown, latest, copied,
                       troubled>>
    BY <1>6 DEF CloseInviteDialog
  <2> QED
    BY <1>2, <2>1, ServiceRests DEF PageTypes
<1>7. CASE CopyLink(u)
  <2>1. /\ copied' = copied \cup {shown[u]} /\ shown[u] \in Tokens
        /\ UNCHANGED <<serviceVars, page, link, dialog, shown, latest,
                       troubled>>
    BY <1>7 DEF CopyLink, PageTypes, pageVars
  <2> QED
    BY <1>2, <2>1, ServiceRests DEF PageTypes
<1>8. CASE AcceptLink(u) \/ RejectLink(u) \/ LeaveWorkspace(u)
  <2>1. \E hook \in Hooks, t \in Tokens \cup {NoToken} :
          /\ hook \in {"accept", "reject"} => t \in Tokens
          /\ Mutate(u, hook, t)
    BY <1>8 DEF AcceptLink, RejectLink, LeaveWorkspace, Hooks, PageTypes
  <2>2. UNCHANGED <<tables, faults, histories, page, link, dialog, shown,
                    copied, troubled>>
    BY <1>8 DEF AcceptLink, RejectLink, LeaveWorkspace
  <2>3. /\ LinksInv'
        /\ latest' \in [Users -> [Hooks -> Calls \cup {NoCall}]]
    BY <2>1, <2>2, MutateKeeps
  <2> QED
    BY <1>2, <2>2, <2>3 DEF PageTypes
<1> QED
  BY <1>3, <1>4, <1>5, <1>6, <1>7, <1>8 DEF Browse

LEMMA AnswersKeep ==
  ASSUME PagesInv, NEW c \in Calls, Answered(c)
  PROVE  PagesInv'
<1> USE DEF PagesInv
<1> DEFINE u == call[c].user
<1>1. Forget(c) /\ UNCHANGED <<tables, faults, histories>>
  BY DEF Answered, InviteAnswered, ChangeAnswered, RejectAnswered
<1>2. LinksInv'
  BY <1>1, ForgetKeeps
<1>3. call[c] \in CallRecord
  BY DEF LinksInv, ServiceTypeOK
<1>4. /\ u \in Users /\ call[c].token \in Tokens \cup {NoToken}
      /\ call[c].ok \in BOOLEAN /\ call[c].alone \in BOOLEAN
  BY <1>3 DEF CallRecord
<1>5. Settled(c) => latest' \in [Users -> [Hooks -> Calls \cup {NoCall}]]
  <2> DEFINE h == call[c].op
             mine == [latest[u] EXCEPT ![h] = IF @ = c THEN NoCall ELSE @]
  <2>1. mine \in [Hooks -> Calls \cup {NoCall}]
    <3>1. latest[u] \in [Hooks -> Calls \cup {NoCall}]
      BY <1>4 DEF PageTypes
    <3>2. ASSUME NEW f \in [Hooks -> Calls \cup {NoCall}], NEW k
          PROVE  [f EXCEPT ![k] = IF @ = c THEN NoCall ELSE @]
                   \in [Hooks -> Calls \cup {NoCall}]
      OBVIOUS
    <3> QED
      BY <3>1, <3>2
  <2>2. Settled(c) => latest' = [latest EXCEPT ![u] = mine]
    BY <1>4 DEF Settled, PageTypes
  <2> HIDE DEF mine
  <2> QED
    BY <2>1, <2>2 DEF PageTypes
<1>6. CASE InviteAnswered(c)
  <2>1. /\ Settled(c) /\ UNCHANGED <<page, link, dialog, copied, list, stray,
                                     behind>>
        /\ \/ shown' = shown
           \/ /\ page[u] = "manager"
              /\ shown' = [shown EXCEPT ![u] = call[c].token]
        /\ \/ troubled' = [troubled EXCEPT ![u] = TRUE]
           \/ troubled' = [troubled EXCEPT ![u] = FALSE]
    BY <1>6 DEF InviteAnswered, OnPage, At
  <2>2. PageTypes'
    BY <1>4, <1>5, <2>1 DEF PageTypes
  <2> QED
    BY <1>2, <2>1, <2>2 DEF ListTypes
<1>7. CASE ChangeAnswered(c) \/ RejectAnswered(c)
  <2>1. /\ Invalidate(u) \/ UNCHANGED <<list, stray, behind>>
        /\ \/ Show(u, "library", NoToken)
           \/ Settled(c) /\ UNCHANGED <<page, link, dialog, shown>>
        /\ UNCHANGED <<copied, troubled>>
    BY <1>7 DEF ChangeAnswered, RejectAnswered
  <2>2. ListTypes'
    BY <1>4, <2>1, InvalidateKeeps DEF ListTypes
  <2>3. CASE Show(u, "library", NoToken)
    BY <1>2, <1>4, <2>1, <2>2, <2>3, ShowKeeps DEF PageKinds
  <2>4. CASE Settled(c) /\ UNCHANGED <<page, link, dialog, shown>>
    BY <1>2, <1>5, <2>1, <2>2, <2>4 DEF PageTypes
  <2> QED
    BY <2>1, <2>3, <2>4
<1> QED
  BY <1>6, <1>7 DEF Answered

LEMMA ListKeeps ==
  ASSUME PagesInv, NEW u \in Viewers, List(u)
  PROVE  PagesInv'
<1> USE DEF PagesInv
<1>1. u \in Users
  BY ViewersAssumption
<1>2. /\ list[u] \in Lists /\ list[u].fetch \in Fetches
      /\ list[u].has \in BOOLEAN /\ list[u].fetch.has \in BOOLEAN
  BY DEF ListTypes, Lists, Fetches
<1>3. PageTypes'
  BY DEF List, RefetchList, ListReadsView, ListReadsMembers, ListBackfills,
         ListAnswered, StrayGoesOn, ListFails, pageVars, PageTypes
<1>4. LinksInv'
  <2>1. /\ UNCHANGED <<row, listed, inviter, member, call, histories>>
        /\ view' \in {view, [view EXCEPT ![u] = "member"]}
        /\ faults' \in {faults, faults + 1}
    BY DEF List, RefetchList, ListReadsView, ListReadsMembers, ListBackfills,
           ListAnswered, StrayGoesOn, ListFails, serviceVars, tables
  <2>2. view' \in [Users -> Roles \cup {NoRole}] /\ faults' \in Nat
    BY <1>1, <2>1 DEF LinksInv, ServiceTypeOK, Roles
  <2> QED
    BY <2>1, <2>2, LinksUntouched
<1>5. behind' \in [Viewers -> BOOLEAN]
  BY DEF List, RefetchList, ListReadsView, ListReadsMembers, ListBackfills,
         ListAnswered, StrayGoesOn, ListFails, ListTypes
<1>6. stray' \in [Viewers -> StrayStations]
  BY DEF List, RefetchList, ListReadsView, ListReadsMembers, ListBackfills,
         ListAnswered, StrayGoesOn, ListFails, ListTypes, StrayStations
<1>7. list' \in [Viewers -> Lists]
  <2>1. ASSUME NEW f \in Fetches, list' = [list EXCEPT ![u].fetch = f]
        PROVE  list' \in [Viewers -> Lists]
    BY <1>2, <2>1 DEF ListTypes, Lists
  <2>2. CASE RefetchList(u) \/ ListFails(u)
    BY <2>1, <2>2 DEF RefetchList, ListFails, NewFetch, NoFetch, Fetches
  <2>3. CASE ListReadsView(u) \/ ListReadsMembers(u) \/ ListBackfills(u)
    <3> DEFINE now == list[u].fetch
    <3>1. CASE ListReadsView(u)
      <4>1. (view[u] # NoRole) \in BOOLEAN
        OBVIOUS
      <4>2. [now EXCEPT !.at = "members", !.has = view[u] # NoRole] \in Fetches
        BY <1>2, <4>1 DEF Fetches
      <4>3. list' = [list EXCEPT ![u].fetch =
                       [@ EXCEPT !.at = "members", !.has = view[u] # NoRole]]
        BY <1>2, <3>1 DEF ListReadsView, ListTypes, Lists
      <4> QED
        BY <1>2, <2>1, <4>2, <4>3 DEF ListTypes
    <3>2. CASE ListReadsMembers(u)
      <4>1. \A at \in {"backfill", "answered"} :
              [now EXCEPT !.at = at] \in Fetches
        BY <1>2 DEF Fetches
      <4>2. \E at \in {"backfill", "answered"} :
              list' = [list EXCEPT ![u].fetch = [now EXCEPT !.at = at]]
        BY <1>2, <3>2 DEF ListReadsMembers, FetchGoes, ListTypes, Lists
      <4> QED
        BY <2>1, <4>1, <4>2
    <3>3. CASE ListBackfills(u)
      <4>1. [now EXCEPT !.at = "answered", !.has = TRUE] \in Fetches
        BY <1>2 DEF Fetches
      <4>2. list' = [list EXCEPT ![u].fetch =
                       [now EXCEPT !.at = "answered", !.has = TRUE]]
        BY <1>2, <3>3 DEF ListBackfills, ListTypes, Lists
      <4> QED
        BY <2>1, <4>1, <4>2
    <3> QED
      BY <2>3, <3>1, <3>2, <3>3
  <2>4. CASE ListAnswered(u)
    BY <1>2, <2>4 DEF ListAnswered, ListTypes, Lists, NoFetch, Fetches
  <2>5. CASE StrayGoesOn(u)
    BY <2>5 DEF StrayGoesOn, ListTypes
  <2> QED
    BY <2>2, <2>3, <2>4, <2>5 DEF List
<1> QED
  BY <1>3, <1>4, <1>5, <1>6, <1>7 DEF ListTypes

LEMMA PagesInit == Init => PagesInv
<1> SUFFICES ASSUME Init PROVE PagesInv
  OBVIOUS
<1>1. PICK joined \in SUBSET (Users \ {Owner}) :
        member = [u \in Users |-> CASE u = Owner   -> "owner"
                                    [] u \in joined -> "member"
                                    [] OTHER       -> NoRole]
  BY DEF Init, ServiceInit
<1>2. member \in [Users -> Roles \cup {NoRole}]
  BY <1>1 DEF Roles
<1>3. LinksInv
  BY <1>2, IdleSound, OwnerAssumption
  DEF Init, ServiceInit, LinksInv, ServiceTypeOK, ClosedRows, RowStates
<1>4. NoCalls \in [Hooks -> Calls \cup {NoCall}]
  BY DEF NoCalls
<1>5. PageTypes
  BY <1>4 DEF Init, PageTypes, PageKinds
<1>6. ListTypes
  BY DEF Init, ListTypes, Lists, NoFetch, Fetches, StrayStations
<1> QED
  BY <1>3, <1>5, <1>6 DEF PagesInv

LEMMA PagesNext == PagesInv /\ [Next]_vars => PagesInv'
<1> SUFFICES ASSUME PagesInv, [Next]_vars PROVE PagesInv'
  OBVIOUS
<1>1. ASSUME NEW c \in Calls, Work(c) PROVE PagesInv'
  BY <1>1, ServeKeeps DEF Work, PagesInv, PageTypes, ListTypes, pageVars
<1>2. CASE UNCHANGED vars
  <2>1. LinksInv'
    BY <1>2, ServiceRests DEF vars, PagesInv
  <2> QED
    BY <1>2, <2>1 DEF vars, pageVars, PagesInv, PageTypes, ListTypes
<1> QED
  BY <1>1, <1>2, BrowseKeeps, AnswersKeep, ListKeeps DEF Next

LEMMA PagesAlways == Spec => []PagesInv
BY PagesInit, PagesNext, PTL DEF Spec

(* Every table, call, page and list keeps its type; above all, a dialog and   *)
(* the link it shows belong to a members page that is open.                   *)
THEOREM TypeCorrect == Spec => []TypeOK
<1>1. PagesInv => TypeOK
  BY DEF PagesInv, LinksInv, PageTypes, ListTypes, TypeOK
<1> QED
  BY <1>1, PagesAlways, PTL

(* ClosedLinksStayClosed, for any number of users, links, calls and failures: *)
(* an accept that was sent after its link had been used, rejected or reset    *)
(* does not join the workspace.                                               *)
THEOREM ClosedLinksStayClosedCorrect == Spec => []ClosedLinksStayClosed
<1>1. PagesInv => ClosedLinksStayClosed
  BY DEF PagesInv, LinksInv, RecordSound, ClosedLinksStayClosed
<1> QED
  BY <1>1, PagesAlways, PTL

-----------------------------------------------------------------------------
(* The link in the dialog *)

(* The links a user made, and those that still serve or served.               *)
Made(u) == {t \in Tokens : inviter[t] = u /\ row[t] # "unmade"}
Works(t) == row[t] = "open" \/ t \in spent

(* An invite only resets links of its own user; the one it made works while   *)
(* it runs alone, and running alone means that no other runs.                 *)
InviteSound(c) ==
  call[c].op = "invite" =>
    /\ call[c].todo \subseteq Made(call[c].user)
    /\ call[c].at \in {"unlist", "delete", "list"}
         => call[c].token \in Made(call[c].user)
    /\ call[c].at = "answered" /\ call[c].ok
         => call[c].token \in Made(call[c].user)
    /\ call[c].at = "list" \/ (call[c].at = "answered" /\ call[c].ok)
         => (call[c].alone => Works(call[c].token))
    /\ call[c].alone => Inviting(call[c].user) = {c}

ListedMade == \A t \in listed : row[t] # "unmade"

ShownSound ==
  \A u \in Users :
    shown[u] # NoToken =>
      /\ shown[u] \in Made(u)
      /\ Inviting(u) = {} /\ ~troubled[u] => Works(shown[u])

InvitesInv ==
  /\ \A c \in Calls : InviteSound(c)
  /\ ListedMade
  /\ ShownSound

(* A statement moves its own call, which stays the call it is.                *)
Same(r, s) == r.op = s.op /\ r.user = s.user /\ r.alone = s.alone

LEMMA NextResetSame ==
  ASSUME NEW record \in CallRecord, NEW rest \in SUBSET Tokens,
         NEW after \in NextReset(record, rest)
  PROVE  /\ Same(after, record) /\ after.todo \subseteq rest
         /\ after.at \in {"insert", "unlist"}
         /\ after.at = "unlist" => after.token \in rest
<1>1. CASE rest = {}
  <2>1. after = [record EXCEPT !.at = "insert", !.todo = {}]
    BY <1>1 DEF NextReset
  <2> QED
    BY <2>1 DEF Same, CallRecord
<1>2. CASE rest # {}
  <2>1. PICK t \in rest :
          after = [record EXCEPT !.at = "unlist", !.token = t,
                                 !.todo = rest \ {t}]
    BY <1>2 DEF NextReset
  <2> QED
    BY <2>1 DEF Same, CallRecord
<1> QED
  BY <1>1, <1>2

LEMMA OwnCallMoves ==
  ASSUME LinksInv, NEW c \in Calls, Serve(c)
  PROVE  /\ \A d \in Calls \ {c} : call'[d] = call[d]
         /\ Same(call'[c], call[c])
<1>1. call \in [Calls -> CallRecord] /\ call[c] \in CallRecord
  BY DEF LinksInv, ServiceTypeOK
<1>2. ASSUME NEW station, GoTo(c, station)
      PROVE  /\ \A d \in Calls \ {c} : call'[d] = call[d]
             /\ Same(call'[c], call[c])
  BY <1>1, <1>2 DEF GoTo, Same, CallRecord
<1>3. ASSUME NEW ok, Answer(c, ok)
      PROVE  /\ \A d \in Calls \ {c} : call'[d] = call[d]
             /\ Same(call'[c], call[c])
  BY <1>1, <1>3 DEF Answer, Same, CallRecord
<1>4. CASE Delete(c)
  <2>1. PICK after \in AfterDelete(call[c]) : call' = [call EXCEPT ![c] = after]
    BY <1>4 DEF Delete
  <2>2. Same(after, call[c])
    <3>1. CASE call[c].op = "invite"
      BY <1>1, <3>1, NextResetSame DEF AfterDelete, CallRecord
    <3>2. CASE call[c].op # "invite"
      BY <1>1, <3>2 DEF AfterDelete, CallRecord, Same
    <3> QED
      BY <3>1, <3>2
  <2> QED
    BY <1>1, <2>1, <2>2
<1>5. CASE InviteScans(c)
  <2> DEFINE mine == {t \in listed : inviter[t] = call[c].user}
  <2>1. PICK after \in NextReset(call[c], mine) :
          call' = [call EXCEPT ![c] = after]
    BY <1>5 DEF InviteScans
  <2>2. mine \in SUBSET Tokens
    BY DEF LinksInv, ServiceTypeOK
  <2> HIDE DEF mine
  <2>3. Same(after, call[c])
    BY <1>1, <2>1, <2>2, NextResetSame
  <2> QED
    BY <1>1, <2>1, <2>3
<1>6. CASE InviteInserts(c)
  BY <1>1, <1>6 DEF InviteInserts, Same, CallRecord
<1>7. CASE CallFails(c) \/ InviteLists(c) \/ RemoveLeavesView(c)
  BY <1>3, <1>7 DEF CallFails, InviteLists, RemoveLeavesView
<1>8. CASE \/ Unlist(c) \/ AcceptMarks(c) \/ AcceptJoins(c)
           \/ AcceptJoinsView(c) \/ RemoveLeaves(c)
  BY <1>2, <1>8
  DEF Unlist, AcceptMarks, AcceptJoins, AcceptJoinsView, RemoveLeaves
<1>9. CASE InviteChecks(c) \/ AcceptReads(c) \/ Reject(c) \/ RemoveChecks(c)
  BY <1>2, <1>3, <1>9 DEF InviteChecks, AcceptReads, Reject, RemoveChecks
<1> QED
  BY <1>4, <1>5, <1>6, <1>7, <1>8, <1>9 DEF Serve, Invite, Accept, Remove

(* Whoever made a link is known for good, and a link works until an invite    *)
(* resets it: who answers it is noted in spent.                               *)
LEMMA RowsMove ==
  ASSUME LinksInv, NEW c \in Calls, Serve(c)
  PROVE  /\ \A u \in Users : Made(u) \subseteq Made(u)'
         /\ \A t \in Tokens :
              Works(t) => \/ Works(t)'
                          \/ call[c].op = "invite" /\ call[c].at = "delete"
                               /\ call[c].token = t
         /\ spent \subseteq spent'
<1>1. /\ row \in [Tokens -> RowStates] /\ inviter \in [Tokens -> Users]
  BY DEF LinksInv, ServiceTypeOK
<1>2. CASE InviteInserts(c)
  BY <1>1, <1>2 DEF InviteInserts, Made, Works, histories
<1>3. CASE Delete(c)
  <2>1. call[c].at = "delete"
    BY <1>3 DEF Delete
  <2> QED
    BY <1>1, <1>3, <2>1 DEF Delete, Made, Works
<1>4. CASE AcceptMarks(c)
  BY <1>1, <1>4 DEF AcceptMarks, Marked, Made, Works
<1>5. CASE UNCHANGED <<row, inviter, spent>>
  BY <1>5 DEF Made, Works
<1>6. InviteInserts(c) \/ Delete(c) \/ AcceptMarks(c)
        \/ UNCHANGED <<row, inviter, spent>>
  BY DEF Serve, Invite, InviteChecks, InviteScans, InviteLists, Accept,
         AcceptReads, AcceptJoins, AcceptJoinsView, Reject, Remove,
         RemoveChecks, RemoveLeaves, RemoveLeavesView, Unlist, CallFails,
         tables, histories
<1> QED
  BY <1>2, <1>3, <1>4, <1>5, <1>6

(* What a statement leaves an invite with.                                    *)
LEMMA OwnInviteMoves ==
  ASSUME LinksInv, InvitesInv, NEW c \in Calls, Serve(c),
         call[c].op = "invite"
  PROVE  /\ call'[c].todo \subseteq Made(call[c].user)
         /\ call'[c].at \in {"unlist", "delete"}
              => call'[c].token \in Made(call[c].user)
         /\ \/ call'[c].at = "list"
            \/ call'[c].at = "answered" /\ call'[c].ok
            => /\ (call[c].token \in Made(call[c].user))'
               /\ call[c].alone => Works(call[c].token)'
<1>1. /\ call \in [Calls -> CallRecord] /\ call[c] \in CallRecord
      /\ row \in [Tokens -> RowStates] /\ inviter \in [Tokens -> Users]
      /\ call[c].todo \in SUBSET Tokens /\ call[c].user \in Users
  BY DEF LinksInv, ServiceTypeOK, CallRecord
<1>2. InviteSound(c) /\ ListedMade
  BY DEF InvitesInv
<1>3. CASE InviteChecks(c)
  <2>1. /\ call'[c].todo = call[c].todo
        /\ \/ call'[c].at = "scan"
           \/ call'[c].at = "answered" /\ call'[c].ok = FALSE
    BY <1>1, <1>3 DEF InviteChecks, GoTo, Answer, CallRecord
  <2> QED
    BY <1>2, <2>1 DEF InviteSound
<1>4. CASE InviteScans(c)
  <2> DEFINE mine == {t \in listed : inviter[t] = call[c].user}
  <2>1. mine \in SUBSET Tokens /\ mine \subseteq Made(call[c].user)
    BY <1>2 DEF LinksInv, ServiceTypeOK, ListedMade, Made
  <2>2. call'[c] \in NextReset(call[c], mine)
    BY <1>1, <1>4 DEF InviteScans
  <2> HIDE DEF mine
  <2> QED
    BY <1>1, <2>1, <2>2, NextResetSame
<1>5. CASE InviteInserts(c)
  <2>1. PICK t \in Tokens :
          /\ row' = [row EXCEPT ![t] = "open"]
          /\ inviter' = [inviter EXCEPT ![t] = call[c].user]
          /\ call' = [call EXCEPT ![c].at = "list", ![c].token = t]
    BY <1>5 DEF InviteInserts
  <2>2. /\ call'[c].todo = call[c].todo
        /\ call'[c].at = "list" /\ call'[c].token = t
        /\ call'[c].user = call[c].user
    BY <1>1, <2>1 DEF CallRecord
  <2>3. t \in Made(call[c].user)' /\ Works(t)'
    BY <1>1, <2>1, <2>2 DEF Made, Works
  <2> QED
    BY <1>2, <2>2, <2>3 DEF InviteSound
<1>6. CASE InviteLists(c)
  <2>1. /\ call'[c].todo = call[c].todo /\ call'[c].token = call[c].token
        /\ call'[c].at = "answered" /\ call[c].at = "list"
        /\ call'[c].user = call[c].user
        /\ UNCHANGED <<row, inviter, spent>>
    BY <1>1, <1>6 DEF InviteLists, At, Answer, CallRecord, histories
  <2> QED
    BY <1>2, <2>1 DEF InviteSound, Made, Works
<1>7. CASE Unlist(c)
  <2>1. /\ call'[c].todo = call[c].todo /\ call'[c].token = call[c].token
        /\ call'[c].at = "delete" /\ call[c].at = "unlist"
    BY <1>1, <1>7 DEF Unlist, GoTo, CallRecord
  <2> QED
    BY <1>2, <2>1 DEF InviteSound
<1>8. CASE Delete(c)
  <2>1. call'[c] \in NextReset(call[c], call[c].todo)
    BY <1>1, <1>8 DEF Delete, AfterDelete
  <2> QED
    BY <1>1, <1>2, <2>1, NextResetSame DEF InviteSound
<1>9. CASE CallFails(c)
  <2>1. /\ call'[c].todo = call[c].todo
        /\ call'[c].at = "answered" /\ call'[c].ok = FALSE
    BY <1>1, <1>9 DEF CallFails, Answer, CallRecord
  <2> QED
    BY <1>2, <2>1 DEF InviteSound
<1> QED
  BY <1>3, <1>4, <1>5, <1>6, <1>7, <1>8, <1>9
  DEF Serve, Invite, Accept, AcceptReads, AcceptMarks, AcceptJoins,
      AcceptJoinsView, Reject, Remove, RemoveChecks, RemoveLeaves,
      RemoveLeavesView, At

LEMMA ServeKeepsInvites ==
  ASSUME PagesInv, InvitesInv, NEW c \in Calls, Work(c)
  PROVE  InvitesInv'
<1> USE DEF PagesInv
<1>1. Serve(c) /\ UNCHANGED <<shown, troubled>>
  BY DEF Work, pageVars
<1>2. /\ \A d \in Calls \ {c} : call'[d] = call[d]
      /\ call'[c].op = call[c].op /\ call'[c].user = call[c].user
      /\ call'[c].alone = call[c].alone
  BY <1>1, OwnCallMoves DEF Same
<1>3. \A u : Inviting(u)' = Inviting(u)
  BY <1>2 DEF Inviting
<1>4. /\ \A u \in Users : Made(u) \subseteq Made(u)'
      /\ \A t \in Tokens :
           Works(t) => \/ Works(t)'
                       \/ call[c].op = "invite" /\ call[c].at = "delete"
                            /\ call[c].token = t
  BY <1>1, RowsMove
<1>5. \A d \in Calls : call[d].user \in Users /\ InviteSound(d)
  BY DEF LinksInv, ServiceTypeOK, CallRecord, InvitesInv
<1>6. InviteSound(c)'
  <2>1. CASE call[c].op = "invite"
    <3>1. /\ call'[c].todo \subseteq Made(call[c].user)
          /\ call'[c].at \in {"unlist", "delete"}
               => call'[c].token \in Made(call[c].user)
          /\ \/ call'[c].at = "list"
             \/ call'[c].at = "answered" /\ call'[c].ok
             => /\ (call[c].token \in Made(call[c].user))'
                /\ call[c].alone => Works(call[c].token)'
      BY <1>1, <2>1, OwnInviteMoves
    <3>2. Made(call[c].user) \subseteq (Made(call[c].user))'
      BY <1>2, <1>4, <1>5 DEF Made
    <3>3. call[c].alone => (Inviting(call[c].user))' = {c}
      BY <1>2, <1>3, <1>5, <2>1 DEF InviteSound, Inviting
    <3> QED
      BY <1>2, <3>1, <3>2, <3>3 DEF InviteSound
  <2>2. CASE call[c].op # "invite"
    BY <1>2, <2>2 DEF InviteSound
  <2> QED
    BY <2>1, <2>2
<1>7. ASSUME NEW d \in Calls \ {c}, call[d].op = "invite"
      PROVE  InviteSound(d)'
  <2>1. call'[d] = call[d] /\ call[d].user \in Users /\ InviteSound(d)
    BY <1>2, <1>5
  <2> DEFINE u == call[d].user
             t == call[d].token
  <2>2. Made(u) \subseteq (Made(call[d].user))'
    BY <1>4, <2>1 DEF Made
  <2>3. (Inviting(call[d].user))' = Inviting(u)
    BY <1>3, <2>1 DEF Inviting
  <2>4. ASSUME t \in Made(u), call[d].alone, Works(t)
        PROVE  (Works(call[d].token))'
    <3>1. t \in Tokens /\ inviter[t] = u
      BY <2>4 DEF Made
    <3>2. CASE (Works(call[d].token))'
      BY <3>2
    <3>3. CASE call[c].op = "invite" /\ call[c].at = "delete"
                 /\ call[c].token = t
      <4>1. t \in Made(call[c].user)
        BY <1>5, <3>3 DEF InviteSound
      <4>2. c \in Inviting(u)
        BY <3>1, <3>3, <4>1 DEF Made, Inviting
      <4>3. Inviting(u) = {d}
        BY <1>7, <2>1, <2>4 DEF InviteSound
      <4> QED
        BY <4>2, <4>3
    <3> QED
      BY <1>4, <2>1, <2>4, <3>1, <3>2, <3>3 DEF Works
  <2> QED
    BY <1>7, <2>1, <2>2, <2>3, <2>4 DEF InviteSound
<1>8. \A d \in Calls : InviteSound(d)'
  BY <1>2, <1>6, <1>7 DEF InviteSound
<1>9. ListedMade'
  <2>1. ASSUME NEW t \in listed' PROVE row'[t] # "unmade"
    <3>1. t \in Tokens /\ \E u \in Users : inviter[t] = u
      BY <1>1, ServeKeeps DEF LinksInv, ServiceTypeOK
    <3>2. CASE t \in listed
      BY <1>4, <3>1, <3>2 DEF InvitesInv, ListedMade, Made
    <3>3. CASE t \notin listed
      <4>1. InviteLists(c) /\ t = call[c].token
        BY <1>1, <2>1, <3>3
        DEF Serve, Invite, InviteChecks, InviteScans, InviteInserts,
            InviteLists, Accept, AcceptReads, AcceptMarks, AcceptJoins,
            AcceptJoinsView, Reject, Remove, RemoveChecks, RemoveLeaves,
            RemoveLeavesView, Unlist, Delete, CallFails, tables
      <4>2. t \in Made(call[c].user)
        BY <1>5, <4>1 DEF InviteLists, At, InviteSound
      <4> QED
        BY <1>4, <1>5, <4>2 DEF Made
    <3> QED
      BY <3>2, <3>3
  <2> QED
    BY <2>1 DEF ListedMade
<1>10. ASSUME NEW u \in Users, shown[u] # NoToken
       PROVE  /\ shown[u] \in Made(u)'
              /\ Inviting(u)' = {} /\ ~troubled[u] => Works(shown[u])'
  <2>1. /\ shown[u] \in Made(u) /\ shown[u] \in Tokens
        /\ Inviting(u) = {} /\ ~troubled[u] => Works(shown[u])
    BY <1>10 DEF InvitesInv, ShownSound, Made
  <2>2. ASSUME Inviting(u) = {}, ~troubled[u]
        PROVE  (Works(shown[u]))'
    <3>1. CASE call[c].op = "invite" /\ call[c].at = "delete"
                 /\ call[c].token = shown[u]
      <4>1. shown[u] \in Made(call[c].user)
        BY <1>5, <3>1 DEF InviteSound
      <4>2. c \in Inviting(u)
        BY <2>1, <3>1, <4>1 DEF Made, Inviting
      <4> QED
        BY <2>2, <4>2
    <3>2. CASE (Works(shown[u]))'
      BY <3>2
    <3> QED
      BY <1>1, <1>4, <2>1, <2>2, <3>1, <3>2 DEF Works
  <2> QED
    BY <1>1, <1>3, <1>4, <2>1, <2>2 DEF Works
<1>11. ShownSound'
  BY <1>1, <1>10 DEF ShownSound, Works
<1> QED
  BY <1>8, <1>9, <1>11 DEF InvitesInv

(* The tables and the calls stay: what is shown may only go.                  *)
LEMMA InvitesRest ==
  ASSUME InvitesInv, UNCHANGED <<row, listed, inviter, spent, call>>,
         UNCHANGED troubled,
         \A u \in Users : shown'[u] \in {shown[u], NoToken}
  PROVE  InvitesInv'
<1>1. \A u, t : /\ Made(u)' = Made(u) /\ Inviting(u)' = Inviting(u)
                /\ Works(t)' <=> Works(t)
  BY DEF Made, Inviting, Works
<1>2. \A c \in Calls : InviteSound(c)'
  BY DEF InvitesInv, InviteSound, Made, Inviting, Works
<1>3. ListedMade'
  BY DEF InvitesInv, ListedMade
<1>4. ShownSound'
  BY DEF InvitesInv, ShownSound, Made, Inviting, Works
<1> QED
  BY <1>2, <1>3, <1>4 DEF InvitesInv

(* A call is sent: an invite ends the solitude of the others of its user.     *)
LEMMA SendKeepsInvites ==
  ASSUME PagesInv, InvitesInv, NEW c \in Calls, NEW op \in Hooks,
         NEW u \in Users, NEW t, Send(c, op, u, t),
         UNCHANGED <<tables, histories, shown>>,
         \A v \in Users : op # "invite" \/ v # u => troubled'[v] = troubled[v]
  PROVE  InvitesInv'
<1> USE DEF PagesInv
<1>1. UNCHANGED <<row, listed, inviter, spent>>
  BY DEF tables, histories
<1>2. call \in [Calls -> CallRecord]
  BY DEF LinksInv, ServiceTypeOK
<1>3. /\ call[c].op = "idle"
      /\ call'[c].op = op /\ call'[c].user = u /\ call'[c].at = "sent"
      /\ call'[c].todo = {}
      /\ call'[c].alone <=> Inviting(u) = {}
  <2>1. call[c].op = "idle"
    <3>1. call[c] = Idle
      BY DEF Send
    <3> QED
      BY <3>1 DEF Idle
  <2> DEFINE none == Inviting(u) = {}
             late == t \in closed
  <2>2. none \in BOOLEAN
    OBVIOUS
  <2>3. call'[c] = [Idle EXCEPT !.op = op, !.user = u, !.at = "sent",
                      !.token = t, !.late = late, !.alone = none]
    BY DEF Send
  <2> HIDE DEF none, late
  <2>4. call'[c] = [op |-> op, user |-> u, at |-> "sent", token |-> t,
                    todo |-> {}, late |-> late, alone |-> none, ok |-> FALSE]
    BY <2>3 DEF Idle
  <2>5. /\ call'[c].op = op /\ call'[c].user = u /\ call'[c].at = "sent"
        /\ call'[c].todo = {}
    BY <2>4
  <2>6. call'[c].alone = none
    BY <2>4
  <2>7. call'[c].alone <=> none
    BY <2>2, <2>6
  <2>8. call'[c].alone <=> Inviting(u) = {}
    BY <2>7, Zenon DEF none
  <2> QED
    BY <2>1, <2>5, <2>8
<1>4. ASSUME NEW d \in Calls \ {c}
      PROVE  /\ call'[d].op = call[d].op /\ call'[d].user = call[d].user
             /\ call'[d].at = call[d].at /\ call'[d].token = call[d].token
             /\ call'[d].todo = call[d].todo /\ call'[d].ok = call[d].ok
             /\ call'[d].alone => call[d].alone
             /\ op = "invite" /\ d \in Inviting(u) => ~call'[d].alone
  BY <1>2 DEF Send, CallRecord
<1>5. \A v : Inviting(v)' = IF op = "invite" /\ v = u
                            THEN Inviting(v) \cup {c} ELSE Inviting(v)
  BY <1>3, <1>4 DEF Inviting
<1>6. InviteSound(c)'
  BY <1>3, <1>5 DEF InviteSound, Inviting
<1>7. ASSUME NEW d \in Calls \ {c} PROVE InviteSound(d)'
  <2>1. InviteSound(d)
    BY DEF InvitesInv
  <2>2. call[d].op = "invite" => d \in Inviting(call[d].user)
    BY DEF Inviting
  <2> QED
    BY <1>1, <1>4, <1>5, <2>1, <2>2 DEF InviteSound, Made, Works, Inviting
<1>8. ListedMade'
  BY <1>1 DEF InvitesInv, ListedMade
<1>9. ShownSound'
  <2>1. \A v \in Users : Inviting(v)' = {} =>
          Inviting(v) = {} /\ (op # "invite" \/ v # u)
    BY <1>5
  <2> QED
    BY <1>1, <2>1 DEF InvitesInv, ShownSound, Made, Works
<1> QED
  BY <1>6, <1>7, <1>8, <1>9 DEF InvitesInv

(* A call is forgotten that was no invite, or one whose answer the dialog has *)
(* taken in.                                                                  *)
LEMMA ForgetKeepsInvites ==
  ASSUME PagesInv, InvitesInv, NEW c \in Calls, Forget(c),
         UNCHANGED <<tables, histories>>, ShownSound'
  PROVE  InvitesInv'
<1> USE DEF PagesInv
<1>1. UNCHANGED <<row, listed, inviter, spent>>
  BY DEF tables, histories
<1>2. /\ call \in [Calls -> CallRecord]
      /\ call'[c] = Idle /\ \A d \in Calls \ {c} : call'[d] = call[d]
  BY DEF Forget, LinksInv, ServiceTypeOK
<1>3. Idle.op = "idle"
  BY DEF Idle
<1>4. \A v : Inviting(v)' = Inviting(v) \ {c}
  BY <1>2, <1>3 DEF Inviting
<1>5. ASSUME NEW d \in Calls PROVE InviteSound(d)'
  <2>1. CASE d = c
    BY <1>2, <1>3, <2>1 DEF InviteSound
  <2>2. CASE d # c
    <3>1. InviteSound(d) /\ call'[d] = call[d]
      BY <1>2, <2>2 DEF InvitesInv
    <3> QED
      BY <1>1, <1>4, <2>2, <3>1 DEF InviteSound, Made, Works, Inviting
  <2> QED
    BY <2>1, <2>2
<1>6. ListedMade'
  BY <1>1 DEF InvitesInv, ListedMade
<1> QED
  BY <1>5, <1>6 DEF InvitesInv

LEMMA BrowseKeepsInvites ==
  ASSUME PagesInv, InvitesInv, NEW u \in Users, Browse(u)
  PROVE  InvitesInv'
<1> USE DEF PagesInv
<1>1. CASE OpenMembers(u) \/ OpenLink(u) \/ LeavePage(u)
  <2>1. /\ UNCHANGED serviceVars /\ troubled' = troubled
        /\ shown' = [shown EXCEPT ![u] = NoToken]
    BY <1>1 DEF OpenMembers, OpenLink, LeavePage, Show
  <2> QED
    BY <2>1, InvitesRest DEF serviceVars, tables, histories, PageTypes
<1>2. CASE \/ OpenInviteDialog(u) /\ shown[u] # NoToken
           \/ CloseInviteDialog(u) \/ CopyLink(u)
  <2>1. UNCHANGED <<row, listed, inviter, spent, call, troubled, shown>>
    BY <1>2
    DEF OpenInviteDialog, CloseInviteDialog, CopyLink, serviceVars, tables,
        histories, pageVars
  <2> QED
    BY <2>1, InvitesRest
<1>3. CASE (OpenInviteDialog(u) /\ shown[u] = NoToken) \/ ResetLink(u)
  <2>1. /\ Mutate(u, "invite", NoToken)
        /\ UNCHANGED <<tables, histories, shown>>
        /\ troubled' = [troubled EXCEPT ![u] = @ \/ Inviting(u) # {}]
    BY <1>3 DEF OpenInviteDialog, ResetLink, GenerateInviteCode
  <2>2. PICK c \in Calls : Send(c, "invite", u, NoToken)
    BY <2>1 DEF Mutate
  <2>3. \A v \in Users : v # u => troubled'[v] = troubled[v]
    BY <2>1 DEF PageTypes
  <2> QED
    BY <2>1, <2>2, <2>3, SendKeepsInvites DEF Hooks
<1>4. CASE AcceptLink(u) \/ RejectLink(u) \/ LeaveWorkspace(u)
  <2>1. UNCHANGED <<tables, histories, shown, troubled>>
    BY <1>4 DEF AcceptLink, RejectLink, LeaveWorkspace
  <2>2. \E op \in Hooks \ {"invite"}, c \in Calls : \E t : Send(c, op, u, t)
    BY <1>4 DEF AcceptLink, RejectLink, LeaveWorkspace, Mutate, Hooks
  <2> QED
    BY <2>1, <2>2, SendKeepsInvites
<1> QED
  BY <1>1, <1>2, <1>3, <1>4 DEF Browse

LEMMA AnswersKeepInvites ==
  ASSUME PagesInv, InvitesInv, NEW c \in Calls, Answered(c)
  PROVE  InvitesInv'
<1> USE DEF PagesInv
<1> DEFINE u == call[c].user
<1>1. Forget(c) /\ UNCHANGED <<tables, faults, histories>>
  BY DEF Answered, InviteAnswered, ChangeAnswered, RejectAnswered
<1>2. /\ call \in [Calls -> CallRecord] /\ u \in Users
      /\ call[c].ok \in BOOLEAN /\ call[c].alone \in BOOLEAN
  BY DEF LinksInv, ServiceTypeOK, CallRecord
<1>3. UNCHANGED <<row, inviter, spent>>
  BY <1>1 DEF tables, histories
<1>4. /\ call'[c] = Idle /\ Idle.op = "idle"
      /\ \A d \in Calls \ {c} : call'[d] = call[d]
  BY <1>1, <1>2 DEF Forget, Idle
<1>5. \A v : Inviting(v)' = Inviting(v) \ {c}
  BY <1>4 DEF Inviting
<1>6. CASE InviteAnswered(c)
  <2>1. InviteSound(c) /\ call[c].op = "invite" /\ call[c].at = "answered"
    BY <1>6 DEF InviteAnswered, At, InvitesInv
  <2>2. \A v \in Users : v # u =>
          /\ shown'[v] = shown[v] /\ troubled'[v] = troubled[v]
          /\ Inviting(v)' = Inviting(v)
    <3>1. \A v \in Users : v # u => Inviting(v)' = Inviting(v)
      BY <1>5 DEF Inviting
    <3>2. /\ shown' \in {shown, [shown EXCEPT ![u] = call[c].token]}
          /\ \E b \in BOOLEAN : troubled' = [troubled EXCEPT ![u] = b]
      BY <1>6 DEF InviteAnswered
    <3> QED
      BY <3>1, <3>2 DEF PageTypes
  <2>3. /\ troubled'[u] = IF call[c].ok /\ call[c].alone THEN FALSE ELSE TRUE
        /\ call[c].ok /\ page[u] = "manager" => shown'[u] = call[c].token
        /\ ~(call[c].ok /\ page[u] = "manager") => shown'[u] = shown[u]
    BY <1>2, <1>6, <2>1 DEF InviteAnswered, PageTypes, OnPage
  <2>4. shown'[u] # NoToken => shown'[u] \in Made(u)
    BY <1>2, <2>1, <2>3 DEF InviteSound, InvitesInv, ShownSound
  <2>5. shown'[u] # NoToken /\ ~troubled'[u] => Works(shown'[u])
    BY <1>2, <2>1, <2>3 DEF InviteSound, PageTypes
  <2>6. ASSUME NEW v \in Users, shown'[v] # NoToken
        PROVE  /\ shown'[v] \in Made(v)
               /\ Inviting(v)' = {} /\ ~troubled'[v] => Works(shown'[v])
    BY <2>2, <2>4, <2>5, <2>6 DEF InvitesInv, ShownSound
  <2>7. ShownSound'
    BY <1>3, <2>6 DEF ShownSound, Made, Works
  <2> QED
    BY <1>1, <2>7, ForgetKeepsInvites
<1>7. CASE ChangeAnswered(c) \/ RejectAnswered(c)
  <2>1. /\ call[c].op # "invite" /\ troubled' = troubled
        /\ \/ shown' = shown
           \/ shown' = [shown EXCEPT ![u] = NoToken]
    BY <1>7 DEF ChangeAnswered, RejectAnswered, At, Show
  <2>2. \A v \in Users :
          shown'[v] \in {shown[v], NoToken} /\ Inviting(v)' = Inviting(v)
    BY <1>5, <2>1 DEF PageTypes, Inviting
  <2>3. ShownSound'
    BY <1>3, <2>1, <2>2 DEF InvitesInv, ShownSound, Made, Works
  <2> QED
    BY <1>1, <2>3, ForgetKeepsInvites
<1> QED
  BY <1>6, <1>7 DEF Answered

LEMMA ListKeepsInvites ==
  ASSUME PagesInv, InvitesInv, NEW u \in Viewers, List(u)
  PROVE  InvitesInv'
<1>1. UNCHANGED <<row, listed, inviter, spent, call, troubled, shown>>
  BY DEF List, RefetchList, ListReadsView, ListReadsMembers, ListBackfills,
         ListAnswered, StrayGoesOn, ListFails, serviceVars, tables, histories,
         pageVars
<1> QED
  BY <1>1, InvitesRest

LEMMA InvitesAlways == Spec => []InvitesInv
<1>1. Init => InvitesInv
  <2> SUFFICES ASSUME Init PROVE InvitesInv
    OBVIOUS
  <2>1. \A c \in Calls : call[c] = Idle
    BY DEF Init, ServiceInit
  <2> QED
    BY <2>1
    DEF Init, ServiceInit, InvitesInv, InviteSound, ListedMade, ShownSound, Idle
<1>2. PagesInv /\ InvitesInv /\ [Next]_vars => InvitesInv'
  <2> SUFFICES ASSUME PagesInv, InvitesInv, [Next]_vars PROVE InvitesInv'
    OBVIOUS
  <2>1. CASE UNCHANGED vars
    <3>1. UNCHANGED <<row, listed, inviter, spent, call, troubled, shown>>
      BY <2>1 DEF vars, serviceVars, tables, histories, pageVars
    <3> QED
      BY <3>1, InvitesRest
  <2> QED
    BY <2>1, BrowseKeepsInvites, ListKeepsInvites, ServeKeepsInvites,
       AnswersKeepInvites
    DEF Next
<1> QED
  BY <1>1, <1>2, PagesAlways, PTL DEF Spec

(* ShownLinkWorks, for any number of members, links and calls: the link in    *)
(* the dialog is open, or someone answered it, unless invites overlapped or   *)
(* failed.                                                                    *)
THEOREM ShownLinkWorksCorrect == Spec => []ShownLinkWorks
<1>1. InvitesInv => ShownLinkWorks
  BY DEF InvitesInv, ShownSound, ShownLinkWorks, Works
<1> QED
  BY <1>1, InvitesAlways, PTL

-----------------------------------------------------------------------------
(* The list of workspaces *)

(* A request under way was sent after the latest change of the user's own.    *)
ListInv ==
  /\ OwnChangesListed
  /\ \A u \in Viewers : list[u].fetch.at # "none" => list[u].fetch.current

LEMMA InvalidateKeepsList ==
  ASSUME ListTypes, ListInv, NEW u \in Users,
         Invalidate(u) \/ UNCHANGED <<list, stray, behind>>
  PROVE  ListInv'
<1>1. CASE UNCHANGED <<list, stray, behind>>
  BY <1>1 DEF ListInv, OwnChangesListed
<1>2. CASE Invalidate(u) /\ u \in Viewers
  <2>1. /\ list' = [list EXCEPT ![u].invalid = TRUE, ![u].fetch = NewFetch]
        /\ behind' = [behind EXCEPT ![u] = TRUE]
    BY <1>2 DEF Invalidate
  <2>2. list'[u].invalid /\ list'[u].fetch = NewFetch
    BY <1>2, <2>1 DEF ListTypes, Lists
  <2>3. NewFetch.current
    BY DEF NewFetch
  <2> QED
    BY <2>1, <2>2, <2>3 DEF ListTypes, ListInv, OwnChangesListed
<1> QED
  BY <1>1, <1>2 DEF Invalidate

LEMMA ListKeepsList ==
  ASSUME ListTypes, ListInv, NEW u \in Viewers, List(u)
  PROVE  ListInv'
<1>1. /\ list[u] \in Lists /\ list[u].fetch \in Fetches
      /\ list[u].invalid \in BOOLEAN
  BY DEF ListTypes, Lists
<1>2. \A v \in Viewers \ {u} : list'[v] = list[v] /\ behind'[v] = behind[v]
  BY DEF List, RefetchList, ListReadsView, ListReadsMembers, ListBackfills,
         ListAnswered, StrayGoesOn, ListFails, FetchGoes, ListTypes
<1>3. /\ behind'[u] => list'[u].invalid
      /\ list'[u].fetch.at # "none" => list'[u].fetch.current
  <2>1. CASE RefetchList(u) \/ ListFails(u)
    <3>1. /\ list'[u].invalid = list[u].invalid /\ behind' = behind
          /\ list'[u].fetch \in {NewFetch, NoFetch}
      BY <1>1, <2>1 DEF RefetchList, ListFails, ListTypes, Lists
    <3> QED
      BY <3>1 DEF NewFetch, NoFetch, ListInv, OwnChangesListed
  <2>2. CASE ListReadsView(u) \/ ListReadsMembers(u) \/ ListBackfills(u)
    <3> DEFINE now == list[u].fetch
               Goes(at, has) == [now EXCEPT !.at = at, !.has = has]
    <3>1. \A at, has : Goes(at, has).current = now.current
      BY <1>1 DEF Fetches
    <3>2. \A at : [now EXCEPT !.at = at].current = now.current
      BY <1>1 DEF Fetches
    <3>3. \E f : /\ f.current = now.current
                 /\ list' = [list EXCEPT ![u].fetch = f]
      <4>1. CASE ListReadsView(u)
        <5>1. list' = [list EXCEPT ![u].fetch =
                         Goes("members", view[u] # NoRole)]
          BY <1>1, <4>1 DEF ListReadsView, ListTypes, Lists
        <5> QED
          BY <3>1, <5>1
      <4>2. CASE ListReadsMembers(u)
        <5>1. \E at : list' = [list EXCEPT ![u].fetch = [now EXCEPT !.at = at]]
          BY <1>1, <4>2 DEF ListReadsMembers, FetchGoes, ListTypes, Lists
        <5> QED
          BY <3>2, <5>1
      <4>3. CASE ListBackfills(u)
        <5>1. list' = [list EXCEPT ![u].fetch = Goes("answered", TRUE)]
          BY <1>1, <4>3 DEF ListBackfills, ListTypes, Lists
        <5> QED
          BY <3>1, <5>1
      <4> QED
        BY <2>2, <4>1, <4>2, <4>3
    <3>4. /\ list'[u].invalid = list[u].invalid
          /\ list'[u].fetch.current = now.current
      BY <1>1, <3>3 DEF ListTypes, Lists
    <3>5. behind' = behind /\ now.at # "none"
      BY <2>2 DEF ListReadsView, ListReadsMembers, ListBackfills
    <3> QED
      BY <3>4, <3>5 DEF ListInv, OwnChangesListed
  <2>3. CASE ListAnswered(u)
    <3>1. /\ list[u].fetch.at = "answered"
          /\ list'[u] = [has |-> list[u].fetch.has, invalid |-> FALSE,
                         fetch |-> NoFetch]
          /\ behind'[u] = (behind[u] /\ ~list[u].fetch.current)
      BY <2>3 DEF ListAnswered, ListTypes
    <3>2. list[u].fetch.current
      BY <3>1 DEF ListInv
    <3>3. ~behind'[u]
      BY <3>1, <3>2
    <3>4. list'[u].fetch.at = "none"
      BY <3>1 DEF NoFetch
    <3> QED
      BY <3>3, <3>4
  <2>4. CASE StrayGoesOn(u)
    BY <2>4 DEF StrayGoesOn, ListInv, OwnChangesListed
  <2> QED
    BY <2>1, <2>2, <2>3, <2>4 DEF List
<1> QED
  BY <1>2, <1>3 DEF ListInv, OwnChangesListed

(* OwnChangesListed, for any number of users and requests: an answer of the   *)
(* list that is older than a change of the user's own is never taken for      *)
(* valid.                                                                     *)
THEOREM OwnChangesListedCorrect == Spec => []OwnChangesListed
<1>1. Init => ListInv
  BY DEF Init, ListInv, OwnChangesListed, NoFetch
<1>2. PagesInv /\ ListInv /\ [Next]_vars => ListInv'
  <2> SUFFICES ASSUME PagesInv, ListInv, [Next]_vars PROVE ListInv'
    OBVIOUS
  <2>1. ListTypes
    BY DEF PagesInv
  <2>2. ASSUME NEW u \in Users, Browse(u) PROVE ListInv'
    <3>1. UNCHANGED <<list, behind>>
      BY <2>2 DEF Browse, OpenMembers, OpenLink, LeavePage, OpenInviteDialog,
                  CloseInviteDialog, ResetLink, CopyLink, AcceptLink,
                  RejectLink, LeaveWorkspace
    <3> QED
      BY <3>1 DEF ListInv, OwnChangesListed
  <2>3. ASSUME NEW c \in Calls, Work(c) PROVE ListInv'
    BY <2>3 DEF Work, ListInv, OwnChangesListed
  <2>4. ASSUME NEW c \in Calls, Answered(c) PROVE ListInv'
    <3>1. call[c].user \in Users
      BY DEF PagesInv, LinksInv, ServiceTypeOK, CallRecord
    <3>2. Invalidate(call[c].user) \/ UNCHANGED <<list, stray, behind>>
      BY <2>4 DEF Answered, InviteAnswered, ChangeAnswered, RejectAnswered
    <3> QED
      BY <2>1, <3>1, <3>2, InvalidateKeepsList
  <2>5. CASE UNCHANGED vars
    BY <2>5 DEF vars, ListInv, OwnChangesListed
  <2> QED
    BY <2>1, <2>2, <2>3, <2>4, <2>5, ListKeepsList DEF Next
<1>3. ListInv => OwnChangesListed
  BY DEF ListInv
<1> QED
  BY <1>1, <1>2, <1>3, PagesAlways, PTL DEF Spec
=============================================================================
