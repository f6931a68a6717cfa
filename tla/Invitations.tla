---------------------------- MODULE Invitations -----------------------------
(***************************************************************************)
(* Membership of one workspace and the links that invite to it, as the      *)
(* workspace service keeps them                                              *)
(* (services/workspace/internal/service/workspace_service.go): two tables of *)
(* invitations, two of members, no transaction between them. A call is a     *)
(* sequence of statements, one step each; calls run side by side, and        *)
(* any statement may fail and end its call with an error half way.          *)
(*                                                                           *)
(* Links are made by the browser only, so they carry no address and invite   *)
(* as "member". Names, profiles and the seven days a link lasts are left out.*)
(***************************************************************************)
EXTENDS Naturals, FiniteSets

CONSTANTS
  Users,
  Owner,    \* the user who created the workspace
  Tokens,   \* the links that can be made
  Calls,    \* calls that may run at once
  MaxFaults \* bound: statements that fail, answers that get lost

ASSUME OwnerAssumption == Owner \in Users
ASSUME FaultsAssumption == MaxFaults \in Nat

VARIABLES
  row,      \* workspace_invitations: what the row of a token says
  listed,   \* workspace_invitations_by_workspace: its tokens
  inviter,  \* invited_by of a token
  member,   \* workspace_members: role of a user
  view,     \* workspace_members_by_user: role of a user
  call,     \* the calls
  faults,   \* bound: failures so far
  closed,   \* history: tokens used, rejected or reset by some call
  spent     \* history: tokens some user's accept or reject went through with

tables == <<row, listed, inviter, member, view>>
histories == <<closed, spent>>
serviceVars == <<tables, call, faults, histories>>

Roles == {"owner", "admin", "member"}
NoRole == "none"

(* A row can be missing before the link is made or after its removal. An     *)
(* UPDATE of a missing row writes one with accepted_at and nothing else: a   *)
(* stub, which AcceptInvitation and RejectInvitation both refuse.            *)
RowStates == {"unmade", "open", "used", "stub", "removed"}

NoToken == "no token"
Idle == [op |-> "idle", user |-> Owner, at |-> "idle", token |-> NoToken,
         todo |-> {}, late |-> FALSE, alone |-> TRUE, ok |-> FALSE]

Ops == {"idle", "invite", "accept", "reject", "remove"}
Stations == {"idle", "sent", "scan", "unlist", "delete", "insert", "list",
             "mark", "join", "joinView", "leave", "leaveView", "answered"}
CallRecord == [op: Ops, user: Users, at: Stations,
               token: Tokens \cup {NoToken},
               todo: SUBSET Tokens, late: BOOLEAN, alone: BOOLEAN, ok: BOOLEAN]

(* Some of the users joined before.                                          *)
ServiceInit ==
  /\ row = [t \in Tokens |-> "unmade"]
  /\ listed = {}
  /\ inviter = [t \in Tokens |-> Owner]
  /\ \E joined \in SUBSET (Users \ {Owner}) :
       member = [u \in Users |-> CASE u = Owner   -> "owner"
                                   [] u \in joined -> "member"
                                   [] OTHER       -> NoRole]
  /\ view = member
  /\ call = [c \in Calls |-> Idle]
  /\ faults = 0
  /\ closed = {}
  /\ spent = {}

-----------------------------------------------------------------------------
(* authz: who may invite. Every role may leave, an owner may not.            *)
CanInvite(role) == role \in {"owner", "admin"}

At(c, op, station) == call[c].op = op /\ call[c].at = station

GoTo(c, station) == call' = [call EXCEPT ![c].at = station]

Answer(c, ok) == call' = [call EXCEPT ![c].at = "answered", ![c].ok = ok]

(* `late' notes that the link was closed before the call was even sent;      *)
(* `alone' that no other invite of the user was under way.                   *)
Inviting(u) == {c \in Calls : call[c].op = "invite" /\ call[c].user = u}

Send(c, op, u, t) ==
  /\ call[c] = Idle
  /\ call' = [d \in Calls |->
       IF d = c
       THEN [Idle EXCEPT !.op = op, !.user = u, !.at = "sent", !.token = t,
                         !.late = t \in closed, !.alone = Inviting(u) = {}]
       ELSE IF op = "invite" /\ d \in Inviting(u)
            THEN [call[d] EXCEPT !.alone = FALSE]
            ELSE call[d]]

(* invalidateInvitationToken: two deletes.                                   *)
Unlist(c) ==
  /\ call[c].at = "unlist"
  /\ listed' = listed \ {call[c].token}
  /\ GoTo(c, "delete")
  /\ UNCHANGED <<row, inviter, member, view, histories>>

(* A reset goes on with the next link it found; an accept, which then only   *)
(* reads the workspace, and a reject are done.                               *)
NextReset(record, rest) ==
  IF rest = {}
  THEN {[record EXCEPT !.at = "insert", !.todo = {}]}
  ELSE {[record EXCEPT !.at = "unlist", !.token = t, !.todo = rest \ {t}] :
          t \in rest}

AfterDelete(record) ==
  IF record.op = "invite"
  THEN NextReset(record, record.todo)
  ELSE {[record EXCEPT !.at = "answered", !.ok = TRUE]}

Delete(c) ==
  LET t == call[c].token IN
  /\ call[c].at = "delete"
  /\ row' = [row EXCEPT ![t] = "removed"]
  /\ \E after \in AfterDelete(call[c]) : call' = [call EXCEPT ![c] = after]
  /\ closed' = closed \cup {t}
  /\ spent' = IF call[c].op = "invite" THEN spent ELSE spent \cup {t}
  /\ UNCHANGED <<listed, inviter, member, view>>

-----------------------------------------------------------------------------
(* InviteMember without an address: the caller's role, then                  *)
(* resetInviteCodeLinks, then the two inserts. accepted_at is never written  *)
(* to the table it scans, so a link in use is reset as well.                 *)
InviteChecks(c) ==
  /\ At(c, "invite", "sent")
  /\ IF CanInvite(member[call[c].user])
     THEN GoTo(c, "scan")
     ELSE Answer(c, FALSE)
  /\ UNCHANGED <<tables, histories>>

InviteScans(c) ==
  /\ At(c, "invite", "scan")
  /\ \E after \in NextReset(call[c],
                            {t \in listed : inviter[t] = call[c].user}) :
       call' = [call EXCEPT ![c] = after]
  /\ UNCHANGED <<tables, histories>>

InviteInserts(c) ==
  /\ At(c, "invite", "insert")
  /\ \E t \in Tokens :
       /\ row[t] = "unmade"
       /\ row' = [row EXCEPT ![t] = "open"]
       /\ inviter' = [inviter EXCEPT ![t] = call[c].user]
       /\ call' = [call EXCEPT ![c].at = "list", ![c].token = t]
  /\ UNCHANGED <<listed, member, view, histories>>

InviteLists(c) ==
  /\ At(c, "invite", "list")
  /\ listed' = listed \cup {call[c].token}
  /\ Answer(c, TRUE)
  /\ UNCHANGED <<row, inviter, member, view, histories>>

Invite(c) == \/ InviteChecks(c) \/ InviteScans(c)
             \/ InviteInserts(c) \/ InviteLists(c)

-----------------------------------------------------------------------------
\* Mutant: accepted_at is not looked at.
AcceptReadsUsed(c) ==
  /\ At(c, "accept", "sent")
  /\ IF row[call[c].token] \in {"open", "used"}
     THEN GoTo(c, "mark")
     ELSE Answer(c, FALSE)
  /\ UNCHANGED <<tables, histories>>

(* AcceptInvitation: read, mark as accepted, join, forget the link. Nothing  *)
(* asks whether the user is a member already: the insert sets the role.      *)
AcceptReads(c) ==
  /\ At(c, "accept", "sent")
  /\ IF row[call[c].token] = "open"
     THEN GoTo(c, "mark")
     ELSE Answer(c, FALSE)
  /\ UNCHANGED <<tables, histories>>

Marked(state) == IF state = "removed" THEN "stub" ELSE "used"

AcceptMarks(c) ==
  LET t == call[c].token IN
  /\ At(c, "accept", "mark")
  /\ row' = [row EXCEPT ![t] = IF @ = "stub" THEN @ ELSE Marked(@)]
  /\ closed' = closed \cup {t}
  /\ spent' = spent \cup {t}
  /\ GoTo(c, "join")
  /\ UNCHANGED <<listed, inviter, member, view>>

AcceptJoins(c) ==
  /\ At(c, "accept", "join")
  /\ member' = [member EXCEPT ![call[c].user] = "member"]
  /\ GoTo(c, "joinView")
  /\ UNCHANGED <<row, listed, inviter, view, histories>>

AcceptJoinsView(c) ==
  /\ At(c, "accept", "joinView")
  /\ view' = [view EXCEPT ![call[c].user] = "member"]
  /\ GoTo(c, "unlist")
  /\ UNCHANGED <<row, listed, inviter, member, histories>>

Accept(c) == \/ AcceptReads(c) \/ AcceptMarks(c)
             \/ AcceptJoins(c) \/ AcceptJoinsView(c)

(* RejectInvitation: read, forget the link. Who rejects is not looked at.    *)
Reject(c) ==
  /\ At(c, "reject", "sent")
  /\ IF row[call[c].token] = "open"
     THEN GoTo(c, "unlist")
     ELSE Answer(c, FALSE)
  /\ UNCHANGED <<tables, histories>>

-----------------------------------------------------------------------------
(* RemoveMember of oneself.                                                  *)
RemoveChecks(c) ==
  /\ At(c, "remove", "sent")
  /\ IF member[call[c].user] \in {NoRole, "owner"}
     THEN Answer(c, FALSE)
     ELSE GoTo(c, "leave")
  /\ UNCHANGED <<tables, histories>>

RemoveLeaves(c) ==
  /\ At(c, "remove", "leave")
  /\ member' = [member EXCEPT ![call[c].user] = NoRole]
  /\ GoTo(c, "leaveView")
  /\ UNCHANGED <<row, listed, inviter, view, histories>>

RemoveLeavesView(c) ==
  /\ At(c, "remove", "leaveView")
  /\ view' = [view EXCEPT ![call[c].user] = NoRole]
  /\ Answer(c, TRUE)
  /\ UNCHANGED <<row, listed, inviter, member, histories>>

Remove(c) == RemoveChecks(c) \/ RemoveLeaves(c) \/ RemoveLeavesView(c)

-----------------------------------------------------------------------------
(* A statement fails, or the answer never reaches the browser.               *)
CallFails(c) ==
  /\ faults < MaxFaults
  /\ faults' = faults + 1
  /\ \/ call[c].at \notin {"idle", "answered"}
     \/ call[c].at = "answered" /\ call[c].ok
  /\ Answer(c, FALSE)
  /\ UNCHANGED <<tables, histories>>

Serve(c) ==
  \/ /\ \/ Invite(c) \/ Accept(c) \/ Reject(c) \/ Remove(c)
        \/ Unlist(c) \/ Delete(c)
     /\ UNCHANGED faults
  \/ CallFails(c)

ServiceTypeOK ==
  /\ row \in [Tokens -> RowStates]
  /\ listed \subseteq Tokens
  /\ inviter \in [Tokens -> Users]
  /\ member \in [Users -> Roles \cup {NoRole}]
  /\ view \in [Users -> Roles \cup {NoRole}]
  /\ call \in [Calls -> CallRecord]
  /\ faults \in Nat
  /\ closed \subseteq Tokens
  /\ spent \subseteq closed
=============================================================================
