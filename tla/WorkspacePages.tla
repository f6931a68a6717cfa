--------------------------- MODULE WorkspacePages ---------------------------
(***************************************************************************)
(* The pages of the web client around one workspace, over the workspace      *)
(* service: the members page with its invite dialog                          *)
(* (modules/workspace/components/workspace-members-view.tsx), the page an    *)
(* invite link opens (app/(dashboard)/workspace/invite/page.tsx), and the    *)
(* sidebar's list of workspaces, which lives in the query cache              *)
(* (api/use-workspaces.ts, lib/get-query-client.ts). One browser per user.   *)
(*                                                                           *)
(* A call outlives the page that made it: the answer then finds no page to   *)
(* change, but still invalidates the list. What the query library does when  *)
(* told to invalidate is modelled from how the client uses it.               *)
(***************************************************************************)
EXTENDS Invitations

CONSTANTS
  Viewers,    \* users whose sidebar is followed
  MaxVisits   \* bound: pages opened, and refetches of the list

ASSUME ViewersAssumption == Viewers \subseteq Users
ASSUME VisitsAssumption == MaxVisits \in Nat

VARIABLES
  visits,     \* bound: how many so far
  page,       \* what the browser shows
  link,       \* the token in the URL of the invite page
  dialog,     \* isInviteDialogOpen
  shown,      \* inviteCode
  latest,     \* the newest call of the page, per mutation hook
  copied,     \* links that were copied, and so may be opened
  list,       \* the cache entry of ["myWorkspaces"]
  stray,      \* a list request the cache no longer waits for
  troubled,   \* history: invites overlapped or failed since the last clean one
  behind      \* history: a change of the user's own is not in the list yet

pageVars == <<visits, page, link, dialog, shown, latest>>
vars == <<serviceVars, pageVars, copied, list, stray, troubled, behind>>

NoCall == "no call"
PageKinds == {"library", "manager", "member", "invite"}
Hooks == {"invite", "accept", "reject", "remove"}
NoCalls == [h \in Hooks |-> NoCall]

(* `has' is the cached answer; `fetch' the request under way and what it has *)
(* read; `current' that it was sent after the user's latest own change.      *)
NoFetch == [at |-> "none", has |-> FALSE, current |-> FALSE]
Fetches == [at: {"none", "view", "members", "backfill", "answered"},
            has: BOOLEAN, current: BOOLEAN]
StrayStations == {"none", "view", "members", "backfill"}
Lists == [has: BOOLEAN, invalid: BOOLEAN, fetch: Fetches]

(* The layout prefetches the list on the server, so the sidebar starts with  *)
(* data; the owner starts on the library page of the workspace.              *)
Init ==
  /\ ServiceInit
  /\ visits = 0
  /\ page = [u \in Users |-> "library"]
  /\ link = [u \in Users |-> NoToken]
  /\ dialog = [u \in Users |-> FALSE]
  /\ shown = [u \in Users |-> NoToken]
  /\ latest = [u \in Users |-> NoCalls]
  /\ copied = {}
  /\ list = [u \in Viewers |->
       [has |-> member[u] # NoRole, invalid |-> FALSE, fetch |-> NoFetch]]
  /\ stray = [u \in Viewers |-> "none"]
  /\ troubled = [u \in Users |-> FALSE]
  /\ behind = [u \in Viewers |-> FALSE]

-----------------------------------------------------------------------------
(* Pages come and go; their state goes with them.                            *)
Show(u, kind, t) ==
  /\ page' = [page EXCEPT ![u] = kind]
  /\ link' = [link EXCEPT ![u] = t]
  /\ dialog' = [dialog EXCEPT ![u] = FALSE]
  /\ shown' = [shown EXCEPT ![u] = NoToken]
  /\ latest' = [latest EXCEPT ![u] = NoCalls]

Visit == visits < MaxVisits /\ visits' = visits + 1

(* The members page decides which button it offers from the role it loaded.  *)
OpenMembers(u) ==
  /\ page[u] = "library"
  /\ member[u] # NoRole
  /\ Visit
  /\ Show(u, IF CanInvite(member[u]) THEN "manager" ELSE "member", NoToken)
  /\ UNCHANGED <<serviceVars, copied, list, stray, troubled, behind>>

OpenLink(u) ==
  /\ page[u] = "library"
  /\ Visit
  /\ \E t \in copied : Show(u, "invite", t)
  /\ UNCHANGED <<serviceVars, copied, list, stray, troubled, behind>>

LeavePage(u) ==
  /\ page[u] # "library"
  /\ Show(u, "library", NoToken)
  /\ UNCHANGED <<visits, serviceVars, copied, list, stray, troubled, behind>>

Pending(u, hook) == latest[u][hook] # NoCall

Mutate(u, hook, t) ==
  \E c \in Calls :
    /\ Send(c, hook, u, t)
    /\ latest' = [latest EXCEPT ![u][hook] = c]

(* generateInviteCode. Opening the dialog makes a link unless one is known,  *)
(* also while an earlier call is pending; the reset button waits for it.     *)
GenerateInviteCode(u) ==
  /\ Mutate(u, "invite", NoToken)
  /\ troubled' = [troubled EXCEPT ![u] = @ \/ Inviting(u) # {}]

OpenInviteDialog(u) ==
  /\ page[u] = "manager" /\ ~dialog[u]
  /\ dialog' = [dialog EXCEPT ![u] = TRUE]
  /\ IF shown[u] = NoToken
     THEN GenerateInviteCode(u)
     ELSE UNCHANGED <<call, latest, troubled>>
  /\ UNCHANGED <<tables, faults, histories, visits, page, link, shown, copied,
                 list, stray, behind>>

CloseInviteDialog(u) ==
  /\ dialog[u]
  /\ dialog' = [dialog EXCEPT ![u] = FALSE]
  /\ UNCHANGED <<serviceVars, visits, page, link, shown, latest, copied, list,
                 stray, troubled, behind>>

ResetLink(u) ==
  /\ dialog[u] /\ ~Pending(u, "invite")
  /\ GenerateInviteCode(u)
  /\ UNCHANGED <<tables, faults, histories, visits, page, link, dialog, shown,
                 copied, list, stray, behind>>

CopyLink(u) ==
  /\ dialog[u] /\ ~Pending(u, "invite") /\ shown[u] # NoToken
  /\ copied' = copied \cup {shown[u]}
  /\ UNCHANGED <<serviceVars, pageVars, list, stray, troubled, behind>>

(* The buttons of the invite page: a pending reject does not hold back       *)
(* an accept.                                                                *)
AcceptLink(u) ==
  /\ page[u] = "invite" /\ ~Pending(u, "accept")
  /\ Mutate(u, "accept", link[u])
  /\ UNCHANGED <<tables, faults, histories, visits, page, link, dialog, shown,
                 copied, list, stray, troubled, behind>>

RejectLink(u) ==
  /\ page[u] = "invite" /\ ~Pending(u, "accept") /\ ~Pending(u, "reject")
  /\ Mutate(u, "reject", link[u])
  /\ UNCHANGED <<tables, faults, histories, visits, page, link, dialog, shown,
                 copied, list, stray, troubled, behind>>

LeaveWorkspace(u) ==
  /\ page[u] = "member" /\ ~Pending(u, "remove")
  /\ Mutate(u, "remove", NoToken)
  /\ UNCHANGED <<tables, faults, histories, visits, page, link, dialog, shown,
                 copied, list, stray, troubled, behind>>

-----------------------------------------------------------------------------
\* Mutant: the answer changes the state of whatever page is there.
AlwaysOnPage(c) == TRUE

(* Answers. `onPage' is whether the page that asked is still there; a hook   *)
(* that has moved on to a newer call keeps its own pending state.            *)
OnPage(c) ==
  CASE call[c].op = "invite" -> page[call[c].user] = "manager"
    [] call[c].op = "remove" -> page[call[c].user] = "member"
    [] OTHER -> /\ page[call[c].user] = "invite"
                /\ link[call[c].user] = call[c].token

Forget(c) == call' = [call EXCEPT ![c] = Idle]

Settled(c) ==
  LET u == call[c].user  h == call[c].op IN
  latest' = [latest EXCEPT ![u][h] = IF @ = c THEN NoCall ELSE @]

NewFetch == [at |-> "view", has |-> FALSE, current |-> TRUE]

Dropped(fetch) ==
  IF fetch.at \in StrayStations /\ ~fetch.has THEN fetch.at ELSE "none"

\* Mutant: a request under way is kept, and its answer taken for a fresh one.
InvalidateKeeping(u) ==
  IF u \notin Viewers THEN UNCHANGED <<list, stray, behind>> ELSE
  /\ list' = [list EXCEPT ![u].invalid = TRUE,
       ![u].fetch = IF @ = NoFetch THEN NewFetch
                    ELSE [@ EXCEPT !.current = FALSE]]
  /\ behind' = [behind EXCEPT ![u] = TRUE]
  /\ UNCHANGED stray

(* onSuccess: the entry is invalid, a request under way is dropped, and a    *)
(* new one is sent because the sidebar shows the list. The service goes on   *)
(* with a dropped request; what it may still copy matters, its answer not.   *)
Invalidate(u) ==
  IF u \notin Viewers THEN UNCHANGED <<list, stray, behind>> ELSE
  /\ list' = [list EXCEPT ![u].invalid = TRUE, ![u].fetch = NewFetch]
  /\ stray' = [stray EXCEPT ![u] =
       IF Dropped(list[u].fetch) = "none" THEN @ ELSE Dropped(list[u].fetch)]
  /\ behind' = [behind EXCEPT ![u] = TRUE]

\* Mutant: the dialog keeps the first link it got.
InviteAnsweredOnce(c) ==
  LET u == call[c].user IN
  /\ At(c, "invite", "answered")
  /\ Forget(c) /\ Settled(c)
  /\ shown' = IF call[c].ok /\ OnPage(c) /\ shown[u] = NoToken
              THEN [shown EXCEPT ![u] = call[c].token] ELSE shown
  /\ troubled' = [troubled EXCEPT ![u] =
       IF call[c].ok /\ call[c].alone THEN FALSE ELSE TRUE]
  /\ UNCHANGED <<tables, faults, histories, visits, page, link, dialog, copied,
                 list, stray, behind>>

InviteAnswered(c) ==
  LET u == call[c].user IN
  /\ At(c, "invite", "answered")
  /\ Forget(c) /\ Settled(c)
  /\ shown' = IF call[c].ok /\ OnPage(c)
              THEN [shown EXCEPT ![u] = call[c].token] ELSE shown
  /\ troubled' = [troubled EXCEPT ![u] =
       IF call[c].ok /\ call[c].alone THEN FALSE ELSE TRUE]
  /\ UNCHANGED <<tables, faults, histories, visits, page, link, dialog, copied,
                 list, stray, behind>>

(* An accept or a leave that worked sends the browser to the library once    *)
(* the list is fetched again; one that failed leaves the page as it was.     *)
ChangeAnswered(c) ==
  LET u == call[c].user IN
  /\ call[c].op \in {"accept", "remove"} /\ call[c].at = "answered"
  /\ Forget(c)
  /\ IF call[c].ok
     THEN Invalidate(u)
     ELSE UNCHANGED <<list, stray, behind>>
  /\ IF call[c].ok /\ OnPage(c)
     THEN Show(u, "library", NoToken)
     ELSE Settled(c) /\ UNCHANGED <<page, link, dialog, shown>>
  /\ UNCHANGED <<tables, faults, histories, visits, copied, troubled>>

(* A reject leaves the invite page either way.                               *)
RejectAnswered(c) ==
  LET u == call[c].user IN
  /\ At(c, "reject", "answered")
  /\ Forget(c)
  /\ IF call[c].ok
     THEN Invalidate(u)
     ELSE UNCHANGED <<list, stray, behind>>
  /\ IF OnPage(c)
     THEN Show(u, "library", NoToken)
     ELSE Settled(c) /\ UNCHANGED <<page, link, dialog, shown>>
  /\ UNCHANGED <<tables, faults, histories, visits, copied, troubled>>

-----------------------------------------------------------------------------
(* The list: refetched when stale, and answered by ListMyWorkspaces, which   *)
(* reads the user's own table, then the members table, and copies a          *)
(* membership only the second one has into the first.                        *)
FetchGoes(u, station) == list' = [list EXCEPT ![u].fetch.at = station]

RefetchList(u) ==
  /\ list[u].fetch = NoFetch
  /\ Visit
  /\ list' = [list EXCEPT ![u].fetch = NewFetch]
  /\ UNCHANGED <<serviceVars, page, link, dialog, shown, latest, copied,
                 stray, troubled, behind>>

ListReadsView(u) ==
  /\ list[u].fetch.at = "view"
  /\ list' = [list EXCEPT ![u].fetch.at = "members",
                          ![u].fetch.has = view[u] # NoRole]
  /\ UNCHANGED <<serviceVars, pageVars, copied, stray, troubled, behind>>

ListReadsMembers(u) ==
  /\ list[u].fetch.at = "members"
  /\ FetchGoes(u, IF ~list[u].fetch.has /\ member[u] # NoRole
                  THEN "backfill" ELSE "answered")
  /\ UNCHANGED <<serviceVars, pageVars, copied, stray, troubled, behind>>

ListBackfills(u) ==
  /\ list[u].fetch.at = "backfill"
  /\ list' = [list EXCEPT ![u].fetch.at = "answered", ![u].fetch.has = TRUE]
  /\ view' = [view EXCEPT ![u] = "member"]
  /\ UNCHANGED <<row, listed, inviter, member, call, faults, histories,
                 pageVars, copied, stray, troubled, behind>>

ListAnswered(u) ==
  /\ list[u].fetch.at = "answered"
  /\ list' = [list EXCEPT ![u] =
       [has |-> list[u].fetch.has, invalid |-> FALSE, fetch |-> NoFetch]]
  /\ behind' = [behind EXCEPT ![u] = @ /\ ~list[u].fetch.current]
  /\ UNCHANGED <<serviceVars, pageVars, copied, stray, troubled>>

StrayGoesOn(u) ==
  /\ stray[u] # "none"
  /\ stray' = [stray EXCEPT ![u] =
       CASE @ = "view" /\ view[u] = NoRole -> "members"
         [] @ = "members" /\ member[u] # NoRole -> "backfill"
         [] OTHER -> "none"]
  /\ view' = IF stray[u] = "backfill"
             THEN [view EXCEPT ![u] = "member"] ELSE view
  /\ UNCHANGED <<row, listed, inviter, member, call, faults, histories,
                 pageVars, copied, list, troubled, behind>>

(* A fetch that fails keeps the data and the mark.                           *)
ListFails(u) ==
  /\ faults < MaxFaults /\ list[u].fetch # NoFetch
  /\ faults' = faults + 1
  /\ list' = [list EXCEPT ![u].fetch = NoFetch]
  /\ UNCHANGED <<tables, call, histories, pageVars, copied, stray, troubled,
                 behind>>

-----------------------------------------------------------------------------
Browse(u) ==
  \/ OpenMembers(u) \/ OpenLink(u) \/ LeavePage(u)
  \/ OpenInviteDialog(u) \/ CloseInviteDialog(u) \/ ResetLink(u) \/ CopyLink(u)
  \/ AcceptLink(u) \/ RejectLink(u) \/ LeaveWorkspace(u)

List(u) ==
  \/ RefetchList(u) \/ ListReadsView(u) \/ ListReadsMembers(u)
  \/ ListBackfills(u) \/ ListAnswered(u) \/ StrayGoesOn(u) \/ ListFails(u)

Answered(c) == InviteAnswered(c) \/ ChangeAnswered(c) \/ RejectAnswered(c)

Work(c) ==
  /\ Serve(c)
  /\ UNCHANGED <<pageVars, copied, list, stray, troubled, behind>>

Next ==
  \/ \E u \in Users : Browse(u)
  \/ \E u \in Viewers : List(u)
  \/ \E c \in Calls : Work(c) \/ Answered(c)

Spec == Init /\ [][Next]_vars

-----------------------------------------------------------------------------
TypeOK ==
  /\ ServiceTypeOK
  /\ page \in [Users -> PageKinds]
  /\ link \in [Users -> Tokens \cup {NoToken}]
  /\ dialog \in [Users -> BOOLEAN]
  /\ shown \in [Users -> Tokens \cup {NoToken}]
  /\ latest \in [Users -> [Hooks -> Calls \cup {NoCall}]]
  /\ copied \subseteq Tokens
  /\ \A u \in Users : dialog[u] \/ shown[u] # NoToken => page[u] = "manager"
  /\ list \in [Viewers -> Lists]
  /\ stray \in [Viewers -> StrayStations]
  /\ troubled \in [Users -> BOOLEAN]
  /\ behind \in [Viewers -> BOOLEAN]

(* A link lets people in only while it is open: an accept that was sent      *)
(* after the link had been used, rejected or reset never joins the           *)
(* workspace, whatever else runs at that time                                *)
(* (workspace_service.go:549-572, "invitation already used").                *)
ClosedLinksStayClosed ==
  \A c \in Calls :
    call[c].op = "accept" /\ call[c].at \in {"mark", "join", "joinView"}
      => ~call[c].late

(* The link in the dialog works: when no invite of this manager is under     *)
(* way, and the last one ran alone and did not fail, the link shown is open, *)
(* or someone has answered it; it is not one that a reset removed.           *)
ShownLinkWorks ==
  \A u \in Users :
    shown[u] # NoToken /\ Inviting(u) = {} /\ ~troubled[u]
      => row[shown[u]] = "open" \/ shown[u] \in spent

(* The list of workspaces never passes for valid while the answer to a       *)
(* change of the user's own has arrived and the list is older than that.     *)
OwnChangesListed == \A u \in Viewers : behind[u] => list[u].invalid
=============================================================================
