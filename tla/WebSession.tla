----------------------------- MODULE WebSession -----------------------------
(***************************************************************************)
(* The session of one browser as the Next.js server keeps it: the cookie     *)
(* jar, the requests in flight, the proxy that refreshes an access token     *)
(* that ran out, the server actions that rotate the pair themselves, and     *)
(* the redirects the browser follows. The auth service is reduced to the     *)
(* generation of each session (AuthSessions has the whole of it).            *)
(*                                                                           *)
(* A pair of tokens is <<login, generation>>. An access token that is about  *)
(* to run out and one whose cookie is gone are the same to the proxy, and    *)
(* are None here. Signatures are taken as genuine: the jar holds what the    *)
(* server put there.                                                         *)
(***************************************************************************)
EXTENDS Naturals, FiniteSets

CONSTANTS
  Requests,    \* requests the browser may have in flight
  MaxLogins,   \* bound: sessions opened
  MaxGen,      \* bound: a pair of this generation is not refreshed
  Faulty       \* whether calls fail and answers get lost

ASSUME BoundsAssumption == MaxLogins \in Nat /\ MaxGen \in Nat \ {0}
ASSUME FaultyAssumption == Faulty \in BOOLEAN

VARIABLES
  row,     \* user_sessions.gen by login, 0 when there is no row
  doomed,  \* logins whose replay was detected and whose row is still there
  opened,  \* history: how many sessions were opened
  jar,     \* the two cookies
  req      \* the requests and the answers on their way

service == <<row, doomed, opened>>
vars == <<service, jar, req>>

Logins == 1..MaxLogins
None == <<0, 0>>
Pairs == Logins \X (1..MaxGen)
Cookies == [refresh: Pairs \union {None}, access: Pairs \union {None}]
NoCookies == [refresh |-> None, access |-> None]
Both(p) == [refresh |-> p, access |-> p]

\* page: a navigation or an action that only reads the access token;
\* asset: an action that refreshes the pair for itself.
Kinds == {"page", "asset", "logout"}
RefreshPcs == {"p_cas", "a_check", "a_cas"}
Pcs == {"idle", "proxy", "guest", "login", "reply"} \union RefreshPcs
\* put: what the answer does to the cookies, a pair, None to delete them or
\* Keep. to: where the answer redirects.
Keep == <<0, 1>>
Request == [kind: Kinds, at: Pcs, seen: Cookies,
            put: Pairs \union {None, Keep}, to: {"here", "login", "workspace"}]
Idle == [kind |-> "page", at |-> "idle", seen |-> NoCookies, put |-> Keep,
         to |-> "here"]

Init ==
  /\ row = [l \in Logins |-> 0]
  /\ doomed = {}
  /\ opened = 0
  /\ jar = NoCookies
  /\ req = [r \in Requests |-> Idle]

-------------------------------------------------------------------------------
(* Control of one request *)

At(r, label) == req[r].at = label
Set(r, record) == req' = [req EXCEPT ![r] = record]
Goto(r, label) == Set(r, [req[r] EXCEPT !.at = label])
Arrive(r, kind, label) ==
  Set(r, [Idle EXCEPT !.kind = kind, !.at = label, !.seen = jar])

\* The answer is on its way; what the server knew of the request is forgotten.
Answer(r, put, to) ==
  Set(r, [Idle EXCEPT !.at = "reply", !.put = put, !.to = to])

\* Mutant: the redirect leaves the cookies.
RedirectKeeping(r) == Answer(r, Keep, "login")

\* redirectToLogin
RedirectToLogin(r) == Answer(r, None, "login")

(* What the request was for, with the cookies the proxy let it see and the   *)
(* pair the proxy put in its answer.                                         *)

\* Pages and reading actions answer; getServerAccessToken never writes.
HandlePage(r, put) == Answer(r, put, "here")

\* requireAccessTokenAction rotates the pair again, fresh or not.
HandleAsset(r, put, seen) ==
  Set(r, [req[r] EXCEPT !.at = "a_check", !.put = put, !.seen = seen])

\* The Logout call leaves the row where it is; its failure is swallowed.
HandleLogout(r) == Answer(r, None, "here")

Handle(r, put, seen) ==
  CASE req[r].kind = "page" -> HandlePage(r, put)
    [] req[r].kind = "asset" -> HandleAsset(r, put, seen)
    [] req[r].kind = "logout" -> HandleLogout(r)

\* setAuthCookies: what runs after the proxy reads the pair the proxy set, and
\* an answer carries the last pair that was set.
SetAuthCookies(r, p) ==
  IF At(r, "p_cas") THEN Handle(r, p, Both(p)) ELSE Answer(r, p, "here")

\* A refresh that was refused or failed: the proxy gives up the session, an
\* asset action reports the error and leaves the cookies alone.
Refused(r) ==
  IF At(r, "a_check") \/ At(r, "a_cas")
    THEN Answer(r, req[r].put, "here")
    ELSE RedirectToLogin(r)

-------------------------------------------------------------------------------
(* The browser sends *)

\* A protected page is asked for, or an action called from one.
Send(r, kind) ==
  /\ At(r, "idle")
  /\ Arrive(r, kind, "proxy")
  /\ UNCHANGED <<service, jar>>

\* The login or the registration page is asked for.
SendGuest(r) ==
  /\ At(r, "idle")
  /\ Arrive(r, "page", "guest")
  /\ UNCHANGED <<service, jar>>

\* The form of such a page is submitted, whenever it was rendered; loginAction
\* and registerAction run outside the proxy.
SendLogin(r) ==
  /\ At(r, "idle")
  /\ opened < MaxLogins
  /\ Arrive(r, "page", "login")
  /\ UNCHANGED <<service, jar>>

-------------------------------------------------------------------------------
(* proxy *)

\* validateRefreshToken fails on a missing token, and on any token when the
\* keys cannot be fetched.
ProxyRejects(r) ==
  /\ At(r, "proxy")
  /\ req[r].seen.refresh = None \/ Faulty
  /\ RedirectToLogin(r)
  /\ UNCHANGED <<service, jar>>

ProxyPasses(r) ==
  /\ At(r, "proxy")
  /\ req[r].seen.refresh # None
  /\ req[r].seen.access # None
  /\ Handle(r, Keep, req[r].seen)
  /\ UNCHANGED <<service, jar>>

\* isAccessTokenExpiredOrMissing: the proxy calls RefreshToken.
ProxyRefreshes(r) ==
  /\ At(r, "proxy")
  /\ req[r].seen.refresh # None
  /\ req[r].seen.access = None

-------------------------------------------------------------------------------
(* RefreshToken of the auth service, for the proxy and for an action *)

Presented(r) == req[r].seen.refresh
RowGen(r) == row[Presented(r)[1]]

\* Mutant: any generation of a session that exists is accepted.
RowExists(r) == RowGen(r) # 0

\* The generation the row has is the one the token names.
GenMatches(r) == RowGen(r) = Presented(r)[2]

CheckPasses(r) ==
  /\ \/ ProxyRefreshes(r) /\ Goto(r, "p_cas")
     \/ At(r, "a_check") /\ Goto(r, "a_cas")
  /\ GenMatches(r)
  /\ UNCHANGED <<service, jar>>

\* A generation that does not match is a replay: the session will be deleted.
CheckRefuses(r) ==
  /\ ProxyRefreshes(r) \/ At(r, "a_check")
  /\ ~GenMatches(r)
  /\ Refused(r)
  /\ doomed' = doomed \union {l \in {Presented(r)[1]} : row[l] # 0}
  /\ UNCHANGED <<row, opened, jar>>

\* Mutant: the bump is a plain write of the generation the check read, plus one.
RefreshBlindly(r) ==
  /\ At(r, "p_cas") \/ At(r, "a_cas")
  /\ Presented(r)[2] < MaxGen
  /\ LET l == Presented(r)[1]
         g == Presented(r)[2] + 1
     IN /\ row' = [row EXCEPT ![l] = g]
        /\ SetAuthCookies(r, <<l, g>>)
  /\ UNCHANGED <<doomed, opened, jar>>

\* AtomicBumpGen, with the generation the check read.
RefreshSucceeds(r) ==
  /\ At(r, "p_cas") \/ At(r, "a_cas")
  /\ GenMatches(r)
  /\ RowGen(r) < MaxGen
  /\ LET l == Presented(r)[1]
         g == row[l] + 1
     IN /\ row' = [row EXCEPT ![l] = g]
        /\ SetAuthCookies(r, <<l, g>>)
  /\ UNCHANGED <<doomed, opened, jar>>

\* ErrConcurrentRotation: somebody else rotated since the check.
RefreshLosesRace(r) ==
  /\ At(r, "p_cas") \/ At(r, "a_cas")
  /\ ~GenMatches(r)
  /\ Refused(r)
  /\ UNCHANGED <<service, jar>>

\* The call fails, before the row was touched or after: then the new pair is
\* minted and lost. The bound MaxGen ends refreshes this way too.
RefreshFails(r) ==
  /\ ProxyRefreshes(r) \/ req[r].at \in RefreshPcs
  /\ Faulty \/ Presented(r)[2] = MaxGen
  /\ \/ UNCHANGED row
     \/ /\ At(r, "p_cas") \/ At(r, "a_cas")
        /\ GenMatches(r)
        /\ RowGen(r) < MaxGen
        /\ row' = [row EXCEPT ![Presented(r)[1]] = @ + 1]
  /\ Refused(r)
  /\ UNCHANGED <<doomed, opened, jar>>

\* handleTheftDetected runs detached and deletes the row.
DeleteDoomed(l) ==
  /\ l \in doomed
  /\ doomed' = doomed \ {l}
  /\ row' = [row EXCEPT ![l] = 0]
  /\ UNCHANGED <<opened, jar, req>>

-------------------------------------------------------------------------------
(* Outside the proxy *)

\* loginAction and registerAction, which may fail.
HandleLogin(r) ==
  /\ At(r, "login")
  /\ \/ /\ opened < MaxLogins
        /\ opened' = opened + 1
        /\ row' = [row EXCEPT ![opened'] = 1]
        /\ Answer(r, <<opened', 1>>, "workspace")
     \/ Answer(r, Keep, "here") /\ UNCHANGED <<row, opened>>
  /\ UNCHANGED <<doomed, jar>>

\* requireGuest sends a browser with a valid refresh token to its workspace.
GuestRedirected(r) ==
  /\ At(r, "guest")
  /\ req[r].seen.refresh # None
  /\ Answer(r, Keep, "workspace")
  /\ UNCHANGED <<service, jar>>

GuestServed(r) ==
  /\ At(r, "guest")
  /\ req[r].seen.refresh = None \/ Faulty
  /\ Answer(r, Keep, "here")
  /\ UNCHANGED <<service, jar>>

-------------------------------------------------------------------------------
(* The browser receives *)

\* Mutant: an answer without cookies is not told apart.
AppliedAlways(put) == IF put = None THEN NoCookies ELSE Both(put)

Applied(put) ==
  CASE put = Keep -> jar
    [] put = None -> NoCookies
    [] OTHER -> Both(put)

\* The cookies of an answer replace those of the jar, whatever these are by
\* now; then the browser follows the redirect.
Deliver(r) ==
  /\ At(r, "reply")
  /\ jar' = Applied(req[r].put)
  /\ Set(r, CASE req[r].to = "here" -> Idle
              [] req[r].to = "workspace" ->
                   [Idle EXCEPT !.at = "proxy", !.seen = jar']
              [] req[r].to = "login" ->
                   [Idle EXCEPT !.at = "guest", !.seen = jar'])
  /\ UNCHANGED service

\* The connection breaks before the answer arrives.
Lose(r) ==
  /\ Faulty
  /\ At(r, "reply")
  /\ Set(r, Idle)
  /\ UNCHANGED <<service, jar>>

\* 15 minutes after it was set.
AccessRunsOut ==
  /\ jar.access # None
  /\ jar' = [jar EXCEPT !.access = None]
  /\ UNCHANGED <<service, req>>

\* 7 days after it was set.
RefreshRunsOut ==
  /\ jar.refresh # None /\ jar.access = None
  /\ jar' = NoCookies
  /\ UNCHANGED <<service, req>>

-------------------------------------------------------------------------------

ServerStep(r) ==
  \/ ProxyRejects(r) \/ ProxyPasses(r)
  \/ CheckPasses(r) \/ CheckRefuses(r) \/ RefreshSucceeds(r)
  \/ RefreshLosesRace(r) \/ RefreshFails(r)
  \/ HandleLogin(r) \/ GuestRedirected(r) \/ GuestServed(r)

BrowserStep(r) ==
  \/ \E kind \in Kinds : Send(r, kind)
  \/ SendGuest(r)
  \/ SendLogin(r)
  \/ Lose(r)

Next ==
  \/ \E r \in Requests : ServerStep(r) \/ BrowserStep(r) \/ Deliver(r)
  \/ \E l \in Logins : DeleteDoomed(l)
  \/ AccessRunsOut
  \/ RefreshRunsOut

Spec == Init /\ [][Next]_vars

\* The server and the network answer what was asked.
Fairness == \A r \in Requests : WF_vars(ServerStep(r) \/ Deliver(r))
FairSpec == Spec /\ Fairness

-------------------------------------------------------------------------------
(* Properties *)

TypeOK ==
  /\ row \in [Logins -> 0..MaxGen]
  /\ doomed \subseteq Logins
  /\ opened \in 0..MaxLogins
  /\ jar \in Cookies
  /\ req \in [Requests -> Request]

PairsTogether ==
  /\ jar.access \in {None, jar.refresh}
  /\ \A r \in Requests : req[r].seen.access \in {None, req[r].seen.refresh}

Carriers(p) == {r \in Requests : req[r].put = p}

NewestPairInOnePlace ==
  \A l \in Logins : row[l] # 0 =>
    LET p == <<l, row[l]>> IN
      Cardinality(Carriers(p)) + (IF jar.refresh = p THEN 1 ELSE 0) <= 1

(* The two cookies come from one answer: an access token is never kept past  *)
(* the refresh token it was minted with, nor next to that of another login   *)
(* (setAuthCookies and the deletions of proxy.ts and actions/auth.ts). And   *)
(* the newest pair of a session is in one place: the jar, or the answer of   *)
(* one request. With two holders the slower answer would put an older pair   *)
(* over a newer one, and the next refresh would be taken for a replay.       *)
PairsSound == PairsTogether /\ NewestPairInOnePlace

(* Whatever the order in which the answers of concurrent requests arrive,    *)
(* the jar never goes back to an older generation of the session it holds.   *)
JarNeverGoesBack ==
  [][jar.refresh[1] = jar'.refresh[1] => jar.refresh[2] <= jar'.refresh[2]]_vars

(* The redirects between /login and /workspace end: a request that entered   *)
(* the chain is answered with a page, however sessions die meanwhile.        *)
NavigationSettles ==
  \A r \in Requests : ~At(r, "idle") ~> At(r, "idle")

===============================================================================
