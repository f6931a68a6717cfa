---------------------------- MODULE AuthSessions ----------------------------
(***************************************************************************)
(* Sessions of one user in the auth service (services/auth): the session    *)
(* row and the revocation row in ScyllaDB, the in-process Ristretto cache   *)
(* of session state, and the goroutines that serve Login/Register,          *)
(* RefreshToken, ValidateToken, Logout, LogoutAllDevices and the detached   *)
(* handleTheftDetected. Every access to the database or to the cache is a   *)
(* step of its own, so requests interleave where the code lets them.        *)
(*                                                                          *)
(* A request refused without touching any state (a bad signature, a cached  *)
(* generation or global version that does not match in ValidateToken, a     *)
(* globally revoked refresh) is a stuttering step and is not written.       *)
(* The cache key gver:<uid> is written and deleted by the code and read by  *)
(* no one; it can influence nothing and has no variable.                    *)
(***************************************************************************)
EXTENDS Naturals, FiniteSets

CONSTANTS
  Sessions,        \* session ids; each is drawn once (uuid.NewString)
  Handlers,        \* goroutine slots: a request, or a theft clean-up
  TheftThreshold,  \* tokencache.TheftThreshold
  MaxGen,          \* bound: a token of this generation is not refreshed
  MaxBumps,        \* bound: no LogoutAllDevices once this many bumps were made
  MaxReplays,      \* bound: replays the clients attempt
  Faulty           \* whether database calls fail and the process restarts

ASSUME SessionsAssumption == Sessions # {}
ASSUME ThresholdAssumption == TheftThreshold \in Nat \ {0}
ASSUME BoundsAssumption ==
  MaxGen \in Nat \ {0} /\ MaxBumps \in Nat /\ MaxReplays \in Nat
ASSUME FaultyAssumption == Faulty \in BOOLEAN

VARIABLES
  row,        \* user_sessions.gen by session, 0 when there is no row
  expired,    \* whether expires_at of the row has passed
  gv,         \* user_revocations.global_ver, 0 when there is no row
  cache,      \* sess:<sid> -> CachedSession, gen 0 when there is no entry
  theft,      \* theft:<uid>, 0 when there is no entry
  pc,         \* where each goroutine is
  job,        \* the locals of each goroutine
  issued,     \* the token pairs in the clients' hands
  opened,     \* history: the session ids ever drawn
  pairs,      \* history: pairs[s][g] pairs were handed out for generation g
  epoch,      \* history: how many times global_ver was written
  replays     \* history: how many replays were detected

stored == <<row, expired, gv>>
cached == <<cache, theft>>
history == <<opened, pairs, epoch, replays>>
vars == <<stored, cached, pc, job, issued, history>>

Gens == 1..MaxGen
\* A pair carries sid, gen and gv as claims; epoch is history, not a claim:
\* the number of global_ver writes its revocation check had seen.
Token == [sid: Sessions, gen: Gens, gv: Nat, epoch: Nat]
CachedSession == [gen: 0..MaxGen, gv: Nat]
NoEntry == [gen |-> 0, gv |-> 0]

RefreshPcs == {"r_row", "r_rev", "r_cas", "r_put"}
ValidatePcs == {"v_row", "v_rev", "v_put"}
LoginPcs == {"l_rev", "l_put"}
LogoutAllPcs == {"b_read", "b_write"}
EscalationPcs == {"t_read", "t_write", "t_keys"}
TheftPcs == {"t_count", "t_mark", "t_row", "t_evict"} \union EscalationPcs
Pcs == {"idle"} \union RefreshPcs \union ValidatePcs \union LoginPcs
         \union LogoutAllPcs \union TheftPcs

\* n is the count recordTheftAttempt computed or the version a bump read.
Job == [sid: Sessions, gen: Gens, gv: Nat, epoch: Nat, n: Nat]
Blank == [sid |-> CHOOSE s \in Sessions : TRUE,
          gen |-> 1, gv |-> 0, epoch |-> 0, n |-> 0]

Init ==
  /\ row = [s \in Sessions |-> 0]
  /\ expired = [s \in Sessions |-> FALSE]
  /\ gv = 0
  /\ cache = [s \in Sessions |-> NoEntry]
  /\ theft = 0
  /\ pc = [h \in Handlers |-> "idle"]
  /\ job = [h \in Handlers |-> Blank]
  /\ issued = {}
  /\ opened = {}
  /\ pairs = [s \in Sessions |-> [g \in Gens |-> 0]]
  /\ epoch = 0
  /\ replays = 0

-------------------------------------------------------------------------------
(* Control of one goroutine *)

At(h, label) == pc[h] = label
Step(h, label, j) ==
  /\ pc' = [pc EXCEPT ![h] = label]
  /\ job' = [job EXCEPT ![h] = j]
Goto(h, label) == Step(h, label, job[h])
Answer(h) == Step(h, "idle", Blank)
Accept(h, t, label) ==
  /\ At(h, "idle")
  /\ Step(h, label, [sid |-> t.sid, gen |-> t.gen, gv |-> t.gv,
                      epoch |-> t.epoch, n |-> 0])

(* The cache: Ristretto may drop the Set of a new key, never that of a key   *)
(* it holds; Del always takes effect.                                        *)
CachePut(s, g, v) ==
  \/ cache' = [cache EXCEPT ![s] = [gen |-> g, gv |-> v]]
  \/ cache[s] = NoEntry /\ UNCHANGED cache
CacheDel(s) == cache' = [cache EXCEPT ![s] = NoEntry]

Hit(s) == cache[s] # NoEntry

\* ValidateToken answers yes from the cache alone.
CacheAdmits(t) ==
  /\ Hit(t.sid)
  /\ t.gen = cache[t.sid].gen
  /\ t.gv >= cache[t.sid].gv

Mint(s, g, v, e) ==
  /\ issued' = issued \union {[sid |-> s, gen |-> g, gv |-> v, epoch |-> e]}
  /\ pairs' = [pairs EXCEPT ![s][g] = @ + 1]

\* The locals once GetUserRevocation has answered.
Seen(h) == [job[h] EXCEPT !.gv = gv, !.epoch = epoch]

-------------------------------------------------------------------------------
(* Login and Register: mintSessionTokenPair *)

StoreSession(h, s) ==
  /\ At(h, "idle")
  /\ s \notin opened
  /\ opened' = opened \union {s}
  /\ row' = [row EXCEPT ![s] = 1]
  /\ Step(h, "l_rev", [Blank EXCEPT !.sid = s])
  /\ UNCHANGED <<expired, gv, cached, issued, pairs, epoch, replays>>

LoginGetRevocation(h) ==
  /\ At(h, "l_rev")
  /\ Step(h, "l_put", Seen(h))
  /\ UNCHANGED <<stored, cached, issued, history>>

LoginMint(h) ==
  /\ At(h, "l_put")
  /\ Mint(job[h].sid, 1, job[h].gv, job[h].epoch)
  /\ CachePut(job[h].sid, 1, job[h].gv)
  /\ Answer(h)
  /\ UNCHANGED <<stored, theft, opened, epoch, replays>>

-------------------------------------------------------------------------------
(* RefreshToken *)

\* The handler answers ErrReplayDetected and its slot goes on as the detached
\* goroutine of handleTheftDetected.
DetectReplay(h, s) ==
  /\ replays < MaxReplays
  /\ replays' = replays + 1
  /\ Step(h, "t_count", [Blank EXCEPT !.sid = s])

ReplayOnHit(h, t) ==
  /\ At(h, "idle")
  /\ Hit(t.sid)
  /\ t.gen # cache[t.sid].gen
  /\ DetectReplay(h, t.sid)
  /\ UNCHANGED <<stored, cached, issued, opened, pairs, epoch>>

RefreshOnHit(h, t) ==
  /\ t.gen < MaxGen
  /\ CacheAdmits(t)
  /\ Accept(h, [t EXCEPT !.gv = cache[t.sid].gv], "r_cas")
  /\ UNCHANGED <<stored, cached, issued, history>>

RefreshOnMiss(h, t) ==
  /\ t.gen < MaxGen
  /\ ~Hit(t.sid)
  /\ Accept(h, t, "r_row")
  /\ UNCHANGED <<stored, cached, issued, history>>

\* GetSession: no row ends the request, a newer row is a replay.
RefreshSessionGone(h) ==
  /\ At(h, "r_row")
  /\ row[job[h].sid] = 0
  /\ Answer(h)
  /\ UNCHANGED <<stored, cached, issued, history>>

ReplayOnRow(h) ==
  /\ At(h, "r_row")
  /\ row[job[h].sid] \notin {0, job[h].gen}
  /\ DetectReplay(h, job[h].sid)
  /\ UNCHANGED <<stored, cached, issued, opened, pairs, epoch>>

RefreshGetSession(h) ==
  /\ At(h, "r_row")
  /\ row[job[h].sid] = job[h].gen
  /\ Goto(h, "r_rev")
  /\ UNCHANGED <<stored, cached, issued, history>>

RefreshRevoked(h) ==
  /\ At(h, "r_rev")
  /\ job[h].gv < gv
  /\ Answer(h)
  /\ UNCHANGED <<stored, cached, issued, history>>

RefreshGetRevocation(h) ==
  /\ At(h, "r_rev")
  /\ job[h].gv >= gv
  /\ Step(h, "r_cas", Seen(h))
  /\ UNCHANGED <<stored, cached, issued, history>>

\* Mutants: IF EXISTS for IF gen = expect; no condition at all; the applied
\* flag of ScanCAS read the wrong way round.
GenExists(s, expect) == row[s] > 0
AnyGen(s, expect) == TRUE
BumpGenFlagInverted(h) ==
  /\ At(h, "r_cas")
  /\ row[job[h].sid] = job[h].gen
  /\ row' = [row EXCEPT ![job[h].sid] = job[h].gen + 1]
  /\ Answer(h)
  /\ UNCHANGED <<expired, gv, cached, issued, history>>

\* UPDATE ... SET gen = expect + 1 ... IF gen = expect.
GenIs(s, expect) == row[s] = expect

AtomicBumpGen(h) ==
  /\ At(h, "r_cas")
  /\ GenIs(job[h].sid, job[h].gen)
  /\ row' = [row EXCEPT ![job[h].sid] = job[h].gen + 1]
  /\ Goto(h, "r_put")
  /\ UNCHANGED <<expired, gv, cached, issued, history>>

\* ErrConcurrentRotation.
ConcurrentRotation(h) ==
  /\ At(h, "r_cas")
  /\ ~GenIs(job[h].sid, job[h].gen)
  /\ Answer(h)
  /\ UNCHANGED <<stored, cached, issued, history>>

RefreshMint(h) ==
  /\ At(h, "r_put")
  /\ Mint(job[h].sid, job[h].gen + 1, job[h].gv, job[h].epoch)
  /\ CachePut(job[h].sid, job[h].gen + 1, job[h].gv)
  /\ Answer(h)
  /\ UNCHANGED <<stored, theft, opened, epoch, replays>>

-------------------------------------------------------------------------------
(* ValidateToken, past a cache miss *)

ValidateOnMiss(h, t) ==
  /\ ~Hit(t.sid)
  /\ Accept(h, t, "v_row")
  /\ UNCHANGED <<stored, cached, issued, history>>

RowAdmits(j) == row[j.sid] = j.gen /\ ~expired[j.sid]

ValidateGetSession(h) ==
  /\ At(h, "v_row")
  /\ IF RowAdmits(job[h])
       THEN Goto(h, "v_rev")
       ELSE Answer(h)
  /\ UNCHANGED <<stored, cached, issued, history>>

ValidateGetRevocation(h) ==
  /\ At(h, "v_rev")
  /\ IF job[h].gv >= gv
       THEN Step(h, "v_put", Seen(h))
       ELSE Answer(h)
  /\ UNCHANGED <<stored, cached, issued, history>>

ValidateFill(h) ==
  /\ At(h, "v_put")
  /\ CachePut(job[h].sid, job[h].gen, job[h].gv)
  /\ Answer(h)
  /\ UNCHANGED <<stored, theft, issued, history>>

-------------------------------------------------------------------------------
(* Logout and LogoutAllDevices; BumpUserGlobalVer reads, then writes *)

Logout(h, t) ==
  /\ At(h, "idle")
  /\ CacheDel(t.sid)
  /\ UNCHANGED <<stored, theft, pc, job, issued, opened, pairs, epoch,
                 replays>>

LogoutAllDevices(h) ==
  /\ At(h, "idle")
  /\ epoch < MaxBumps
  /\ Goto(h, "b_read")
  /\ UNCHANGED <<stored, cached, issued, history>>

BumpRead(h, here, next) ==
  /\ At(h, here)
  /\ Step(h, next, [job[h] EXCEPT !.n = gv])
  /\ UNCHANGED <<stored, cached, issued, history>>

\* Mutant: the version moves the wrong way.
VersionDecremented(h) ==
  /\ gv' = job[h].n - 1
  /\ epoch' = epoch + 1

StoreUserRevocation(h) ==
  /\ gv' = job[h].n + 1
  /\ epoch' = epoch + 1

LogoutAllBumpRead(h) == BumpRead(h, "b_read", "b_write")

LogoutAllBumpWrite(h) ==
  /\ At(h, "b_write")
  /\ StoreUserRevocation(h)
  /\ Answer(h)
  /\ UNCHANGED <<row, expired, cached, issued, opened, pairs, replays>>

-------------------------------------------------------------------------------
(* handleTheftDetected *)

\* recordTheftAttempt: Get, then SetWithTTL.
TheftCount(h) ==
  /\ At(h, "t_count")
  /\ Step(h, "t_mark", [job[h] EXCEPT !.n = theft + 1])
  /\ UNCHANGED <<stored, cached, issued, history>>

\* Mutant: one attempt too early.
OneTheftTooEarly(n) == n + 1 >= TheftThreshold
RepeatedTheft(n) == n >= TheftThreshold

TheftMark(h) ==
  /\ At(h, "t_mark")
  /\ theft' = job[h].n \/ (theft = 0 /\ UNCHANGED theft)
  /\ Goto(h, IF RepeatedTheft(job[h].n) THEN "t_read" ELSE "t_row")
  /\ UNCHANGED <<stored, cache, issued, history>>

TheftBumpRead(h) == BumpRead(h, "t_read", "t_write")

TheftBumpWrite(h) ==
  /\ At(h, "t_write")
  /\ StoreUserRevocation(h)
  /\ Goto(h, "t_keys")
  /\ UNCHANGED <<row, expired, cached, issued, opened, pairs, replays>>

TheftClearKeys(h) ==
  /\ At(h, "t_keys")
  /\ theft' = 0
  /\ Goto(h, "t_row")
  /\ UNCHANGED <<stored, cache, issued, history>>

\* Mutant: only the cache entry is removed.
SessionNotDeleted(h) ==
  /\ At(h, "t_row")
  /\ Goto(h, "t_evict")
  /\ UNCHANGED <<stored, cached, issued, history>>

DeleteSession(h) ==
  /\ At(h, "t_row")
  /\ row' = [row EXCEPT ![job[h].sid] = 0]
  /\ Goto(h, "t_evict")
  /\ UNCHANGED <<expired, gv, cached, issued, history>>

TheftEvict(h) ==
  /\ At(h, "t_evict")
  /\ CacheDel(job[h].sid)
  /\ Answer(h)
  /\ UNCHANGED <<stored, theft, issued, opened, pairs, epoch, replays>>

-------------------------------------------------------------------------------
(* Time: evictions and TTLs of the cache and of the rows *)

Evict(s) ==
  /\ Hit(s)
  /\ CacheDel(s)
  /\ UNCHANGED <<stored, theft, pc, job, issued, history>>

TheftCounterExpires ==
  /\ theft > 0
  /\ theft' = 0
  /\ UNCHANGED <<stored, cache, pc, job, issued, history>>

\* expires_at is never moved by a rotation; the pair minted at login expires
\* with it, pairs minted by later rotations live on.
SessionExpires(s) ==
  /\ row[s] > 0 /\ pairs[s][1] > 0
  /\ ~expired[s]
  /\ expired' = [expired EXCEPT ![s] = TRUE]
  /\ issued' = {t \in issued : ~(t.sid = s /\ t.gen = 1)}
  /\ UNCHANGED <<row, gv, cached, pc, job, history>>

\* The row lives 7 days from its last write, no less than expires_at, and no
\* less than the pair minted for that write.
RowExpires(s) ==
  /\ row[s] > 0
  /\ expired[s]
  /\ row' = [row EXCEPT ![s] = 0]
  /\ issued' = {t \in issued : t.sid # s}
  /\ UNCHANGED <<expired, gv, cached, pc, job, history>>

\* user_revocations rows live 7 days from the last bump, as long as a refresh
\* token: the pairs checked before that bump have expired when the row goes.
RevocationExpires ==
  /\ gv > 0
  /\ \A h \in Handlers : At(h, "idle")
  /\ gv' = 0
  /\ issued' = {t \in issued : t.epoch = epoch}
  /\ UNCHANGED <<row, expired, cached, pc, job, history>>

-------------------------------------------------------------------------------
(* Faults: a database call fails, or is applied and reported as failed; the  *)
(* process restarts. The theft clean-up logs an error and goes on.           *)

CallFails(h) ==
  /\ pc[h] \in RefreshPcs \union ValidatePcs \union LoginPcs \union LogoutAllPcs
  /\ Answer(h)
  /\ UNCHANGED <<stored, cached, issued, history>>

\* Signing the pair fails once the cache is warm.
MintFails(h) ==
  /\ At(h, "r_put")
  /\ CachePut(job[h].sid, job[h].gen + 1, job[h].gv)
  /\ Answer(h)
  /\ UNCHANGED <<stored, theft, issued, history>>

BumpGenTimesOut(h) ==
  /\ At(h, "r_cas")
  /\ GenIs(job[h].sid, job[h].gen)
  /\ row' = [row EXCEPT ![job[h].sid] = job[h].gen + 1]
  /\ Answer(h)
  /\ UNCHANGED <<expired, gv, cached, issued, history>>

TheftBumpFails(h) ==
  /\ pc[h] \in {"t_read", "t_write"}
  /\ Goto(h, "t_keys")
  /\ UNCHANGED <<stored, cached, issued, history>>

DeleteSessionFails(h) ==
  /\ At(h, "t_row")
  /\ Goto(h, "t_evict")
  /\ UNCHANGED <<stored, cached, issued, history>>

Restart ==
  /\ cache' = [s \in Sessions |-> NoEntry]
  /\ theft' = 0
  /\ pc' = [h \in Handlers |-> "idle"]
  /\ job' = [h \in Handlers |-> Blank]
  /\ UNCHANGED <<stored, issued, history>>

-------------------------------------------------------------------------------

Serve(h) ==
  \/ LoginGetRevocation(h) \/ LoginMint(h)
  \/ RefreshSessionGone(h) \/ ReplayOnRow(h) \/ RefreshGetSession(h)
  \/ RefreshRevoked(h) \/ RefreshGetRevocation(h)
  \/ AtomicBumpGen(h) \/ ConcurrentRotation(h) \/ RefreshMint(h)
  \/ ValidateGetSession(h) \/ ValidateGetRevocation(h) \/ ValidateFill(h)
  \/ LogoutAllBumpRead(h) \/ LogoutAllBumpWrite(h)
  \/ TheftCount(h) \/ TheftMark(h) \/ TheftBumpRead(h) \/ TheftBumpWrite(h)
  \/ TheftClearKeys(h) \/ DeleteSession(h) \/ TheftEvict(h)

Request(h) ==
  \/ \E s \in Sessions : StoreSession(h, s)
  \/ \E t \in issued : \/ ReplayOnHit(h, t) \/ RefreshOnHit(h, t)
                       \/ RefreshOnMiss(h, t) \/ ValidateOnMiss(h, t)
                       \/ Logout(h, t)
  \/ LogoutAllDevices(h)

Clock ==
  \/ \E s \in Sessions : Evict(s) \/ SessionExpires(s) \/ RowExpires(s)
  \/ TheftCounterExpires
  \/ RevocationExpires

Fault(h) ==
  /\ Faulty
  /\ \/ CallFails(h) \/ MintFails(h) \/ BumpGenTimesOut(h)
     \/ TheftBumpFails(h) \/ DeleteSessionFails(h)

Next ==
  \/ \E h \in Handlers : Request(h) \/ Serve(h) \/ Fault(h)
  \/ Clock
  \/ Faulty /\ Restart

Spec == Init /\ [][Next]_vars

\* A goroutine that can run runs: the Go scheduler is fair, and every database
\* call ends by an answer or by a timeout.
FairSpec == Spec /\ \A h \in Handlers : WF_vars(Serve(h))

-------------------------------------------------------------------------------
(* Properties *)

StoreTypeOK ==
  /\ row \in [Sessions -> 0..MaxGen]
  /\ expired \in [Sessions -> BOOLEAN]
  /\ gv \in Nat
  /\ cache \in [Sessions -> CachedSession]
  /\ theft \in Nat

ControlTypeOK ==
  /\ pc \in [Handlers -> Pcs]
  /\ job \in [Handlers -> Job]
  /\ \A h \in Handlers : pc[h] \in RefreshPcs => job[h].gen < MaxGen

ClientTypeOK ==
  /\ issued \subseteq Token
  /\ opened \subseteq Sessions
  /\ pairs \in [Sessions -> [Gens -> Nat]]
  /\ epoch \in Nat
  /\ replays \in Nat

\* Every variable stays in its type; a goroutine of RefreshToken works on a
\* generation that still has a successor.
TypeOK == StoreTypeOK /\ ControlTypeOK /\ ClientTypeOK

\* Goroutine h has earned the pair of generation g of session s and has not
\* handed it out yet.
Holds(h, s, g) ==
  /\ job[h].sid = s
  /\ \/ At(h, "r_put") /\ g = job[h].gen + 1
     \/ pc[h] \in LoginPcs /\ g = 1

\* Two requests that present the same refresh token, however they interleave
\* and whichever of them the cache answers, never both get a pair: at most one
\* pair is handed out per generation of a session (the LWT of AtomicBumpGen).
SingleRotation == \A s \in Sessions, g \in Gens : pairs[s][g] <= 1

\* A cached generation or a token in a client's hands is never ahead of the row
\* of a live session: a cache hit can reject a good token but never grants a
\* rotation the row would refuse.
NothingAheadOfRow ==
  \A s \in Sessions : row[s] > 0 =>
    /\ cache[s].gen <= row[s]
    /\ \A t \in issued : t.sid = s => t.gen <= row[s]

\* The account-level response of handleTheftDetected (a bump of global_ver, which
\* ends every session of the user) starts only after TheftThreshold replays,
\* although the counter is read and written by goroutines that race.
EscalationNeedsRepeatedTheft ==
  \A h \in Handlers : pc[h] \in EscalationPcs => replays >= TheftThreshold

\* While no database call fails and the process stays up, the owner of a live
\* session is never locked out by a race of refreshes: the pair of the current
\* generation was handed out or one request is about to hand it out.
CurrentPairExists ==
  \A s \in Sessions : row[s] > 0 =>
    \/ pairs[s][row[s]] = 1
    \/ \E h \in Handlers : Holds(h, s, row[s])

\* A session row is created once, moves by one generation at a time and, once
\* deleted by the theft clean-up, is never written again: no request that was in
\* flight when the session was killed brings it back.
DeletedStaysDeleted ==
  [][\A s \in Sessions :
       \/ row'[s] \in {0, row[s]}
       \/ row'[s] = row[s] + 1 /\ (row[s] > 0 \/ s \notin opened)]_vars

\* Every detected replay ends with the session's row deleted, whatever the other
\* requests of the session do in the meantime.
ReplayKillsSession ==
  \A h \in Handlers, s \in Sessions :
    (At(h, "t_count") /\ job[h].sid = s) ~> (row[s] = 0)

\* AuthSessions implements SessionRotation: the cache and the interleavings add
\* nothing to what a rotation promises.
Rotation == INSTANCE SessionRotation WITH
  current <- row,
  owed <- {right \in Sessions \X Gens :
             \E h \in Handlers : Holds(h, right[1], right[2])},
  delivered <- {right \in Sessions \X Gens : pairs[right[1]][right[2]] > 0}
RotationSpec == Rotation!Spec

===============================================================================
