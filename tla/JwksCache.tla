----------------------------- MODULE JwksCache ------------------------------
(***************************************************************************)
(* The cache of signing keys the Next.js server validates refresh tokens     *)
(* with (web/src/lib/server-jwt.ts), next to the auth service that publishes *)
(* keys and withdraws them. Validations run concurrently: each prunes and    *)
(* reads the cache, may fetch the key set, writes what it fetched with the   *)
(* time at which it started, and answers from what the cache holds by then.  *)
(*                                                                           *)
(* Tokens are well formed, and signed by the key they name: what is left to  *)
(* decide is whether that key is still believed. Every key is Ed25519.       *)
(***************************************************************************)
EXTENDS Naturals, FiniteSets

CONSTANTS
  Keys,        \* key ids
  Calls,       \* validations that may run at once
  Interval,    \* JWKS_REFRESH_INTERVAL_MS
  Retention,   \* JWKS_RETENTION_MS
  Patience,    \* how long a fetch lasts at most: fetch's own limit (external)
  MaxTime,     \* bound: the clock
  Unreachable  \* whether the key set may be out of reach

ASSUME KeysAssumption == Keys # {}
ASSUME TimesAssumption ==
  /\ Interval \in Nat /\ Retention \in Nat /\ Patience \in Nat
  /\ MaxTime \in Nat
ASSUME PatienceAssumption == Patience <= Retention
ASSUME UnreachableAssumption == Unreachable \in BOOLEAN

VARIABLES
  now,        \* Date.now()
  published,  \* the key set of the auth service
  withdrawn,  \* history: when a key left it
  cached,     \* keys with an entry in jwksCache
  observed,   \* their observedAt
  fetchedAt,  \* lastJwksFetchAt
  call,       \* the validations
  verdict     \* history: the last answer given

keySet == <<published, withdrawn>>
cache == <<cached, observed, fetchedAt>>
keysVars == <<now, keySet, cache, call, verdict>>

Answers == {"none", "valid", "invalid-token", "jwks-fetch-failed"}
Call == [at: {"idle", "fetching", "storing"}, kid: Keys, started: Nat,
         had: BOOLEAN, body: SUBSET Keys]
AnyKey == CHOOSE k \in Keys : TRUE
NoCall == [at |-> "idle", kid |-> AnyKey, started |-> 0, had |-> FALSE,
           body |-> {}]
Verdict == [answer: Answers, kid: Keys, started: Nat]

KeysInit ==
  /\ now = 0
  /\ published \in SUBSET Keys
  /\ withdrawn = [k \in Keys |-> 0]
  /\ cached = {}
  /\ observed = [k \in Keys |-> 0]
  /\ fetchedAt = 0
  /\ call = [c \in Calls |-> NoCall]
  /\ verdict = [answer |-> "none", kid |-> AnyKey, started |-> 0]

-------------------------------------------------------------------------------
(* The surroundings *)

Tick ==
  /\ now < MaxTime
  /\ \A c \in Calls : call[c].at # "idle" => now < call[c].started + Patience
  /\ now' = now + 1
  /\ UNCHANGED <<keySet, cache, call, verdict>>

\* A retired key leaves the key set; a new one is another id, there from the
\* start or never.
Withdraw(k) ==
  /\ k \in published
  /\ published' = published \ {k}
  /\ withdrawn' = [withdrawn EXCEPT ![k] = now]
  /\ UNCHANGED <<now, cache, call, verdict>>

-------------------------------------------------------------------------------
(* The cache *)

\* Mutant: entries stay until the key set replaces them.
KeepAll(keys, times, t) == keys

\* pruneExpiredJwksEntries: what is left of the entries at time t.
Prune(keys, times, t) == {k \in keys : t <= times[k] + Retention}

\* Mutant: the entry is dated back, to be fetched again soon.
StampBack(c, k) ==
  IF k \in call[c].body THEN call[c].started - Interval ELSE observed[k]

\* The observedAt of an entry once the call has written its key set.
Stamp(c, k) == IF k \in call[c].body THEN call[c].started ELSE observed[k]

SetCall(c, record) == call' = [call EXCEPT ![c] = record]
Decide(c, a, kid, t) ==
  /\ SetCall(c, NoCall)
  /\ verdict' = [answer |-> a, kid |-> kid, started |-> t]

-------------------------------------------------------------------------------
(* validateRefreshToken and resolveRefreshTokenJwk *)

\* A recent entry answers at once.
AnswerFromCache(c, k) ==
  /\ call[c].at = "idle"
  /\ cached' = Prune(cached, observed, now)
  /\ k \in cached'
  /\ now < fetchedAt + Interval
  /\ Decide(c, "valid", k, now)
  /\ UNCHANGED <<now, keySet, observed, fetchedAt>>

StartFetch(c, k) ==
  /\ call[c].at = "idle"
  /\ cached' = Prune(cached, observed, now)
  /\ k \notin cached' \/ now >= fetchedAt + Interval
  /\ SetCall(c, [at |-> "fetching", kid |-> k, started |-> now,
                 had |-> k \in cached', body |-> {}])
  /\ UNCHANGED <<now, keySet, observed, fetchedAt, verdict>>

\* The auth service answers with the keys it has.
FetchAnswers(c) ==
  /\ call[c].at = "fetching"
  /\ SetCall(c, [call[c] EXCEPT !.at = "storing", !.body = published])
  /\ UNCHANGED <<now, keySet, cache, verdict>>

\* The key set is out of reach: the entry read at the start still counts, and
\* so does one another call wrote meanwhile.
FetchFails(c) ==
  /\ Unreachable
  /\ call[c].at = "fetching"
  /\ Decide(c, IF call[c].kid \in cached \/ call[c].had THEN "valid"
               ELSE "jwks-fetch-failed", call[c].kid, call[c].started)
  /\ UNCHANGED <<now, keySet, cache>>

\* refreshJwksCache once the body is there.
StoreKeys(c) ==
  /\ call[c].at = "storing"
  /\ observed' = [k \in Keys |-> Stamp(c, k)]
  /\ cached' = Prune(cached \union call[c].body, observed', call[c].started)
  /\ fetchedAt' = call[c].started
  /\ Decide(c, IF call[c].kid \in cached' \/ call[c].had THEN "valid"
               ELSE "invalid-token", call[c].kid, call[c].started)
  /\ UNCHANGED <<now, keySet>>

-------------------------------------------------------------------------------

KeysNext ==
  \/ Tick
  \/ \E k \in Keys : Withdraw(k)
  \/ \E c \in Calls :
       \/ \E k \in Keys : AnswerFromCache(c, k) \/ StartFetch(c, k)
       \/ FetchAnswers(c) \/ FetchFails(c) \/ StoreKeys(c)

KeysSpec == KeysInit /\ [][KeysNext]_keysVars

-------------------------------------------------------------------------------
(* Properties *)

KeysTypeOK ==
  /\ now \in Nat
  /\ published \subseteq Keys
  /\ withdrawn \in [Keys -> Nat]
  /\ cached \subseteq Keys
  /\ observed \in [Keys -> Nat]
  /\ fetchedAt \in Nat
  /\ call \in [Calls -> Call]
  /\ verdict \in Verdict

(* No token is believed on the strength of a key that left the key set more  *)
(* than the retention before the validation began, however long fetches take *)
(* and in whatever order overlapping ones write the cache (server-jwt.ts).   *)
WithdrawnKeysForgotten ==
  verdict.answer = "valid" /\ verdict.kid \notin published
    => verdict.started <= withdrawn[verdict.kid] + Retention

===============================================================================
