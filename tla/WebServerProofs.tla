--------------------------- MODULE WebServerProofs ---------------------------
(* Proofs about the two machines of the web server.                           *)
(*                                                                            *)
(* The session of a browser, for any number of requests in flight, logins and *)
(* generations: the type invariant, that the newest pair is in one place, and *)
(* that the jar never goes back.                                              *)
(*                                                                            *)
(* The key cache, for any number of keys and of validations at once, and any  *)
(* times for which a fetch does not last longer than the retention: its type, *)
(* and that a key which left the key set is not believed for longer than the  *)
(* retention.                                                                 *)
EXTENDS WebSession, JwksCache, FiniteSetTheorems, TLAPS

-------------------------------------------------------------------------------
(* The inductive invariant *)

(* Where a pair of login l can be found.                                      *)
Of(l, p) == p # None /\ p # Keep /\ p[1] = l

(* Pairs come from sessions that were opened, and none is ahead of the row of *)
(* its session.                                                               *)
NoneAhead(l, p) == Of(l, p) => l <= opened /\ (row[l] # 0 => p[2] <= row[l])

PairsKnown ==
  \A l \in Logins :
    /\ l > opened => row[l] = 0
    /\ NoneAhead(l, jar.refresh)
    /\ \A r \in Requests :
         NoneAhead(l, req[r].put) /\ NoneAhead(l, req[r].seen.refresh)

(* An answer that carries a pair is the only one with a pair of that login,   *)
(* and neither the jar nor another request has one as new.                    *)
Newer(p, q) == p[1] = q[1] => q[2] < p[2]

CarrierAlone ==
  \A r \in Requests :
    req[r].put \in Pairs =>
      /\ Newer(req[r].put, jar.refresh)
      /\ \A q \in Requests \ {r} :
           /\ req[q].put \in Pairs => req[q].put[1] # req[r].put[1]
           /\ Newer(req[r].put, req[q].seen.refresh)

(* Whoever asks for a refresh presents a pair.                                *)
PresentsPair ==
  \A r \in Requests : req[r].at \in RefreshPcs => req[r].seen.refresh \in Pairs

SessionInv ==
  /\ TypeOK
  /\ PairsTogether
  /\ PairsKnown
  /\ CarrierAlone
  /\ PresentsPair

-------------------------------------------------------------------------------
(* Values *)

LEMMA PairsAreNotMarks ==
  /\ None \notin Pairs /\ Keep \notin Pairs /\ None # Keep
  /\ \A p \in Pairs : p[1] \in Logins /\ p[2] \in 1..MaxGen /\ p = <<p[1], p[2]>>
  /\ \A l \in Logins, p \in Pairs \union {None, Keep} :
       Of(l, p) <=> p \in Pairs /\ p[1] = l
  /\ \A p \in Pairs, q \in {None, Keep} : Newer(p, q)
<1> USE BoundsAssumption DEF None, Keep, Pairs, Logins
<1>1. None[1] = 0 /\ Keep[1] = 0 /\ None # Keep
  OBVIOUS
<1>2. \A p \in Pairs : /\ p[1] \in Logins /\ p[2] \in 1..MaxGen
                       /\ p = <<p[1], p[2]>>
  OBVIOUS
<1>3. None \notin Pairs /\ Keep \notin Pairs
  OBVIOUS
<1>4. \A l \in Logins, p \in Pairs \union {None, Keep} :
        Of(l, p) <=> p \in Pairs /\ p[1] = l
  BY <1>3 DEF Of
<1>5. \A p \in Pairs, q \in {None, Keep} : Newer(p, q)
  BY <1>1, <1>2 DEF Newer
<1> QED
  BY <1>1, <1>2, <1>3, <1>4, <1>5

LEMMA MarksAreIdle ==
  Idle \in Request /\ NoCookies \in Cookies
BY DEF Idle, Request, NoCookies, Cookies, Kinds, Pcs, RefreshPcs

LEMMA HandleCases ==
  ASSUME NEW r, NEW put, NEW seen, req[r].kind \in Kinds, Handle(r, put, seen)
  PROVE  \/ HandlePage(r, put)
         \/ HandleAsset(r, put, seen)
         \/ HandleLogout(r)
<1>1. \/ req[r].kind = "page" \/ req[r].kind = "asset"
      \/ req[r].kind = "logout"
  BY DEF Kinds
<1>2. CASE req[r].kind = "page"
  BY <1>2, Zenon DEF Handle
<1>3. CASE req[r].kind = "asset"
  <2>1. ~(req[r].kind = "page")
    BY <1>3
  <2> QED
    BY <1>3, <2>1, Zenon DEF Handle
<1>4. CASE req[r].kind = "logout"
  <2>1. ~(req[r].kind = "page") /\ ~(req[r].kind = "asset")
    BY <1>4
  <2> QED
    BY <1>4, <2>1, Zenon DEF Handle
<1> QED
  BY <1>1, <1>2, <1>3, <1>4

LEMMA AppliedCases ==
  /\ Applied(Keep) = jar
  /\ Applied(None) = NoCookies
  /\ \A p \in Pairs : Applied(p) = Both(p)
<1>1. Applied(Keep) = jar
  <2>1. ~(Keep = None)
    BY PairsAreNotMarks
  <2> QED
    BY <2>1, Zenon DEF Applied
<1>2. Applied(None) = NoCookies
  <2>1. None # Keep
    BY PairsAreNotMarks
  <2> QED
    BY <2>1, Zenon DEF Applied
<1>3. ASSUME NEW p \in Pairs PROVE Applied(p) = Both(p)
  <2>1. p # None /\ p # Keep
    BY PairsAreNotMarks
  <2> QED
    BY <2>1, Zenon DEF Applied
<1> QED
  BY <1>1, <1>2, <1>3

-------------------------------------------------------------------------------
(* The three ways in which a request changes what is where *)

(* It brings nothing new: rows may move on, or go.                            *)
LEMMA NothingNew ==
  ASSUME SessionInv, NEW r \in Requests, NEW new \in Request, Set(r, new),
         UNCHANGED <<opened, jar>>, doomed' \subseteq Logins,
         row' \in [Logins -> 0..MaxGen],
         \A l \in Logins : row'[l] = 0 \/ (row[l] # 0 /\ row'[l] >= row[l]),
         new.put \in {req[r].put, None, Keep},
         new.seen.refresh \in {req[r].seen.refresh, None, jar.refresh},
         new.seen.access \in {None, new.seen.refresh},
         new.at \in RefreshPcs => new.seen.refresh \in Pairs
  PROVE  SessionInv'
<1> USE DEF SessionInv
<1>1. /\ req' = [req EXCEPT ![r] = new] /\ req \in [Requests -> Request]
      /\ req'[r] = new /\ \A q \in Requests \ {r} : req'[q] = req[q]
  BY DEF Set, TypeOK
<1>2. TypeOK'
  BY <1>1 DEF TypeOK
<1>3. PairsTogether'
  BY <1>1 DEF PairsTogether
<1>4. PresentsPair'
  BY <1>1 DEF PresentsPair
<1>5. ASSUME NEW l \in Logins, NEW p, p[2] \in Nat, NoneAhead(l, p)
      PROVE  (NoneAhead(l, p))'
  BY <1>5 DEF NoneAhead, Of, TypeOK
<1>6. \A l \in Logins : NoneAhead(l, None) /\ NoneAhead(l, Keep)
  BY DEF NoneAhead, Of
<1>7. PairsKnown'
  <2>1. ASSUME NEW l \in Logins
        PROVE  /\ l > opened => row'[l] = 0
               /\ NoneAhead(l, jar.refresh)
               /\ \A q \in Requests : /\ NoneAhead(l, req'[q].put)
                                      /\ NoneAhead(l, req'[q].seen.refresh)
    BY <1>1, <1>6, <2>1 DEF PairsKnown
  <2>2. /\ jar.refresh[2] \in Nat
        /\ \A q \in Requests : /\ req'[q].put[2] \in Nat
                               /\ req'[q].seen.refresh[2] \in Nat
    <3>1. ASSUME NEW q \in Pairs \union {None, Keep} PROVE q[2] \in Nat
      BY DEF Pairs, None, Keep
    <3> QED
      BY <1>2, <3>1 DEF TypeOK, Cookies, Request
  <2> QED
    BY <1>5, <2>1, <2>2 DEF PairsKnown
<1>8. CarrierAlone'
  <2>1. jar.refresh \in Pairs \union {None}
    BY DEF TypeOK, Cookies
  <2>2. ASSUME NEW q \in Requests, req'[q].put \in Pairs
        PROVE  req'[q].put = req[q].put
    BY <1>1, <2>2, PairsAreNotMarks
  <2>3. ASSUME NEW q \in Requests, req[q].put \in Pairs,
               NEW o \in Requests \ {q}
        PROVE  Newer(req[q].put, req'[o].seen.refresh)
    BY <1>1, <2>3, PairsAreNotMarks DEF CarrierAlone
  <2> QED
    BY <2>2, <2>3 DEF CarrierAlone
<1> QED
  BY <1>2, <1>3, <1>4, <1>7, <1>8

(* It earned the next pair of the session it presented the newest pair of.    *)
LEMMA NextPair ==
  ASSUME SessionInv, NEW r \in Requests, NEW new \in Request, Set(r, new),
         UNCHANGED <<opened, jar, doomed>>,
         NEW l \in Logins, NEW g \in Nat, g < MaxGen,
         Presented(r) = <<l, g>>, row[l] = g, g # 0,
         row' = [row EXCEPT ![l] = g + 1],
         new.put \in {<<l, g + 1>>, None},
         new.seen.refresh \in {<<l, g + 1>>, None},
         new.seen.access \in {None, new.seen.refresh},
         new.at \in RefreshPcs => new.seen.refresh \in Pairs
  PROVE  SessionInv'
<1> USE DEF SessionInv
<1> DEFINE p == <<l, g + 1>>
<1>1. /\ req' = [req EXCEPT ![r] = new] /\ req \in [Requests -> Request]
      /\ req'[r] = new /\ \A q \in Requests \ {r} : req'[q] = req[q]
  BY DEF Set, TypeOK
<1>2. g + 1 \in 0..MaxGen /\ p \in Pairs /\ p[1] = l /\ p[2] = g + 1
  BY BoundsAssumption DEF Pairs
<1>3. row' \in [Logins -> 0..MaxGen] /\ row'[l] = g + 1
      /\ \A m \in Logins \ {l} : row'[m] = row[m]
  BY <1>2 DEF TypeOK
<1>4. TypeOK'
  BY <1>1, <1>3 DEF TypeOK
<1>5. PairsTogether'
  BY <1>1 DEF PairsTogether
<1>6. PresentsPair'
  BY <1>1 DEF PresentsPair
<1>7. Of(l, <<l, g>>)
  BY BoundsAssumption DEF Of, None, Keep, Logins
<1>8. l <= opened
  BY <1>7 DEF PairsKnown, NoneAhead, Presented
<1>9. ASSUME NEW m \in Logins, NEW q, NoneAhead(m, q), m = l => q[2] \in Nat
      PROVE  (NoneAhead(m, q))'
  BY <1>3, <1>9 DEF NoneAhead
<1>10. PairsKnown'
  <2>1. ASSUME NEW m \in Logins
        PROVE  (NoneAhead(m, p))' /\ (NoneAhead(m, None))'
    BY <1>2, <1>3, <1>8 DEF NoneAhead, Of
  <2>2. ASSUME NEW q \in Pairs \union {None, Keep} PROVE q[2] \in Nat
    BY DEF Pairs, None, Keep
  <2>3. jar.refresh \in Pairs \union {None, Keep}
    BY DEF TypeOK, Cookies
  <2>4. ASSUME NEW q \in Requests
        PROVE  /\ req[q].put \in Pairs \union {None, Keep}
               /\ req[q].seen.refresh \in Pairs \union {None, Keep}
    BY DEF TypeOK, Request, Cookies
  <2>5. ASSUME NEW m \in Logins, NEW q \in Requests
        PROVE  /\ (NoneAhead(m, req[q].put))'
               /\ (NoneAhead(m, req[q].seen.refresh))'
    <3>1. CASE q = r
      BY <1>1, <2>1, <3>1 DEF NoneAhead, Of
    <3>2. CASE q # r
      <4>1. NoneAhead(m, req[q].put) /\ NoneAhead(m, req[q].seen.refresh)
        BY DEF PairsKnown
      <4> QED
        BY <1>1, <1>9, <2>2, <2>4, <3>2, <4>1 DEF NoneAhead, Of
    <3> QED
      BY <3>1, <3>2
  <2>6. ASSUME NEW m \in Logins
        PROVE  (NoneAhead(m, jar.refresh))' /\ (m > opened' => row'[m] = 0)
    <3>1. NoneAhead(m, jar.refresh)
      BY DEF PairsKnown
    <3>2. (NoneAhead(m, jar.refresh))'
      BY <1>9, <2>2, <2>3, <3>1 DEF NoneAhead, Of
    <3> QED
      BY <1>3, <1>8, <3>2 DEF PairsKnown, TypeOK, Logins
  <2> QED
    BY <2>5, <2>6 DEF PairsKnown
<1>11. ASSUME NEW q \in Requests \ {r}
       PROVE  ~(req[q].put \in Pairs /\ req[q].put[1] = l)
  <2> SUFFICES ASSUME req[q].put \in Pairs, req[q].put[1] = l PROVE FALSE
    OBVIOUS
  <2>1. Newer(req[q].put, <<l, g>>)
    BY DEF CarrierAlone, Presented
  <2>2. g < req[q].put[2]
    BY <2>1 DEF Newer
  <2>3. NoneAhead(l, req[q].put) /\ Of(l, req[q].put)
    BY PairsAreNotMarks DEF PairsKnown
  <2>4. req[q].put[2] <= g
    BY <2>3 DEF NoneAhead
  <2> QED
    BY <2>2, <2>4, PairsAreNotMarks
<1>12. ASSUME NEW q \in Pairs \union {None, Keep}, NoneAhead(l, q)
       PROVE  Newer(p, q)
  <2>1. CASE q \in Pairs /\ q[1] = l
    <3>1. Of(l, q)
      BY <2>1, PairsAreNotMarks
    <3>2. q[2] <= g /\ q[2] \in Nat
      BY <1>12, <2>1, <3>1 DEF NoneAhead, Pairs
    <3> QED
      BY <3>2 DEF Newer
  <2>2. CASE q \in Pairs /\ q[1] # l
    BY <2>2 DEF Newer
  <2>3. CASE q \in {None, Keep}
    BY <1>2, <2>3, PairsAreNotMarks
  <2> QED
    BY <2>1, <2>2, <2>3
<1>13. CarrierAlone'
  <2>1. ASSUME new.put = p
        PROVE  /\ Newer(p, jar.refresh)
               /\ \A q \in Requests \ {r} :
                    /\ req[q].put \in Pairs => req[q].put[1] # l
                    /\ Newer(p, req[q].seen.refresh)
    <3>1. Newer(p, jar.refresh)
      BY <1>12 DEF PairsKnown, TypeOK, Cookies
    <3>2. ASSUME NEW q \in Requests PROVE Newer(p, req[q].seen.refresh)
      BY <1>12 DEF PairsKnown, TypeOK, Request, Cookies
    <3> QED
      BY <1>11, <3>1, <3>2
  <2>2. ASSUME NEW q \in Requests \ {r}, req[q].put \in Pairs
        PROVE  /\ Newer(req[q].put, jar.refresh)
               /\ Newer(req[q].put, new.seen.refresh)
               /\ new.put \in Pairs => new.put[1] # req[q].put[1]
               /\ \A o \in Requests \ {q, r} :
                    /\ req[o].put \in Pairs => req[o].put[1] # req[q].put[1]
                    /\ Newer(req[q].put, req[o].seen.refresh)
    <3>1. req[q].put[1] # l
      BY <1>11, <2>2
    <3>2. Newer(req[q].put, p) /\ Newer(req[q].put, None)
      BY <1>2, <2>2, <3>1, PairsAreNotMarks DEF Newer
    <3>3. None \notin Pairs
      BY PairsAreNotMarks
    <3> QED
      BY <1>2, <2>2, <3>1, <3>2, <3>3 DEF CarrierAlone
  <2>3. None \notin Pairs
    BY PairsAreNotMarks
  <2>4. req'[r].put \in Pairs => req'[r].put = p
    BY <1>1, <2>3
  <2> HIDE DEF p
  <2>5. ASSUME NEW q \in Requests, req'[q].put \in Pairs
        PROVE  /\ Newer(req'[q].put, jar.refresh)
               /\ \A o \in Requests \ {q} :
                    /\ req'[o].put \in Pairs => req'[o].put[1] # req'[q].put[1]
                    /\ Newer(req'[q].put, req'[o].seen.refresh)
    <3>1. CASE q = r
      BY <1>1, <1>2, <2>1, <2>4, <2>5, <3>1
    <3>2. CASE q # r
      BY <1>1, <2>2, <2>5, <3>2
    <3> QED
      BY <3>1, <3>2
  <2> QED
    BY <2>5 DEF CarrierAlone, Newer
<1> QED
  BY <1>4, <1>5, <1>6, <1>10, <1>13

(* It opened a session.                                                       *)
LEMMA LoggedIn ==
  ASSUME SessionInv, NEW r \in Requests, NEW new \in Request, Set(r, new),
         UNCHANGED <<jar, doomed>>, NEW l \in Logins, l = opened + 1,
         opened' = l, row' = [row EXCEPT ![l] = 1], MaxGen >= 1,
         new.put = <<l, 1>>, new.seen = NoCookies,
         new.at = "reply"
  PROVE  SessionInv'
<1> USE DEF SessionInv
<1> DEFINE p == <<l, 1>>
<1>1. /\ req' = [req EXCEPT ![r] = new] /\ req \in [Requests -> Request]
      /\ req'[r] = new /\ \A q \in Requests \ {r} : req'[q] = req[q]
  BY DEF Set, TypeOK
<1>2. p \in Pairs /\ p[1] = l /\ p[2] = 1
  BY BoundsAssumption DEF Pairs, Logins, TypeOK
<1>3. /\ row' \in [Logins -> 0..MaxGen] /\ row'[l] = 1 /\ opened \in Nat
      /\ \A m \in Logins \ {l} : row'[m] = row[m]
      /\ opened' \in 0..MaxLogins
  BY <1>2, BoundsAssumption DEF TypeOK, Logins
<1>4. TypeOK'
  BY <1>1, <1>3 DEF TypeOK
<1>5. PairsTogether'
  BY <1>1 DEF PairsTogether, NoCookies
<1>6. PresentsPair'
  BY <1>1 DEF PresentsPair, RefreshPcs
<1>7. ASSUME NEW m \in Logins, NEW q, NoneAhead(m, q)
      PROVE  (NoneAhead(m, q))' /\ (Of(m, q) => m # l)
  BY <1>3, <1>7 DEF NoneAhead, Logins
<1>8. /\ \A m \in Logins : NoneAhead(m, None) /\ (NoneAhead(m, p))'
      /\ NoCookies.refresh = None
  <2>1. ASSUME NEW m \in Logins PROVE NoneAhead(m, None)
    BY DEF NoneAhead, Of
  <2>2. ASSUME NEW m \in Logins PROVE (NoneAhead(m, p))'
    <3>1. CASE m = l
      BY <1>2, <1>3, <3>1 DEF NoneAhead
    <3>2. CASE m # l
      BY <1>2, <3>2 DEF NoneAhead, Of
    <3> QED
      BY <3>1, <3>2
  <2> QED
    BY <2>1, <2>2 DEF NoCookies
<1>9. PairsKnown'
  <2>1. ASSUME NEW m \in Logins, NEW q \in Requests
        PROVE  /\ (NoneAhead(m, req[q].put))'
               /\ (NoneAhead(m, req[q].seen.refresh))'
    <3>1. CASE q = r
      <4>1. req'[q].put = p /\ req'[q].seen.refresh = None
        BY <1>1, <1>8, <3>1
      <4> HIDE DEF p
      <4>2. (NoneAhead(m, p))' /\ (NoneAhead(m, None))'
        BY <1>8 DEF NoneAhead, Of
      <4> QED
        BY <4>1, <4>2 DEF NoneAhead, Of
    <3>2. CASE q # r
      BY <1>1, <1>7, <3>2 DEF PairsKnown, NoneAhead, Of
    <3> QED
      BY <3>1, <3>2
  <2>2. ASSUME NEW m \in Logins
        PROVE  (NoneAhead(m, jar.refresh))' /\ (m > opened' => row'[m] = 0)
    BY <1>3, <1>7 DEF PairsKnown, NoneAhead, Of, Logins
  <2> QED
    BY <2>1, <2>2 DEF PairsKnown
<1>10. ASSUME NEW q \in Pairs \union {None, Keep}, NoneAhead(l, q)
       PROVE  Newer(p, q) /\ (q \in Pairs => q[1] # l /\ Newer(q, p))
  <2>1. CASE q \in Pairs
    <3>1. q[1] # l
      BY <1>2, <1>3, <1>10, <2>1, PairsAreNotMarks DEF NoneAhead
    <3> QED
      BY <1>2, <3>1 DEF Newer
  <2>2. CASE q \in {None, Keep}
    BY <1>2, <2>2, PairsAreNotMarks
  <2> QED
    BY <2>1, <2>2
<1>11. CarrierAlone'
  <2> HIDE DEF p
  <2>1. new.put = p /\ new.seen.refresh = None
    BY <1>8 DEF p
  <2>2. ASSUME NEW q \in Requests
        PROVE  /\ Newer(p, jar.refresh)
               /\ Newer(p, req[q].seen.refresh)
               /\ req[q].put \in Pairs => req[q].put[1] # l
    BY <1>2, <1>10 DEF PairsKnown, TypeOK, Request, Cookies
  <2>3. \A q \in Pairs : Newer(q, None)
    BY PairsAreNotMarks
  <2>4. ASSUME NEW q \in Requests, req'[q].put \in Pairs
        PROVE  /\ Newer(req'[q].put, jar.refresh)
               /\ \A o \in Requests \ {q} :
                    /\ req'[o].put \in Pairs => req'[o].put[1] # req'[q].put[1]
                    /\ Newer(req'[q].put, req'[o].seen.refresh)
    <3>1. CASE q = r
      BY <1>1, <1>2, <2>1, <2>2, <2>3, <3>1
    <3>2. CASE q # r
      BY <1>1, <1>2, <2>1, <2>2, <2>3, <2>4, <3>2 DEF CarrierAlone
    <3> QED
      BY <3>1, <3>2
  <2> QED
    BY <2>4 DEF CarrierAlone, Newer
<1> QED
  BY <1>4, <1>5, <1>6, <1>9, <1>11

(* Its answer reached the browser, which follows the redirect.                *)
LEMMA Delivered ==
  ASSUME SessionInv, NEW r \in Requests, NEW new \in Request, Set(r, new),
         UNCHANGED service, NEW p \in Pairs \union {None, Keep},
         p = req[r].put, jar' = Applied(p),
         new.put = Keep, new.seen \in {NoCookies, jar'}, new.at \notin RefreshPcs
  PROVE  /\ SessionInv'
         /\ jar.refresh[1] = jar'.refresh[1] => jar.refresh[2] <= jar'.refresh[2]
<1> USE DEF SessionInv
<1>1. /\ req' = [req EXCEPT ![r] = new] /\ req \in [Requests -> Request]
      /\ req'[r] = new /\ \A q \in Requests \ {r} : req'[q] = req[q]
  BY DEF Set, TypeOK
<1>2. /\ p = Keep => jar' = jar
      /\ p = None => jar' = NoCookies
      /\ p \in Pairs => jar' = Both(p)
  BY AppliedCases
<1>3. /\ NoCookies \in Cookies /\ NoCookies.refresh = None
      /\ NoCookies.access = None /\ None \notin Pairs /\ Keep \notin Pairs
      /\ \A q : Both(q).refresh = q /\ Both(q).access = q
      /\ \A q \in Pairs : Both(q) \in Cookies
  BY MarksAreIdle, PairsAreNotMarks DEF NoCookies, Both, Cookies
<1>4. TypeOK'
  BY <1>1, <1>2, <1>3 DEF TypeOK, service
<1>5. PairsTogether'
  BY <1>1, <1>2, <1>3 DEF PairsTogether
<1>6. PresentsPair'
  BY <1>1 DEF PresentsPair
<1>7. jar'.refresh \in {jar.refresh, p, None} /\ (p = Keep => jar' = jar)
      /\ (p = Keep => jar'.refresh = jar.refresh)
      /\ new.seen.refresh \in {None, jar'.refresh}
  BY <1>2, <1>3
<1>8. PairsKnown'
  <2>1. \A l \in Logins : /\ NoneAhead(l, None) /\ NoneAhead(l, Keep)
                          /\ NoneAhead(l, p) /\ NoneAhead(l, jar.refresh)
    BY DEF PairsKnown, NoneAhead, Of
  <2>2. \A l \in Logins : /\ NoneAhead(l, jar'.refresh)
                          /\ NoneAhead(l, new.seen.refresh)
                          /\ NoneAhead(l, new.put)
    BY <1>7, <2>1
  <2>3. ASSUME NEW l \in Logins
        PROVE  /\ l > opened => row'[l] = 0
               /\ NoneAhead(l, jar'.refresh)
               /\ \A q \in Requests : /\ NoneAhead(l, req'[q].put)
                                      /\ NoneAhead(l, req'[q].seen.refresh)
    BY <1>1, <2>2 DEF PairsKnown, service
  <2> QED
    BY <2>3 DEF PairsKnown, NoneAhead, service
<1>9. CarrierAlone'
  <2>1. ASSUME NEW q \in Requests, req'[q].put \in Pairs
        PROVE  q # r /\ req'[q].put = req[q].put /\ req[q].put \in Pairs
    BY <1>1, <1>3, <2>1
  <2>2. ASSUME NEW q \in Requests \ {r}, req[q].put \in Pairs
        PROVE  Newer(req[q].put, jar'.refresh) /\ Newer(req[q].put, None)
    <3>1. Newer(req[q].put, jar.refresh) /\ Newer(req[q].put, None)
      BY <2>2, PairsAreNotMarks DEF CarrierAlone
    <3>2. p \in Pairs => Newer(req[q].put, p)
      <4>1. p \in Pairs => p[1] # req[q].put[1]
        BY <2>2 DEF CarrierAlone
      <4> QED
        BY <4>1 DEF Newer
    <3> QED
      BY <1>2, <1>3, <3>1, <3>2
  <2>3. ASSUME NEW q \in Requests, req'[q].put \in Pairs
        PROVE  /\ Newer(req'[q].put, jar'.refresh)
               /\ \A o \in Requests \ {q} :
                    /\ req'[o].put \in Pairs => req'[o].put[1] # req'[q].put[1]
                    /\ Newer(req'[q].put, req'[o].seen.refresh)
    BY <1>1, <1>3, <1>7, <2>1, <2>2, <2>3 DEF CarrierAlone
  <2> QED
    BY <2>3 DEF CarrierAlone, Newer
<1>10. jar.refresh[1] = jar'.refresh[1] => jar.refresh[2] <= jar'.refresh[2]
  <2>1. jar.refresh \in Pairs \union {None}
    BY DEF TypeOK, Cookies
  <2>2. jar.refresh[2] \in Nat
    BY <2>1, PairsAreNotMarks, BoundsAssumption DEF None
  <2>3. CASE p = Keep
    BY <1>7, <2>2, <2>3
  <2>4. CASE p = None
    <3>1. jar'.refresh = None
      BY <1>2, <1>3, <2>4
    <3>2. jar.refresh[1] = 0 => jar.refresh = None
      BY <2>1, PairsAreNotMarks DEF Logins
    <3> QED
      BY <3>1, <3>2 DEF None
  <2>5. CASE p \in Pairs
    <3>1. Newer(p, jar.refresh) /\ jar'.refresh = p
      BY <1>2, <1>3, <2>5 DEF CarrierAlone
    <3> QED
      BY <2>2, <2>5, <3>1, PairsAreNotMarks DEF Newer
  <2> QED
    BY <2>3, <2>4, <2>5
<1> QED
  BY <1>4, <1>5, <1>6, <1>8, <1>9, <1>10

-------------------------------------------------------------------------------
(* The actions *)

RowsMoveOn ==
  /\ row' \in [Logins -> 0..MaxGen]
  /\ \A l \in Logins : row'[l] = 0 \/ (row[l] # 0 /\ row'[l] >= row[l])

LEMMA RowsMayStay ==
  ASSUME TypeOK, row' = row
  PROVE  RowsMoveOn
BY DEF TypeOK, RowsMoveOn

LEMMA RowsMayBump ==
  ASSUME TypeOK, NEW l \in Logins, row[l] # 0, row[l] < MaxGen,
         row' = [row EXCEPT ![l] = row[l] + 1]
  PROVE  RowsMoveOn
BY BoundsAssumption DEF TypeOK, RowsMoveOn

LEMMA AnswerShape ==
  ASSUME NEW r, NEW put \in Pairs \union {None, Keep},
         NEW to \in {"here", "login", "workspace"}, Answer(r, put, to)
  PROVE  \E new \in Request :
           /\ Set(r, new)
           /\ new.put = put /\ new.at = "reply"
           /\ new.seen = NoCookies
           /\ new.seen.refresh = None /\ new.seen.access = None
<1> DEFINE new == [Idle EXCEPT !.at = "reply", !.put = put, !.to = to]
<1>1. /\ new \in Request /\ new.put = put /\ new.at = "reply"
      /\ new.seen = NoCookies
  BY MarksAreIdle DEF Idle, Request, Pcs, Kinds
<1>2. NoCookies.refresh = None /\ NoCookies.access = None
  BY DEF NoCookies
<1>3. Set(r, new)
  BY DEF Answer
<1> QED
  BY <1>1, <1>2, <1>3

(* An answer that mints nothing.                                              *)
LEMMA QuietAnswer ==
  ASSUME SessionInv, NEW r \in Requests, NEW put \in {req[r].put, None, Keep},
         NEW to \in {"here", "login", "workspace"}, Answer(r, put, to),
         UNCHANGED <<opened, jar>>, doomed' \subseteq Logins, RowsMoveOn
  PROVE  SessionInv'
<1>1. put \in Pairs \union {None, Keep}
  BY DEF SessionInv, TypeOK, Request
<1>2. PICK new \in Request :
        /\ Set(r, new)
        /\ new.put = put /\ new.at = "reply"
        /\ new.seen = NoCookies
        /\ new.seen.refresh = None /\ new.seen.access = None
  BY <1>1, AnswerShape
<1>3. new.at \notin RefreshPcs
  BY <1>2 DEF RefreshPcs
<1> QED
  BY <1>2, <1>3, NothingNew DEF RowsMoveOn

LEMMA RefusalKeepsInv ==
  ASSUME SessionInv, NEW r \in Requests, Refused(r),
         UNCHANGED <<opened, jar>>, doomed' \subseteq Logins, RowsMoveOn
  PROVE  SessionInv'
BY QuietAnswer DEF Refused, RedirectToLogin

(* What the request was for is served with the cookies it came with.          *)
LEMMA PassKeepsInv ==
  ASSUME SessionInv, NEW r \in Requests, ProxyPasses(r)
  PROVE  SessionInv'
<1>1. /\ UNCHANGED <<opened, jar>> /\ doomed' \subseteq Logins /\ RowsMoveOn
      /\ req[r] \in Request /\ req[r].seen.refresh \in Pairs
  BY RowsMayStay DEF ProxyPasses, SessionInv, TypeOK, service, Request, Cookies
<1>2. \/ HandlePage(r, Keep)
      \/ HandleAsset(r, Keep, req[r].seen)
      \/ HandleLogout(r)
  <2>1. req[r].kind \in Kinds
    BY <1>1 DEF Request
  <2> QED
    BY <2>1, HandleCases DEF ProxyPasses
<1>3. CASE HandlePage(r, Keep) \/ HandleLogout(r)
  BY <1>1, <1>3, QuietAnswer DEF HandlePage, HandleLogout
<1>4. CASE HandleAsset(r, Keep, req[r].seen)
  <2> DEFINE new == [req[r] EXCEPT !.at = "a_check", !.put = Keep,
                                   !.seen = req[r].seen]
  <2>1. /\ new \in Request /\ new.put = Keep
        /\ new.seen.refresh = req[r].seen.refresh
        /\ new.seen.access \in {None, new.seen.refresh}
    BY <1>1 DEF Request, Pcs, RefreshPcs, SessionInv, PairsTogether
  <2>2. Set(r, new)
    BY <1>4 DEF HandleAsset
  <2> HIDE DEF new
  <2> QED
    BY <1>1, <2>1, <2>2, NothingNew DEF RowsMoveOn
<1> QED
  BY <1>2, <1>3, <1>4

LEMMA CheckKeepsInv ==
  ASSUME SessionInv, NEW r \in Requests, CheckPasses(r)
  PROVE  SessionInv'
<1>1. /\ UNCHANGED <<opened, jar>> /\ doomed' \subseteq Logins /\ RowsMoveOn
      /\ req[r] \in Request
  BY RowsMayStay DEF CheckPasses, SessionInv, TypeOK, service
<1>2. req[r].seen.refresh \in Pairs
  BY <1>1 DEF CheckPasses, ProxyRefreshes, At, SessionInv, PresentsPair,
              RefreshPcs, Request, Cookies
<1>3. PICK label \in {"p_cas", "a_cas"} : Goto(r, label)
  BY DEF CheckPasses
<1> DEFINE new == [req[r] EXCEPT !.at = label]
<1>4. /\ new \in Request /\ new.put = req[r].put
      /\ new.seen.refresh = req[r].seen.refresh
      /\ new.seen.access \in {None, new.seen.refresh}
  BY <1>1 DEF Request, Pcs, RefreshPcs, SessionInv, PairsTogether
<1>5. Set(r, new)
  BY <1>3 DEF Goto
<1> HIDE DEF new
<1> QED
  BY <1>1, <1>2, <1>4, <1>5, NothingNew DEF RowsMoveOn

(* The new pair goes to the answer of the request that won.                   *)
LEMMA SuccessKeepsInv ==
  ASSUME SessionInv, NEW r \in Requests, RefreshSucceeds(r)
  PROVE  SessionInv'
<1>1. req[r] \in Request /\ req[r].kind \in Kinds
  BY DEF SessionInv, TypeOK, Request
<1>2. Presented(r) \in Pairs
  BY DEF RefreshSucceeds, At, Presented, SessionInv, PresentsPair, RefreshPcs
<1>3. PICK l \in Logins, g \in 1..MaxGen : Presented(r) = <<l, g>>
  BY <1>2 DEF Pairs
<1> DEFINE p == <<l, g + 1>>
<1>4. /\ row[l] = g /\ g < MaxGen /\ g \in Nat /\ g # 0
      /\ row' = [row EXCEPT ![l] = g + 1] /\ SetAuthCookies(r, p)
      /\ UNCHANGED <<opened, jar, doomed>>
  BY <1>3, BoundsAssumption DEF RefreshSucceeds, GenMatches, RowGen
<1>5. p \in Pairs
  BY <1>4, BoundsAssumption DEF Pairs
<1> HIDE DEF p
<1>6. ASSUME NEW put \in {p, None}, NEW to \in {"here", "login", "workspace"},
             Answer(r, put, to)
      PROVE  SessionInv'
  <2>1. PICK new \in Request :
          /\ Set(r, new)
          /\ new.put = put /\ new.at = "reply"
          /\ new.seen = NoCookies
          /\ new.seen.refresh = None /\ new.seen.access = None
    BY <1>5, <1>6, AnswerShape
  <2>2. new.at \notin RefreshPcs
    BY <2>1 DEF RefreshPcs
  <2> QED
    BY <1>3, <1>4, <2>1, <2>2, NextPair DEF p
<1>7. CASE At(r, "p_cas") /\ HandleAsset(r, p, Both(p))
  <2> DEFINE new == [req[r] EXCEPT !.at = "a_check", !.put = p,
                                   !.seen = Both(p)]
  <2>1. /\ new \in Request /\ new.put = p
        /\ new.seen.refresh = p /\ new.seen.access = p
    BY <1>1, <1>5 DEF Request, Pcs, RefreshPcs, Both, Cookies
  <2>2. Set(r, new)
    BY <1>7 DEF HandleAsset
  <2> HIDE DEF new
  <2> QED
    BY <1>3, <1>4, <1>5, <2>1, <2>2, NextPair DEF p
<1>8. \/ Answer(r, p, "here") \/ Answer(r, None, "here")
      \/ At(r, "p_cas") /\ HandleAsset(r, p, Both(p))
  BY <1>1, <1>4, HandleCases DEF SetAuthCookies, HandlePage, HandleLogout
<1> QED
  BY <1>6, <1>7, <1>8

LEMMA FailureKeepsInv ==
  ASSUME SessionInv, NEW r \in Requests, RefreshFails(r)
  PROVE  SessionInv'
<1>1. RowsMoveOn
  <2>1. CASE row' = row
    BY <2>1, RowsMayStay DEF SessionInv
  <2>2. CASE /\ At(r, "p_cas") \/ At(r, "a_cas")
             /\ GenMatches(r)
             /\ RowGen(r) < MaxGen
             /\ row' = [row EXCEPT ![Presented(r)[1]] = @ + 1]
    <3>1. Presented(r) \in Pairs
      BY <2>2 DEF At, Presented, SessionInv, PresentsPair, RefreshPcs
    <3>2. PICK l \in Logins : l = Presented(r)[1]
      BY <3>1, PairsAreNotMarks
    <3>3. /\ row[l] # 0 /\ row[l] < MaxGen
          /\ row' = [row EXCEPT ![l] = row[l] + 1]
      <4>1. row[l] = Presented(r)[2] /\ Presented(r)[2] \in 1..MaxGen
        BY <2>2, <3>1, <3>2, PairsAreNotMarks DEF GenMatches, RowGen
      <4>2. row[l] # 0
        BY <4>1
      <4> QED
        BY <2>2, <3>2, <4>2 DEF RowGen
    <3> QED
      BY <3>3, RowsMayBump DEF SessionInv
  <2> QED
    BY <2>1, <2>2 DEF RefreshFails
<1> QED
  BY <1>1, RefusalKeepsInv DEF RefreshFails, SessionInv, TypeOK

LEMMA LoginKeepsInv ==
  ASSUME SessionInv, NEW r \in Requests, HandleLogin(r)
  PROVE  SessionInv'
<1>1. CASE Answer(r, Keep, "here") /\ UNCHANGED <<row, opened>>
  BY <1>1, QuietAnswer, RowsMayStay DEF HandleLogin, SessionInv, TypeOK
<1>2. CASE /\ opened < MaxLogins
           /\ opened' = opened + 1
           /\ row' = [row EXCEPT ![opened'] = 1]
           /\ Answer(r, <<opened', 1>>, "workspace")
  <2>1. PICK l \in Logins : l = opened + 1
    BY <1>2, BoundsAssumption DEF SessionInv, TypeOK, Logins
  <2>2. /\ opened' = l /\ row' = [row EXCEPT ![l] = 1]
        /\ Answer(r, <<l, 1>>, "workspace")
    BY <1>2, <2>1
  <2>3. <<l, 1>> \in Pairs /\ MaxGen >= 1
    BY BoundsAssumption DEF Pairs
  <2>4. PICK new \in Request :
          /\ Set(r, new)
          /\ new.put = <<l, 1>> /\ new.at = "reply"
          /\ new.seen = NoCookies
          /\ new.seen.refresh = None /\ new.seen.access = None
    BY <2>2, <2>3, AnswerShape
  <2> QED
    BY <2>1, <2>2, <2>3, <2>4, LoggedIn DEF HandleLogin
<1> QED
  BY <1>1, <1>2 DEF HandleLogin

(* A request leaves with the cookies of the jar.                              *)
LEMMA ArrivalKeepsInv ==
  ASSUME SessionInv, NEW r \in Requests, NEW kind \in Kinds,
         NEW label \in {"proxy", "guest", "login"}, Arrive(r, kind, label),
         UNCHANGED <<service, jar>>
  PROVE  SessionInv'
<1> DEFINE new == [Idle EXCEPT !.kind = kind, !.at = label, !.seen = jar]
<1>1. jar \in Cookies /\ RowsMoveOn /\ doomed' \subseteq Logins
  BY RowsMayStay DEF SessionInv, TypeOK, service
<1>2. /\ new \in Request /\ new.put = Keep /\ new.at \notin RefreshPcs
      /\ new.seen.refresh = jar.refresh
      /\ new.seen.access \in {None, new.seen.refresh}
  BY <1>1, MarksAreIdle
     DEF Idle, Request, Pcs, RefreshPcs, SessionInv, PairsTogether
<1>3. Set(r, new)
  BY DEF Arrive
<1> HIDE DEF new
<1> QED
  BY <1>1, <1>2, <1>3, NothingNew DEF RowsMoveOn, service

LEMMA LossKeepsInv ==
  ASSUME SessionInv, NEW r \in Requests, Lose(r)
  PROVE  SessionInv'
<1>1. /\ Set(r, Idle) /\ UNCHANGED <<opened, jar>> /\ RowsMoveOn
      /\ doomed' \subseteq Logins
  BY RowsMayStay DEF Lose, SessionInv, TypeOK, service
<1>2. /\ Idle \in Request /\ Idle.put = Keep /\ Idle.at \notin RefreshPcs
      /\ Idle.seen.refresh = None /\ Idle.seen.access = None
  BY MarksAreIdle DEF Idle, NoCookies, RefreshPcs
<1> QED
  BY <1>1, <1>2, NothingNew DEF RowsMoveOn

LEMMA ServerKeepsInv ==
  ASSUME SessionInv, NEW r \in Requests, ServerStep(r)
  PROVE  SessionInv' /\ UNCHANGED jar
<1>1. CASE ProxyRejects(r) \/ GuestRedirected(r) \/ GuestServed(r)
  BY <1>1, QuietAnswer, RowsMayStay
     DEF ProxyRejects, GuestRedirected, GuestServed, RedirectToLogin,
         SessionInv, TypeOK, service
<1>2. CASE CheckRefuses(r)
  <2>1. ProxyRefreshes(r) \/ At(r, "a_check")
    BY <1>2 DEF CheckRefuses
  <2>2. Presented(r) \in Pairs
    BY <2>1 DEF ProxyRefreshes, At, Presented, SessionInv, PresentsPair,
                RefreshPcs, TypeOK, Request, Cookies
  <2>3. doomed' \subseteq Logins
    BY <1>2, <2>2, PairsAreNotMarks DEF CheckRefuses, SessionInv, TypeOK
  <2> QED
    BY <1>2, <2>3, RefusalKeepsInv, RowsMayStay DEF CheckRefuses, SessionInv
<1>3. CASE RefreshLosesRace(r)
  BY <1>3, RefusalKeepsInv, RowsMayStay
     DEF RefreshLosesRace, SessionInv, TypeOK, service
<1> QED
  BY <1>1, <1>2, <1>3, PassKeepsInv, CheckKeepsInv, SuccessKeepsInv,
     FailureKeepsInv, LoginKeepsInv
     DEF ServerStep, ProxyPasses, CheckPasses, RefreshSucceeds, RefreshFails,
         HandleLogin

LEMMA BrowserKeepsInv ==
  ASSUME SessionInv, NEW r \in Requests, BrowserStep(r)
  PROVE  SessionInv' /\ UNCHANGED jar
<1>1. "page" \in Kinds
  BY DEF Kinds
<1> QED
  BY <1>1, ArrivalKeepsInv, LossKeepsInv
     DEF BrowserStep, Send, SendGuest, SendLogin, Lose

LEMMA DeliveryKeepsInv ==
  ASSUME SessionInv, NEW r \in Requests, Deliver(r)
  PROVE  /\ SessionInv'
         /\ jar.refresh[1] = jar'.refresh[1] => jar.refresh[2] <= jar'.refresh[2]
<1>1. req[r] \in Request
  BY DEF SessionInv, TypeOK
<1>2. PICK p \in Pairs \union {None, Keep} : p = req[r].put
  BY <1>1 DEF Request
<1>3. jar' = Applied(p) /\ UNCHANGED service
  BY <1>2 DEF Deliver
<1>4. jar' \in Cookies
  <2>1. CASE p = Keep
    BY <1>3, <2>1, AppliedCases DEF SessionInv, TypeOK
  <2>2. CASE p = None
    BY <1>3, <2>2, AppliedCases, MarksAreIdle
  <2>3. CASE p \in Pairs
    BY <1>3, <2>3, AppliedCases DEF Both, Cookies
  <2> QED
    BY <2>1, <2>2, <2>3
<1>5. \/ Set(r, Idle)
      \/ Set(r, [Idle EXCEPT !.at = "proxy", !.seen = jar'])
      \/ Set(r, [Idle EXCEPT !.at = "guest", !.seen = jar'])
  <2>1. \/ req[r].to = "here"
        \/ req[r].to = "workspace" /\ ~(req[r].to = "here")
        \/ /\ req[r].to = "login" /\ ~(req[r].to = "here")
           /\ ~(req[r].to = "workspace")
    BY <1>1 DEF Request
  <2> QED
    BY <2>1, Zenon DEF Deliver
<1>6. PICK new \in Request : /\ Set(r, new)
                             /\ new.put = Keep /\ new.at \notin RefreshPcs
                             /\ new.seen \in {NoCookies, jar'}
  <2>1. /\ Idle \in Request /\ Idle.put = Keep /\ Idle.at \notin RefreshPcs
        /\ Idle.seen = NoCookies
    BY MarksAreIdle DEF Idle, RefreshPcs
  <2>2. ASSUME NEW label \in {"proxy", "guest"},
               Set(r, [Idle EXCEPT !.at = label, !.seen = jar'])
        PROVE  \E new \in Request :
                 /\ Set(r, new)
                 /\ new.put = Keep /\ new.at \notin RefreshPcs
                 /\ new.seen \in {NoCookies, jar'}
    <3> DEFINE new == [Idle EXCEPT !.at = label, !.seen = jar']
    <3>1. /\ new \in Request /\ new.put = Keep /\ new.at = label
          /\ new.seen = jar'
      BY <1>4, <2>1 DEF Idle, Request, Pcs
    <3>2. Set(r, new)
      BY <2>2
    <3> HIDE DEF new
    <3> QED
      BY <3>1, <3>2 DEF RefreshPcs
  <2> QED
    BY <1>5, <2>1, <2>2
<1> QED
  BY <1>2, <1>3, <1>6, Delivered

(* Rows and cookies that go.                                                  *)
LEMMA LeavingKeepsInv ==
  ASSUME SessionInv, UNCHANGED <<opened, req>>, jar' \in Cookies,
         doomed' \subseteq Logins, RowsMoveOn,
         jar'.refresh \in {jar.refresh, None},
         jar'.access \in {None, jar'.refresh}
  PROVE  SessionInv'
<1> USE DEF SessionInv
<1>1. TypeOK' /\ PairsTogether' /\ PresentsPair'
  BY DEF TypeOK, PairsTogether, PresentsPair, RowsMoveOn
<1>2. ASSUME NEW l \in Logins, NEW p \in Pairs \union {None, Keep},
             NoneAhead(l, p)
      PROVE  (NoneAhead(l, p))'
  <2>1. p[2] \in Nat
    BY DEF Pairs, None, Keep
  <2> QED
    BY <1>2, <2>1 DEF NoneAhead, Of, RowsMoveOn, TypeOK
<1>3. PairsKnown'
  <2>1. /\ jar'.refresh \in Pairs \union {None, Keep}
        /\ \A q \in Requests :
             /\ req[q].put \in Pairs \union {None, Keep}
             /\ req[q].seen.refresh \in Pairs \union {None, Keep}
    BY DEF TypeOK, Cookies, Request
  <2>2. ASSUME NEW l \in Logins
        PROVE  /\ l > opened => row'[l] = 0
               /\ NoneAhead(l, jar'.refresh)
               /\ \A q \in Requests : /\ NoneAhead(l, req'[q].put)
                                      /\ NoneAhead(l, req'[q].seen.refresh)
    <3>1. NoneAhead(l, None)
      BY DEF NoneAhead, Of
    <3> QED
      BY <3>1 DEF PairsKnown, RowsMoveOn
  <2> QED
    BY <1>2, <2>1, <2>2 DEF PairsKnown, NoneAhead, Of
<1>4. CarrierAlone'
  BY PairsAreNotMarks DEF CarrierAlone
<1> QED
  BY <1>1, <1>3, <1>4

LEMMA InitHasInv ==
  ASSUME Init
  PROVE  SessionInv
<1>1. /\ Idle \in Request /\ NoCookies \in Cookies
      /\ Idle.at = "idle" /\ Idle.put = Keep /\ Idle.seen = NoCookies
      /\ NoCookies.refresh = None /\ NoCookies.access = None
  BY MarksAreIdle DEF Idle, NoCookies
<1>2. /\ jar = NoCookies /\ opened = 0 /\ doomed = {}
      /\ \A r \in Requests : req[r] = Idle
      /\ \A l \in Logins : row[l] = 0
      /\ row \in [Logins -> 0..MaxGen] /\ req \in [Requests -> Request]
  BY <1>1, BoundsAssumption DEF Init
<1>3. TypeOK
  BY <1>1, <1>2, BoundsAssumption DEF TypeOK
<1>4. PairsTogether /\ PresentsPair
  BY <1>1, <1>2 DEF PairsTogether, PresentsPair, RefreshPcs
<1>5. PairsKnown
  BY <1>1, <1>2 DEF PairsKnown, NoneAhead, Of
<1>6. CarrierAlone
  BY <1>1, <1>2, PairsAreNotMarks DEF CarrierAlone
<1> QED
  BY <1>3, <1>4, <1>5, <1>6 DEF SessionInv

LEMMA NextKeepsInv ==
  ASSUME SessionInv, [Next]_vars
  PROVE  /\ SessionInv'
         /\ jar.refresh[1] = jar'.refresh[1] => jar.refresh[2] <= jar'.refresh[2]
<1>1. /\ jar \in Cookies /\ doomed \subseteq Logins
      /\ jar.refresh[2] \in Nat /\ jar.refresh[2] <= jar.refresh[2]
      /\ jar.access \in {None, jar.refresh}
  <2>1. jar \in Cookies /\ doomed \subseteq Logins
        /\ jar.access \in {None, jar.refresh}
    BY DEF SessionInv, TypeOK, PairsTogether
  <2>2. jar.refresh[2] \in Nat
    BY <2>1 DEF Cookies, Pairs, None
  <2> QED
    BY <2>1, <2>2
<1>2. CASE \E r \in Requests : ServerStep(r) \/ BrowserStep(r)
  BY <1>1, <1>2, ServerKeepsInv, BrowserKeepsInv
<1>3. CASE \E r \in Requests : Deliver(r)
  BY <1>3, DeliveryKeepsInv
<1>4. CASE \E l \in Logins : DeleteDoomed(l)
  <2>1. PICK l \in Logins : DeleteDoomed(l)
    BY <1>4
  <2>2. RowsMoveOn
    BY <2>1, BoundsAssumption DEF DeleteDoomed, RowsMoveOn, SessionInv, TypeOK
  <2> QED
    BY <1>1, <2>1, <2>2, LeavingKeepsInv DEF DeleteDoomed
<1>5. CASE AccessRunsOut
  <2>1. jar' \in Cookies /\ jar'.refresh = jar.refresh /\ jar'.access = None
    BY <1>1, <1>5 DEF AccessRunsOut, Cookies
  <2> QED
    BY <1>1, <1>5, <2>1, LeavingKeepsInv, RowsMayStay
       DEF AccessRunsOut, service, SessionInv
<1>6. CASE RefreshRunsOut
  <2>1. /\ jar' \in Cookies /\ jar'.refresh = None /\ jar'.access = None
        /\ jar.refresh \in Pairs
    BY <1>1, <1>6, MarksAreIdle DEF RefreshRunsOut, NoCookies, Cookies
  <2>2. jar.refresh[1] # 0
    BY <2>1, PairsAreNotMarks DEF Logins
  <2>3. SessionInv'
    BY <1>1, <1>6, <2>1, LeavingKeepsInv, RowsMayStay
       DEF RefreshRunsOut, service, SessionInv
  <2> QED
    BY <2>1, <2>2, <2>3 DEF None
<1>7. CASE UNCHANGED vars
  BY <1>1, <1>7, LeavingKeepsInv, RowsMayStay DEF vars, service, SessionInv
<1> QED
  BY <1>2, <1>3, <1>4, <1>5, <1>6, <1>7 DEF Next

-------------------------------------------------------------------------------
(* The theorems *)

THEOREM SessionInvariance == Spec => []SessionInv
<1>1. SessionInv /\ [Next]_vars => SessionInv'
  BY NextKeepsInv
<1> QED
  BY InitHasInv, <1>1, PTL DEF Spec

(* Every variable keeps its type.                                             *)
THEOREM TypeCorrect == Spec => []TypeOK
<1>1. SessionInv => TypeOK
  BY DEF SessionInv
<1> QED
  BY SessionInvariance, <1>1, PTL

(* The two cookies belong together, in the jar and in every request, and the  *)
(* newest pair of a session is in the jar or in one answer (setAuthCookies,   *)
(* RefreshToken of the auth service).                                         *)
THEOREM PairsSoundCorrect == Spec => []PairsSound
<1>1. ASSUME SessionInv PROVE NewestPairInOnePlace
  <2> SUFFICES ASSUME NEW l \in Logins, row[l] # 0
               PROVE  LET p == <<l, row[l]>> IN
                        Cardinality(Carriers(p))
                          + (IF jar.refresh = p THEN 1 ELSE 0) <= 1
    BY DEF NewestPairInOnePlace
  <2> DEFINE p == <<l, row[l]>>
  <2>1. p \in Pairs /\ p[2] \in Nat
    BY <1>1, BoundsAssumption DEF SessionInv, TypeOK, Pairs
  <2> HIDE DEF p
  <2>2. ASSUME NEW r \in Carriers(p) PROVE Carriers(p) = {r} /\ jar.refresh # p
    <3>1. r \in Requests /\ req[r].put = p
      BY DEF Carriers
    <3>2. jar.refresh # p
      BY <1>1, <2>1, <3>1 DEF SessionInv, CarrierAlone, Newer
    <3>3. \A q \in Requests \ {r} : req[q].put # p
      BY <1>1, <2>1, <3>1 DEF SessionInv, CarrierAlone
    <3> QED
      BY <3>1, <3>2, <3>3 DEF Carriers
  <2>3. CASE Carriers(p) = {}
    <3>1. Cardinality(Carriers(p)) = 0
      BY <2>3, FS_EmptySet
    <3> QED
      BY <3>1 DEF p
  <2>4. CASE Carriers(p) # {}
    <3>1. PICK r \in Carriers(p) : Carriers(p) = {r} /\ jar.refresh # p
      BY <2>2, <2>4
    <3>2. Cardinality(Carriers(p)) = 1
      BY <3>1, FS_Singleton
    <3> QED
      BY <3>1, <3>2 DEF p
  <2> QED
    BY <2>3, <2>4
<1>2. SessionInv => PairsSound
  BY <1>1 DEF PairsSound, SessionInv
<1> QED
  BY SessionInvariance, <1>2, PTL

(* In whatever order answers arrive, the jar never goes back to an older      *)
(* generation of the session it holds (Deliver: the cookies of an answer).    *)
THEOREM JarNeverGoesBackCorrect == Spec => JarNeverGoesBack
<1>1. SessionInv /\ [Next]_vars =>
        [jar.refresh[1] = jar'.refresh[1] => jar.refresh[2] <= jar'.refresh[2]]_vars
  BY NextKeepsInv
<1> QED
  BY SessionInvariance, <1>1, PTL DEF Spec, JarNeverGoesBack

-------------------------------------------------------------------------------
(* The key cache *)

USE DEF keysVars, keySet, cache

LEMMA AnyKeyIsKey == AnyKey \in Keys
BY KeysAssumption DEF AnyKey

LEMMA NoCallIsCall == NoCall \in Call
BY AnyKeyIsKey DEF NoCall, Call

-------------------------------------------------------------------------------
(* Type correctness *)

LEMMA KeysTypeInit == KeysInit => KeysTypeOK
BY AnyKeyIsKey, NoCallIsCall DEF KeysInit, KeysTypeOK, Verdict, Answers

(* An answer leaves the calls and the verdict well typed.                     *)
LEMMA DecideType ==
  ASSUME KeysTypeOK, NEW c \in Calls, NEW a \in Answers, NEW k \in Keys,
         NEW t \in Nat, Decide(c, a, k, t)
  PROVE  call' \in [Calls -> Call] /\ verdict' \in Verdict
BY NoCallIsCall DEF KeysTypeOK, Decide, SetCall, Verdict

LEMMA KeysTypeNext == KeysTypeOK /\ [KeysNext]_keysVars => KeysTypeOK'
<1> SUFFICES ASSUME KeysTypeOK, [KeysNext]_keysVars PROVE KeysTypeOK'
  OBVIOUS
<1> USE TimesAssumption
<1>1. CASE Tick
  BY <1>1 DEF Tick, KeysTypeOK
<1>2. ASSUME NEW k \in Keys, Withdraw(k) PROVE KeysTypeOK'
  BY <1>2 DEF Withdraw, KeysTypeOK
<1>3. ASSUME NEW c \in Calls, NEW k \in Keys, AnswerFromCache(c, k)
      PROVE KeysTypeOK'
  <2>1. call' \in [Calls -> Call] /\ verdict' \in Verdict
    BY <1>3, DecideType DEF AnswerFromCache, KeysTypeOK, Answers
  <2> QED
    BY <1>3, <2>1 DEF AnswerFromCache, KeysTypeOK, Prune
<1>4. ASSUME NEW c \in Calls, NEW k \in Keys, StartFetch(c, k) PROVE KeysTypeOK'
  <2>1. [at |-> "fetching", kid |-> k, started |-> now,
         had |-> k \in cached', body |-> {}] \in Call
    BY DEF KeysTypeOK, Call
  <2>2. call' \in [Calls -> Call]
    BY <1>4, <2>1 DEF StartFetch, SetCall, KeysTypeOK
  <2> QED
    BY <1>4, <2>2 DEF StartFetch, KeysTypeOK, Prune
<1>5. ASSUME NEW c \in Calls, FetchAnswers(c) PROVE KeysTypeOK'
  <2>1. [call[c] EXCEPT !.at = "storing", !.body = published] \in Call
    BY DEF KeysTypeOK, Call
  <2> QED
    BY <1>5, <2>1 DEF FetchAnswers, SetCall, KeysTypeOK
<1>6. ASSUME NEW c \in Calls, FetchFails(c) PROVE KeysTypeOK'
  <2>1. call[c].kid \in Keys /\ call[c].started \in Nat
    BY DEF KeysTypeOK, Call
  <2>2. call' \in [Calls -> Call] /\ verdict' \in Verdict
    BY <1>6, <2>1, DecideType DEF FetchFails, Answers
  <2> QED
    BY <1>6, <2>2 DEF FetchFails, KeysTypeOK
<1>7. ASSUME NEW c \in Calls, StoreKeys(c) PROVE KeysTypeOK'
  <2>1. call[c].kid \in Keys /\ call[c].started \in Nat
        /\ call[c].body \subseteq Keys
    BY DEF KeysTypeOK, Call
  <2>2. call' \in [Calls -> Call] /\ verdict' \in Verdict
    BY <1>7, <2>1, DecideType DEF StoreKeys, Answers
  <2>3. observed' \in [Keys -> Nat]
    BY <1>7, <2>1 DEF StoreKeys, Stamp, KeysTypeOK
  <2>4. cached' \subseteq Keys
    BY <1>7, <2>1 DEF StoreKeys, Prune, KeysTypeOK
  <2> QED
    BY <1>7, <2>1, <2>2, <2>3, <2>4 DEF StoreKeys, KeysTypeOK
<1>8. CASE UNCHANGED keysVars
  BY <1>8 DEF KeysTypeOK
<1> QED
  BY <1>1, <1>2, <1>3, <1>4, <1>5, <1>6, <1>7, <1>8 DEF KeysNext

(* Every variable keeps its type, times stay natural numbers however answers  *)
(* are ordered.                                                               *)
THEOREM KeysTypeCorrect == KeysSpec => []KeysTypeOK
BY KeysTypeInit, KeysTypeNext, PTL DEF KeysSpec

-------------------------------------------------------------------------------
(* A withdrawn key is forgotten *)

(* What the cache knows is not newer than the clock, and an entry of a key    *)
(* that is gone was seen before it went.                                      *)
CacheInv ==
  /\ \A k \in Keys : observed[k] <= now /\ withdrawn[k] <= now
  /\ \A k \in cached : k \notin published => observed[k] <= withdrawn[k]

(* A call began no longer ago than the patience. The keys it is about to      *)
(* store were there when it began, or after; the entry it found, and every    *)
(* entry it may find, was still within the retention when it began.           *)
Grounded(c) ==
  /\ call[c].started <= now /\ now <= call[c].started + Patience
  /\ call[c].at = "storing" =>
       \A k \in call[c].body :
         k \notin published => call[c].started <= withdrawn[k]
  /\ call[c].had /\ call[c].kid \notin published =>
       call[c].started <= withdrawn[call[c].kid] + Retention
  /\ \A k \in cached : call[c].started <= observed[k] + Retention

CallInv == \A c \in Calls : call[c].at # "idle" => Grounded(c)

VerdictInv ==
  verdict.answer = "valid" =>
    /\ verdict.started <= now
    /\ verdict.kid \notin published =>
         verdict.started <= withdrawn[verdict.kid] + Retention

ForgetInv == CacheInv /\ CallInv /\ VerdictInv

LEMMA ForgetInit == KeysInit => ForgetInv
BY TimesAssumption
DEF KeysInit, ForgetInv, CacheInv, CallInv, Grounded, VerdictInv, NoCall

(* A call that ends leaves the others as they were.                           *)
LEMMA OthersKeep ==
  ASSUME KeysTypeOK, NEW c \in Calls, NEW r, SetCall(c, r)
  PROVE  \A d \in Calls : call'[d] = IF d = c THEN r ELSE call[d]
BY DEF SetCall, KeysTypeOK

LEMMA ForgetNext ==
  KeysTypeOK /\ KeysTypeOK' /\ ForgetInv /\ [KeysNext]_keysVars => ForgetInv'
<1> SUFFICES ASSUME KeysTypeOK, KeysTypeOK', ForgetInv, [KeysNext]_keysVars
             PROVE  ForgetInv'
  OBVIOUS
<1> USE TimesAssumption, PatienceAssumption
<1>t. /\ now \in Nat /\ now' \in Nat
      /\ withdrawn \in [Keys -> Nat] /\ observed \in [Keys -> Nat]
      /\ cached \subseteq Keys /\ published \subseteq Keys
      /\ verdict.kid \in Keys /\ verdict.started \in Nat
      /\ \A c \in Calls : /\ call[c].started \in Nat /\ call[c].kid \in Keys
                          /\ call[c].body \subseteq Keys
  BY DEF KeysTypeOK, Call, Verdict
<1>i. NoCall.at = "idle"
  BY DEF NoCall
<1>1. CASE Tick
  BY <1>1, <1>t DEF Tick, ForgetInv, CacheInv, CallInv, Grounded, VerdictInv
<1>2. ASSUME NEW k \in Keys, Withdraw(k) PROVE ForgetInv'
  <2>1. /\ withdrawn'[k] = now
        /\ \A j \in Keys : j # k => withdrawn'[j] = withdrawn[j]
        /\ published' = published \ {k}
        /\ UNCHANGED <<now, cache, call, verdict>>
    BY <1>2, <1>t DEF Withdraw
  <2>2. CacheInv'
    BY <2>1, <1>t DEF ForgetInv, CacheInv
  <2>3. CallInv'
    BY <2>1, <1>t DEF ForgetInv, CallInv, Grounded
  <2>4. VerdictInv'
    BY <2>1, <1>t DEF ForgetInv, VerdictInv
  <2> QED
    BY <2>2, <2>3, <2>4 DEF ForgetInv
<1>3. ASSUME NEW c \in Calls, NEW k \in Keys, AnswerFromCache(c, k)
      PROVE ForgetInv'
  <2>1. /\ cached' \subseteq cached /\ k \in cached
        /\ now <= observed[k] + Retention
        /\ UNCHANGED <<now, keySet, observed>>
    BY <1>3 DEF AnswerFromCache, Prune
  <2>2. CacheInv'
    BY <2>1, <1>t DEF ForgetInv, CacheInv
  <2>3. CallInv'
    BY <1>3, <2>1, <1>t, <1>i, OthersKeep
    DEF AnswerFromCache, Decide, ForgetInv, CallInv, Grounded
  <2>4. VerdictInv'
    BY <1>3, <2>1, <1>t
    DEF AnswerFromCache, Decide, ForgetInv, CacheInv, VerdictInv
  <2> QED
    BY <2>2, <2>3, <2>4 DEF ForgetInv
<1>4. ASSUME NEW c \in Calls, NEW k \in Keys, StartFetch(c, k)
      PROVE ForgetInv'
  <2>1. /\ cached' \subseteq cached
        /\ \A j \in cached' : now <= observed[j] + Retention
        /\ UNCHANGED <<now, keySet, observed, verdict>>
    BY <1>4 DEF StartFetch, Prune
  <2>2. CacheInv' /\ VerdictInv'
    BY <2>1, <1>t DEF ForgetInv, CacheInv, VerdictInv
  <2>3. \A d \in Calls :
          call'[d] = IF d = c
                     THEN [at |-> "fetching", kid |-> k, started |-> now,
                           had |-> k \in cached', body |-> {}]
                     ELSE call[d]
    BY <1>4, OthersKeep DEF StartFetch
  <2>4. k \in cached' /\ k \notin published => now <= withdrawn[k] + Retention
    BY <2>1, <1>t DEF ForgetInv, CacheInv
  <2>5. call'[c] = [at |-> "fetching", kid |-> k, started |-> now,
                    had |-> k \in cached', body |-> {}]
    BY <2>3
  <2>6. call'[c].at = "fetching" /\ call'[c].started = now /\ call'[c].kid = k
    BY <2>5
  <2>7. call'[c].had = (k \in cached')
    BY <2>5
  <2>8. call'[c].had => k \in cached'
    BY <2>7
  <2>9. Grounded(c)'
    BY <2>1, <2>6, <2>8, <2>4, <1>t DEF Grounded
  <2>10. ASSUME NEW d \in Calls, d # c, call[d].at # "idle" PROVE Grounded(d)'
    BY <2>1, <2>3, <2>10, <1>t DEF ForgetInv, CallInv, Grounded
  <2>11. CallInv'
    BY <2>3, <2>9, <2>10 DEF CallInv
  <2> QED
    BY <2>2, <2>11 DEF ForgetInv
<1>5. ASSUME NEW c \in Calls, FetchAnswers(c) PROVE ForgetInv'
  <2>1. \A d \in Calls :
          call'[d] = IF d = c
                     THEN [call[c] EXCEPT !.at = "storing", !.body = published]
                     ELSE call[d]
    BY <1>5, OthersKeep DEF FetchAnswers
  <2>2. call[c] \in Call /\ call[c].at = "fetching"
        /\ UNCHANGED <<now, keySet, cache, verdict>>
    BY <1>5 DEF FetchAnswers, KeysTypeOK
  <2>3. /\ call'[c].body = published
        /\ \A d \in Calls : /\ call'[d].started = call[d].started
                            /\ call'[d].had = call[d].had
                            /\ call'[d].kid = call[d].kid
                            /\ d # c => call'[d] = call[d]
    BY <2>1, <2>2 DEF Call
  <2>4. Grounded(c)'
    BY <2>2, <2>3, <1>t DEF ForgetInv, CallInv, Grounded
  <2>5. ASSUME NEW d \in Calls, d # c, call[d].at # "idle" PROVE Grounded(d)'
    BY <2>2, <2>3, <2>5, <1>t DEF ForgetInv, CallInv, Grounded
  <2>6. CallInv'
    BY <2>3, <2>4, <2>5 DEF CallInv
  <2>7. CacheInv' /\ VerdictInv'
    BY <2>2, <1>t DEF ForgetInv, CacheInv, VerdictInv
  <2> QED
    BY <2>6, <2>7 DEF ForgetInv
<1>6. ASSUME NEW c \in Calls, FetchFails(c) PROVE ForgetInv'
  <2>1. call[c].at = "fetching" /\ UNCHANGED <<now, keySet, cache>>
    BY <1>6 DEF FetchFails
  <2>2. CacheInv'
    BY <2>1, <1>t DEF ForgetInv, CacheInv
  <2>3. CallInv'
    BY <1>6, <2>1, <1>t, <1>i, OthersKeep
    DEF FetchFails, Decide, ForgetInv, CallInv, Grounded
  <2>4. /\ call[c].started <= now
        /\ call[c].kid \in cached =>
             call[c].started <= observed[call[c].kid] + Retention
        /\ call[c].had /\ call[c].kid \notin published =>
             call[c].started <= withdrawn[call[c].kid] + Retention
    BY <2>1 DEF ForgetInv, CallInv, Grounded
  <2>5. call[c].kid \in cached \/ call[c].had =>
          (call[c].kid \notin published =>
             call[c].started <= withdrawn[call[c].kid] + Retention)
    BY <2>4, <1>t DEF ForgetInv, CacheInv
  <2>6. VerdictInv'
    BY <1>6, <2>1, <2>4, <2>5 DEF FetchFails, Decide, VerdictInv
  <2> QED
    BY <2>2, <2>3, <2>6 DEF ForgetInv
<1>7. ASSUME NEW c \in Calls, StoreKeys(c) PROVE ForgetInv'
  <2>1. call[c].at = "storing" /\ UNCHANGED <<now, keySet>>
    BY <1>7 DEF StoreKeys
  <2>2. /\ call[c].started <= now /\ now <= call[c].started + Patience
        /\ \A k \in call[c].body :
             k \notin published => call[c].started <= withdrawn[k]
        /\ call[c].had /\ call[c].kid \notin published =>
             call[c].started <= withdrawn[call[c].kid] + Retention
    BY <2>1 DEF ForgetInv, CallInv, Grounded
  <2>3. \A k \in Keys : observed'[k] = IF k \in call[c].body
                                       THEN call[c].started ELSE observed[k]
    BY <1>7 DEF StoreKeys, Stamp
  <2>4. \A k \in cached' : /\ k \in cached \union call[c].body
                           /\ call[c].started <= observed'[k] + Retention
    BY <1>7 DEF StoreKeys, Prune
  <2>5. CacheInv'
    BY <2>1, <2>2, <2>3, <2>4, <1>t DEF ForgetInv, CacheInv
  <2>6. \A d \in Calls, k \in cached' :
          call[d].at # "idle" => call[d].started <= observed'[k] + Retention
    BY <2>2, <2>3, <2>4, <1>t DEF ForgetInv, CallInv, Grounded
  <2>7. \A d \in Calls : call'[d] = IF d = c THEN NoCall ELSE call[d]
    BY <1>7, OthersKeep DEF StoreKeys, Decide
  <2>8. CallInv'
    BY <2>1, <2>6, <2>7, <1>i, <1>t DEF ForgetInv, CallInv, Grounded
  <2>9. call[c].kid \in cached' \/ call[c].had =>
          (call[c].kid \notin published =>
             call[c].started <= withdrawn[call[c].kid] + Retention)
    BY <2>1, <2>2, <2>3, <2>4, <2>5, <1>t DEF CacheInv
  <2>10. VerdictInv'
    BY <1>7, <2>1, <2>2, <2>9 DEF StoreKeys, Decide, VerdictInv
  <2> QED
    BY <2>5, <2>8, <2>10 DEF ForgetInv
<1>8. CASE UNCHANGED keysVars
  BY <1>8 DEF ForgetInv, CacheInv, CallInv, Grounded, VerdictInv
<1> QED
  BY <1>1, <1>2, <1>3, <1>4, <1>5, <1>6, <1>7, <1>8 DEF KeysNext

(* WithdrawnKeysForgotten, for every number of keys and validations: no token *)
(* is believed on a key that left the key set more than the retention before  *)
(* the validation began.                                                      *)
THEOREM WithdrawnKeysForgottenCorrect == KeysSpec => []WithdrawnKeysForgotten
<1>1. ForgetInv /\ KeysTypeOK => WithdrawnKeysForgotten
  BY DEF ForgetInv, VerdictInv, WithdrawnKeysForgotten
<1> QED
  BY <1>1, KeysTypeInit, KeysTypeNext, ForgetInit, ForgetNext, PTL DEF KeysSpec

===============================================================================
