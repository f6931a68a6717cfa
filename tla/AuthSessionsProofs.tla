------------------------- MODULE AuthSessionsProofs -------------------------
EXTENDS AuthSessions, FiniteSetTheorems, TLAPS

\* The locals of an idle goroutine are well typed.
LEMMA BlankIsJob == Blank \in Job
  BY SessionsAssumption, BoundsAssumption DEF Blank, Job, Gens

\* One goroutine moves to a label with well-typed locals.
LEMMA StepControl ==
  ASSUME ControlTypeOK, NEW h \in Handlers, NEW label \in Pcs, NEW j \in Job,
         label \in RefreshPcs => j.gen < MaxGen,
         Step(h, label, j)
  PROVE  ControlTypeOK'
  BY DEF ControlTypeOK, Step

\* A goroutine that ends is idle, with its locals blank.
LEMMA AnswerControl ==
  ASSUME ControlTypeOK, NEW h \in Handlers, Answer(h)
  PROVE  ControlTypeOK'
  BY BlankIsJob, StepControl DEF Answer, Pcs, RefreshPcs

\* A goroutine that moves on with its locals unchanged.
LEMMA GotoControl ==
  ASSUME ControlTypeOK, NEW h \in Handlers, NEW label \in Pcs, Goto(h, label),
         label \in RefreshPcs => job[h].gen < MaxGen
  PROVE  ControlTypeOK'
  BY StepControl DEF Goto, ControlTypeOK

\* A request that presents a token.
LEMMA AcceptControl ==
  ASSUME ControlTypeOK, NEW h \in Handlers, NEW t \in Token, NEW label \in Pcs,
         label \in RefreshPcs => t.gen < MaxGen,
         Accept(h, t, label)
  PROVE  ControlTypeOK'
<1> DEFINE j == [sid |-> t.sid, gen |-> t.gen, gv |-> t.gv,
                 epoch |-> t.epoch, n |-> 0]
<1>1. j \in Job
  BY DEF Job, Token
<1>2. j.gen = t.gen
  OBVIOUS
<1>3. Step(h, label, j)
  BY DEF Accept
<1> QED
  BY <1>1, <1>2, <1>3, StepControl

\* Records that differ from a well-typed one in the fields the code assigns.
LEMMA JobFields ==
  ASSUME ControlTypeOK, StoreTypeOK, ClientTypeOK, NEW h \in Handlers
  PROVE  /\ Seen(h) \in Job /\ Seen(h).gen = job[h].gen
         /\ \A n \in Nat : [job[h] EXCEPT !.n = n] \in Job
         /\ \A s \in Sessions : [Blank EXCEPT !.sid = s] \in Job
  BY BlankIsJob DEF ControlTypeOK, StoreTypeOK, ClientTypeOK, Job, Seen

\* Every step keeps the program counters and the locals in their types; a goroutine
\* enters the refresh path only with a generation that has a successor.
LEMMA ControlInductive ==
  ASSUME TypeOK, [Next]_vars
  PROVE  ControlTypeOK'
<1> USE DEF TypeOK
<1>a. \A h \in Handlers : job[h] \in Job /\ pc[h] \in Pcs
  BY DEF ControlTypeOK
<1>1. ASSUME NEW h \in Handlers, NEW s \in Sessions, StoreSession(h, s)
      PROVE  ControlTypeOK'
  BY <1>1, JobFields, StepControl
  DEF StoreSession, Pcs, RefreshPcs, ValidatePcs, LoginPcs, LogoutAllPcs,
      TheftPcs, EscalationPcs
<1>2. ASSUME NEW h \in Handlers, NEW t \in issued, ReplayOnHit(h, t)
      PROVE  ControlTypeOK'
  BY <1>2, JobFields, StepControl
  DEF ReplayOnHit, Pcs, RefreshPcs, ValidatePcs, LoginPcs, LogoutAllPcs,
      TheftPcs, EscalationPcs, DetectReplay, ClientTypeOK, Token,
      ControlTypeOK, Job
<1>3. ASSUME NEW h \in Handlers, NEW t \in issued, RefreshOnHit(h, t)
      PROVE  ControlTypeOK'
  BY <1>3, AcceptControl
  DEF RefreshOnHit, Pcs, RefreshPcs, ValidatePcs, LoginPcs, LogoutAllPcs,
      TheftPcs, EscalationPcs, ClientTypeOK, StoreTypeOK, Token, CachedSession
<1>4. ASSUME NEW h \in Handlers, NEW t \in issued,
             \/ RefreshOnMiss(h, t) \/ ValidateOnMiss(h, t)
      PROVE  ControlTypeOK'
  BY <1>4, AcceptControl
  DEF RefreshOnMiss, ValidateOnMiss, Pcs, RefreshPcs, ValidatePcs, LoginPcs,
      LogoutAllPcs, TheftPcs, EscalationPcs, ClientTypeOK
<1>5. ASSUME NEW h \in Handlers, NEW t \in issued, Logout(h, t)
      PROVE  ControlTypeOK'
  BY <1>5
  DEF Logout, ControlTypeOK
<1>6. ASSUME NEW h \in Handlers,
             \/ LogoutAllDevices(h) \/ RefreshGetSession(h)
             \/ AtomicBumpGen(h) \/ TheftMark(h)
             \/ TheftBumpWrite(h) \/ TheftClearKeys(h)
             \/ DeleteSession(h) \/ TheftBumpFails(h)
             \/ DeleteSessionFails(h)
      PROVE  ControlTypeOK'
  BY <1>6, GotoControl
  DEF LogoutAllDevices, RefreshGetSession, AtomicBumpGen, TheftMark,
      TheftBumpWrite, TheftClearKeys, DeleteSession, TheftBumpFails,
      DeleteSessionFails, Pcs, RefreshPcs, ValidatePcs, LoginPcs,
      LogoutAllPcs, TheftPcs, EscalationPcs, At, ControlTypeOK
<1>7. ASSUME NEW h \in Handlers,
             \/ LoginGetRevocation(h) \/ RefreshGetRevocation(h)
      PROVE  ControlTypeOK'
  BY <1>7, JobFields, StepControl
  DEF LoginGetRevocation, RefreshGetRevocation, Pcs, RefreshPcs, ValidatePcs,
      LoginPcs, LogoutAllPcs, TheftPcs, EscalationPcs, At, ControlTypeOK
<1>8. ASSUME NEW h \in Handlers,
             \/ LoginMint(h) \/ RefreshSessionGone(h)
             \/ RefreshRevoked(h) \/ ConcurrentRotation(h)
             \/ RefreshMint(h) \/ ValidateFill(h)
             \/ LogoutAllBumpWrite(h) \/ TheftEvict(h)
             \/ CallFails(h) \/ MintFails(h) \/ BumpGenTimesOut(h)
      PROVE  ControlTypeOK'
  BY <1>8, AnswerControl
  DEF LoginMint, RefreshSessionGone, RefreshRevoked, ConcurrentRotation,
      RefreshMint, ValidateFill, LogoutAllBumpWrite, TheftEvict, CallFails,
      MintFails, BumpGenTimesOut
<1>9. ASSUME NEW h \in Handlers, ReplayOnRow(h)
      PROVE  ControlTypeOK'
  BY <1>9, JobFields, StepControl
  DEF ReplayOnRow, Pcs, RefreshPcs, ValidatePcs, LoginPcs, LogoutAllPcs,
      TheftPcs, EscalationPcs, DetectReplay, ClientTypeOK, Token,
      ControlTypeOK, Job
<1>10. ASSUME NEW h \in Handlers, ValidateGetSession(h)
      PROVE  ControlTypeOK'
  BY <1>10, AnswerControl, GotoControl
  DEF ValidateGetSession, Pcs, RefreshPcs, ValidatePcs, LoginPcs,
      LogoutAllPcs, TheftPcs, EscalationPcs, At, ControlTypeOK
<1>11. ASSUME NEW h \in Handlers, ValidateGetRevocation(h)
      PROVE  ControlTypeOK'
  BY <1>11, AnswerControl, JobFields, StepControl
  DEF ValidateGetRevocation, Pcs, RefreshPcs, ValidatePcs, LoginPcs,
      LogoutAllPcs, TheftPcs, EscalationPcs
<1>12. ASSUME NEW h \in Handlers,
              \/ LogoutAllBumpRead(h) \/ TheftBumpRead(h)
      PROVE  ControlTypeOK'
  BY <1>12, JobFields, StepControl
  DEF LogoutAllBumpRead, TheftBumpRead, BumpRead, StoreTypeOK, Pcs,
      RefreshPcs, ValidatePcs, LoginPcs, LogoutAllPcs, TheftPcs, EscalationPcs
<1>13. ASSUME NEW h \in Handlers, TheftCount(h)
      PROVE  ControlTypeOK'
  BY <1>13, JobFields, StepControl
  DEF TheftCount, StoreTypeOK, Pcs, RefreshPcs, ValidatePcs, LoginPcs,
      LogoutAllPcs, TheftPcs, EscalationPcs
<1>14. ASSUME NEW s \in Sessions,
              \/ Evict(s) \/ SessionExpires(s) \/ RowExpires(s)
      PROVE  ControlTypeOK'
  BY <1>14
  DEF Evict, SessionExpires, RowExpires, ControlTypeOK
<1>15. CASE \/ TheftCounterExpires \/ RevocationExpires
  BY <1>15
  DEF TheftCounterExpires, RevocationExpires, ControlTypeOK
<1>16. CASE Restart
  BY <1>16, BlankIsJob
  DEF Restart, Pcs, RefreshPcs, ValidatePcs, LoginPcs, LogoutAllPcs, TheftPcs,
      EscalationPcs, ControlTypeOK
<1>17. CASE UNCHANGED vars
  BY <1>17 DEF vars, ControlTypeOK
<1> QED
  BY <1>1, <1>2, <1>3, <1>4, <1>5, <1>6, <1>7, <1>8, <1>9, <1>10, <1>11,
      <1>12, <1>13, <1>14, <1>15, <1>16, <1>17
  DEF Next, Request, Serve, Clock, Fault

\* Every step keeps the rows, the cache and the theft counter in their types.
LEMMA StoreInductive ==
  ASSUME TypeOK, [Next]_vars
  PROVE  StoreTypeOK'
<1> USE BoundsAssumption DEF TypeOK, StoreTypeOK, stored, cached, vars
<1>a. \A h \in Handlers :
        job[h].sid \in Sessions /\ job[h].gen \in Gens /\ job[h].gv \in Nat
        /\ job[h].n \in Nat
  BY DEF ControlTypeOK, Job
<1>b. NoEntry \in CachedSession
  BY DEF NoEntry, CachedSession
<1>c. ASSUME NEW s \in Sessions, NEW g \in Gens, NEW v \in Nat, CachePut(s, g, v)
      PROVE  cache' \in [Sessions -> CachedSession]
  BY <1>c DEF CachePut, CachedSession, Gens
<1>d. \A h \in Handlers : pc[h] \in RefreshPcs => job[h].gen + 1 \in Gens
  BY DEF ControlTypeOK, Job, Gens
<1>1. ASSUME NEW h \in Handlers, NEW s \in Sessions, StoreSession(h, s)
      PROVE  StoreTypeOK'
  BY <1>1, <1>a
  DEF StoreSession
<1>2. ASSUME NEW h \in Handlers, NEW t \in issued,
             \/ ReplayOnHit(h, t) \/ RefreshOnHit(h, t)
             \/ RefreshOnMiss(h, t) \/ ValidateOnMiss(h, t)
      PROVE  StoreTypeOK'
  BY <1>2
  DEF ReplayOnHit, RefreshOnHit, RefreshOnMiss, ValidateOnMiss
<1>3. ASSUME NEW h \in Handlers, NEW t \in issued, Logout(h, t)
      PROVE  StoreTypeOK'
  BY <1>3, <1>a, <1>b
  DEF Logout, CacheDel, ClientTypeOK, Token
<1>4. ASSUME NEW h \in Handlers,
             \/ LogoutAllDevices(h) \/ LoginGetRevocation(h)
             \/ RefreshSessionGone(h) \/ ReplayOnRow(h)
             \/ RefreshGetSession(h) \/ RefreshRevoked(h)
             \/ RefreshGetRevocation(h) \/ ConcurrentRotation(h)
             \/ ValidateGetSession(h) \/ ValidateGetRevocation(h)
             \/ TheftCount(h) \/ TheftClearKeys(h)
             \/ CallFails(h) \/ TheftBumpFails(h)
             \/ DeleteSessionFails(h)
      PROVE  StoreTypeOK'
  BY <1>4
  DEF LogoutAllDevices, LoginGetRevocation, RefreshSessionGone, ReplayOnRow,
      RefreshGetSession, RefreshRevoked, RefreshGetRevocation,
      ConcurrentRotation, ValidateGetSession, ValidateGetRevocation,
      TheftCount, TheftClearKeys, CallFails, TheftBumpFails,
      DeleteSessionFails
<1>5. ASSUME NEW h \in Handlers,
             \/ LoginMint(h) \/ ValidateFill(h)
      PROVE  StoreTypeOK'
  BY <1>5, <1>a, <1>c
  DEF LoginMint, ValidateFill, Gens
<1>6. ASSUME NEW h \in Handlers,
             \/ AtomicBumpGen(h) \/ BumpGenTimesOut(h)
      PROVE  StoreTypeOK'
  BY <1>6, <1>a, <1>d
  DEF AtomicBumpGen, BumpGenTimesOut, At, RefreshPcs, Gens
<1>7. ASSUME NEW h \in Handlers, RefreshMint(h) \/ MintFails(h)
      PROVE  StoreTypeOK'
  BY <1>7, <1>a, <1>c, <1>d
  DEF RefreshMint, MintFails, At, RefreshPcs
<1>8. ASSUME NEW h \in Handlers,
             \/ LogoutAllBumpRead(h) \/ TheftBumpRead(h)
      PROVE  StoreTypeOK'
  BY <1>8
  DEF LogoutAllBumpRead, TheftBumpRead, BumpRead
<1>9. ASSUME NEW h \in Handlers,
             \/ LogoutAllBumpWrite(h) \/ TheftBumpWrite(h)
      PROVE  StoreTypeOK'
  BY <1>9, <1>a
  DEF LogoutAllBumpWrite, TheftBumpWrite, StoreUserRevocation
<1>10. ASSUME NEW h \in Handlers,
              \/ TheftMark(h) \/ DeleteSession(h)
      PROVE  StoreTypeOK'
  BY <1>10, <1>a
  DEF TheftMark, DeleteSession
<1>11. ASSUME NEW h \in Handlers, TheftEvict(h)
      PROVE  StoreTypeOK'
  BY <1>11, <1>a, <1>b
  DEF TheftEvict, CacheDel, ClientTypeOK, Token
<1>12. ASSUME NEW s \in Sessions, Evict(s)
      PROVE  StoreTypeOK'
  BY <1>12, <1>a, <1>b
  DEF Evict, CacheDel, ClientTypeOK, Token
<1>13. ASSUME NEW s \in Sessions,
              \/ SessionExpires(s) \/ RowExpires(s)
      PROVE  StoreTypeOK'
  <2>1. CASE SessionExpires(s)
    BY <2>1 DEF SessionExpires
  <2>2. CASE RowExpires(s)
    BY <2>2 DEF RowExpires
  <2> QED
    BY <1>13, <2>1, <2>2
<1>14. CASE \/ TheftCounterExpires \/ RevocationExpires
  BY <1>14
  DEF TheftCounterExpires, RevocationExpires
<1>15. CASE Restart
  BY <1>15, <1>b
  DEF Restart
<1>16. CASE UNCHANGED vars
  BY <1>16 DEF vars
<1> QED
  BY <1>1, <1>2, <1>3, <1>4, <1>5, <1>6, <1>7, <1>8, <1>9, <1>10, <1>11,
      <1>12, <1>13, <1>14, <1>15, <1>16
  DEF Next, Request, Serve, Clock, Fault

\* Every step keeps the tokens handed out and the history in their types.
LEMMA ClientInductive ==
  ASSUME TypeOK, [Next]_vars
  PROVE  ClientTypeOK'
<1> USE BoundsAssumption DEF TypeOK, ClientTypeOK, history, vars
<1>a. \A h \in Handlers :
        job[h].sid \in Sessions /\ job[h].gen \in Gens /\ job[h].gv \in Nat
        /\ job[h].epoch \in Nat
  BY DEF ControlTypeOK, Job
<1>b. ASSUME NEW s \in Sessions, NEW g \in Gens, NEW v \in Nat, NEW e \in Nat,
             Mint(s, g, v, e)
      PROVE  issued' \subseteq Token /\ pairs' \in [Sessions -> [Gens -> Nat]]
  BY <1>b DEF Mint, Token
<1>d. \A h \in Handlers : pc[h] \in RefreshPcs => job[h].gen + 1 \in Gens
  BY DEF ControlTypeOK, Job, Gens
<1>e. 1 \in Gens
  BY DEF Gens
<1>1. ASSUME NEW h \in Handlers, NEW s \in Sessions, StoreSession(h, s)
      PROVE  ClientTypeOK'
  BY <1>1
  DEF StoreSession
<1>2. ASSUME NEW h \in Handlers, NEW t \in issued, ReplayOnHit(h, t)
      PROVE  ClientTypeOK'
  BY <1>2
  DEF ReplayOnHit, DetectReplay
<1>3. ASSUME NEW h \in Handlers, NEW t \in issued,
             \/ RefreshOnHit(h, t) \/ RefreshOnMiss(h, t)
             \/ ValidateOnMiss(h, t)
      PROVE  ClientTypeOK'
  BY <1>3
  DEF RefreshOnHit, RefreshOnMiss, ValidateOnMiss
<1>4. ASSUME NEW h \in Handlers, NEW t \in issued, Logout(h, t)
      PROVE  ClientTypeOK'
  BY <1>4
  DEF Logout, Token
<1>5. ASSUME NEW h \in Handlers,
             \/ LogoutAllDevices(h) \/ LoginGetRevocation(h)
             \/ RefreshSessionGone(h) \/ RefreshGetSession(h)
             \/ RefreshRevoked(h) \/ RefreshGetRevocation(h)
             \/ AtomicBumpGen(h) \/ ConcurrentRotation(h)
             \/ ValidateGetSession(h) \/ ValidateGetRevocation(h)
             \/ ValidateFill(h) \/ TheftCount(h)
             \/ TheftMark(h) \/ TheftClearKeys(h)
             \/ DeleteSession(h) \/ CallFails(h) \/ MintFails(h)
             \/ BumpGenTimesOut(h) \/ TheftBumpFails(h)
             \/ DeleteSessionFails(h)
      PROVE  ClientTypeOK'
  BY <1>5
  DEF LogoutAllDevices, LoginGetRevocation, RefreshSessionGone,
      RefreshGetSession, RefreshRevoked, RefreshGetRevocation, AtomicBumpGen,
      ConcurrentRotation, ValidateGetSession, ValidateGetRevocation,
      ValidateFill, TheftCount, TheftMark, TheftClearKeys, DeleteSession,
      CallFails, MintFails, BumpGenTimesOut, TheftBumpFails,
      DeleteSessionFails
<1>6. ASSUME NEW h \in Handlers, LoginMint(h)
      PROVE  ClientTypeOK'
  BY <1>6, <1>a, <1>b, <1>e
  DEF LoginMint
<1>7. ASSUME NEW h \in Handlers, ReplayOnRow(h)
      PROVE  ClientTypeOK'
  BY <1>7
  DEF ReplayOnRow, DetectReplay
<1>8. ASSUME NEW h \in Handlers, RefreshMint(h)
      PROVE  ClientTypeOK'
  BY <1>8, <1>a, <1>b, <1>d
  DEF RefreshMint, At, RefreshPcs
<1>9. ASSUME NEW h \in Handlers,
             \/ LogoutAllBumpRead(h) \/ TheftBumpRead(h)
      PROVE  ClientTypeOK'
  BY <1>9
  DEF LogoutAllBumpRead, TheftBumpRead, BumpRead
<1>10. ASSUME NEW h \in Handlers,
              \/ LogoutAllBumpWrite(h) \/ TheftBumpWrite(h)
      PROVE  ClientTypeOK'
  BY <1>10
  DEF LogoutAllBumpWrite, TheftBumpWrite, StoreUserRevocation
<1>11. ASSUME NEW h \in Handlers, TheftEvict(h)
      PROVE  ClientTypeOK'
  BY <1>11, <1>a
  DEF TheftEvict
<1>12. ASSUME NEW s \in Sessions,
              \/ Evict(s) \/ SessionExpires(s) \/ RowExpires(s)
      PROVE  ClientTypeOK'
  BY <1>12
  DEF Evict, SessionExpires, RowExpires
<1>13. CASE \/ TheftCounterExpires \/ RevocationExpires
            \/ Restart
  BY <1>13
  DEF TheftCounterExpires, RevocationExpires, Restart
<1>14. CASE UNCHANGED vars
  BY <1>14 DEF vars
<1> QED
  BY <1>1, <1>2, <1>3, <1>4, <1>5, <1>6, <1>7, <1>8, <1>9, <1>10, <1>11,
      <1>12, <1>13, <1>14
  DEF Next, Request, Serve, Clock, Fault

\* Every reachable state is well typed.
THEOREM TypeCorrect == Spec => []TypeOK
<1>1. Init => TypeOK
  BY BlankIsJob, BoundsAssumption
  DEF Init, TypeOK, StoreTypeOK, ControlTypeOK, ClientTypeOK, NoEntry,
      CachedSession, Pcs, RefreshPcs
<1>2. TypeOK /\ [Next]_vars => TypeOK'
  BY ControlInductive, StoreInductive, ClientInductive DEF TypeOK
<1> QED
  BY <1>1, <1>2, PTL DEF Spec
-------------------------------------------------------------------------------
(* A right to hand out a pair is earned by one goroutine, for a generation the
   row has reached, and is used at most once. *)

\* The inductive strengthening of SingleRotation: a right to hand out a pair is
\* held by one goroutine at a time, is not held once the pair was handed out, and
\* neither rights nor pairs are ahead of the row of a live session.
RightsInv ==
  /\ \A s \in Sessions : row[s] > 0 => s \in opened
  /\ \A s \in Sessions, g \in Gens :
       /\ pairs[s][g] <= 1
       /\ pairs[s][g] > 0 => s \in opened /\ row[s] \notin 1..(g - 1)
  /\ \A h \in Handlers, s \in Sessions, g \in Gens : Holds(h, s, g) =>
       pairs[s][g] = 0 /\ s \in opened /\ row[s] \notin 1..(g - 1)
  /\ \A h, k \in Handlers, s \in Sessions, g \in Gens :
       Holds(h, s, g) /\ Holds(k, s, g) => h = k

\* A goroutine that moves to a label that carries no right leaves the rights of
\* the others as they were, and loses its own.
LEMMA RightsAfterStep ==
  ASSUME ControlTypeOK, NEW h \in Handlers, NEW label, NEW j,
         label \notin LoginPcs \union {"r_put"},
         Step(h, label, j)
  PROVE  \A k \in Handlers, s \in Sessions, g \in Gens :
           Holds(k, s, g)' => k # h /\ Holds(k, s, g)
  BY DEF ControlTypeOK, Step, Holds, At

\* Steps that earn no right and mint no pair; a row may go.
LEMMA RightsKept ==
  ASSUME RightsInv,
         \A k \in Handlers, s \in Sessions, g \in Gens :
           Holds(k, s, g)' => Holds(k, s, g),
         UNCHANGED <<opened, pairs>>,
         \A s \in Sessions : row'[s] \in {0, row[s]}
  PROVE  RightsInv'
  BY DEF RightsInv

\* The same, with a row that moves forward.
LEMMA RightsRowMoves ==
  ASSUME StoreTypeOK, RightsInv, NEW s0 \in Sessions, row[s0] > 0,
         \A k \in Handlers, s \in Sessions, g \in Gens :
           Holds(k, s, g)' => Holds(k, s, g),
         UNCHANGED <<opened, pairs>>,
         row' = [row EXCEPT ![s0] = @ + 1]
  PROVE  RightsInv'
<1> USE DEF Gens, StoreTypeOK
<1>1. \A s \in Sessions, g \in Gens :
        row[s] \notin 1..(g - 1) => row'[s] \notin 1..(g - 1)
  OBVIOUS
<1> QED
  BY <1>1 DEF RightsInv

\* A step that moves the row of s0 to g0 and earns goroutine h the right to the
\* pair of that generation, where every earlier right or pair is older.
LEMMA RightsGained ==
  ASSUME StoreTypeOK, ClientTypeOK, RightsInv,
         NEW h \in Handlers, NEW s0 \in Sessions, NEW g0 \in Gens,
         \A k \in Handlers, s \in Sessions, g \in Gens : Holds(k, s, g)' =>
           Holds(k, s, g) \/ (k = h /\ s = s0 /\ g = g0),
         \A k \in Handlers, g \in Gens : Holds(k, s0, g) => g < g0,
         \A g \in Gens : pairs[s0][g] > 0 => g < g0,
         opened' = opened \union {s0},
         row' = [row EXCEPT ![s0] = g0],
         UNCHANGED pairs
  PROVE  RightsInv'
<1> USE DEF Gens, StoreTypeOK, ClientTypeOK
<1>1. ASSUME NEW k \in Handlers, NEW s \in Sessions, NEW g \in Gens,
             Holds(k, s, g)'
      PROVE  pairs'[s][g] = 0 /\ s \in opened' /\ row'[s] \notin 1..(g - 1)
  <2>1. CASE s # s0
    <3>1. Holds(k, s, g)
      BY <1>1, <2>1
    <3> QED
      BY <2>1, <3>1 DEF RightsInv
  <2>2. CASE s = s0
    <3>1. g <= g0
      BY <1>1, <2>2
    <3>2. row'[s] = g0 /\ s \in opened'
      BY <2>2
    <3>3. pairs[s][g] \in Nat
      OBVIOUS
    <3>4. CASE Holds(k, s, g)
      BY <3>1, <3>2, <3>4 DEF RightsInv
    <3>5. CASE g = g0
      BY <2>2, <3>1, <3>2, <3>3, <3>5
    <3> QED
      BY <1>1, <2>2, <3>4, <3>5
  <2> QED
    BY <2>1, <2>2
<1>2. ASSUME NEW k \in Handlers, NEW l \in Handlers, NEW s \in Sessions,
             NEW g \in Gens, Holds(k, s, g)', Holds(l, s, g)'
      PROVE  k = l
  BY <1>2 DEF RightsInv
<1>3. ASSUME NEW s \in Sessions, NEW g \in Gens
      PROVE  /\ pairs'[s][g] <= 1
             /\ pairs'[s][g] > 0 => s \in opened' /\ row'[s] \notin 1..(g - 1)
  BY DEF RightsInv
<1>4. \A s \in Sessions : row'[s] > 0 => s \in opened'
  BY DEF RightsInv
<1> QED
  BY <1>1, <1>2, <1>3, <1>4 DEF RightsInv

\* A step in which goroutine h uses its right.
LEMMA RightsUsed ==
  ASSUME StoreTypeOK, ClientTypeOK, RightsInv,
         NEW h \in Handlers, NEW s0 \in Sessions, NEW g0 \in Gens,
         Holds(h, s0, g0),
         \A k \in Handlers, s \in Sessions, g \in Gens :
           Holds(k, s, g)' => k # h /\ Holds(k, s, g),
         pairs' = [pairs EXCEPT ![s0][g0] = @ + 1],
         UNCHANGED <<row, opened>>
  PROVE  RightsInv'
<1> USE DEF Gens, StoreTypeOK, ClientTypeOK
<1>0. pairs[s0][g0] = 0
  BY DEF RightsInv
<1>1. \A s \in Sessions, g \in Gens :
        pairs'[s][g] = IF s = s0 /\ g = g0 THEN 1 ELSE pairs[s][g]
  <2>1. pairs'[s0] = [pairs[s0] EXCEPT ![g0] = pairs[s0][g0] + 1]
    OBVIOUS
  <2>2. \A s \in Sessions : s # s0 => pairs'[s] = pairs[s]
    OBVIOUS
  <2>3. pairs[s0] \in [Gens -> Nat]
    OBVIOUS
  <2>4. \A g \in Gens : pairs'[s0][g] = IF g = g0 THEN 1 ELSE pairs[s0][g]
    <3> HIDE DEF Gens
    <3> QED
      BY <1>0, <2>1, <2>3
  <2> QED
    BY <2>2, <2>4
<1>2. ASSUME NEW k \in Handlers, NEW s \in Sessions, NEW g \in Gens,
             Holds(k, s, g)'
      PROVE  pairs'[s][g] = 0 /\ s \in opened' /\ row'[s] \notin 1..(g - 1)
  <2>1. k # h /\ Holds(k, s, g)
    BY <1>2
  <2>2. ~(s = s0 /\ g = g0)
    BY <2>1 DEF RightsInv
  <2> QED
    BY <1>1, <2>1, <2>2 DEF RightsInv
<1>3. ASSUME NEW s \in Sessions, NEW g \in Gens
      PROVE  /\ pairs'[s][g] <= 1
             /\ pairs'[s][g] > 0 => s \in opened' /\ row'[s] \notin 1..(g - 1)
  BY <1>1 DEF RightsInv
<1>4. \A k, l \in Handlers, s \in Sessions, g \in Gens :
        Holds(k, s, g)' /\ Holds(l, s, g)' => k = l
  BY DEF RightsInv
<1>5. \A s \in Sessions : row'[s] > 0 => s \in opened'
  BY DEF RightsInv
<1> QED
  BY <1>2, <1>3, <1>4, <1>5 DEF RightsInv

\* Every step keeps RightsInv.
LEMMA RightsInductive ==
  ASSUME TypeOK, RightsInv, [Next]_vars
  PROVE  RightsInv'
<1>t. StoreTypeOK /\ ControlTypeOK /\ ClientTypeOK
  BY DEF TypeOK
<1>a. \A h \in Handlers : \A label :
        label \notin LoginPcs \union {"r_put"} /\ (\E j : Step(h, label, j)) =>
          \A k \in Handlers, s \in Sessions, g \in Gens :
            Holds(k, s, g)' => k # h /\ Holds(k, s, g)
  BY <1>t, RightsAfterStep
<1>b. UNCHANGED <<pc, job>> =>
        \A k \in Handlers, s \in Sessions, g \in Gens :
          Holds(k, s, g)' = Holds(k, s, g)
  BY DEF Holds, At
<1>c. ASSUME NEW h \in Handlers, At(h, "l_rev"), NEW j, j.sid = job[h].sid,
             Step(h, "l_put", j)
      PROVE  \A k \in Handlers, s \in Sessions, g \in Gens :
               Holds(k, s, g)' => Holds(k, s, g)
  BY <1>t, <1>c DEF ControlTypeOK, Step, Holds, At, LoginPcs
<1>d. ASSUME NEW h \in Handlers
      PROVE  /\ job[h].sid \in Sessions /\ job[h].gen \in Gens
             /\ pc[h] \in RefreshPcs => job[h].gen + 1 \in Gens
  <2>1. job[h] \in Job
    BY <1>t DEF ControlTypeOK
  <2> QED
    BY <1>t, <2>1, BoundsAssumption DEF ControlTypeOK, Job, Gens
<1>e. 1 \in Gens
  BY BoundsAssumption DEF Gens
<1>f. ASSUME NEW h \in Handlers, NEW j, NEW s0 \in Sessions, j.sid = s0,
             Step(h, "l_rev", j)
      PROVE  \A k \in Handlers, s \in Sessions, g \in Gens : Holds(k, s, g)' =>
               Holds(k, s, g) \/ (k = h /\ s = s0 /\ g = 1)
  BY <1>t, <1>f DEF ControlTypeOK, Step, Holds, At, LoginPcs
<1>g. ASSUME NEW h \in Handlers, Step(h, "r_put", job[h])
      PROVE  \A k \in Handlers, s \in Sessions, g \in Gens : Holds(k, s, g)' =>
               \/ Holds(k, s, g)
               \/ k = h /\ s = job[h].sid /\ g = job[h].gen + 1
  BY <1>t, <1>g DEF ControlTypeOK, Step, Holds, At, LoginPcs
<1>1. ASSUME NEW h \in Handlers, NEW s \in Sessions, StoreSession(h, s)
      PROVE  RightsInv'
  <2>1. \A k \in Handlers, r \in Sessions, g \in Gens : Holds(k, r, g)' =>
          Holds(k, r, g) \/ (k = h /\ r = s /\ g = 1)
    <3>1. [Blank EXCEPT !.sid = s].sid = s
      BY BlankIsJob DEF Job
    <3> QED
      BY <1>1, <1>f, <3>1 DEF StoreSession
  <2>2. /\ \A k \in Handlers, g \in Gens : Holds(k, s, g) => g < 1
        /\ \A g \in Gens : pairs[s][g] > 0 => g < 1
    BY <1>1 DEF StoreSession, RightsInv
  <2>3. /\ opened' = opened \union {s}
        /\ row' = [row EXCEPT ![s] = 1]
        /\ UNCHANGED pairs
    BY <1>1 DEF StoreSession
  <2> DEFINE g0 == 1
  <2> HIDE DEF g0
  <2>4. /\ g0 \in Gens
        /\ \A k \in Handlers, r \in Sessions, g \in Gens : Holds(k, r, g)' =>
             Holds(k, r, g) \/ (k = h /\ r = s /\ g = g0)
        /\ \A k \in Handlers, g \in Gens : Holds(k, s, g) => g < g0
        /\ \A g \in Gens : pairs[s][g] > 0 => g < g0
        /\ row' = [row EXCEPT ![s] = g0]
    BY <1>e, <2>1, <2>2, <2>3 DEF g0
  <2> QED
    BY <1>t, <2>3, <2>4, RightsGained
<1>2. ASSUME NEW h \in Handlers, NEW t \in issued, ReplayOnHit(h, t)
      PROVE  RightsInv'
  BY <1>2, <1>a, RightsKept
  DEF ReplayOnHit, DetectReplay, LoginPcs, stored, cached, history
<1>3. ASSUME NEW h \in Handlers, NEW t \in issued,
             \/ RefreshOnHit(h, t) \/ RefreshOnMiss(h, t)
             \/ ValidateOnMiss(h, t)
      PROVE  RightsInv'
  BY <1>3, <1>a, RightsKept
  DEF RefreshOnHit, RefreshOnMiss, ValidateOnMiss, Accept, LoginPcs, stored,
      cached, history
<1>4. ASSUME NEW h \in Handlers, NEW t \in issued, Logout(h, t)
      PROVE  RightsInv'
  BY <1>4, <1>b, RightsKept
  DEF Logout, stored, cached, history
<1>5. ASSUME NEW h \in Handlers,
             \/ LogoutAllDevices(h) \/ RefreshSessionGone(h)
             \/ RefreshGetSession(h) \/ RefreshRevoked(h)
             \/ ConcurrentRotation(h) \/ ValidateGetSession(h)
             \/ ValidateFill(h) \/ LogoutAllBumpWrite(h)
             \/ TheftMark(h) \/ TheftBumpWrite(h)
             \/ TheftClearKeys(h) \/ TheftEvict(h)
             \/ CallFails(h) \/ MintFails(h) \/ TheftBumpFails(h)
             \/ DeleteSessionFails(h)
      PROVE  RightsInv'
  BY <1>5, <1>a, RightsKept
  DEF LogoutAllDevices, RefreshSessionGone, RefreshGetSession, RefreshRevoked,
      ConcurrentRotation, ValidateGetSession, ValidateFill,
      LogoutAllBumpWrite, TheftMark, TheftBumpWrite, TheftClearKeys,
      TheftEvict, CallFails, MintFails, TheftBumpFails, DeleteSessionFails,
      Answer, Goto,
      LoginPcs, stored, cached, history
<1>6. ASSUME NEW h \in Handlers, LoginGetRevocation(h)
      PROVE  RightsInv'
  <2>1. Seen(h).sid = job[h].sid
    BY <1>t DEF Seen, ControlTypeOK, Job
  <2>2. \A k \in Handlers, s \in Sessions, g \in Gens :
          Holds(k, s, g)' => Holds(k, s, g)
    BY <1>6, <1>c, <2>1 DEF LoginGetRevocation
  <2> QED
    BY <1>6, <2>2, RightsKept DEF LoginGetRevocation, stored, history
<1>7. ASSUME NEW h \in Handlers, LoginMint(h) \/ RefreshMint(h)
      PROVE  RightsInv'
  <2>1. \A k \in Handlers, s \in Sessions, g \in Gens :
          Holds(k, s, g)' => k # h /\ Holds(k, s, g)
    BY <1>7, <1>a DEF LoginMint, RefreshMint, Answer, LoginPcs
  <2>2. PICK g0 \in Gens :
          /\ Holds(h, job[h].sid, g0)
          /\ pairs' = [pairs EXCEPT ![job[h].sid][g0] = @ + 1]
    BY <1>7, <1>d, <1>e
    DEF LoginMint, RefreshMint, Mint, Holds, At, LoginPcs, RefreshPcs
  <2>3. UNCHANGED <<row, opened>>
    BY <1>7 DEF LoginMint, RefreshMint, stored
  <2> QED
    BY <1>t, <1>d, <2>1, <2>2, <2>3, RightsUsed
<1>8. ASSUME NEW h \in Handlers, ReplayOnRow(h)
      PROVE  RightsInv'
  BY <1>8, <1>a, RightsKept
  DEF ReplayOnRow, DetectReplay, LoginPcs, stored, cached, history
<1>9. ASSUME NEW h \in Handlers,
             \/ RefreshGetRevocation(h) \/ ValidateGetRevocation(h)
             \/ TheftCount(h)
      PROVE  RightsInv'
  BY <1>9, <1>a, RightsKept
  DEF RefreshGetRevocation, ValidateGetRevocation, TheftCount, Seen, Answer,
      Goto, LoginPcs, stored, cached, history
<1>10. ASSUME NEW h \in Handlers, AtomicBumpGen(h)
      PROVE  RightsInv'
  <2> DEFINE s0 == job[h].sid
             g0 == job[h].gen + 1
  <2>1. s0 \in Sessions /\ g0 \in Gens /\ job[h].gen \in Gens
    BY <1>10, <1>d DEF AtomicBumpGen, At, RefreshPcs
  <2>2. row[s0] = job[h].gen /\ row' = [row EXCEPT ![s0] = g0]
    BY <1>10 DEF AtomicBumpGen, GenIs
  <2>3. \A k \in Handlers, s \in Sessions, g \in Gens : Holds(k, s, g)' =>
          Holds(k, s, g) \/ (k = h /\ s = s0 /\ g = g0)
    BY <1>10, <1>g DEF AtomicBumpGen, Goto
  <2>4. ASSUME NEW g \in Gens, row[s0] \notin 1..(g - 1)
        PROVE  g < g0
    BY <2>1, <2>2, <2>4 DEF Gens
  <2>5. \A k \in Handlers, g \in Gens : Holds(k, s0, g) => g < g0
    BY <2>1, <2>4 DEF RightsInv
  <2>6. \A g \in Gens : pairs[s0][g] > 0 => g < g0
    BY <2>1, <2>4 DEF RightsInv
  <2>7. opened' = opened \union {s0} /\ UNCHANGED pairs
    BY <1>10, <2>1, <2>2 DEF AtomicBumpGen, RightsInv, history, Gens
  <2> HIDE DEF s0, g0
  <2> QED
    BY <1>t, <2>1, <2>2, <2>3, <2>5, <2>6, <2>7, RightsGained
<1>11. ASSUME NEW h \in Handlers,
              \/ LogoutAllBumpRead(h) \/ TheftBumpRead(h)
      PROVE  RightsInv'
  BY <1>11, <1>a, RightsKept
  DEF LogoutAllBumpRead, TheftBumpRead, BumpRead, LoginPcs, stored, cached,
      history
<1>12. ASSUME NEW h \in Handlers, DeleteSession(h)
      PROVE  RightsInv'
  BY <1>12, <1>t, <1>a, RightsKept
  DEF DeleteSession, Goto, LoginPcs, StoreTypeOK, stored, cached, history
<1>13. ASSUME NEW h \in Handlers, BumpGenTimesOut(h)
      PROVE  RightsInv'
  <2> DEFINE s0 == job[h].sid
  <2>1. s0 \in Sessions /\ row[s0] > 0 /\ row[s0] = job[h].gen
    BY <1>13, <1>d DEF BumpGenTimesOut, GenIs, Gens
  <2>2. row' = [row EXCEPT ![s0] = @ + 1] /\ UNCHANGED <<opened, pairs>>
    BY <1>13, <2>1 DEF BumpGenTimesOut, history
  <2>3. \A k \in Handlers, s \in Sessions, g \in Gens :
          Holds(k, s, g)' => Holds(k, s, g)
    BY <1>13, <1>a DEF BumpGenTimesOut, Answer, LoginPcs
  <2> HIDE DEF s0
  <2> QED
    BY <1>t, <2>1, <2>2, <2>3, RightsRowMoves
<1>14. ASSUME NEW s \in Sessions,
              \/ Evict(s) \/ SessionExpires(s) \/ RowExpires(s)
      PROVE  RightsInv'
  BY <1>14, <1>b, <1>t, RightsKept
  DEF Evict, SessionExpires, RowExpires, StoreTypeOK, stored, cached, history
<1>15. CASE \/ TheftCounterExpires \/ RevocationExpires
  BY <1>15, <1>b, RightsKept
  DEF TheftCounterExpires, RevocationExpires, stored, cached, history
<1>16. CASE Restart
  BY <1>16, RightsKept
  DEF Restart, Holds, At, LoginPcs, stored, cached, history
<1>17. CASE UNCHANGED vars
  BY <1>17, <1>b, RightsKept DEF vars, stored, cached, history
<1> QED
  BY <1>1, <1>2, <1>3, <1>4, <1>5, <1>6, <1>7, <1>8, <1>9, <1>10, <1>11,
      <1>12, <1>13, <1>14, <1>15, <1>16, <1>17
  DEF Next, Request, Serve, Clock, Fault

\* RightsInv holds in every reachable state.
LEMMA RightsCorrect == Spec => []RightsInv
<1>1. Init => RightsInv
  BY DEF Init, RightsInv, Holds, At, LoginPcs, Gens
<1>2. TypeOK /\ RightsInv /\ [Next]_vars => RightsInv'
  BY RightsInductive
<1> QED
  BY <1>1, <1>2, TypeCorrect, PTL DEF Spec

\* SingleRotation, for every number of sessions, goroutines and generations.
THEOREM SingleRotationCorrect == Spec => []SingleRotation
<1>1. RightsInv => SingleRotation
  BY DEF RightsInv, SingleRotation
<1> QED
  BY <1>1, RightsCorrect, PTL

-------------------------------------------------------------------------------
(* Rows: created once, moved by one generation, never written again once gone. *)

\* What a step may do to a row: leave it, drop it, move it by one generation, or
\* create it for a session id never drawn before.
LEMMA RowSteps ==
  ASSUME TypeOK, RightsInv, [Next]_vars
  PROVE  /\ opened \subseteq opened'
         /\ \A s \in Sessions :
              \/ row'[s] \in {0, row[s]}
              \/ row'[s] = row[s] + 1 /\ (row[s] > 0 \/ s \notin opened)
<1> DEFINE Forward ==
      /\ opened \subseteq opened'
      /\ \A s \in Sessions :
           \/ row'[s] \in {0, row[s]}
           \/ row'[s] = row[s] + 1 /\ (row[s] > 0 \/ s \notin opened)
<1> SUFFICES Forward
  OBVIOUS
<1>a. /\ row \in [Sessions -> 0..MaxGen]
      /\ \A h \in Handlers : job[h].sid \in Sessions /\ job[h].gen \in Gens
  BY DEF TypeOK, StoreTypeOK, ControlTypeOK, Job
<1>b. UNCHANGED <<row, opened>> => Forward
  OBVIOUS
<1>1. ASSUME NEW h \in Handlers, NEW s \in Sessions, StoreSession(h, s)
      PROVE  Forward
  BY <1>1, <1>a
  DEF StoreSession, RightsInv
<1>2. ASSUME NEW h \in Handlers, NEW t \in issued,
             \/ ReplayOnHit(h, t) \/ Logout(h, t)
      PROVE  Forward
  BY <1>2, <1>b
  DEF ReplayOnHit, Logout, stored
<1>3. ASSUME NEW h \in Handlers, NEW t \in issued,
             \/ RefreshOnHit(h, t) \/ RefreshOnMiss(h, t)
             \/ ValidateOnMiss(h, t)
      PROVE  Forward
  BY <1>3, <1>b
  DEF RefreshOnHit, RefreshOnMiss, ValidateOnMiss, stored, history
<1>4. ASSUME NEW h \in Handlers,
             \/ LogoutAllDevices(h) \/ LoginGetRevocation(h)
             \/ RefreshSessionGone(h) \/ RefreshGetSession(h)
             \/ RefreshRevoked(h) \/ RefreshGetRevocation(h)
             \/ ConcurrentRotation(h) \/ ValidateGetSession(h)
             \/ ValidateGetRevocation(h) \/ ValidateFill(h)
             \/ LogoutAllBumpWrite(h) \/ TheftCount(h)
             \/ TheftMark(h) \/ TheftBumpWrite(h)
             \/ TheftClearKeys(h) \/ CallFails(h)
             \/ MintFails(h) \/ TheftBumpFails(h)
             \/ DeleteSessionFails(h)
      PROVE  Forward
  BY <1>4, <1>b
  DEF LogoutAllDevices, LoginGetRevocation, RefreshSessionGone,
      RefreshGetSession, RefreshRevoked, RefreshGetRevocation,
      ConcurrentRotation, ValidateGetSession, ValidateGetRevocation,
      ValidateFill, LogoutAllBumpWrite, TheftCount, TheftMark, TheftBumpWrite,
      TheftClearKeys, CallFails, MintFails, TheftBumpFails,
      DeleteSessionFails, stored, history
<1>5. ASSUME NEW h \in Handlers,
             \/ LoginMint(h) \/ ReplayOnRow(h)
             \/ RefreshMint(h) \/ TheftEvict(h)
      PROVE  Forward
  BY <1>5, <1>b
  DEF LoginMint, ReplayOnRow, RefreshMint, TheftEvict, stored
<1>6. ASSUME NEW h \in Handlers,
             \/ AtomicBumpGen(h) \/ BumpGenTimesOut(h)
      PROVE  Forward
  BY <1>6, <1>a
  DEF AtomicBumpGen, BumpGenTimesOut, GenIs, Gens, history
<1>7. ASSUME NEW h \in Handlers,
             \/ LogoutAllBumpRead(h) \/ TheftBumpRead(h)
      PROVE  Forward
  BY <1>7, <1>b
  DEF LogoutAllBumpRead, TheftBumpRead, BumpRead, stored, history
<1>8. ASSUME NEW h \in Handlers, DeleteSession(h)
      PROVE  Forward
  BY <1>8, <1>a
  DEF DeleteSession, history
<1>9. ASSUME NEW s \in Sessions,
             \/ Evict(s) \/ SessionExpires(s)
      PROVE  Forward
  BY <1>9, <1>b
  DEF Evict, SessionExpires, stored, history
<1>10. ASSUME NEW s \in Sessions, RowExpires(s)
      PROVE  Forward
  BY <1>10, <1>a
  DEF RowExpires, history
<1>11. CASE \/ TheftCounterExpires \/ RevocationExpires
            \/ Restart
  BY <1>11, <1>b
  DEF TheftCounterExpires, RevocationExpires, Restart, stored, history
<1>12. CASE UNCHANGED vars
  BY <1>12, <1>b DEF vars, stored, history
<1> QED
  BY <1>1, <1>2, <1>3, <1>4, <1>5, <1>6, <1>7, <1>8, <1>9, <1>10, <1>11, <1>12
  DEF Next, Request, Serve, Clock, Fault

\* DeletedStaysDeleted, for every step of the specification.
THEOREM DeletedStaysDeletedCorrect == Spec => DeletedStaysDeleted
<1>1. TypeOK /\ RightsInv /\ [Next]_vars =>
        [\A s \in Sessions :
           \/ row'[s] \in {0, row[s]}
           \/ row'[s] = row[s] + 1 /\ (row[s] > 0 \/ s \notin opened)]_vars
  BY RowSteps
<1> QED
  BY <1>1, TypeCorrect, RightsCorrect, PTL DEF Spec, DeletedStaysDeleted

-------------------------------------------------------------------------------
(* Nothing in the cache or in the clients' hands is ahead of a live row. *)

\* Session s has been at generation g; and so it has after the step.
Reached(s, g) == s \in opened /\ row[s] \notin 1..(g - 1)
StillReached(s, g) == s \in opened' /\ row'[s] \notin 1..(g - 1)

\* The inductive strengthening of NothingAheadOfRow: every generation a cache
\* entry, a token or a goroutine speaks of was reached by its session.
BehindInv ==
  /\ \A s \in Sessions : cache[s].gen > 0 => Reached(s, cache[s].gen)
  /\ \A t \in issued : Reached(t.sid, t.gen)
  /\ \A h \in Handlers : pc[h] \in RefreshPcs \union ValidatePcs =>
       Reached(job[h].sid, job[h].gen)

\* A session never gets back below a generation it was at: its row moves up or
\* goes, and a row that went is not created again.
LEMMA ReachedKept ==
  ASSUME TypeOK, RightsInv, [Next]_vars, NEW s \in Sessions, NEW g \in Gens,
         Reached(s, g)
  PROVE  StillReached(s, g)
  BY RowSteps DEF Reached, StillReached, Gens, TypeOK, StoreTypeOK

\* What a step has to show: a new token, a new cache entry and the locals of the
\* goroutine that moved speak of generations that were reached.
LEMMA BehindStep ==
  ASSUME TypeOK, RightsInv, BehindInv, [Next]_vars,
         \A t \in issued' : t \in issued \/ StillReached(t.sid, t.gen),
         \A s \in Sessions : \/ cache'[s] = cache[s]
                             \/ cache'[s].gen = 0
                             \/ StillReached(s, cache'[s].gen),
         \A k \in Handlers : pc'[k] \in RefreshPcs \union ValidatePcs =>
           \/ UNCHANGED <<pc[k], job[k]>>
           \/ StillReached(job'[k].sid, job'[k].gen)
  PROVE  BehindInv'
<1>a. StoreTypeOK /\ ControlTypeOK /\ ClientTypeOK
  BY DEF TypeOK
<1>k. \A s \in Sessions, g \in Gens : Reached(s, g) => StillReached(s, g)
  BY ReachedKept
<1>1. \A s \in Sessions : cache'[s].gen > 0 => StillReached(s, cache'[s].gen)
  <2> TAKE s \in Sessions
  <2>1. cache[s].gen > 0 => cache[s].gen \in Gens
    BY <1>a DEF StoreTypeOK, CachedSession, Gens
  <2>2. cache[s].gen > 0 => StillReached(s, cache[s].gen)
    BY <2>1, <1>k DEF BehindInv
  <2> QED
    BY <2>2
<1>2. \A t \in issued' : StillReached(t.sid, t.gen)
  <2> TAKE t \in issued'
  <2>1. t \in issued => t.sid \in Sessions /\ t.gen \in Gens
    BY <1>a DEF ClientTypeOK, Token
  <2> QED
    BY <2>1, <1>k DEF BehindInv
<1>3. \A h \in Handlers : pc'[h] \in RefreshPcs \union ValidatePcs =>
        StillReached(job'[h].sid, job'[h].gen)
  <2> TAKE h \in Handlers
  <2>1. job[h].sid \in Sessions /\ job[h].gen \in Gens
    BY <1>a DEF ControlTypeOK, Job
  <2>2. pc[h] \in RefreshPcs \union ValidatePcs =>
          StillReached(job[h].sid, job[h].gen)
    BY <2>1, <1>k DEF BehindInv
  <2>3. UNCHANGED <<pc[h], job[h]>> => pc'[h] = pc[h] /\ job'[h] = job[h]
    OBVIOUS
  <2> QED
    BY <2>2, <2>3
<1> QED
  BY <1>1, <1>2, <1>3 DEF BehindInv, Reached, StillReached

\* Every step keeps BehindInv.
LEMMA BehindInductive ==
  ASSUME TypeOK, RightsInv, BehindInv, [Next]_vars
  PROVE  BehindInv'
<1>t. StoreTypeOK /\ ControlTypeOK /\ ClientTypeOK
  BY DEF TypeOK
<1>k. \A s \in Sessions, g \in Gens : Reached(s, g) => StillReached(s, g)
  BY ReachedKept
<1> DEFINE Control == \A k \in Handlers :
             pc'[k] \in RefreshPcs \union ValidatePcs =>
               \/ UNCHANGED <<pc[k], job[k]>>
               \/ StillReached(job'[k].sid, job'[k].gen)
<1>a. ASSUME NEW h \in Handlers, NEW label, NEW j, Step(h, label, j),
             \/ label \notin RefreshPcs \union ValidatePcs
             \/ StillReached(j.sid, j.gen)
      PROVE  Control
  <2>1. /\ \A k \in Handlers \ {h} : pc'[k] = pc[k] /\ job'[k] = job[k]
        /\ pc'[h] = label /\ job'[h] = j
    BY <1>t, <1>a DEF Step, ControlTypeOK
  <2> QED
    BY <2>1, <1>a
<1>b. ASSUME NEW h \in Handlers, NEW label, NEW j, Step(h, label, j),
             label \notin RefreshPcs \union ValidatePcs
      PROVE  Control
  BY <1>a, <1>b
<1>c. \A h \in Handlers : job[h].sid \in Sessions /\ job[h].gen \in Gens
  BY <1>t DEF ControlTypeOK, Job
<1>d. \A h \in Handlers : pc[h] \in RefreshPcs \union ValidatePcs =>
        StillReached(job[h].sid, job[h].gen)
  BY <1>c, <1>k DEF BehindInv
<1>e. \A t \in issued : StillReached(t.sid, t.gen)
  <2> TAKE t \in issued
  <2>1. t.sid \in Sessions /\ t.gen \in Gens
    BY <1>t DEF ClientTypeOK, Token
  <2> QED
    BY <2>1, <1>k DEF BehindInv
<1>f. \A h \in Handlers, s \in Sessions, g \in Gens :
        Holds(h, s, g) => StillReached(s, g)
  BY <1>k DEF RightsInv, Reached
<1>p. ASSUME NEW s \in Sessions, NEW g, NEW v, CachePut(s, g, v),
             StillReached(s, g)
      PROVE  \A r \in Sessions : \/ cache'[r] = cache[r]
                                 \/ StillReached(r, cache'[r].gen)
  <2> TAKE r \in Sessions
  <2>1. CASE cache' = [cache EXCEPT ![s] = [gen |-> g, gv |-> v]]
    <3>1. CASE r = s
      <4>1. cache'[r] = [gen |-> g, gv |-> v]
        BY <1>t, <2>1, <3>1 DEF StoreTypeOK
      <4>2. cache'[r].gen = g
        BY <4>1
      <4> QED
        BY <4>2, <3>1, <1>p
    <3>2. CASE r # s
      BY <1>t, <2>1, <3>2 DEF StoreTypeOK
    <3> QED
      BY <3>1, <3>2
  <2>2. CASE UNCHANGED cache
    BY <2>2
  <2> QED
    BY <1>p, <2>1, <2>2 DEF CachePut
<1>s. \A h \in Handlers : Seen(h).sid = job[h].sid /\ Seen(h).gen = job[h].gen
  BY <1>t DEF Seen, ControlTypeOK, Job
<1>1. ASSUME NEW h \in Handlers, NEW s \in Sessions, StoreSession(h, s)
      PROVE  BehindInv'
  BY <1>1, <1>b, BehindStep
  DEF StoreSession, RefreshPcs, ValidatePcs, stored, cached, history
<1>2. ASSUME NEW h \in Handlers, NEW t \in issued, ReplayOnHit(h, t)
      PROVE  BehindInv'
  BY <1>2, <1>b, BehindStep
  DEF ReplayOnHit, DetectReplay, RefreshPcs, ValidatePcs, stored, cached,
      history
<1>3. ASSUME NEW h \in Handlers, NEW t \in issued, RefreshOnHit(h, t)
      PROVE  BehindInv'
  BY <1>3, <1>a, <1>e, <1>t, BehindStep
  DEF RefreshOnHit, Accept, ClientTypeOK, Token, stored, cached, history
<1>4. ASSUME NEW h \in Handlers, NEW t \in issued,
             \/ RefreshOnMiss(h, t) \/ ValidateOnMiss(h, t)
      PROVE  BehindInv'
  BY <1>4, <1>a, <1>e, BehindStep
  DEF RefreshOnMiss, ValidateOnMiss, Accept, stored, cached, history
<1>5. ASSUME NEW h \in Handlers, NEW t \in issued, Logout(h, t)
      PROVE  BehindInv'
  BY <1>5, <1>t, BehindStep
  DEF Logout, CacheDel, NoEntry, StoreTypeOK, ClientTypeOK, Token, stored,
      cached, history
<1>6. ASSUME NEW h \in Handlers,
             \/ LogoutAllDevices(h) \/ TheftMark(h)
             \/ TheftBumpWrite(h) \/ TheftClearKeys(h)
             \/ DeleteSession(h) \/ TheftBumpFails(h)
             \/ DeleteSessionFails(h)
      PROVE  BehindInv'
  BY <1>6, <1>b, BehindStep
  DEF LogoutAllDevices, TheftMark, TheftBumpWrite, TheftClearKeys,
      DeleteSession, TheftBumpFails, DeleteSessionFails, Goto, RefreshPcs,
      ValidatePcs, stored, cached, history
<1>7. ASSUME NEW h \in Handlers,
             \/ LoginGetRevocation(h) \/ TheftCount(h)
      PROVE  BehindInv'
  BY <1>7, <1>b, BehindStep
  DEF LoginGetRevocation, TheftCount, RefreshPcs, ValidatePcs, stored, cached,
      history
<1>8. ASSUME NEW h \in Handlers,
             \/ LoginMint(h) \/ RefreshMint(h)
      PROVE  BehindInv'
  <2>1. Control
    BY <1>8, <1>b DEF LoginMint, RefreshMint, Answer, RefreshPcs, ValidatePcs
  <2>2. 1 \in Gens /\ (pc[h] \in RefreshPcs => job[h].gen + 1 \in Gens)
    BY <1>t, <1>c, BoundsAssumption DEF ControlTypeOK, Gens
  <2>3. PICK g \in Gens :
          /\ Holds(h, job[h].sid, g)
          /\ CachePut(job[h].sid, g, job[h].gv)
          /\ Mint(job[h].sid, g, job[h].gv, job[h].epoch)
    BY <1>8, <1>c, <2>2
    DEF LoginMint, RefreshMint, Holds, At, LoginPcs, RefreshPcs
  <2>4. StillReached(job[h].sid, g)
    BY <1>c, <1>f, <2>3
  <2>5. \A t \in issued' : t \in issued \/ StillReached(t.sid, t.gen)
    BY <2>3, <2>4 DEF Mint
  <2>6. \A r \in Sessions : \/ cache'[r] = cache[r]
                            \/ StillReached(r, cache'[r].gen)
    BY <1>c, <1>p, <2>3, <2>4
  <2> QED
    BY <2>1, <2>5, <2>6, BehindStep
<1>9. ASSUME NEW h \in Handlers,
             \/ RefreshSessionGone(h) \/ RefreshRevoked(h)
             \/ ConcurrentRotation(h) \/ LogoutAllBumpWrite(h)
             \/ CallFails(h) \/ BumpGenTimesOut(h)
      PROVE  BehindInv'
  BY <1>9, <1>b, BehindStep
  DEF RefreshSessionGone, RefreshRevoked, ConcurrentRotation,
      LogoutAllBumpWrite, CallFails, BumpGenTimesOut, Answer, RefreshPcs,
      ValidatePcs, stored, cached, history
<1>10. ASSUME NEW h \in Handlers, ReplayOnRow(h)
      PROVE  BehindInv'
  BY <1>10, <1>b, BehindStep
  DEF ReplayOnRow, DetectReplay, RefreshPcs, ValidatePcs, stored, cached,
      history
<1>11. ASSUME NEW h \in Handlers,
              \/ RefreshGetSession(h) \/ AtomicBumpGen(h)
      PROVE  BehindInv'
  BY <1>11, <1>a, <1>d, BehindStep
  DEF RefreshGetSession, AtomicBumpGen, Goto, At, RefreshPcs, ValidatePcs,
      stored, cached, history
<1>12. ASSUME NEW h \in Handlers, RefreshGetRevocation(h)
      PROVE  BehindInv'
  BY <1>12, <1>a, <1>d, <1>s, BehindStep
  DEF RefreshGetRevocation, At, RefreshPcs, ValidatePcs, stored, cached,
      history
<1>13. ASSUME NEW h \in Handlers, ValidateGetSession(h)
      PROVE  BehindInv'
  BY <1>13, <1>a, <1>b, <1>d, BehindStep
  DEF ValidateGetSession, Goto, Answer, At, RefreshPcs, ValidatePcs, stored,
      cached, history
<1>14. ASSUME NEW h \in Handlers, ValidateGetRevocation(h)
      PROVE  BehindInv'
  BY <1>14, <1>a, <1>d, <1>s, BehindStep, <1>b
  DEF ValidateGetRevocation, At, RefreshPcs, ValidatePcs, stored, cached,
      history, Answer
<1>15. ASSUME NEW h \in Handlers, ValidateFill(h)
      PROVE  BehindInv'
  BY <1>15, <1>b, <1>c, <1>d, <1>p, BehindStep
  DEF ValidateFill, Answer, At, RefreshPcs, ValidatePcs, stored, cached,
      history
<1>16. ASSUME NEW h \in Handlers,
              \/ LogoutAllBumpRead(h) \/ TheftBumpRead(h)
      PROVE  BehindInv'
  BY <1>16, <1>b, BehindStep
  DEF LogoutAllBumpRead, TheftBumpRead, BumpRead, RefreshPcs, ValidatePcs,
      stored, cached, history
<1>17. ASSUME NEW h \in Handlers, TheftEvict(h)
      PROVE  BehindInv'
  BY <1>17, <1>b, <1>t, <1>c, BehindStep
  DEF TheftEvict, Answer, CacheDel, NoEntry, StoreTypeOK, RefreshPcs,
      ValidatePcs, stored, cached, history
<1>18. ASSUME NEW h \in Handlers, MintFails(h)
      PROVE  BehindInv'
  <2>1. Control
    BY <1>18, <1>b DEF MintFails, Answer, RefreshPcs, ValidatePcs
  <2>2. job[h].gen + 1 \in Gens
    BY <1>18, <1>t, <1>c, BoundsAssumption
    DEF MintFails, At, RefreshPcs, ControlTypeOK, Gens
  <2>3. Holds(h, job[h].sid, job[h].gen + 1)
    BY <1>18 DEF MintFails, Holds, At
  <2>4. StillReached(job[h].sid, job[h].gen + 1)
    BY <1>c, <1>f, <2>2, <2>3
  <2>5. \A r \in Sessions : \/ cache'[r] = cache[r]
                            \/ StillReached(r, cache'[r].gen)
    BY <1>18, <1>c, <1>p, <2>4 DEF MintFails
  <2>6. UNCHANGED issued
    BY <1>18 DEF MintFails
  <2> QED
    BY <2>1, <2>5, <2>6, BehindStep
<1>19. ASSUME NEW s \in Sessions, Evict(s)
      PROVE  BehindInv'
  BY <1>19, <1>t, BehindStep
  DEF Evict, CacheDel, NoEntry, StoreTypeOK, stored, cached, history
<1>20. ASSUME NEW s \in Sessions,
              \/ SessionExpires(s) \/ RowExpires(s)
      PROVE  BehindInv'
  BY <1>20, BehindStep
  DEF SessionExpires, RowExpires, stored, cached, history
<1>21. CASE \/ TheftCounterExpires \/ RevocationExpires
  BY <1>21, BehindStep
  DEF TheftCounterExpires, RevocationExpires, stored, cached, history
<1>22. CASE Restart
  BY <1>22, BehindStep
  DEF Restart, NoEntry, RefreshPcs, ValidatePcs, stored, cached, history
<1>23. CASE UNCHANGED vars
  BY <1>23, BehindStep DEF vars, stored, cached, history
<1> QED
  BY <1>1, <1>2, <1>3, <1>4, <1>5, <1>6, <1>7, <1>8, <1>9, <1>10, <1>11,
      <1>12, <1>13, <1>14, <1>15, <1>16, <1>17, <1>18, <1>19, <1>20, <1>21,
      <1>22, <1>23
  DEF Next, Request, Serve, Clock, Fault

-------------------------------------------------------------------------------
(* The account-level response: the counter never exceeds the replays seen,   *)
(* the ones still to be counted left out.                                    *)

\* The clean-ups that have not read the theft counter yet.
Counting == {h \in Handlers : At(h, "t_count")}

\* The inductive strengthening of EscalationNeedsRepeatedTheft: the counter, and
\* what a clean-up computed from it, never exceed the replays already counted.
EscalationInv ==
  /\ IsFiniteSet(Counting)
  /\ theft + Cardinality(Counting) <= replays
  /\ \A h \in Handlers :
       /\ At(h, "t_mark") => job[h].n + Cardinality(Counting) <= replays
       /\ pc[h] \in EscalationPcs => replays >= TheftThreshold

\* Every step keeps EscalationInv.
LEMMA EscalationInductive ==
  ASSUME TypeOK, EscalationInv, [Next]_vars
  PROVE  EscalationInv'
<1>t. StoreTypeOK /\ ControlTypeOK /\ ClientTypeOK
  BY DEF TypeOK
<1>n. theft \in Nat /\ replays \in Nat /\ \A h \in Handlers : job[h].n \in Nat
  BY <1>t DEF StoreTypeOK, ControlTypeOK, ClientTypeOK, Job
<1>m. IsFiniteSet(Counting) /\ Cardinality(Counting) \in Nat
  BY FS_CardinalityType DEF EscalationInv
<1>s. ASSUME NEW h \in Handlers, NEW label, NEW j, Step(h, label, j)
      PROVE  /\ \A k \in Handlers \ {h} : pc'[k] = pc[k] /\ job'[k] = job[k]
             /\ pc'[h] = label /\ job'[h] = j
  BY <1>t, <1>s DEF Step, ControlTypeOK
\* What moves in and out of Counting.
<1>o. ASSUME NEW h \in Handlers, NEW label, NEW j, Step(h, label, j),
             label # "t_count", ~At(h, "t_count")
      PROVE  Counting' = Counting
  BY <1>s, <1>o DEF Counting, At
<1>i. ASSUME NEW h \in Handlers, NEW j, Step(h, "t_count", j),
             ~At(h, "t_count")
      PROVE  /\ IsFiniteSet(Counting')
             /\ Cardinality(Counting') = Cardinality(Counting) + 1
  <2>1. Counting' = Counting \union {h} /\ h \notin Counting
    BY <1>s, <1>i DEF Counting, At
  <2> QED
    BY <2>1, <1>m, FS_AddElement
<1>r. ASSUME NEW h \in Handlers, NEW label, NEW j, Step(h, label, j),
             label # "t_count", At(h, "t_count")
      PROVE  /\ IsFiniteSet(Counting')
             /\ Cardinality(Counting') = Cardinality(Counting) - 1
  <2>1. Counting' = Counting \ {h} /\ h \in Counting
    BY <1>s, <1>r DEF Counting, At
  <2> QED
    BY <2>1, <1>m, FS_RemoveElement
\* A goroutine that moves on outside the escalation.
<1>a. ASSUME NEW h \in Handlers, NEW label, NEW j, Step(h, label, j),
             label \notin EscalationPcs \union {"t_count", "t_mark"},
             ~At(h, "t_count"), theft' \in {0, theft}, UNCHANGED replays
      PROVE  EscalationInv'
  BY <1>n, <1>m, <1>a, <1>s, <1>o DEF EscalationInv, At
\* A goroutine that is already in it moves on.
<1>b. ASSUME NEW h \in Handlers, NEW label, NEW j, Step(h, label, j),
             pc[h] \in EscalationPcs, label \notin {"t_count", "t_mark"},
             theft' \in {0, theft}, UNCHANGED replays
      PROVE  EscalationInv'
  <2>1. ~At(h, "t_count")
    BY <1>b DEF At, EscalationPcs
  <2> QED
    BY <2>1, <1>n, <1>m, <1>b, <1>s, <1>o DEF EscalationInv, At
\* A goroutine that has detected a replay.
<1>d. ASSUME NEW h \in Handlers, NEW s, DetectReplay(h, s),
             ~At(h, "t_count"), UNCHANGED theft
      PROVE  EscalationInv'
  <2> DEFINE j == [Blank EXCEPT !.sid = s]
  <2>1. Step(h, "t_count", j) /\ replays' = replays + 1
    BY <1>d DEF DetectReplay
  <2>2. /\ IsFiniteSet(Counting')
        /\ Cardinality(Counting') = Cardinality(Counting) + 1
    BY <1>d, <1>i, <2>1
  <2>3. /\ \A k \in Handlers \ {h} : pc'[k] = pc[k] /\ job'[k] = job[k]
        /\ pc'[h] = "t_count"
    BY <1>s, <2>1
  <2> HIDE DEF j
  <2>4. theft' + Cardinality(Counting') <= replays'
    BY <1>d, <1>n, <1>m, <2>1, <2>2 DEF EscalationInv
  <2>5. ASSUME NEW k \in Handlers
        PROVE  /\ pc'[k] = "t_mark" =>
                    job'[k].n + Cardinality(Counting') <= replays'
               /\ pc'[k] \in EscalationPcs => replays' >= TheftThreshold
    BY <1>n, <1>m, <2>1, <2>2, <2>3, ThresholdAssumption
    DEF EscalationInv, At, EscalationPcs
  <2> QED
    BY <2>2, <2>4, <2>5 DEF EscalationInv, At
\* Steps of no goroutine.
<1>c. ASSUME UNCHANGED <<pc, job, replays>>, theft' \in {0, theft}
      PROVE  EscalationInv'
  <2>1. Counting' = Counting
    BY <1>c DEF Counting, At
  <2> QED
    BY <2>1, <1>n, <1>m, <1>c DEF EscalationInv, At
<1>1. ASSUME NEW h \in Handlers, NEW s \in Sessions, StoreSession(h, s)
      PROVE  EscalationInv'
  BY <1>1, <1>a
  DEF StoreSession, EscalationPcs, At, stored, cached, history
<1>2. ASSUME NEW h \in Handlers, NEW t \in issued, ReplayOnHit(h, t)
      PROVE  EscalationInv'
  BY <1>2, <1>d
  DEF ReplayOnHit, At, stored, cached, history
<1>3. ASSUME NEW h \in Handlers, NEW t \in issued,
             \/ RefreshOnHit(h, t) \/ RefreshOnMiss(h, t)
             \/ ValidateOnMiss(h, t)
      PROVE  EscalationInv'
  BY <1>3, <1>a
  DEF RefreshOnHit, RefreshOnMiss, ValidateOnMiss, Accept, EscalationPcs, At,
      stored, cached, history
<1>4. ASSUME NEW h \in Handlers, NEW t \in issued, Logout(h, t)
      PROVE  EscalationInv'
  BY <1>4, <1>c
  DEF Logout, stored, cached, history
<1>5. ASSUME NEW h \in Handlers,
             \/ LogoutAllDevices(h) \/ RefreshGetSession(h)
             \/ AtomicBumpGen(h) \/ TheftClearKeys(h)
             \/ DeleteSession(h) \/ DeleteSessionFails(h)
      PROVE  EscalationInv'
  BY <1>5, <1>a
  DEF LogoutAllDevices, RefreshGetSession, AtomicBumpGen, TheftClearKeys,
      DeleteSession, DeleteSessionFails, Goto, EscalationPcs, At, stored,
      cached, history
<1>6. ASSUME NEW h \in Handlers,
             \/ LoginGetRevocation(h) \/ RefreshGetRevocation(h)
      PROVE  EscalationInv'
  BY <1>6, <1>a
  DEF LoginGetRevocation, RefreshGetRevocation, EscalationPcs, At, stored,
      cached, history
<1>7. ASSUME NEW h \in Handlers,
             \/ LoginMint(h) \/ RefreshSessionGone(h)
             \/ RefreshRevoked(h) \/ ConcurrentRotation(h)
             \/ RefreshMint(h) \/ ValidateGetRevocation(h)
             \/ ValidateFill(h) \/ LogoutAllBumpWrite(h)
             \/ TheftEvict(h) \/ MintFails(h)
             \/ BumpGenTimesOut(h)
      PROVE  EscalationInv'
  BY <1>7, <1>a
  DEF LoginMint, RefreshSessionGone, RefreshRevoked, ConcurrentRotation,
      RefreshMint, ValidateGetRevocation, ValidateFill, LogoutAllBumpWrite,
      TheftEvict, MintFails, BumpGenTimesOut, Answer, EscalationPcs, At,
      stored, cached, history
<1>8. ASSUME NEW h \in Handlers, ReplayOnRow(h)
      PROVE  EscalationInv'
  BY <1>8, <1>d
  DEF ReplayOnRow, At, stored, cached, history
<1>9. ASSUME NEW h \in Handlers, ValidateGetSession(h)
      PROVE  EscalationInv'
  BY <1>9, <1>a
  DEF ValidateGetSession, Answer, Goto, EscalationPcs, At, stored, cached,
      history
<1>10. ASSUME NEW h \in Handlers, LogoutAllBumpRead(h)
      PROVE  EscalationInv'
  BY <1>10, <1>a
  DEF LogoutAllBumpRead, BumpRead, EscalationPcs, At, stored, cached, history
<1>11. ASSUME NEW h \in Handlers, TheftCount(h)
      PROVE  EscalationInv'
  <2> DEFINE j == [job[h] EXCEPT !.n = theft + 1]
  <2>1. /\ Step(h, "t_mark", j) /\ At(h, "t_count")
        /\ UNCHANGED <<theft, replays>>
    BY <1>11 DEF TheftCount, cached, history
  <2>2. /\ IsFiniteSet(Counting')
        /\ Cardinality(Counting') = Cardinality(Counting) - 1
    BY <1>r, <2>1
  <2>3. /\ \A k \in Handlers \ {h} : pc'[k] = pc[k] /\ job'[k] = job[k]
        /\ pc'[h] = "t_mark" /\ job'[h] = j
    BY <1>s, <2>1
  <2>4. j.n = theft + 1
    BY <1>t DEF ControlTypeOK, Job
  <2> HIDE DEF j
  <2>5. theft' + Cardinality(Counting') <= replays'
    BY <1>n, <1>m, <2>1, <2>2 DEF EscalationInv
  <2>6. ASSUME NEW k \in Handlers
        PROVE  /\ pc'[k] = "t_mark" =>
                    job'[k].n + Cardinality(Counting') <= replays'
               /\ pc'[k] \in EscalationPcs => replays' >= TheftThreshold
    BY <1>n, <1>m, <2>1, <2>2, <2>3, <2>4
    DEF EscalationInv, At, EscalationPcs
  <2> QED
    BY <2>2, <2>5, <2>6 DEF EscalationInv, At
<1>12. ASSUME NEW h \in Handlers, TheftMark(h)
      PROVE  EscalationInv'
  <2> DEFINE label == IF RepeatedTheft(job[h].n) THEN "t_read" ELSE "t_row"
  <2>1. /\ Step(h, label, job[h]) /\ At(h, "t_mark") /\ UNCHANGED replays
        /\ theft' \in {job[h].n, theft}
    BY <1>12 DEF TheftMark, Goto, history
  <2>2. /\ \A k \in Handlers \ {h} : pc'[k] = pc[k] /\ job'[k] = job[k]
        /\ pc'[h] = label
    BY <1>s, <2>1
  <2>3. label \notin {"t_count", "t_mark"}
    OBVIOUS
  <2>4. job[h].n + Cardinality(Counting) <= replays
    BY <2>1 DEF EscalationInv
  <2>5. label \in EscalationPcs => replays >= TheftThreshold
    BY <1>n, <1>m, <2>4, ThresholdAssumption DEF RepeatedTheft, EscalationPcs
  <2> HIDE DEF label
  <2>6. Counting' = Counting
    BY <1>o, <2>1, <2>3 DEF At
  <2>7. theft' + Cardinality(Counting') <= replays'
    BY <1>n, <1>m, <2>1, <2>4, <2>6 DEF EscalationInv
  <2>8. ASSUME NEW k \in Handlers
        PROVE  /\ pc'[k] = "t_mark" =>
                    job'[k].n + Cardinality(Counting') <= replays'
               /\ pc'[k] \in EscalationPcs => replays' >= TheftThreshold
    BY <1>n, <1>m, <2>1, <2>2, <2>3, <2>5, <2>6 DEF EscalationInv, At
  <2> QED
    BY <1>m, <2>6, <2>7, <2>8 DEF EscalationInv, At
<1>13. ASSUME NEW h \in Handlers, TheftBumpRead(h)
      PROVE  EscalationInv'
  BY <1>13, <1>b
  DEF TheftBumpRead, BumpRead, EscalationPcs, At, stored, cached, history
<1>14. ASSUME NEW h \in Handlers,
              \/ TheftBumpWrite(h) \/ TheftBumpFails(h)
      PROVE  EscalationInv'
  BY <1>14, <1>b
  DEF TheftBumpWrite, TheftBumpFails, Goto, EscalationPcs, At, stored, cached,
      history
<1>15. ASSUME NEW h \in Handlers, CallFails(h)
      PROVE  EscalationInv'
  BY <1>15, <1>a
  DEF CallFails, Answer, RefreshPcs, ValidatePcs, LoginPcs, LogoutAllPcs,
      EscalationPcs, At, stored, cached, history
<1>16. ASSUME NEW s \in Sessions,
              \/ Evict(s) \/ SessionExpires(s)
              \/ RowExpires(s)
      PROVE  EscalationInv'
  BY <1>16, <1>c
  DEF Evict, SessionExpires, RowExpires, stored, cached, history
<1>17. CASE \/ TheftCounterExpires \/ RevocationExpires
  BY <1>17, <1>c
  DEF TheftCounterExpires, RevocationExpires, stored, cached, history
<1>18. CASE Restart
  <2>1. Counting' = {}
    BY <1>18 DEF Restart, Counting, At
  <2>2. IsFiniteSet(Counting') /\ Cardinality(Counting') = 0
    BY <2>1, FS_EmptySet
  <2>3. theft' = 0 /\ replays' = replays /\ \A h \in Handlers : pc'[h] = "idle"
    BY <1>18 DEF Restart, history
  <2> QED
    BY <1>n, <2>2, <2>3 DEF EscalationInv, At, EscalationPcs
<1>19. CASE UNCHANGED vars
  BY <1>19, <1>c DEF vars, stored, cached, history
<1> QED
  BY <1>1, <1>2, <1>3, <1>4, <1>5, <1>6, <1>7, <1>8, <1>9, <1>10, <1>11,
      <1>12, <1>13, <1>14, <1>15, <1>16, <1>17, <1>18, <1>19
  DEF Next, Request, Serve, Clock, Fault

\* NothingAheadOfRow, for every number of sessions, goroutines and generations.
THEOREM NothingAheadOfRowCorrect == Spec => []NothingAheadOfRow
<1>1. Init => BehindInv
  BY DEF Init, BehindInv, NoEntry, RefreshPcs, ValidatePcs
<1>2. TypeOK /\ RightsInv /\ BehindInv /\ [Next]_vars => BehindInv'
  BY BehindInductive
<1>3. TypeOK /\ BehindInv => NothingAheadOfRow
  <2> SUFFICES ASSUME TypeOK, BehindInv, NEW s \in Sessions, row[s] > 0
               PROVE  /\ cache[s].gen <= row[s]
                      /\ \A t \in issued : t.sid = s => t.gen <= row[s]
    BY DEF NothingAheadOfRow
  <2>1. row[s] \in Nat /\ cache[s].gen \in Nat /\ \A t \in issued : t.gen \in Nat
    BY DEF TypeOK, StoreTypeOK, ClientTypeOK, CachedSession, Token, Gens
  <2>2. \A g \in Nat : Reached(s, g) => g <= row[s]
    BY <2>1 DEF Reached
  <2>3. cache[s].gen <= row[s]
    BY <2>1, <2>2 DEF BehindInv
  <2>4. \A t \in issued : t.sid = s => t.gen <= row[s]
    BY <2>1, <2>2 DEF BehindInv
  <2> QED
    BY <2>3, <2>4
<1> QED
  BY <1>1, <1>2, <1>3, TypeCorrect, RightsCorrect, PTL DEF Spec

\* EscalationNeedsRepeatedTheft, for every number of goroutines and every
\* threshold.
THEOREM EscalationCorrect == Spec => []EscalationNeedsRepeatedTheft
<1>1. Init => EscalationInv
  <2> SUFFICES ASSUME Init
               PROVE  EscalationInv
    OBVIOUS
  <2>1. Counting = {}
    BY DEF Init, Counting, At
  <2>2. IsFiniteSet(Counting) /\ Cardinality(Counting) = 0
    BY <2>1, FS_EmptySet
  <2> QED
    BY <2>2 DEF Init, EscalationInv, At, EscalationPcs
<1>2. TypeOK /\ EscalationInv /\ [Next]_vars => EscalationInv'
  BY EscalationInductive
<1>3. EscalationInv => EscalationNeedsRepeatedTheft
  BY DEF EscalationInv, EscalationNeedsRepeatedTheft
<1> QED
  BY <1>1, <1>2, <1>3, TypeCorrect, PTL DEF Spec

-------------------------------------------------------------------------------
(* AuthSessions implements SessionRotation: every step of the auth service  *)
(* is a step of the abstract rotation or leaves its variables as they are.   *)

\* The values AuthSessions gives to owed and delivered.
Owed == {right \in Sessions \X Gens :
           \E h \in Handlers : Holds(h, right[1], right[2])}
Delivered == {right \in Sessions \X Gens : pairs[right[1]][right[2]] > 0}

\* The labels at which a goroutine has a right to a pair.
RightPcs == LoginPcs \union {"r_put"}

\* A step of h touches the rights of no other goroutine.
LEMMA OthersKeepRights ==
  ASSUME ControlTypeOK, NEW h \in Handlers, NEW label, NEW j,
         Step(h, label, j)
  PROVE  \A k \in Handlers \ {h}, s \in Sessions, g \in Gens :
           Holds(k, s, g)' <=> Holds(k, s, g)
  BY DEF ControlTypeOK, Step, Holds, At

\* Neither before nor after does h hold a right when its label carries none.
LEMMA NoRight ==
  ASSUME ControlTypeOK, NEW h \in Handlers
  PROVE  /\ pc[h] \notin RightPcs =>
              \A s \in Sessions, g \in Gens : ~Holds(h, s, g)
         /\ pc'[h] \notin RightPcs =>
              \A s \in Sessions, g \in Gens : ~Holds(h, s, g)'
  BY DEF Holds, At, RightPcs

\* A step between labels without a right leaves what is owed.
LEMMA OwedKept ==
  ASSUME ControlTypeOK, NEW h \in Handlers, NEW label, NEW j,
         Step(h, label, j), pc[h] \notin RightPcs, label \notin RightPcs
  PROVE  Owed' = Owed
<1>1. pc'[h] = label
  BY DEF Step, ControlTypeOK
<1>2. \A k \in Handlers, s \in Sessions, g \in Gens :
        Holds(k, s, g)' <=> Holds(k, s, g)
  BY <1>1, OthersKeepRights, NoRight
<1> QED
  BY <1>2 DEF Owed

\* A step that earns h the right to the pair of s0 and g0 adds it to what is owed.
LEMMA OwedGained ==
  ASSUME ControlTypeOK, NEW h \in Handlers, NEW label, NEW j,
         Step(h, label, j), pc[h] \notin RightPcs,
         NEW s0 \in Sessions, NEW g0 \in Gens,
         \A s \in Sessions, g \in Gens :
           Holds(h, s, g)' <=> s = s0 /\ g = g0
  PROVE  Owed' = Owed \union {<<s0, g0>>}
<1>1. \A k \in Handlers, s \in Sessions, g \in Gens :
        Holds(k, s, g)' <=> Holds(k, s, g) \/ (k = h /\ s = s0 /\ g = g0)
  BY OthersKeepRights, NoRight
<1>2. ASSUME NEW s \in Sessions, NEW g \in Gens
      PROVE  <<s, g>> \in Owed' <=> <<s, g>> \in Owed \union {<<s0, g0>>}
  BY <1>1 DEF Owed
<1> QED
  BY <1>2 DEF Owed

\* Steps that earn and deliver nothing; rights may be lost.
LEMMA LosesAtMost ==
  ASSUME UNCHANGED <<row, opened, pairs>>,
         \A k \in Handlers, s \in Sessions, g \in Gens :
           Holds(k, s, g)' => Holds(k, s, g)
  PROVE  Rotation!Next
<1>1. Owed' \subseteq Owed
  BY DEF Owed
<1>2. Delivered' = Delivered
  BY DEF Delivered
<1>3. Rotation!Lose
  BY <1>1, <1>2 DEF Rotation!Lose, Owed, Delivered
<1> QED
  BY <1>3 DEF Rotation!Next

\* h hands out the pair of s0 and g0, the only one it has a right to, and every
\* other goroutine keeps its rights.
HandsOut(h, s0, g0) ==
  /\ \A s \in Sessions, g \in Gens : Holds(h, s, g) <=> s = s0 /\ g = g0
  /\ \A k \in Handlers, s \in Sessions, g \in Gens :
       Holds(k, s, g)' <=> k # h /\ Holds(k, s, g)
  /\ pairs' = [pairs EXCEPT ![s0][g0] = @ + 1]
  /\ UNCHANGED <<row, opened>>

\* Handing out a pair delivers the right to it.
LEMMA Delivers ==
  ASSUME ClientTypeOK, RightsInv,
         NEW h \in Handlers, NEW s0 \in Sessions, NEW g0 \in Gens,
         HandsOut(h, s0, g0)
  PROVE  Rotation!Next
<1> USE DEF HandsOut
<1>1. \A s \in Sessions, g \in Gens :
        pairs'[s][g] > 0 <=> pairs[s][g] > 0 \/ (s = s0 /\ g = g0)
  <2>1. pairs[s0][g0] = 0
    BY DEF RightsInv
  <2>2. pairs'[s0] = [pairs[s0] EXCEPT ![g0] = pairs[s0][g0] + 1]
    BY DEF ClientTypeOK
  <2>3. \A s \in Sessions : s # s0 => pairs'[s] = pairs[s]
    BY DEF ClientTypeOK
  <2>4. pairs[s0] \in [Gens -> Nat]
    BY DEF ClientTypeOK
  <2>5. \A g \in Gens : pairs'[s0][g] = IF g = g0 THEN 1 ELSE pairs[s0][g]
    BY <2>1, <2>2, <2>4
  <2> QED
    BY <2>3, <2>5
<1>2. <<s0, g0>> \in Owed /\ <<s0, g0>> \notin Delivered
  BY DEF Owed, Delivered, RightsInv
<1>3. Delivered' = Delivered \union {<<s0, g0>>}
  <2>1. ASSUME NEW s \in Sessions, NEW g \in Gens
        PROVE  <<s, g>> \in Delivered' <=>
                 <<s, g>> \in Delivered \union {<<s0, g0>>}
    BY <1>1 DEF Delivered
  <2> QED
    BY <2>1 DEF Delivered
<1>4. Owed' = Owed \ {<<s0, g0>>}
  <2>1. ASSUME NEW s \in Sessions, NEW g \in Gens
        PROVE  (\E k \in Handlers : Holds(k, s, g)') <=>
                 (\E k \in Handlers : Holds(k, s, g)) /\ ~(s = s0 /\ g = g0)
    BY DEF RightsInv
  <2>2. ASSUME NEW s \in Sessions, NEW g \in Gens
        PROVE  <<s, g>> \in Owed' <=> <<s, g>> \in Owed \ {<<s0, g0>>}
    BY <2>1 DEF Owed
  <2> QED
    BY <2>2 DEF Owed
<1>5. Rotation!Deliver(<<s0, g0>>)
  BY <1>2, <1>3, <1>4 DEF Rotation!Deliver, Owed, Delivered
<1> QED
  BY <1>2, <1>5 DEF Rotation!Next, Owed

\* Every step of AuthSessions is one of SessionRotation, or stutters.
LEMMA StepImplements ==
  ASSUME TypeOK, RightsInv, [Next]_vars
  PROVE  [Rotation!Next]_Rotation!vars
<1> USE DEF RightPcs, LoginPcs
<1>t. StoreTypeOK /\ ControlTypeOK /\ ClientTypeOK
  BY DEF TypeOK
<1>a. \A h \in Handlers : \A label :
        label \notin RightPcs /\ (\E j : Step(h, label, j)) =>
          \A k \in Handlers, s \in Sessions, g \in Gens :
            Holds(k, s, g)' => k # h /\ Holds(k, s, g)
  BY <1>t, RightsAfterStep
<1>b. UNCHANGED <<pc, job>> =>
        \A k \in Handlers, s \in Sessions, g \in Gens :
          Holds(k, s, g)' <=> Holds(k, s, g)
  BY DEF Holds, At
<1>d. ASSUME NEW h \in Handlers
      PROVE  /\ job[h].sid \in Sessions /\ job[h].gen \in Gens
             /\ pc[h] \in RefreshPcs => job[h].gen + 1 \in Gens
  <2>1. job[h] \in Job
    BY <1>t DEF ControlTypeOK
  <2> QED
    BY <1>t, <2>1, BoundsAssumption DEF ControlTypeOK, Job, Gens
<1>e. 1 \in Gens
  BY BoundsAssumption DEF Gens
<1>1. ASSUME NEW h \in Handlers, NEW s \in Sessions, StoreSession(h, s)
      PROVE  Rotation!Next
  <2> DEFINE j == [Blank EXCEPT !.sid = s]
  <2>1. j.sid = s
    BY BlankIsJob DEF Job
  <2>2. Step(h, "l_rev", j) /\ pc[h] \notin RightPcs
    BY <1>1 DEF StoreSession, At
  <2>3. \A r \in Sessions, g \in Gens : Holds(h, r, g)' <=> r = s /\ g = 1
    BY <1>t, <2>1, <2>2 DEF ControlTypeOK, Step, Holds, At
  <2>4. Owed' = Owed \union {<<s, 1>>}
    BY <1>t, <1>e, <2>2, <2>3, OwedGained
  <2>5. Delivered' = Delivered
    BY <1>1 DEF StoreSession, Delivered
  <2>6. Rotation!Open(s)
    BY <1>1, <2>4, <2>5 DEF StoreSession, Rotation!Open, Owed, Delivered
  <2> QED
    BY <2>6 DEF Rotation!Next
<1>2. ASSUME NEW h \in Handlers, NEW t \in issued, ReplayOnHit(h, t)
      PROVE  Rotation!Next
  BY <1>2, <1>a, LosesAtMost
  DEF ReplayOnHit, DetectReplay, stored, cached, history
<1>3. ASSUME NEW h \in Handlers, NEW t \in issued,
             \/ RefreshOnHit(h, t) \/ RefreshOnMiss(h, t)
             \/ ValidateOnMiss(h, t)
      PROVE  Rotation!Next
  BY <1>3, <1>a, LosesAtMost
  DEF RefreshOnHit, RefreshOnMiss, ValidateOnMiss, Accept, stored, cached,
      history
<1>4. ASSUME NEW h \in Handlers, NEW t \in issued, Logout(h, t)
      PROVE  Rotation!Next
  BY <1>4, <1>b, LosesAtMost
  DEF Logout, stored, cached, history
<1>5. ASSUME NEW h \in Handlers,
             \/ LogoutAllDevices(h) \/ RefreshSessionGone(h)
             \/ RefreshGetSession(h) \/ RefreshRevoked(h)
             \/ ConcurrentRotation(h) \/ ValidateGetSession(h)
             \/ ValidateFill(h) \/ LogoutAllBumpWrite(h)
             \/ TheftMark(h) \/ TheftBumpWrite(h)
             \/ TheftClearKeys(h) \/ TheftEvict(h)
             \/ CallFails(h) \/ MintFails(h) \/ TheftBumpFails(h)
             \/ DeleteSessionFails(h)
      PROVE  Rotation!Next
  BY <1>5, <1>a, LosesAtMost
  DEF LogoutAllDevices, RefreshSessionGone, RefreshGetSession, RefreshRevoked,
      ConcurrentRotation, ValidateGetSession, ValidateFill,
      LogoutAllBumpWrite, TheftMark, TheftBumpWrite, TheftClearKeys,
      TheftEvict, CallFails, MintFails, TheftBumpFails, DeleteSessionFails,
      Answer, Goto, stored, cached, history
<1>6. ASSUME NEW h \in Handlers, LoginGetRevocation(h)
      PROVE  Rotation!Next
  <2>1. Seen(h).sid = job[h].sid
    BY <1>t DEF Seen, ControlTypeOK, Job
  <2>2. \A k \in Handlers, s \in Sessions, g \in Gens :
          Holds(k, s, g)' => Holds(k, s, g)
    BY <1>6, <1>t, <2>1 DEF LoginGetRevocation, ControlTypeOK, Step, Holds, At
  <2> QED
    BY <1>6, <2>2, LosesAtMost DEF LoginGetRevocation, stored, history
<1>7. ASSUME NEW h \in Handlers, LoginMint(h) \/ RefreshMint(h)
      PROVE  Rotation!Next
  <2>1. Step(h, "idle", Blank)
    BY <1>7 DEF LoginMint, RefreshMint, Answer
  <2>2. PICK s0 \in Sessions, g0 \in Gens :
          /\ \A s \in Sessions, g \in Gens :
               Holds(h, s, g) <=> s = s0 /\ g = g0
          /\ pairs' = [pairs EXCEPT ![s0][g0] = @ + 1]
    BY <1>7, <1>d, <1>e
    DEF LoginMint, RefreshMint, Mint, Holds, At, RefreshPcs
  <2>3. \A k \in Handlers, s \in Sessions, g \in Gens :
          Holds(k, s, g)' <=> k # h /\ Holds(k, s, g)
    BY <1>t, <1>a, <2>1, OthersKeepRights
  <2>4. UNCHANGED <<row, opened>>
    BY <1>7 DEF LoginMint, RefreshMint, stored
  <2>5. HandsOut(h, s0, g0)
    BY <2>2, <2>3, <2>4 DEF HandsOut
  <2> QED
    BY <1>t, <2>5, Delivers
<1>8. ASSUME NEW h \in Handlers, ReplayOnRow(h)
      PROVE  Rotation!Next
  BY <1>8, <1>a, LosesAtMost
  DEF ReplayOnRow, DetectReplay, stored, cached, history
<1>9. ASSUME NEW h \in Handlers,
             \/ RefreshGetRevocation(h) \/ ValidateGetRevocation(h)
             \/ TheftCount(h)
      PROVE  Rotation!Next
  BY <1>9, <1>a, LosesAtMost
  DEF RefreshGetRevocation, ValidateGetRevocation, TheftCount, Seen, Answer,
      Goto, stored, cached, history
<1>10. ASSUME NEW h \in Handlers, AtomicBumpGen(h)
      PROVE  Rotation!Next
  <2> DEFINE s0 == job[h].sid
             g0 == job[h].gen + 1
  <2>1. s0 \in Sessions /\ g0 \in Gens /\ job[h].gen \in Gens
    BY <1>10, <1>d DEF AtomicBumpGen, At, RefreshPcs
  <2>2. /\ row[s0] = job[h].gen /\ row' = [row EXCEPT ![s0] = g0]
        /\ UNCHANGED <<opened, pairs>>
    BY <1>10 DEF AtomicBumpGen, GenIs, history
  <2>3. Step(h, "r_put", job[h]) /\ pc[h] \notin RightPcs
    BY <1>10 DEF AtomicBumpGen, Goto, At
  <2>4. \A s \in Sessions, g \in Gens : Holds(h, s, g)' <=> s = s0 /\ g = g0
    BY <1>t, <2>3 DEF ControlTypeOK, Step, Holds, At
  <2> HIDE DEF s0, g0
  <2>5. Owed' = Owed \union {<<s0, g0>>}
    BY <1>t, <2>1, <2>3, <2>4, OwedGained
  <2>6. Delivered' = Delivered
    BY <2>2 DEF Delivered
  <2>7. row[s0] > 0 /\ g0 = row[s0] + 1
    BY <2>1, <2>2 DEF g0, Gens
  <2>8. Rotation!Rotate(s0)
    BY <2>2, <2>5, <2>6, <2>7 DEF Rotation!Rotate, Owed, Delivered
  <2> QED
    BY <2>1, <2>8 DEF Rotation!Next
<1>11. ASSUME NEW h \in Handlers,
              \/ LogoutAllBumpRead(h) \/ TheftBumpRead(h)
      PROVE  Rotation!Next
  BY <1>11, <1>a, LosesAtMost
  DEF LogoutAllBumpRead, TheftBumpRead, BumpRead, stored, cached, history
<1>12. ASSUME NEW h \in Handlers, DeleteSession(h)
      PROVE  Rotation!Next
  <2>1. Owed' = Owed
    BY <1>12, <1>t, OwedKept DEF DeleteSession, Goto, At
  <2>2. Delivered' = Delivered
    BY <1>12 DEF DeleteSession, history, Delivered
  <2>3. Rotation!Kill(job[h].sid)
    BY <1>12, <2>1, <2>2 DEF DeleteSession, history, Rotation!Kill, Owed, Delivered
  <2> QED
    BY <1>d, <2>3 DEF Rotation!Next
<1>13. ASSUME NEW h \in Handlers, BumpGenTimesOut(h)
      PROVE  Rotation!Next
  <2> DEFINE s0 == job[h].sid
  <2>1. s0 \in Sessions /\ row[s0] > 0 /\ row[s0] = job[h].gen
    BY <1>13, <1>d DEF BumpGenTimesOut, GenIs, Gens
  <2>2. row' = [row EXCEPT ![s0] = row[s0] + 1] /\ UNCHANGED <<opened, pairs>>
    BY <1>13, <2>1 DEF BumpGenTimesOut, history
  <2>3. Owed' = Owed
    BY <1>13, <1>t, OwedKept DEF BumpGenTimesOut, Answer, At
  <2>4. Delivered' = Delivered
    BY <2>2 DEF Delivered
  <2> HIDE DEF s0
  <2>5. Rotation!Rotate(s0)
    BY <2>1, <2>2, <2>3, <2>4 DEF Rotation!Rotate, Owed, Delivered
  <2> QED
    BY <2>1, <2>5 DEF Rotation!Next
<1>14. ASSUME NEW s \in Sessions, RowExpires(s)
      PROVE  Rotation!Next
  <2>1. Owed' = Owed
    BY <1>14, <1>b DEF RowExpires, Owed
  <2>2. Delivered' = Delivered
    BY <1>14 DEF RowExpires, history, Delivered
  <2>3. Rotation!Kill(s)
    BY <1>14, <2>1, <2>2 DEF RowExpires, history, Rotation!Kill, Owed, Delivered
  <2> QED
    BY <2>3 DEF Rotation!Next
<1>15. ASSUME NEW s \in Sessions, Evict(s) \/ SessionExpires(s)
      PROVE  Rotation!Next
  BY <1>15, <1>b, LosesAtMost DEF Evict, SessionExpires, stored, history
<1>16. CASE TheftCounterExpires \/ RevocationExpires
  BY <1>16, <1>b, LosesAtMost
  DEF TheftCounterExpires, RevocationExpires, stored, history
<1>17. CASE Restart
  BY <1>17, LosesAtMost DEF Restart, Holds, At, stored, history
<1>18. CASE UNCHANGED vars
  BY <1>18, <1>b, LosesAtMost DEF vars, stored, history
<1> QED
  BY <1>1, <1>2, <1>3, <1>4, <1>5, <1>6, <1>7, <1>8, <1>9, <1>10, <1>11,
      <1>12, <1>13, <1>14, <1>15, <1>16, <1>17, <1>18
  DEF Next, Request, Serve, Clock, Fault

\* RotationSpec: AuthSessions implements SessionRotation, for every number of
\* sessions, goroutines and generations.
THEOREM RotationImplemented == Spec => RotationSpec
<1>1. Init => Rotation!Init
  BY DEF Init, Rotation!Init, Holds, At, LoginPcs, Gens
<1>2. TypeOK /\ RightsInv /\ [Next]_vars => [Rotation!Next]_Rotation!vars
  BY StepImplements
<1> QED
  BY <1>1, <1>2, TypeCorrect, RightsCorrect, PTL
  DEF Spec, RotationSpec, Rotation!Spec

-------------------------------------------------------------------------------
(* While no call fails, the pair of the current generation was handed out    *)
(* or a goroutine is about to hand it out.                                   *)

\* A step from a label without a right takes no right away.
LEMMA RightsStay ==
  ASSUME ControlTypeOK, NEW h \in Handlers, NEW label, NEW j,
         Step(h, label, j), pc[h] \notin RightPcs
  PROVE  \A k \in Handlers, s \in Sessions, g \in Gens :
           Holds(k, s, g) => Holds(k, s, g)'
  BY OthersKeepRights, NoRight

\* Steps that mint no pair and take no right away; a row may go.
LEMMA PairKept ==
  ASSUME StoreTypeOK, CurrentPairExists,
         \A k \in Handlers, s \in Sessions, g \in Gens :
           Holds(k, s, g) => Holds(k, s, g)',
         UNCHANGED pairs,
         \A s \in Sessions : row'[s] \in {0, row[s]}
  PROVE  CurrentPairExists'
<1> SUFFICES ASSUME NEW s \in Sessions, row'[s] > 0
             PROVE  \/ pairs'[s][row'[s]] = 1
                    \/ \E h \in Handlers : Holds(h, s, row[s])'
  BY DEF CurrentPairExists
<1>1. row'[s] = row[s] /\ row[s] \in Gens
  BY DEF StoreTypeOK, Gens
<1>2. CASE pairs[s][row[s]] = 1
  BY <1>1, <1>2
<1>3. ASSUME NEW h \in Handlers, Holds(h, s, row[s])
      PROVE  Holds(h, s, row[s])'
  <2>1. Holds(h, s, row[s]) => Holds(h, s, row[s])'
    BY <1>1 DEF Holds, At
  <2> QED
    BY <1>3, <2>1
<1> QED
  BY <1>1, <1>2, <1>3 DEF CurrentPairExists

\* A step in which goroutine h earns the right to the pair of the generation the
\* row of s0 moves to.
LEMMA PairEarned ==
  ASSUME StoreTypeOK, CurrentPairExists,
         NEW h \in Handlers, NEW s0 \in Sessions, NEW g0 \in Gens,
         Holds(h, s0, g0)',
         \A k \in Handlers, s \in Sessions, g \in Gens :
           Holds(k, s, g) => Holds(k, s, g)',
         UNCHANGED pairs,
         row' = [row EXCEPT ![s0] = g0]
  PROVE  CurrentPairExists'
<1> SUFFICES ASSUME NEW s \in Sessions, row'[s] > 0
             PROVE  \/ pairs'[s][row'[s]] = 1
                    \/ \E k \in Handlers : Holds(k, s, row[s])'
  BY DEF CurrentPairExists
<1>1. CASE s = s0
  <2>1. row'[s] = g0
    BY <1>1 DEF StoreTypeOK
  <2>2. Holds(h, s0, g0)' => Holds(h, s, row[s])'
    BY <1>1, <2>1 DEF Holds, At
  <2> QED
    BY <2>2
<1>2. CASE s # s0
  <2>1. row'[s] = row[s] /\ row[s] \in Gens
    BY <1>2 DEF StoreTypeOK, Gens
  <2>2. ASSUME NEW k \in Handlers, Holds(k, s, row[s])
        PROVE  Holds(k, s, row[s])'
    <3>1. Holds(k, s, row[s]) => Holds(k, s, row[s])'
      BY <2>1 DEF Holds, At
    <3> QED
      BY <2>2, <3>1
  <2> QED
    BY <2>1, <2>2 DEF CurrentPairExists
<1> QED
  BY <1>1, <1>2

\* A step in which goroutine h hands out the pair it has a right to.
LEMMA PairHandedOut ==
  ASSUME TypeOK, RightsInv, CurrentPairExists,
         NEW h \in Handlers, NEW s0 \in Sessions, NEW g0 \in Gens,
         HandsOut(h, s0, g0)
  PROVE  CurrentPairExists'
<1> USE DEF HandsOut, TypeOK
<1> SUFFICES ASSUME NEW s \in Sessions, row'[s] > 0
             PROVE  \/ pairs'[s][row'[s]] = 1
                    \/ \E k \in Handlers : Holds(k, s, row[s])'
  BY DEF CurrentPairExists
<1>0. pairs[s0][g0] = 0
  BY DEF RightsInv
<1>1. row'[s] = row[s] /\ row[s] \in Gens
  BY DEF StoreTypeOK, Gens
<1> DEFINE g == row[s]
<1>2. CASE s = s0 /\ g = g0
  <2>1. pairs'[s0] = [pairs[s0] EXCEPT ![g0] = pairs[s0][g0] + 1]
    BY DEF ClientTypeOK
  <2>2. pairs[s0] \in [Gens -> Nat]
    BY DEF ClientTypeOK
  <2>3. pairs'[s0][g0] = 1
    BY <1>0, <2>1, <2>2
  <2> QED
    BY <1>1, <1>2, <2>3
<1>3. CASE ~(s = s0 /\ g = g0)
  <2>1. pairs'[s][g] = pairs[s][g]
    BY <1>1, <1>3 DEF ClientTypeOK
  <2>2. ASSUME NEW k \in Handlers, Holds(k, s, g)
        PROVE  Holds(k, s, row[s])'
    <3>1. k # h
      BY <1>1, <1>3, <2>2
    <3>2. Holds(k, s, g) => Holds(k, s, row[s])'
      BY <1>1, <3>1 DEF Holds, At
    <3> QED
      BY <2>2, <3>2
  <2> QED
    BY <1>1, <2>1, <2>2 DEF CurrentPairExists
<1> QED
  BY <1>2, <1>3

\* While no call fails and the process stays up, every step keeps the pair of the
\* current generation handed out or owed.
LEMMA PairInductive ==
  ASSUME ~Faulty, TypeOK, RightsInv, CurrentPairExists, [Next]_vars
  PROVE  CurrentPairExists'
<1> USE DEF RightPcs, LoginPcs
<1>t. StoreTypeOK /\ ControlTypeOK /\ ClientTypeOK
  BY DEF TypeOK
<1>a. ASSUME NEW h \in Handlers, NEW label, NEW j, Step(h, label, j),
             pc[h] \notin RightPcs, UNCHANGED pairs,
             \A s \in Sessions : row'[s] \in {0, row[s]}
      PROVE  CurrentPairExists'
  BY <1>t, <1>a, RightsStay, PairKept
<1>b. ASSUME UNCHANGED <<pc, job, pairs>>,
             \A s \in Sessions : row'[s] \in {0, row[s]}
      PROVE  CurrentPairExists'
  BY <1>t, <1>b, PairKept DEF Holds, At
<1>d. ASSUME NEW h \in Handlers
      PROVE  /\ job[h].sid \in Sessions /\ job[h].gen \in Gens
             /\ pc[h] \in RefreshPcs => job[h].gen + 1 \in Gens
  <2>1. job[h] \in Job
    BY <1>t DEF ControlTypeOK
  <2> QED
    BY <1>t, <2>1, BoundsAssumption DEF ControlTypeOK, Job, Gens
<1>e. 1 \in Gens
  BY BoundsAssumption DEF Gens
<1>1. ASSUME NEW h \in Handlers, NEW s \in Sessions, StoreSession(h, s)
      PROVE  CurrentPairExists'
  <2> DEFINE j == [Blank EXCEPT !.sid = s]
  <2>1. j.sid = s
    BY BlankIsJob DEF Job
  <2>2. Step(h, "l_rev", j) /\ pc[h] \notin RightPcs
    BY <1>1 DEF StoreSession, At
  <2>3. Holds(h, s, 1)'
    BY <1>t, <2>1, <2>2 DEF ControlTypeOK, Step, Holds, At
  <2>4. \A k \in Handlers, r \in Sessions, g \in Gens :
          Holds(k, r, g) => Holds(k, r, g)'
    BY <1>t, <2>2, RightsStay
  <2>5. row' = [row EXCEPT ![s] = 1] /\ UNCHANGED pairs
    BY <1>1 DEF StoreSession
  <2> QED
    BY <1>t, <1>e, <2>3, <2>4, <2>5, PairEarned
<1>2. ASSUME NEW h \in Handlers, NEW t \in issued,
             \/ ReplayOnHit(h, t) \/ RefreshOnHit(h, t)
             \/ RefreshOnMiss(h, t) \/ ValidateOnMiss(h, t)
      PROVE  CurrentPairExists'
  BY <1>2, <1>a
  DEF ReplayOnHit, RefreshOnHit, RefreshOnMiss, ValidateOnMiss, DetectReplay,
      Accept, At, stored, history
<1>3. ASSUME NEW h \in Handlers, NEW t \in issued, Logout(h, t)
      PROVE  CurrentPairExists'
  BY <1>3, <1>b DEF Logout, stored
<1>4. ASSUME NEW h \in Handlers,
             \/ LogoutAllDevices(h) \/ RefreshSessionGone(h)
             \/ RefreshGetSession(h) \/ RefreshRevoked(h)
             \/ ConcurrentRotation(h) \/ ValidateGetSession(h)
             \/ ValidateFill(h) \/ TheftMark(h)
             \/ TheftClearKeys(h) \/ TheftEvict(h)
      PROVE  CurrentPairExists'
  BY <1>4, <1>a
  DEF LogoutAllDevices, RefreshSessionGone, RefreshGetSession,
      RefreshRevoked, ConcurrentRotation, ValidateGetSession, ValidateFill,
      TheftMark, TheftClearKeys, TheftEvict, Answer, Goto, At, stored, history
<1>5. ASSUME NEW h \in Handlers,
             \/ RefreshGetRevocation(h) \/ ValidateGetRevocation(h)
             \/ TheftCount(h) \/ ReplayOnRow(h)
      PROVE  CurrentPairExists'
  BY <1>5, <1>a
  DEF RefreshGetRevocation, ValidateGetRevocation, TheftCount, ReplayOnRow,
      DetectReplay, Answer, At, stored, history
<1>6. ASSUME NEW h \in Handlers,
             \/ LogoutAllBumpRead(h) \/ TheftBumpRead(h)
             \/ LogoutAllBumpWrite(h) \/ TheftBumpWrite(h)
      PROVE  CurrentPairExists'
  BY <1>6, <1>a
  DEF LogoutAllBumpRead, TheftBumpRead, LogoutAllBumpWrite, TheftBumpWrite,
      BumpRead, Answer, Goto, At, stored, history
<1>7. ASSUME NEW h \in Handlers, DeleteSession(h)
      PROVE  CurrentPairExists'
  BY <1>7, <1>a, <1>t DEF DeleteSession, Goto, At, StoreTypeOK, history
<1>8. ASSUME NEW h \in Handlers, LoginGetRevocation(h)
      PROVE  CurrentPairExists'
  <2>1. Seen(h).sid = job[h].sid
    BY <1>t DEF Seen, ControlTypeOK, Job
  <2>2. Step(h, "l_put", Seen(h)) /\ At(h, "l_rev")
    BY <1>8 DEF LoginGetRevocation
  <2>3. \A k \in Handlers, s \in Sessions, g \in Gens :
          Holds(k, s, g) => Holds(k, s, g)'
    BY <1>t, <2>1, <2>2 DEF ControlTypeOK, Step, Holds, At
  <2> QED
    BY <1>8, <1>t, <2>3, PairKept DEF LoginGetRevocation, stored, history
<1>9. ASSUME NEW h \in Handlers, LoginMint(h) \/ RefreshMint(h)
      PROVE  CurrentPairExists'
  <2>1. Answer(h) /\ pc[h] \in RightPcs
    BY <1>9 DEF LoginMint, RefreshMint, At
  <2>2. PICK g0 \in Gens :
          /\ \A s \in Sessions, g \in Gens :
               Holds(h, s, g) <=> s = job[h].sid /\ g = g0
          /\ pairs' = [pairs EXCEPT ![job[h].sid][g0] = @ + 1]
    BY <1>9, <1>d, <1>e
    DEF LoginMint, RefreshMint, Mint, Holds, At, RefreshPcs
  <2>3. \A k \in Handlers, s \in Sessions, g \in Gens :
          Holds(k, s, g)' <=> k # h /\ Holds(k, s, g)
    BY <1>t, <2>1, OthersKeepRights, RightsAfterStep DEF Answer
  <2>4. UNCHANGED <<row, opened>>
    BY <1>9 DEF LoginMint, RefreshMint, stored
  <2>5. HandsOut(h, job[h].sid, g0)
    BY <2>2, <2>3, <2>4 DEF HandsOut
  <2> QED
    BY <1>d, <2>5, PairHandedOut
<1>10. ASSUME NEW h \in Handlers, AtomicBumpGen(h)
      PROVE  CurrentPairExists'
  <2> DEFINE s0 == job[h].sid
             g0 == job[h].gen + 1
  <2>1. s0 \in Sessions /\ g0 \in Gens
    BY <1>10, <1>d DEF AtomicBumpGen, At, RefreshPcs
  <2>2. row' = [row EXCEPT ![s0] = g0] /\ UNCHANGED pairs
    BY <1>10 DEF AtomicBumpGen, history
  <2>3. Step(h, "r_put", job[h]) /\ pc[h] \notin RightPcs
    BY <1>10 DEF AtomicBumpGen, Goto, At
  <2>4. \A k \in Handlers, s \in Sessions, g \in Gens :
          Holds(k, s, g) => Holds(k, s, g)'
    BY <1>t, <2>3, RightsStay
  <2>5. \A s, g : s = s0 /\ g = g0 => Holds(h, s, g)'
    BY <1>t, <2>3 DEF ControlTypeOK, Step, Holds, At
  <2>6. PICK s \in Sessions, g \in Gens : s = s0 /\ g = g0
    BY <2>1
  <2>7. Holds(h, s, g)' /\ row' = [row EXCEPT ![s] = g]
    BY <2>2, <2>5, <2>6
  <2> QED
    BY <1>t, <2>2, <2>4, <2>7, PairEarned
<1>11. ASSUME NEW s \in Sessions,
              \/ Evict(s) \/ SessionExpires(s) \/ RowExpires(s)
      PROVE  CurrentPairExists'
  BY <1>11, <1>b, <1>t
  DEF Evict, SessionExpires, RowExpires, StoreTypeOK, stored, history
<1>12. CASE \/ TheftCounterExpires \/ RevocationExpires
  BY <1>12, <1>b DEF TheftCounterExpires, RevocationExpires, stored, history
<1>13. CASE UNCHANGED vars
  BY <1>13, <1>b DEF vars, stored, history
<1> QED
  BY <1>1, <1>2, <1>3, <1>4, <1>5, <1>6, <1>7, <1>8, <1>9, <1>10, <1>11,
      <1>12, <1>13
  DEF Next, Request, Serve, Clock, Fault

\* CurrentPairExists, for every number of sessions, goroutines and generations,
\* while no database call fails and the process stays up.
THEOREM CurrentPairCorrect ==
  ASSUME ~Faulty
  PROVE  Spec => []CurrentPairExists
<1>1. Init => CurrentPairExists
  BY DEF Init, CurrentPairExists
<1>2. TypeOK /\ RightsInv /\ CurrentPairExists /\ [Next]_vars
        => CurrentPairExists'
  BY PairInductive
<1> QED
  BY <1>1, <1>2, TypeCorrect, RightsCorrect, PTL DEF Spec

===============================================================================
