-------------------------- MODULE OrderGateProofs --------------------------
(***************************************************************************)
(* What an order has to pass: the RiskManager, for every universe, limit   *)
(* and input, and the limiter in front of the broker, which keeps both     *)
(* limits for every setting of its parameters and however long a sleep     *)
(* overshoots.                                                             *)
(***************************************************************************)
EXTENDS RiskManager, RateLimiter, FiniteSetTheorems, TLAPS

\* The held symbols are finitely many, so their number is a natural number.
LEMMA HeldFinite ==
    ASSUME NEW pos \in [Symbols -> Nat]
    PROVE  /\ IsFiniteSet(HeldIn(pos))
           /\ Cardinality(HeldIn(pos)) \in Nat
<1>1. IsFiniteSet(HeldIn(pos))
  BY CallerAssumption, FS_Subset DEF HeldIn
<1> QED
  BY <1>1, FS_CardinalityType

\* Buying a symbol adds one to the number of held symbols.
LEMMA HeldAfterEntry ==
    ASSUME NEW pos \in [Symbols -> Nat], NEW s \in Symbols, NEW qty \in Nat,
           qty > 0, s \notin HeldIn(pos)
    PROVE  Cardinality(HeldIn([pos EXCEPT ![s] = qty])) = Cardinality(HeldIn(pos)) + 1
<1>1. HeldIn([pos EXCEPT ![s] = qty]) = HeldIn(pos) \union {s}
  BY DEF HeldIn
<1> QED
  BY <1>1, HeldFinite, FS_AddElement

\* Selling a held symbol takes one from the number of held symbols.
LEMMA HeldAfterExit ==
    ASSUME NEW pos \in [Symbols -> Nat], NEW s \in HeldIn(pos)
    PROVE  Cardinality(HeldIn([pos EXCEPT ![s] = 0])) = Cardinality(HeldIn(pos)) - 1
<1>1. HeldIn([pos EXCEPT ![s] = 0]) = HeldIn(pos) \ {s}
  BY DEF HeldIn
<1> QED
  BY <1>1, HeldFinite, FS_RemoveElement DEF HeldIn

\* Nothing is held in the empty book.
LEMMA HeldNothing == Cardinality(HeldIn(NoPositions)) = 0
<1>1. HeldIn(NoPositions) = {}
  BY DEF HeldIn, NoPositions
<1> QED
  BY <1>1, FS_EmptySet

\* The quantity a price buys is a natural number.
LEMMA EntryQtyType ==
    ASSUME startingCapital \in Nat, NEW price \in Prices
    PROVE  EntryQty(price) \in Nat
<1> DEFINE target == startingCapital * PositionPct
<1>1. target \in Nat
  BY RiskConfigAssumption
<1>2. \A n \in Nat, d \in Nat \ {0} : n \div d \in Nat
  OBVIOUS
<1>3. target \div 100 \in Nat
  BY <1>1, <1>2
<1> QED
  BY <1>2, <1>3, CallerAssumption DEF EntryQty, TargetNotional

-----------------------------------------------------------------------------

\* The state keeps its types.
THEOREM RiskTypeCorrect == Spec => []TypeOK
<1>1. Init => TypeOK
  <2> SUFFICES ASSUME Init PROVE TypeOK
    OBVIOUS
  <2>1. haltLogged \in BOOLEAN
    BY DEF Init
  <2>2. positions \in [Symbols -> Nat]
    BY DEF Init, NoPositions
  <2> QED
    BY <2>1, <2>2 DEF Init, TypeOK
<1>2. TypeOK /\ [Next]_vars => TypeOK'
  <2> SUFFICES ASSUME TypeOK, [Next]_vars PROVE TypeOK'
    OBVIOUS
  <2> USE DEF TypeOK
  <2>1. CASE Start
    <3>1. haltLogged' \in BOOLEAN
      BY <2>1 DEF Start, StartSession
    <3>2. positions' \in [Symbols -> Nat]
      BY <2>1 DEF Start, StartSession, NoPositions
    <3> QED
      BY <2>1, <3>1, <3>2, CallerAssumption DEF Start, StartSession
  <2>2. CASE Restore
    <3>1. haltLogged' \in BOOLEAN
      BY <2>2 DEF Restore, RestoreSession
    <3>2. positions' \in [Symbols -> Nat]
      BY <2>2, CallerAssumption DEF Restore, RestoreSession, Snapshots
    <3> QED
      BY <2>2, <3>1, <3>2, CallerAssumption, RiskConfigAssumption
      DEF Restore, RestoreSession
  <2>3. CASE Enter
    <3>1. PICK s \in Symbols, price \in Prices :
              \E qty \in 1..EntryQty(price) : RecordEntry(s, qty)
      BY <2>3 DEF Enter
    <3>2. PICK qty \in 1..EntryQty(price) : RecordEntry(s, qty)
      BY <3>1
    <3>3. qty \in Nat
      BY EntryQtyType
    <3>4. positions' \in [Symbols -> Nat]
      BY <3>2, <3>3 DEF RecordEntry
    <3> QED
      BY <3>2, <3>4 DEF RecordEntry
  <2>4. CASE Exit
    <3>1. PICK s \in Symbols, pnl \in Pnls : RecordExit(s, pnl)
      BY <2>4 DEF Exit
    <3>2. haltLogged' \in BOOLEAN
      BY <3>1 DEF RecordExit
    <3>3. positions' \in [Symbols -> Nat]
      BY <3>1 DEF RecordExit
    <3> QED
      BY <3>1, <3>2, <3>3, CallerAssumption DEF RecordExit
  <2>5. CASE UNCHANGED vars
    BY <2>5 DEF vars
  <2> QED
    BY <2>1, <2>2, <2>3, <2>4, <2>5 DEF Next
<1> QED
  BY <1>1, <1>2, PTL DEF Spec

\* The open positions never outnumber the entries of the day.
THEOREM OpenPositionsWereEntered == Spec => []OpenWithinEntries
<1>1. Init => OpenWithinEntries
  BY HeldNothing DEF Init, OpenWithinEntries, Held
<1>2. TypeOK /\ OpenWithinEntries /\ [Next]_vars => OpenWithinEntries'
  <2> SUFFICES ASSUME TypeOK, OpenWithinEntries, [Next]_vars
               PROVE  OpenWithinEntries'
    OBVIOUS
  <2> USE DEF Held
  <2>1. CASE Start
    BY <2>1, HeldNothing DEF Start, StartSession, OpenWithinEntries
  <2>2. CASE Restore
    BY <2>2, HeldFinite, CallerAssumption
    DEF Restore, RestoreSession, OpenWithinEntries, Snapshots
  <2>3. CASE Enter
    <3>0. PICK s \in Symbols, price \in Prices :
              \E qty \in 1..EntryQty(price) : RecordEntry(s, qty)
      BY <2>3 DEF Enter
    <3>1. PICK qty \in 1..EntryQty(price) : RecordEntry(s, qty)
      BY <3>0
    <3>2. qty \in Nat /\ qty > 0
      BY EntryQtyType DEF TypeOK
    <3>3. Cardinality(HeldIn(positions')) = Cardinality(HeldIn(positions)) + 1
      BY <3>1, <3>2, HeldAfterEntry DEF RecordEntry, TypeOK
    <3> QED
      BY <3>1, <3>3, HeldFinite DEF RecordEntry, TypeOK, OpenWithinEntries
  <2>4. CASE Exit
    <3>1. PICK s \in Symbols, pnl \in Pnls : RecordExit(s, pnl)
      BY <2>4 DEF Exit
    <3>2. Cardinality(HeldIn(positions')) = Cardinality(HeldIn(positions)) - 1
      BY <3>1, HeldAfterExit DEF RecordExit, TypeOK
    <3> QED
      BY <3>1, <3>2, HeldFinite DEF RecordExit, TypeOK, OpenWithinEntries
  <2>5. CASE UNCHANGED vars
    BY <2>5 DEF OpenWithinEntries, vars
  <2> QED
    BY <2>1, <2>2, <2>3, <2>4, <2>5 DEF Next
<1> QED
  BY <1>1, <1>2, RiskTypeCorrect, PTL DEF Spec

\* The entry counter never passes the daily cap.
THEOREM DailyEntryCap == Spec => []EntriesWithinCap
<1>1. Init => EntriesWithinCap
  BY RiskConfigAssumption DEF Init, EntriesWithinCap
<1>2. TypeOK /\ EntriesWithinCap /\ [Next]_vars => EntriesWithinCap'
  BY RiskConfigAssumption
  DEF TypeOK, EntriesWithinCap, Next, vars, Start, StartSession, Restore,
      RestoreSession, Enter, Exit, Approves, RecordEntry, RecordExit
<1> QED
  BY <1>1, <1>2, RiskTypeCorrect, PTL DEF Spec

\* The breaker never trips without being reported.
THEOREM BreakerReported == Spec => []BreakerIsReported
<1> USE DEF BreakerIsReported, IsHalted, HaltThreshold
<1>1. Init => BreakerIsReported
  BY DEF Init
<1>2. BreakerIsReported /\ [Next]_vars => BreakerIsReported'
  <2> SUFFICES ASSUME BreakerIsReported, [Next]_vars PROVE BreakerIsReported'
    OBVIOUS
  <2>1. CASE Start
    <3>1. dailyPnl' = 0
      BY <2>1 DEF Start, StartSession
    <3>2. \A n \in Nat : -(n \div 100) \in Int
      OBVIOUS
    <3>3. startingCapital' * DailyLossPct \in Nat
      BY <2>1, CallerAssumption, RiskConfigAssumption DEF Start, StartSession
    <3>4. ThresholdFor(startingCapital)' \in Int
      BY <3>2, <3>3 DEF ThresholdFor
    <3> QED
      BY <3>1, <3>4
  <2>2. CASE Restore
    BY <2>2 DEF Restore, RestoreSession
  <2>3. CASE Enter
    BY <2>3 DEF Enter, RecordEntry, ThresholdFor
  <2>4. CASE Exit
    BY <2>4 DEF Exit, RecordExit, ThresholdFor
  <2>5. CASE UNCHANGED vars
    BY <2>5 DEF vars, ThresholdFor
  <2> QED
    BY <2>1, <2>2, <2>3, <2>4, <2>5 DEF Next
<1> QED
  BY <1>1, <1>2, PTL DEF Spec

-----------------------------------------------------------------------------
(* The limiter.                                                            *)

\* The two maxima of acquire are bounds of both arguments.
LEMMA MaxBounds ==
    ASSUME NEW x \in Int, NEW y \in Int
    PROVE  /\ Max2(x, y) \in Int
           /\ Max2(x, y) >= x
           /\ Max2(x, y) >= y
  BY DEF Max2

\* An index of a sequence that grew by one is an old one or the new one.
LEMMA OldOrNew ==
    ASSUME NEW k \in Nat, NEW j \in 1..(k + 1)
    PROVE  j <= k \/ j = k + 1
  OBVIOUS

\* A wait is a number of ticks that covers both limits.
LEMMA WaitCovers ==
    ASSUME LimiterTypeOK, NEW h \in 1..(Len(log) + 1)
    PROVE  /\ Wait(h) \in Int
           /\ (h <= Len(log) /\ Len(log) - h + 1 >= MaxCalls)
                 => Wait(h) >= Period - (now - log[h])
           /\ h <= Len(log) => Wait(h) >= MinInterval - (now - log[Len(log)])
           /\ h > Len(log) => Wait(h) = 0
<1> USE LimiterAssumption
<1> DEFINE w == WaitForWindow(h)
           v == WaitForInterval(h)
<1>1. h \in Int /\ now \in Int /\ Len(log) \in Nat
  BY DEF LimiterTypeOK
<1>2. ASSUME h <= Len(log)
      PROVE  log[h] \in Nat /\ log[Len(log)] \in Nat
  BY <1>1, <1>2 DEF LimiterTypeOK
<1>3. CASE h > Len(log)
  <2>1. w = 0
    BY <1>1, <1>3 DEF WaitForWindow
  <2>2. v = 0
    BY <1>1, <1>3 DEF WaitForInterval
  <2> QED
    BY <1>1, <1>3, <2>1, <2>2 DEF Wait, Max2
<1>4. CASE h <= Len(log)
  <2> DEFINE x == Period - (now - log[h])
             y == MinInterval - (now - log[Len(log)])
  <2>1. x \in Int /\ y \in Int
    BY <1>1, <1>2, <1>4
  <2>2. v = Max2(0, y)
    BY <1>1, <1>4 DEF WaitForInterval
  <2>3. w = (IF Len(log) - h + 1 < MaxCalls THEN 0 ELSE Max2(0, x))
    BY DEF WaitForWindow
  <2>4. Wait(h) = Max2(w, v)
    BY DEF Wait
  <2>a. \A p, q \in Int : Max2(p, q) \in Int /\ Max2(p, q) >= p /\ Max2(p, q) >= q
    BY MaxBounds
  <2> HIDE DEF w, v, x, y
  <2>5. v \in Int /\ v >= y
    BY <2>1, <2>2, MaxBounds
  <2>6. w \in Int /\ (Len(log) - h + 1 >= MaxCalls => w >= x)
    <3>1. CASE Len(log) - h + 1 < MaxCalls
      BY <1>1, <2>3, <3>1
    <3>2. CASE ~(Len(log) - h + 1 < MaxCalls)
      <4>1. w = Max2(0, x)
        BY <2>3, <3>2
      <4> QED
        BY <2>1, <4>1, MaxBounds
    <3> QED
      BY <3>1, <3>2
  <2>7. Wait(h) \in Int /\ Wait(h) >= w /\ Wait(h) >= v
    BY <2>4, <2>5, <2>6, <2>a, Zenon
  <2>8. /\ Len(log) - h + 1 >= MaxCalls => Wait(h) >= x
        /\ Wait(h) >= y
    BY <2>1, <2>5, <2>6, <2>7
  <2> QED
    BY <1>1, <1>4, <2>7, <2>8 DEF x, y
<1> QED
  BY <1>1, <1>3, <1>4

\* Appending a stamp late enough after the last one and after the oldest one
\* of a full deque keeps both limits and the length of the deque.
LEMMA AppendKeeps ==
    ASSUME LimiterInv,
           NEW h \in head..(Len(log) + 1),
           \A i \in 1..(h - 1) : now - log[i] >= Period,
           Len(log) - h + 1 < MaxCalls,
           Len(log) > 0 => now - log[Len(log)] >= MinInterval,
           head' = h, log' = Append(log, now), now' = now
    PROVE  /\ log' \in Seq(Nat)
           /\ head' \in 1..(Len(log') + 1)
           /\ StampsInPast' /\ PurgedIsOld' /\ DequeBounded'
           /\ WindowKept' /\ IntervalKept'
<1> USE LimiterAssumption DEF LimiterInv, LimiterTypeOK
<1>1. /\ log' \in Seq(Nat)
      /\ Len(log') = Len(log) + 1
      /\ Len(log) \in Nat /\ h \in Int /\ now \in Nat
      /\ \A i \in 1..Len(log) : log'[i] = log[i]
      /\ log'[Len(log) + 1] = now
  OBVIOUS
<1>2. \A i \in 1..Len(log) : log[i] \in Nat
  OBVIOUS
<1>3. head' \in 1..(Len(log') + 1)
  BY <1>1
<1>4. StampsInPast'
  BY <1>1 DEF StampsInPast
<1>5. PurgedIsOld'
  BY <1>1 DEF PurgedIsOld
<1>6. DequeBounded'
  BY <1>1 DEF DequeBounded, Inflight
<1>7. WindowKept'
  <2> SUFFICES ASSUME NEW i \in 1..Len(log'), NEW j \in 1..Len(log'), j = i + MaxCalls
               PROVE  log'[j] - log'[i] >= Period
    BY DEF WindowKept
  <2>1. CASE j <= Len(log)
    BY <1>1, <2>1 DEF WindowKept
  <2>2. CASE j = Len(log) + 1
    <3>1. i \in 1..(h - 1) /\ i \in 1..Len(log)
      BY <1>1, <2>2
    <3>2. now - log[i] >= Period
      BY <3>1
    <3>3. log'[j] = now /\ log'[i] = log[i]
      BY <1>1, <2>2, <3>1
    <3>4. Period \in Int /\ log[i] \in Int
      BY <1>2, <3>1
    <3> QED
      BY <1>1, <3>2, <3>3, <3>4
  <2>3. j \in 1..(Len(log) + 1)
    BY <1>1
  <2>4. j <= Len(log) \/ j = Len(log) + 1
    BY <1>1, <2>3, OldOrNew, Zenon
  <2> QED
    BY <2>1, <2>2, <2>4
<1>8. IntervalKept'
  <2> SUFFICES ASSUME NEW i \in 1..Len(log'), NEW j \in 1..Len(log'), j = i + 1
               PROVE  log'[j] - log'[i] >= MinInterval
    BY DEF IntervalKept
  <2>1. CASE j <= Len(log)
    BY <1>1, <2>1 DEF IntervalKept
  <2>2. CASE j = Len(log) + 1
    BY <1>1, <2>2
  <2> QED
    BY <1>1, <2>1, <2>2
<1> QED
  BY <1>1, <1>3, <1>4, <1>5, <1>6, <1>7, <1>8

\* The stamps left of a purge point are a period old.
LEMMA PurgeIsOld ==
    ASSUME LimiterInv, NEW h \in 1..(Len(log) + 1), Purged(h)
    PROVE  /\ h \in head..(Len(log) + 1)
           /\ \A i \in 1..(h - 1) : now - log[i] >= Period
           /\ h <= Len(log) => now - log[h] < Period
  BY DEF LimiterInv, LimiterTypeOK, PurgedIsOld, Purged

-----------------------------------------------------------------------------

\* It holds before the first call.
LEMMA LimiterInvInit == LimiterInit => LimiterInv
  BY LimiterAssumption
  DEF LimiterInit, LimiterInv, LimiterTypeOK, StampsInPast, PurgedIsOld, SleepLongEnough,
      DequeBounded, WindowKept, IntervalKept, Inflight, Awake

\* And every step of a call or of the clock keeps it.
LEMMA LimiterInvStep == LimiterInv /\ [LimiterNext]_limiterVars => LimiterInv'
<1> SUFFICES ASSUME LimiterInv, [LimiterNext]_limiterVars PROVE LimiterInv'
  OBVIOUS
<1> USE LimiterAssumption
<1>a. /\ now \in Nat /\ head \in 1..(Len(log) + 1) /\ wakeAt \in Nat \union {Awake}
      /\ \A i \in 1..Len(log) : log[i] \in Nat
  BY DEF LimiterInv, LimiterTypeOK
<1>1. CASE Tick
  BY <1>1, <1>a DEF Tick, LimiterInv, LimiterTypeOK, StampsInPast, PurgedIsOld,
     SleepLongEnough, DequeBounded, WindowKept, IntervalKept, Inflight
<1>2. CASE AcquireNow
  <2>1. PICK h \in 1..(Len(log) + 1) : Purged(h) /\ Wait(h) = 0 /\ head' = h
    BY <1>2 DEF AcquireNow
  <2>2. /\ h \in head..(Len(log) + 1)
        /\ \A i \in 1..(h - 1) : now - log[i] >= Period
        /\ h <= Len(log) => now - log[h] < Period
    BY <2>1, PurgeIsOld
  <2>b. /\ (h <= Len(log) /\ Len(log) - h + 1 >= MaxCalls) => 0 >= Period - (now - log[h])
        /\ h <= Len(log) => 0 >= MinInterval - (now - log[Len(log)])
    BY <2>1, WaitCovers DEF LimiterInv
  <2>c. Len(log) \in Nat /\ h \in Nat
    BY DEF LimiterInv, LimiterTypeOK
  <2>3. Len(log) - h + 1 < MaxCalls
    BY <1>a, <2>b, <2>c, <2>2
  <2>4. Len(log) > 0 => now - log[Len(log)] >= MinInterval
    BY <1>a, <2>b, <2>c, <2>2, IntervalWithinPeriod
  <2>5. log' = Append(log, now) /\ now' = now /\ wakeAt' = Awake
    BY <1>2 DEF AcquireNow
  <2> QED
    BY <1>a, <2>1, <2>2, <2>3, <2>4, <2>5, AppendKeeps
    DEF LimiterInv, LimiterTypeOK, SleepLongEnough
<1>3. CASE AcquireSleep
  <2>1. PICK h \in 1..(Len(log) + 1) :
           Purged(h) /\ Wait(h) > 0 /\ head' = h /\ wakeAt' = now + Wait(h)
    BY <1>3 DEF AcquireSleep
  <2>2. /\ h \in head..(Len(log) + 1)
        /\ \A i \in 1..(h - 1) : now - log[i] >= Period
    BY <2>1, PurgeIsOld
  <2>3. now' = now /\ log' = log
    BY <1>3 DEF AcquireSleep
  <2>b. /\ Wait(h) \in Int
        /\ (h <= Len(log) /\ Len(log) - h + 1 >= MaxCalls) => Wait(h) >= Period - (now - log[h])
        /\ h <= Len(log) => Wait(h) >= MinInterval - (now - log[Len(log)])
        /\ h > Len(log) => Wait(h) = 0
    BY WaitCovers DEF LimiterInv
  <2>c. Len(log) \in Nat /\ h \in Nat
    BY DEF LimiterInv, LimiterTypeOK
  <2>4. SleepLongEnough'
    <3>1. h <= Len(log)
      BY <2>1, <2>b, <2>c
    <3>2. wakeAt' - log[Len(log)] >= MinInterval
      <4>1. log[Len(log)] \in Nat /\ Wait(h) >= MinInterval - (now - log[Len(log)])
        BY <1>a, <2>1, <2>b, <2>c, <3>1
      <4> QED
        BY <1>a, <2>1, <2>b, <4>1
    <3>3. Len(log) - h + 1 = MaxCalls => wakeAt' - log[h] >= Period
      <4>1. log[h] \in Nat
        BY <1>a, <2>c, <3>1
      <4>2. Len(log) - h + 1 = MaxCalls => Wait(h) >= Period - (now - log[h])
        BY <2>b, <2>c, <3>1
      <4> QED
        BY <1>a, <2>1, <2>b, <4>1, <4>2
    <3> QED
      BY <2>1, <2>3, <3>2, <3>3 DEF SleepLongEnough, Inflight
  <2>5. wakeAt' \in Nat
    BY <1>a, <2>1, <2>b
  <2> QED
    BY <1>a, <2>1, <2>2, <2>3, <2>4, <2>5
    DEF LimiterInv, LimiterTypeOK, StampsInPast, PurgedIsOld, DequeBounded,
        WindowKept, IntervalKept, Inflight
<1>4. CASE AcquireWake
  <2>1. PICK h \in 1..(Len(log) + 1) : Purged(h) /\ head' = h
    BY <1>4 DEF AcquireWake
  <2>2. /\ h \in head..(Len(log) + 1)
        /\ \A i \in 1..(h - 1) : now - log[i] >= Period
        /\ h <= Len(log) => now - log[h] < Period
    BY <2>1, PurgeIsOld
  <2>3. wakeAt \in Nat /\ wakeAt # Awake /\ now >= wakeAt
    BY <1>4, <1>a DEF AcquireWake, Awake
  <2>c. Len(log) \in Nat
    BY DEF LimiterInv, LimiterTypeOK
  <2>4. Len(log) - h + 1 < MaxCalls
    <3>1. Len(log) - head + 1 <= MaxCalls
      BY DEF LimiterInv, DequeBounded, Inflight
    <3>2. Len(log) - head + 1 = MaxCalls => wakeAt - log[head] >= Period
      BY <2>3 DEF LimiterInv, SleepLongEnough, Inflight
    <3>3. Len(log) - head + 1 = MaxCalls => h # head
      <4>1. SUFFICES ASSUME Len(log) - head + 1 = MaxCalls, h = head PROVE FALSE
        OBVIOUS
      <4>2. head \in 1..Len(log) /\ log[head] \in Nat
        BY <1>a, <2>c, <4>1
      <4>3. now - log[head] < Period
        BY <2>2, <4>1, <4>2
      <4>4. wakeAt - log[head] >= Period
        BY <3>2, <4>1
      <4>5. now \in Nat /\ Period \in Nat
        BY <1>a, LimiterAssumption
      <4>6. \A n, w, x, p \in Nat : w - x >= p /\ n >= w => ~(n - x < p)
        OBVIOUS
      <4> QED
        BY <2>3, <4>2, <4>3, <4>4, <4>5, <4>6
    <3>4. head \in Nat /\ h \in Nat /\ head <= h
      BY <1>a, <2>2, <2>c
    <3>5. MaxCalls \in Nat
      BY LimiterAssumption
    <3>6. \A n, a, b, m \in Nat : n - a + 1 <= m /\ (n - a + 1 = m => b # a) /\ a <= b
                                => n - b + 1 < m
      OBVIOUS
    <3> QED
      BY <2>c, <3>1, <3>3, <3>4, <3>5, <3>6
  <2>5. Len(log) > 0 => now - log[Len(log)] >= MinInterval
    BY <1>a, <2>3 DEF LimiterInv, SleepLongEnough
  <2>6. log' = Append(log, now) /\ now' = now /\ wakeAt' = Awake
    BY <1>4 DEF AcquireWake
  <2> QED
    BY <1>a, <2>1, <2>2, <2>4, <2>5, <2>6, AppendKeeps
    DEF LimiterInv, LimiterTypeOK, SleepLongEnough
<1>5. CASE UNCHANGED limiterVars
  BY <1>5 DEF limiterVars, LimiterInv, LimiterTypeOK, StampsInPast, PurgedIsOld,
     SleepLongEnough, DequeBounded, WindowKept, IntervalKept, Inflight
<1> QED
  BY <1>1, <1>2, <1>3, <1>4, <1>5 DEF LimiterNext

\* Any max_calls + 1 consecutive calls span at least a period.
THEOREM WindowLimit == LimiterSpec => []WindowKept
<1>1. LimiterInv => WindowKept
  BY DEF LimiterInv
<1> QED
  BY <1>1, LimiterInvInit, LimiterInvStep, PTL DEF LimiterSpec

\* Consecutive calls are at least min_interval apart.
THEOREM IntervalLimit == LimiterSpec => []IntervalKept
<1>1. LimiterInv => IntervalKept
  BY DEF LimiterInv
<1> QED
  BY <1>1, LimiterInvInit, LimiterInvStep, PTL DEF LimiterSpec

\* The deque never holds more than max_calls stamps.
THEOREM DequeLimit == LimiterSpec => []DequeBounded
<1>1. LimiterInv => DequeBounded
  BY DEF LimiterInv
<1> QED
  BY <1>1, LimiterInvInit, LimiterInvStep, PTL DEF LimiterSpec
=============================================================================
