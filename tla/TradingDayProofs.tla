-------------------------- MODULE TradingDayProofs --------------------------
(***************************************************************************)
(* What holds of the callbacks and the ledger for every number of workers, *)
(* every universe and every set of faults: types, one alarm per outage,    *)
(* that no fill is lost without a trace, that purchases are backed, and,   *)
(* unless a sweep has overlapped the session start, that the ledger gives  *)
(* back what is held.                                                      *)
(***************************************************************************)
EXTENDS TradingDay, SequenceTheorems, FiniteSetTheorems, TLAPS

-----------------------------------------------------------------------------
(* Types.                                                                  *)

\* Appending a fill keeps every index into the fills.
LEMMA IdsGrow ==
    ASSUME NEW S, NEW f \in Seq(S), NEW e \in S
    PROVE  /\ Append(f, e) \in Seq(S)
           /\ Len(Append(f, e)) = Len(f) + 1
           /\ Append(f, e)[Len(f) + 1] = e
           /\ \A i \in 1..Len(f) : Append(f, e)[i] = f[i]
           /\ Len(f) \in Nat
           /\ 1..Len(f) \subseteq 1..(Len(f) + 1)
           /\ Seq(1..Len(f)) \subseteq Seq(1..(Len(f) + 1))
<1>1. Len(f) \in Nat
  OBVIOUS
<1>2. 1..Len(f) \subseteq 1..(Len(f) + 1)
  BY <1>1
<1>3. Seq(1..Len(f)) \subseteq Seq(1..(Len(f) + 1))
  BY <1>2, SeqMonotonic
<1> QED
  BY <1>1, <1>2, <1>3, AppendProperties

\* What a signal moves in or out is a symbol.
LEMMA MovedTyped ==
    ASSUME NEW S \in SUBSET Symbols, NEW signal \in SignalType
    PROVE  Moved(S, signal) \in SUBSET Symbols
BY DEF Moved, SignalType

\* The head of a nonempty list is of its type, and so is the rest.
LEMMA HeadTyped ==
    ASSUME NEW S, NEW s \in Seq(S), s # <<>>
    PROVE  Head(s) \in S /\ Tail(s) \in Seq(S)
BY HeadTailProperties

LEMMA InitTypes == ASSUME Init PROVE TypeOK
<1> USE DEF Init
<1>1. WorldTypes
  <2>1. overlapped \in BOOLEAN
    BY Zenon
  <2> QED
    BY <2>1, TradingDayAssumption DEF WorldTypes
<1>2. LedgerTypes
  BY TradingDayAssumption DEF LedgerTypes, NoSummary, Ops, Ids
<1>3. ProcessTypes
  BY TradingDayAssumption DEF ProcessTypes, Jobs
<1>4. SweepTypes
  <2>1. Len(Universe) \in Nat
    BY TradingDayAssumption
  <2> QED
    BY <2>1 DEF SweepTypes, Ids
<1> QED
  BY <1>1, <1>2, <1>3, <1>4 DEF TypeOK

\* The process starts or ends.
LEMMA HostTypes == ASSUME TypeOK, Boot \/ Crash \/ Exit \/ Shutdown PROVE TypeOK'
<1>1. CASE Shutdown
  BY <1>1 DEF Shutdown, TypeOK, WorldTypes, LedgerTypes, ProcessTypes, SweepTypes, Ids,
     worldVars, ledgerVars, riskVars, tradeVars, sweepVars, eventVars
<1>2. CASE Boot \/ Crash \/ Exit
  <2>1. /\ Fresh /\ UNCHANGED <<worldVars, account, fills, orders, summaries>>
        /\ process' \in {"up", "down"} /\ dry' \in BOOLEAN
        /\ incidents' \subseteq incidents \union {day} /\ UNCHANGED overlapped
    BY <1>2, TradingDayAssumption
       DEF Boot, Crash, Exit, Tell, TypeOK, ProcessTypes
  <2>2. WorldTypes'
    BY <2>1 DEF TypeOK, WorldTypes, worldVars
  <2>3. LedgerTypes'
    BY <2>1 DEF TypeOK, LedgerTypes, Fresh, Ops, Ids
  <2>4. ProcessTypes'
    BY <2>1 DEF Fresh, ProcessTypes, Jobs
  <2>5. SweepTypes'
    <3>1. Len(Universe) \in Nat
      BY TradingDayAssumption
    <3> QED
      BY <2>1, <3>1 DEF Fresh, SweepTypes, Ids
  <2> QED
    BY <2>2, <2>3, <2>4, <2>5 DEF TypeOK
<1> QED
  BY <1>1, <1>2

\* A time of the day comes.
LEMMA TickTypes == ASSUME TypeOK, Tick PROVE TypeOK'
<1>1. /\ day' \in Nat \ {0} /\ time' \in 0..(Minutes + 2)
  BY TradingDayAssumption DEF Tick, TypeOK, WorldTypes
<1>2. job' \in [Jobs -> {"idle", "called", "load_daily_pnl", "flush", "bars", "record"}]
  BY DEF Tick, TypeOK, ProcessTypes
<1>3. UNCHANGED <<ledgerVars, riskVars, tradeVars, sweepVars, hostVars,
                  started, queue, believed, loaded, incidents, overlapped>>
  BY DEF Tick
<1>4. WorldTypes'
  BY <1>1, <1>3 DEF TypeOK, WorldTypes, tradeVars
<1>5. LedgerTypes'
  BY <1>3 DEF TypeOK, LedgerTypes, Ids, ledgerVars, tradeVars
<1>6. ProcessTypes'
  BY <1>2, <1>3 DEF TypeOK, ProcessTypes, hostVars, riskVars, tradeVars
<1>7. SweepTypes'
  BY <1>3 DEF TypeOK, SweepTypes, Ids, sweepVars, eventVars, tradeVars
<1> QED
  BY <1>4, <1>5, <1>6, <1>7 DEF TypeOK

\* Counting successes and failures.
LEMMA CountTypes ==
    ASSUME TypeOK, NEW op \in Ops, Succeeds(op) \/ Fails(op)
    PROVE  failures' \in [Ops -> Nat] /\ emitted' \in [Ops -> BOOLEAN]
<1>1. CASE Succeeds(op)
  BY <1>1 DEF Succeeds, TypeOK, LedgerTypes
<1>2. CASE Fails(op)
  <2>1. failures[op] + 1 \in Nat
    BY DEF TypeOK, LedgerTypes
  <2>2. (emitted[op] \/ failures[op] + 1 >= Threshold) \in BOOLEAN
    OBVIOUS
  <2> QED
    BY <1>2, <2>1, <2>2 DEF Fails, TypeOK, LedgerTypes
<1> QED
  BY <1>1, <1>2

LEMMA LoadTypes ==
    ASSUME TypeOK, NEW buys, LoadDailyPnl(buys)
    PROVE  failures' \in [Ops -> Nat] /\ emitted' \in [Ops -> BOOLEAN]
<1>1. "pnl" \in Ops
  BY DEF Ops
<1>2. CASE UNCHANGED <<failures, emitted>>
  BY <1>2 DEF TypeOK, LedgerTypes
<1>3. CASE Succeeds("pnl") \/ Fails("pnl")
  BY <1>1, <1>3, CountTypes
<1> QED
  BY <1>2, <1>3 DEF LoadDailyPnl

\* A day without rows, or with rows, has a number of purchases.
LEMMA BuysCount == ASSUME TypeOK PROVE Cardinality(Buys(day)) \in Nat
<1>1. IsFiniteSet(1..Len(orders))
  BY FS_Interval DEF TypeOK, LedgerTypes
<1>2. Buys(day) \subseteq 1..Len(orders)
  BY DEF Buys, Rows
<1> QED
  BY <1>1, <1>2, FS_Subset, FS_CardinalityType

\* The session start, in its two parts.
LEMMA StartTypes ==
    ASSUME TypeOK,
           StartFails \/ LoadOpenPositions \/ StartSession \/ RestoreRaises
    PROVE  TypeOK'
<1>1. UNCHANGED <<worldVars, account, fills, orders, summaries, sweepVars, hostVars,
                  queue, believed, counter>>
  BY DEF StartFails, LoadOpenPositions, StartSession, RestoreRaises, sessionUnchanged
<1>2. failures' \in [Ops -> Nat] /\ emitted' \in [Ops -> BOOLEAN]
  <2>1. CASE StartFails
    BY <2>1 DEF StartFails, TypeOK, LedgerTypes
  <2>2. CASE LoadOpenPositions
    <3>1. "open" \in Ops
      BY DEF Ops
    <3> QED
      BY <2>2, <3>1, CountTypes DEF LoadOpenPositions
  <2>3. CASE StartSession \/ RestoreRaises
    <3>1. PICK buys : LoadDailyPnl(buys)
      BY <2>3 DEF StartSession, RestoreRaises
    <3> QED
      BY <3>1, LoadTypes
  <2> QED
    BY <2>1, <2>2, <2>3
<1>3. incidents' \subseteq Nat \ {0} /\ overlapped' \in BOOLEAN
  <2>1. incidents' \subseteq Nat \ {0}
    BY DEF StartFails, LoadOpenPositions, StartSession, RestoreRaises, Tell, TypeOK, WorldTypes
  <2>2. CASE LoadOpenPositions
    <3>1. overlapped' \in BOOLEAN
      <4>1. Sweeping \in BOOLEAN
        BY DEF Sweeping
      <4>2. overlapped' = Sweeping
        BY <2>2 DEF LoadOpenPositions
      <4> QED
        BY <4>1, <4>2
    <3> QED
      BY <2>1, <3>1
  <2>3. CASE StartFails \/ StartSession \/ RestoreRaises
    BY <2>1, <2>3 DEF StartFails, StartSession, RestoreRaises, TypeOK, WorldTypes
  <2> QED
    BY <2>2, <2>3
<1>4. job' \in [Jobs -> {"idle", "called", "load_daily_pnl", "flush", "bars", "record"}]
  BY DEF StartFails, LoadOpenPositions, StartSession, RestoreRaises, Goes, TypeOK, ProcessTypes
<1>5. /\ loaded' \subseteq Symbols /\ held' \subseteq Symbols /\ subs' \subseteq Symbols
  BY DEF StartFails, LoadOpenPositions, StartSession, RestoreRaises, OpenRows, TypeOK,
     ProcessTypes
<1>6. /\ session' \in Nat /\ entries' \in Nat
  <2>1. CASE StartSession
    BY <2>1, BuysCount DEF StartSession, TypeOK, WorldTypes
  <2>2. CASE ~StartSession
    BY <2>2 DEF StartFails, LoadOpenPositions, RestoreRaises, riskVars, TypeOK, ProcessTypes
  <2> QED
    BY <2>1, <2>2
<1>7. /\ started' \in BOOLEAN /\ halt' \in BOOLEAN
      /\ checked' \in {"none", "match", "mismatch"}
  BY DEF StartFails, LoadOpenPositions, StartSession, RestoreRaises, riskVars, TypeOK,
     ProcessTypes
<1>8. WorldTypes'
  BY <1>1, <1>3 DEF TypeOK, WorldTypes, worldVars
<1>9. LedgerTypes'
  BY <1>1, <1>2 DEF TypeOK, LedgerTypes, Ids
<1>10. ProcessTypes'
  BY <1>1, <1>4, <1>5, <1>6, <1>7 DEF TypeOK, ProcessTypes, hostVars
<1>11. SweepTypes'
  BY <1>1 DEF TypeOK, SweepTypes, Ids, sweepVars, eventVars
<1> QED
  BY <1>8, <1>9, <1>10, <1>11 DEF TypeOK

JobValues == {"idle", "called", "load_daily_pnl", "flush", "bars", "record"}

\* A callback moves to its next place.
LEMMA GoesTypes ==
    ASSUME TypeOK, NEW j, NEW pc \in JobValues, Goes(j, pc) \/ UNCHANGED job
    PROVE  job' \in [Jobs -> JobValues]
BY DEF Goes, TypeOK, ProcessTypes, JobValues

\* A step that trades nothing and leaves the session alone keeps the world and
\* the flags of the process.
LEMMA QuietTypes ==
    ASSUME TypeOK, daySteady, UNCHANGED <<account, fills, counter, subs>>,
           incidents' \subseteq incidents \union {day}, overlapped' \in BOOLEAN,
           job' \in [Jobs -> JobValues],
           entries' \in Nat, halt' \in BOOLEAN,
           checked' \in {"none", "match", "mismatch"},
           held' \subseteq Symbols, believed' \subseteq Symbols
    PROVE  WorldTypes' /\ ProcessTypes'
<1>1. WorldTypes'
  BY DEF TypeOK, WorldTypes, daySteady, worldVars
<1>2. ProcessTypes'
  BY DEF TypeOK, ProcessTypes, daySteady, hostVars, JobValues
<1> QED
  BY <1>1, <1>2

\* on_step before the sweep, and after it.
LEMMA AroundTypes ==
    ASSUME TypeOK, StepSkipped \/ StepBegins \/ StepReturns \/ StepEnds
    PROVE  TypeOK'
<1>1. daySteady /\ UNCHANGED <<account, fills, counter, subs, held>>
  BY DEF StepSkipped, StepBegins, StepReturns, StepEnds, stepUnchanged, tradeVars
<1>2. UNCHANGED <<orders, failures, emitted, entries, halt, checked, believed>>
  BY DEF StepSkipped, StepBegins, StepReturns, StepEnds, ledgerUnchanged
<1>3. incidents' \subseteq incidents \union {day} /\ overlapped' \in BOOLEAN
  BY DEF StepSkipped, StepBegins, StepReturns, StepEnds, stepUnchanged, Tell, TypeOK, WorldTypes
<1>4. job' \in [Jobs -> JobValues]
  BY GoesTypes DEF StepSkipped, StepBegins, StepReturns, StepEnds, JobValues
<1>5. WorldTypes' /\ ProcessTypes'
  <2>1. entries' \in Nat /\ halt' \in BOOLEAN /\ checked' \in {"none", "match", "mismatch"}
        /\ held' \subseteq Symbols /\ believed' \subseteq Symbols
    BY <1>1, <1>2 DEF TypeOK, ProcessTypes
  <2> QED
    BY <1>1, <1>3, <1>4, <2>1, QuietTypes
<1>6. LedgerTypes'
  BY <1>1, <1>2 DEF TypeOK, LedgerTypes, Ids, stepUnchanged, daySteady
<1>7. SweepTypes'
  <2>0. /\ Len(Universe) \in Nat /\ Ids' = Ids
    BY <1>1, TradingDayAssumption DEF Ids
  <2>1. CASE StepSkipped
    BY <2>0, <2>1 DEF StepSkipped, TypeOK, SweepTypes, sweepVars, eventVars
  <2>2. CASE StepBegins
    BY <2>0, <2>2 DEF StepBegins, TypeOK, SweepTypes
  <2>3. CASE StepReturns
    <3>1. entryEvents \o exitEvents \in Seq(Ids)
      BY ConcatProperties DEF TypeOK, SweepTypes
    <3> QED
      BY <2>0, <2>3, <3>1 DEF StepReturns, TypeOK, SweepTypes
  <2>4. CASE StepEnds
    BY <2>0, <2>4 DEF StepEnds, ledgerUnchanged, TypeOK, SweepTypes, eventVars
  <2> QED
    BY <2>1, <2>2, <2>3, <2>4
<1> QED
  BY <1>5, <1>6, <1>7 DEF TypeOK

\* The sweep where it trades nothing.
LEMMA SweepStepTypes ==
    ASSUME TypeOK, EntryPasses \/ Reconcile \/ Bars
    PROVE  TypeOK'
<1>1. /\ daySteady /\ UNCHANGED overlapped
      /\ UNCHANGED <<account, fills, counter, subs, held>>
  BY DEF EntryPasses, Reconcile, Bars, stepUnchanged, tradeVars
<1>2. UNCHANGED <<orders, failures, emitted, entries, queue, entryEvents, exitEvents,
                  report, incidents>>
  BY DEF EntryPasses, Reconcile, Bars, ledgerUnchanged, eventVars
<1>4. job' \in [Jobs -> JobValues]
  BY GoesTypes DEF EntryPasses, Reconcile, Bars, JobValues
<1>5. halt' \in BOOLEAN /\ checked' \in {"none", "match", "mismatch"}
  BY DEF EntryPasses, Reconcile, Bars, TypeOK, ProcessTypes
<1>6. /\ believed' \subseteq Symbols /\ todo' \in Seq(SignalType)
      /\ at' \in 1..(Len(Universe) + 1)
  <2>0. Len(Universe) \in Nat
    BY TradingDayAssumption
  <2>1. CASE EntryPasses
    BY <2>1, HeadTyped DEF EntryPasses, Processing, ledgerUnchanged, TypeOK, ProcessTypes,
       SweepTypes
  <2>2. CASE Reconcile
    BY <2>0, <2>2 DEF Reconcile, ledgerUnchanged, TypeOK, ProcessTypes, SweepTypes
  <2>3. CASE Bars
    <3> DEFINE s == Universe[at]
               own == Signal(IF s \in believed THEN "sell" ELSE "buy", s)
    <3>1. s \in Symbols
      BY <2>0, <2>3 DEF Bars, Symbols, TypeOK, SweepTypes
    <3>2. own \in SignalType /\ Signal("sell", s) \in SignalType
      BY <3>1 DEF Signal, SignalType
    <3>3. believed \in SUBSET Symbols /\ todo \in Seq(SignalType)
      BY DEF TypeOK, ProcessTypes, SweepTypes
    <3>4. Moved(believed, own) \in SUBSET Symbols
      BY <3>2, <3>3, MovedTyped
    <3>5. <<own>> \in Seq(SignalType) /\ <<Signal("sell", s)>> \in Seq(SignalType)
      BY <3>2
    <3>6. \/ UNCHANGED <<todo, believed>>
          \/ todo' = <<Signal("sell", s)>> /\ UNCHANGED believed
          \/ todo' = <<own>> /\ believed' = Moved(believed, own)
      BY <2>3 DEF Bars
    <3>7. at' \in 1..(Len(Universe) + 1)
      BY <2>0, <2>3 DEF Bars, TypeOK, SweepTypes
    <3> HIDE DEF own, s
    <3> QED
      BY <3>3, <3>4, <3>5, <3>6, <3>7
  <2> QED
    BY <2>1, <2>2, <2>3
<1>7. WorldTypes' /\ ProcessTypes'
  <2>1. entries' \in Nat /\ held' \subseteq Symbols
        /\ incidents' \subseteq incidents \union {day} /\ overlapped' \in BOOLEAN
    BY <1>1, <1>2 DEF TypeOK, WorldTypes, ProcessTypes
  <2> QED
    BY <1>1, <1>4, <1>5, <1>6, <2>1, QuietTypes
<1>8. LedgerTypes'
  BY <1>1, <1>2 DEF TypeOK, LedgerTypes, Ids, stepUnchanged, daySteady
<1>9. SweepTypes'
  BY <1>1, <1>2, <1>6 DEF TypeOK, SweepTypes, Ids
<1> QED
  BY <1>7, <1>8, <1>9 DEF TypeOK

\* A filled order: the fill is of its type, and no index is lost.
LEMMA TradeTypes ==
    ASSUME TypeOK, Trade, todo # <<>>
    PROVE  /\ Head(todo) \in SignalType /\ Tail(todo) \in Seq(SignalType)
           /\ fills' \in Seq(FillType) /\ Len(fills') = Len(fills) + 1
           /\ fills'[Len(fills) + 1].day = day
           /\ \A i \in Ids : fills'[i] = fills[i]
           /\ Len(fills) \in Nat
           /\ Ids \subseteq Ids' /\ Seq(Ids) \subseteq Seq(Ids')
           /\ Ids' = Ids \union {Len(fills) + 1}
           /\ account' \in SUBSET Symbols /\ counter' \in Nat
<1> DEFINE signal == Head(todo)
           number == IF dry THEN <<"DRY", counter + 1>> ELSE <<"KIS", Len(fills) + 1>>
           f == [side |-> signal.side, sym |-> signal.sym, day |-> day, number |-> number]
<1>1. signal \in SignalType /\ Tail(todo) \in Seq(SignalType)
  BY HeadTyped DEF TypeOK, SweepTypes
<1>2. fills \in Seq(FillType) /\ Len(fills) \in Nat
  BY DEF TypeOK, WorldTypes
<1>3. number \in {"DRY", "KIS"} \X Nat
  BY <1>2 DEF TypeOK, ProcessTypes
<1>4. f \in FillType
  <2> HIDE DEF number
  <2> QED
    BY <1>1, <1>3 DEF FillType, SignalType, TypeOK, WorldTypes
<1>5. fills' = Append(fills, f)
  BY DEF Trade
<1> HIDE DEF f, number
<1>6. fills' \in Seq(FillType) /\ Len(fills') = Len(fills) + 1
  BY <1>2, <1>4, <1>5
<1>7. fills'[Len(fills) + 1] = f /\ \A i \in 1..Len(fills) : fills'[i] = fills[i]
  BY <1>2, <1>4, <1>5, IdsGrow
<1>8. f.day = day
  BY DEF f
<1>9. Ids \subseteq Ids' /\ Ids' = Ids \union {Len(fills) + 1}
  BY <1>2, <1>6 DEF Ids
<1>10. Seq(Ids) \subseteq Seq(Ids')
  BY <1>9, SeqMonotonic
<1>11. account' \in SUBSET Symbols
  BY <1>1, MovedTyped DEF Trade, TypeOK, WorldTypes
<1>12. counter' \in Nat
  BY DEF Trade, TypeOK, ProcessTypes
<1> QED
  BY <1>1, <1>2, <1>6, <1>7, <1>8, <1>9, <1>10, <1>11, <1>12 DEF Ids

\* An order filled and booked.
LEMMA FilledTypes ==
    ASSUME TypeOK, EntryFilled \/ ExitFilled
    PROVE  TypeOK'
<1>1. TradeBooked /\ todo # <<>>
  BY DEF EntryFilled, ExitFilled, Processing
<1>2. Trade
  BY <1>1 DEF TradeBooked
<1>3. /\ stepUnchanged
      /\ UNCHANGED <<orders, failures, emitted, queue, believed, report,
                     job, halt, checked, at, incidents>>
  BY <1>1 DEF TradeBooked, ledgerUnchanged
<1>4. held' \in SUBSET Symbols /\ subs' \in SUBSET Symbols /\ todo' \in Seq(SignalType)
  <2>1. held \in SUBSET Symbols /\ subs \in SUBSET Symbols
    BY DEF TypeOK, ProcessTypes
  <2> QED
    BY <1>1, <1>2, <2>1, TradeTypes, MovedTyped DEF TradeBooked
<1>5. entries' \in Nat
  BY DEF EntryFilled, ExitFilled, TypeOK, ProcessTypes
<1>6. entryEvents' \in Seq(Ids') /\ exitEvents' \in Seq(Ids')
  <2>1. entryEvents \in Seq(Ids') /\ exitEvents \in Seq(Ids') /\ Len(fills) + 1 \in Ids'
    BY <1>1, <1>2, TradeTypes DEF TypeOK, SweepTypes
  <2>2. CASE EntryFilled
    BY <2>1, <2>2 DEF EntryFilled
  <2>3. CASE ExitFilled
    BY <2>1, <2>3 DEF ExitFilled, TradeBooked
  <2> QED
    BY <2>2, <2>3
<1>7. WorldTypes'
  BY <1>1, <1>2, <1>3, TradeTypes DEF TypeOK, WorldTypes, stepUnchanged, daySteady, worldVars
<1>8. LedgerTypes'
  BY <1>1, <1>2, <1>3, TradeTypes DEF TypeOK, LedgerTypes, stepUnchanged, daySteady
<1>9. ProcessTypes'
  BY <1>1, <1>2, <1>3, <1>4, <1>5, TradeTypes
     DEF TypeOK, ProcessTypes, stepUnchanged, daySteady, hostVars
<1>10. SweepTypes'
  BY <1>1, <1>2, <1>3, <1>4, <1>6, TradeTypes DEF TypeOK, SweepTypes
<1> QED
  BY <1>7, <1>8, <1>9, <1>10 DEF TypeOK

\* The exceptions that end a sweep.
Raising == OrderRaises \/ OrderIsLost \/ SubscriptionRaises \/ ReconcileRaises \/ BarsRaise

LEMMA RaisingTypes == ASSUME TypeOK, Raising PROVE TypeOK'
<1>1. Raises
  BY DEF Raising, OrderRaises, OrderIsLost, SubscriptionRaises, ReconcileRaises, BarsRaise
<1>2. /\ stepUnchanged
      /\ UNCHANGED <<orders, failures, emitted, queue, believed, report, checked, subs>>
      /\ todo' = <<>> /\ at' = 1 /\ entryEvents' = <<>> /\ exitEvents' = <<>>
      /\ incidents' \subseteq incidents \union {day}
  BY <1>1 DEF Raises, ledgerUnchanged, Tell
<1>3. job' \in [Jobs -> JobValues]
  BY <1>1, GoesTypes DEF Raises, JobValues
<1>4. \/ untraded
      \/ /\ Trade /\ todo # <<>> /\ UNCHANGED <<entries, held>> /\ halt' \in BOOLEAN
      \/ /\ Trade /\ todo # <<>> /\ UNCHANGED halt
         /\ held' = Moved(held, Head(todo)) /\ entries' \in {entries, entries + 1}
  BY DEF Raising, OrderRaises, OrderIsLost, SubscriptionRaises, ReconcileRaises, BarsRaise,
     Tradable, TypeOK, ProcessTypes
<1>5. /\ fills' \in Seq(FillType) /\ account' \in SUBSET Symbols /\ counter' \in Nat
      /\ Seq(Ids) \subseteq Seq(Ids')
  <2>1. CASE untraded
    BY <2>1 DEF untraded, TypeOK, WorldTypes, ProcessTypes, Ids
  <2>2. CASE ~untraded
    BY <1>4, <2>2, TradeTypes
  <2> QED
    BY <2>1, <2>2
<1>6. entries' \in Nat /\ halt' \in BOOLEAN /\ held' \subseteq Symbols
  <2>1. entries \in Nat /\ halt \in BOOLEAN /\ held \in SUBSET Symbols
    BY DEF TypeOK, ProcessTypes
  <2>2. CASE untraded
    BY <2>1, <2>2 DEF untraded
  <2>3. CASE ~untraded
    <3>1. Head(todo) \in SignalType
      BY <1>4, <2>3, TradeTypes
    <3>2. Moved(held, Head(todo)) \in SUBSET Symbols
      BY <2>1, <3>1, MovedTyped
    <3> QED
      BY <1>4, <2>1, <2>3, <3>2
  <2> QED
    BY <2>2, <2>3
<1>7. WorldTypes'
  BY <1>2, <1>5 DEF TypeOK, WorldTypes, stepUnchanged, daySteady, worldVars
<1>8. LedgerTypes'
  BY <1>2, <1>5 DEF TypeOK, LedgerTypes, stepUnchanged, daySteady
<1>9. ProcessTypes'
  BY <1>2, <1>3, <1>5, <1>6 DEF TypeOK, ProcessTypes, stepUnchanged, daySteady, hostVars, JobValues
<1>10. SweepTypes'
  <2>1. Len(Universe) \in Nat
    BY TradingDayAssumption
  <2> QED
    BY <1>2, <1>5, <2>1 DEF TypeOK, SweepTypes
<1> QED
  BY <1>7, <1>8, <1>9, <1>10 DEF TypeOK

\* An insert succeeds, fails, or does not reach the counters.
LEMMA InsertCounts ==
    ASSUME NEW id, Insert(id)
    PROVE  Succeeds(OpOf(id)) \/ Fails(OpOf(id)) \/ UNCHANGED <<failures, emitted>>
<1>1. CASE process = "up"
  BY <1>1, Zenon DEF Insert
<1>2. CASE process = "closing"
  BY <1>2, Zenon DEF Insert
<1> QED
  BY <1>1, <1>2 DEF Insert

\* One event is written to the ledger, or is not.
LEMMA RecordTypes == ASSUME TypeOK, Record PROVE TypeOK'
<1>1. /\ stepUnchanged
      /\ UNCHANGED <<job, entries, halt, checked, tradeVars, todo, at, eventVars, queue,
                     believed>>
      /\ report # <<>> /\ report' = Tail(report)
      /\ Insert(Head(report))
  BY DEF Record
<1>2. Head(report) \in Ids /\ Tail(report) \in Seq(Ids)
  BY <1>1, HeadTyped DEF TypeOK, SweepTypes
<1>3. OpOf(Head(report)) \in Ops
  BY DEF OpOf, Ops
<1>4. failures' \in [Ops -> Nat] /\ emitted' \in [Ops -> BOOLEAN]
  <2>1. PICK id : id = Head(report) /\ Insert(id) /\ OpOf(id) \in Ops
    BY <1>1, <1>3
  <2>2. CASE UNCHANGED <<failures, emitted>>
    BY <2>2 DEF TypeOK, LedgerTypes
  <2>3. CASE Succeeds(OpOf(id)) \/ Fails(OpOf(id))
    BY <2>1, <2>3, CountTypes
  <2> QED
    BY <2>1, <2>2, <2>3, InsertCounts
<1>5. orders' \in Seq(Ids)
  <2>1. orders \in Seq(Ids) /\ Append(orders, Head(report)) \in Seq(Ids)
    BY <1>2 DEF TypeOK, LedgerTypes
  <2>2. orders' \in {orders, Append(orders, Head(report))}
    BY <1>1 DEF Insert
  <2> QED
    BY <2>1, <2>2
<1>6. incidents' \subseteq incidents \union {day}
  BY <1>1 DEF Insert, Tell
<1>7. WorldTypes'
  BY <1>1, <1>6 DEF TypeOK, WorldTypes, stepUnchanged, daySteady, worldVars, tradeVars
<1>8. LedgerTypes'
  BY <1>1, <1>4, <1>5 DEF TypeOK, LedgerTypes, stepUnchanged, daySteady, tradeVars, Ids
<1>9. ProcessTypes'
  BY <1>1 DEF TypeOK, ProcessTypes, stepUnchanged, daySteady, hostVars, tradeVars
<1>10. SweepTypes'
  BY <1>1, <1>2 DEF TypeOK, SweepTypes, Ids, eventVars, tradeVars
<1> QED
  BY <1>7, <1>8, <1>9, <1>10 DEF TypeOK

\* The summary of the day.
LEMMA ReportTypes == ASSUME TypeOK, DailyReport PROVE TypeOK'
<1>1. /\ Goes("daily_report", "idle")
      /\ UNCHANGED <<worldVars, orders, riskVars, tradeVars, sweepVars, hostVars,
                     started, queue, believed, loaded, incidents, overlapped>>
  BY DEF DailyReport
<1>2. failures' \in [Ops -> Nat] /\ emitted' \in [Ops -> BOOLEAN]
  <2>0. "summary" \in Ops
    BY DEF Ops
  <2>1. CASE Succeeds("summary") \/ Fails("summary")
    BY <2>0, <2>1, CountTypes
  <2>2. CASE UNCHANGED <<failures, emitted>>
    BY <2>2 DEF TypeOK, LedgerTypes
  <2> QED
    BY <2>1, <2>2 DEF DailyReport
<1>3. summaries' \in [1..MaxDays -> [session : Nat, entries : Nat]]
  BY DEF DailyReport, TypeOK, LedgerTypes, ProcessTypes
<1>4. job' \in [Jobs -> JobValues]
  BY <1>1, GoesTypes DEF JobValues
<1>5. WorldTypes'
  BY <1>1 DEF TypeOK, WorldTypes, worldVars, tradeVars
<1>6. LedgerTypes'
  BY <1>1, <1>2, <1>3 DEF TypeOK, LedgerTypes, Ids, tradeVars
<1>7. ProcessTypes'
  BY <1>1, <1>4 DEF TypeOK, ProcessTypes, hostVars, riskVars, tradeVars, JobValues
<1>8. SweepTypes'
  BY <1>1 DEF TypeOK, SweepTypes, Ids, sweepVars, eventVars, tradeVars
<1> QED
  BY <1>5, <1>6, <1>7, <1>8 DEF TypeOK

\* The signals of the evening.
LEMMA EodTypes == ASSUME TypeOK, EodSignal PROVE TypeOK'
<1>1. /\ Goes("eod_signal", "idle")
      /\ UNCHANGED <<worldVars, ledgerVars, riskVars, tradeVars, sweepVars, hostVars,
                     started, loaded, incidents, overlapped>>
  BY DEF EodSignal
<1>2. PICK n \in 0..Len(Universe) : \E k \in [1..n -> 1..Len(Universe)] :
         LET fired == [i \in 1..n |-> Universe[k[i]]]
             S == {fired[i] : i \in 1..n}
         IN  /\ queue' \in {queue, queue \o [i \in 1..n |->
                  Signal(IF fired[i] \in believed THEN "sell" ELSE "buy", fired[i])]}
             /\ believed' = (believed \ S) \union (S \ believed)
  BY DEF EodSignal
<1>3. PICK k \in [1..n -> 1..Len(Universe)] :
         LET fired == [i \in 1..n |-> Universe[k[i]]]
             S == {fired[i] : i \in 1..n}
         IN  /\ queue' \in {queue, queue \o [i \in 1..n |->
                  Signal(IF fired[i] \in believed THEN "sell" ELSE "buy", fired[i])]}
             /\ believed' = (believed \ S) \union (S \ believed)
  BY <1>2
<1> DEFINE fired == [i \in 1..n |-> Universe[k[i]]]
           S == {fired[i] : i \in 1..n}
           new == [i \in 1..n |->
                     Signal(IF fired[i] \in believed THEN "sell" ELSE "buy", fired[i])]
<1>4. n \in Nat /\ \A i \in 1..n : fired[i] \in Symbols
  BY TradingDayAssumption DEF Symbols
<1>5. \A i \in 1..n : new[i] \in SignalType
  BY <1>4 DEF Signal, SignalType
<1>6. queue' \in {queue, queue \o new} /\ believed' = (believed \ S) \union (S \ believed)
  BY <1>3
<1>7. S \subseteq Symbols
  BY <1>4
<1>8. new \in [1..n -> SignalType]
  <2>1. new = [i \in 1..n |-> new[i]]
    OBVIOUS
  <2> HIDE DEF new
  <2> QED
    BY <1>5, <2>1
<1> HIDE DEF new, S, fired
<1>9. new \in Seq(SignalType)
  BY <1>4, <1>8
<1>10. queue' \in Seq(SignalType) /\ believed' \subseteq Symbols
  <2>1. queue \in Seq(SignalType) /\ believed \subseteq Symbols
    BY DEF TypeOK, ProcessTypes, SweepTypes
  <2>2. queue \o new \in Seq(SignalType)
    BY <1>9, <2>1, ConcatProperties
  <2> QED
    BY <1>6, <1>7, <2>1, <2>2
<1>11. job' \in [Jobs -> JobValues]
  BY <1>1, GoesTypes DEF JobValues
<1>12. WorldTypes'
  BY <1>1 DEF TypeOK, WorldTypes, worldVars, tradeVars
<1>13. LedgerTypes'
  BY <1>1 DEF TypeOK, LedgerTypes, Ids, ledgerVars, tradeVars
<1>14. ProcessTypes'
  BY <1>1, <1>10, <1>11 DEF TypeOK, ProcessTypes, hostVars, riskVars, tradeVars, JobValues
<1>15. SweepTypes'
  BY <1>1, <1>10 DEF TypeOK, SweepTypes, Ids, sweepVars, eventVars, tradeVars
<1> QED
  BY <1>12, <1>13, <1>14, <1>15 DEF TypeOK

\* Everything keeps its type.
THEOREM TypeCorrect == Spec => []TypeOK
<1>1. Init => TypeOK
  BY InitTypes
<1>2. TypeOK /\ [Next]_vars => TypeOK'
  <2> SUFFICES ASSUME TypeOK, [Next]_vars PROVE TypeOK'
    OBVIOUS
  <2>1. CASE UNCHANGED vars
    BY <2>1 DEF TypeOK, WorldTypes, LedgerTypes, ProcessTypes, SweepTypes, Ids, vars,
       worldVars, ledgerVars, riskVars, tradeVars, sweepVars, eventVars, hostVars
  <2>2. CASE Boot \/ Crash \/ Exit \/ Shutdown
    BY <2>2, HostTypes
  <2>3. CASE Tick
    BY <2>3, TickTypes
  <2>4. CASE StartFails \/ LoadOpenPositions \/ StartSession \/ RestoreRaises
    BY <2>4, StartTypes
  <2>5. CASE StepSkipped \/ StepBegins \/ StepReturns \/ StepEnds
    BY <2>5, AroundTypes
  <2>6. CASE EntryPasses \/ Reconcile \/ Bars
    BY <2>6, SweepStepTypes
  <2>7. CASE EntryFilled \/ ExitFilled
    BY <2>7, FilledTypes
  <2>8. CASE Raising
    BY <2>8, RaisingTypes
  <2>9. CASE Record \/ DailyReport \/ EodSignal
    BY <2>9, RecordTypes, ReportTypes, EodTypes
  <2> QED
    BY <2>1, <2>2, <2>3, <2>4, <2>5, <2>6, <2>7, <2>8, <2>9 DEF Next, Callback, Raising
<1> QED
  BY <1>1, <1>2, PTL DEF Spec

-----------------------------------------------------------------------------
(* One alarm per outage.                                                   *)

\* A step leaves the counters alone, counts one operation, or ends the process.
LEMMA Counting ==
    ASSUME [Next]_vars
    PROVE  \/ UNCHANGED <<failures, emitted>>
           \/ Fresh
           \/ \E op \in Ops : Succeeds(op) \/ Fails(op)
<1>1. CASE UNCHANGED vars
  BY <1>1 DEF vars, ledgerVars
<1>2. CASE Boot \/ Crash \/ Exit
  BY <1>2 DEF Boot, Crash, Exit
<1>3. CASE Shutdown \/ Tick
  BY <1>3 DEF Shutdown, Tick, ledgerVars
<1>4. CASE StartFails
  BY <1>4 DEF StartFails
<1>5. CASE LoadOpenPositions
  <2>1. "open" \in Ops
    BY DEF Ops
  <2> QED
    BY <1>5, <2>1 DEF LoadOpenPositions
<1>6. CASE StartSession \/ RestoreRaises
  <2>1. "pnl" \in Ops
    BY DEF Ops
  <2>2. PICK buys : LoadDailyPnl(buys)
    BY <1>6 DEF StartSession, RestoreRaises
  <2> QED
    BY <2>1, <2>2 DEF LoadDailyPnl
<1>7. CASE StepSkipped \/ StepBegins \/ StepReturns \/ StepEnds \/ EntryPasses
           \/ Reconcile \/ Bars \/ EntryFilled \/ ExitFilled
  BY <1>7 DEF StepSkipped, StepBegins, StepReturns, StepEnds, EntryPasses, Reconcile, Bars,
     EntryFilled, ExitFilled, TradeBooked, ledgerUnchanged
<1>8. CASE Raising
  BY <1>8 DEF Raising, OrderRaises, OrderIsLost, SubscriptionRaises, ReconcileRaises,
     BarsRaise, Raises, ledgerUnchanged
<1>9. CASE Record
  <2>1. PICK id : Insert(id)
    BY <1>9 DEF Record
  <2>2. OpOf(id) \in Ops
    BY DEF OpOf, Ops
  <2> QED
    BY <2>1, <2>2, InsertCounts
<1>10. CASE DailyReport
  <2>1. "summary" \in Ops
    BY DEF Ops
  <2> QED
    BY <1>10, <2>1 DEF DailyReport
<1>11. CASE EodSignal
  BY <1>11 DEF EodSignal, ledgerVars
<1> QED
  BY <1>1, <1>2, <1>3, <1>4, <1>5, <1>6, <1>7, <1>8, <1>9, <1>10, <1>11
     DEF Next, Callback, Raising

\* The critical message of an operation has been sent exactly when its failures
\* in a row have reached the threshold, whatever the threshold.
THEOREM AlarmsCorrect == Spec => []AlarmAtThreshold
<1>1. Init => AlarmAtThreshold
  BY TradingDayAssumption DEF Init, AlarmAtThreshold
<1>2. TypeOK /\ AlarmAtThreshold /\ [Next]_vars => AlarmAtThreshold'
  <2> SUFFICES ASSUME TypeOK, AlarmAtThreshold, [Next]_vars, NEW o \in Ops
               PROVE  emitted'[o] <=> failures'[o] >= Threshold
    BY DEF AlarmAtThreshold
  <2>0. /\ Threshold \in Nat \ {0}
        /\ failures \in [Ops -> Nat] /\ emitted \in [Ops -> BOOLEAN]
        /\ emitted[o] <=> failures[o] >= Threshold
    BY TradingDayAssumption DEF TypeOK, LedgerTypes, AlarmAtThreshold
  <2>1. CASE UNCHANGED <<failures, emitted>>
    BY <2>0, <2>1
  <2>2. CASE Fresh
    BY <2>0, <2>2 DEF Fresh
  <2>3. ASSUME NEW op \in Ops, Succeeds(op) PROVE emitted'[o] <=> failures'[o] >= Threshold
    BY <2>0, <2>3 DEF Succeeds
  <2>4. ASSUME NEW op \in Ops, Fails(op) PROVE emitted'[o] <=> failures'[o] >= Threshold
    <3>1. CASE o = op
      <4>1. failures'[o] = failures[o] + 1
        BY <2>0, <2>4, <3>1 DEF Fails
      <4>2. emitted'[o] <=> emitted[o] \/ failures[o] + 1 >= Threshold
        BY <2>0, <2>4, <3>1 DEF Fails
      <4>3. failures[o] \in Nat
        BY <2>0
      <4>4. failures[o] >= Threshold => failures[o] + 1 >= Threshold
        BY <2>0, <4>3
      <4>5. emitted'[o] <=> failures[o] + 1 >= Threshold
        BY <2>0, <4>2, <4>4, Zenon
      <4> QED
        BY <4>1, <4>5
    <3>2. CASE o # op
      BY <2>0, <2>4, <3>2 DEF Fails
    <3> QED
      BY <3>1, <3>2
  <2> QED
    BY <2>1, <2>2, <2>3, <2>4, Counting
<1> QED
  BY <1>1, <1>2, TypeCorrect, PTL DEF Spec

-----------------------------------------------------------------------------
(* Nothing traded is forgotten in silence.                                 *)

\* The events of a sweep exist only during the sweep, its report only while it
\* is recorded, and neither outlives the day: the break between two days waits
\* for every callback.
EventsInSweep ==
    /\ job["step"] \notin {"flush", "bars"} => entryEvents = <<>> /\ exitEvents = <<>>
    /\ job["step"] # "record" => report = <<>>
    /\ process = "down" => job["step"] = "idle"
    /\ \A id \in Ids : InFlight(id) => fills[id].day = day

LossInv == TypeOK /\ EventsInSweep /\ LossIsReported

\* What a place holds is in the range, and nothing else.
LEMMA ElementsHas ==
    ASSUME NEW s, NEW i \in 1..Len(s)
    PROVE  s[i] \in Elements(s)
BY DEF Elements

LEMMA ElementsWithin ==
    ASSUME NEW s, NEW X, \A i \in 1..Len(s) : s[i] \in X
    PROVE  Elements(s) \subseteq X
BY DEF Elements

\* The elements of a list with one more, of its rest, of two lists in a row.
LEMMA ElementsAppend ==
    ASSUME NEW S, NEW s \in Seq(S), NEW e \in S
    PROVE  Elements(Append(s, e)) = Elements(s) \union {e}
<1>1. Len(Append(s, e)) = Len(s) + 1 /\ Len(s) \in Nat
  OBVIOUS
<1>2. Append(s, e)[Len(s) + 1] = e /\ \A i \in 1..Len(s) : Append(s, e)[i] = s[i]
  BY IdsGrow
<1>3. 1..(Len(s) + 1) = 1..Len(s) \union {Len(s) + 1}
  BY <1>1
<1> QED
  BY <1>1, <1>2, <1>3 DEF Elements

LEMMA ElementsTail ==
    ASSUME NEW S, NEW s \in Seq(S), s # <<>>
    PROVE  Elements(s) = Elements(Tail(s)) \union {Head(s)}
<1>1. /\ Len(s) \in Nat \ {0} /\ Len(Tail(s)) = Len(s) - 1 /\ Head(s) = s[1]
      /\ \A i \in 1..(Len(s) - 1) : Tail(s)[i] = s[i + 1]
  BY HeadTailProperties, EmptySeq
<1>2. \A i \in 1..Len(s) : i = 1 \/ (i - 1 \in 1..(Len(s) - 1) /\ Tail(s)[i - 1] = s[i])
  BY <1>1
<1>3. \A i \in 1..(Len(s) - 1) : i + 1 \in 1..Len(s)
  BY <1>1
<1>4. 1 \in 1..Len(s)
  BY <1>1
<1>5. Elements(s) \subseteq Elements(Tail(s)) \union {Head(s)}
  <2> SUFFICES ASSUME NEW i \in 1..Len(s) PROVE s[i] \in Elements(Tail(s)) \union {Head(s)}
    BY DEF Elements
  <2>1. CASE i = 1
    BY <1>1, <2>1
  <2>2. CASE i # 1
    <3>1. i - 1 \in 1..Len(Tail(s)) /\ Tail(s)[i - 1] = s[i]
      BY <1>1, <1>2, <2>2
    <3>2. Tail(s)[i - 1] \in Elements(Tail(s))
      BY <3>1, ElementsHas
    <3> QED
      BY <3>1, <3>2
  <2> QED
    BY <2>1, <2>2
<1>6. Elements(Tail(s)) \union {Head(s)} \subseteq Elements(s)
  BY <1>1, <1>3, <1>4 DEF Elements
<1> QED
  BY <1>5, <1>6

LEMMA ElementsConcat ==
    ASSUME NEW S, NEW s \in Seq(S), NEW t \in Seq(S)
    PROVE  Elements(s \o t) = Elements(s) \union Elements(t)
<1>1. /\ Len(s) \in Nat /\ Len(t) \in Nat /\ Len(s \o t) = Len(s) + Len(t)
      /\ \A i \in 1..(Len(s) + Len(t)) :
            (s \o t)[i] = IF i <= Len(s) THEN s[i] ELSE t[i - Len(s)]
  BY ConcatProperties
<1>2. \A i \in 1..Len(s) : i \in 1..(Len(s) + Len(t)) /\ (s \o t)[i] = s[i]
  BY <1>1
<1>3. \A i \in 1..Len(t) : /\ i + Len(s) \in 1..(Len(s) + Len(t))
                           /\ (s \o t)[i + Len(s)] = t[i]
  <2> TAKE i \in 1..Len(t)
  <2>1. i + Len(s) \in 1..(Len(s) + Len(t)) /\ ~(i + Len(s) <= Len(s))
        /\ (i + Len(s)) - Len(s) = i
    BY <1>1
  <2> QED
    BY <1>1, <2>1
<1>4. \A i \in 1..(Len(s) + Len(t)) : i \in 1..Len(s) \/ i - Len(s) \in 1..Len(t)
  BY <1>1
<1>5. Elements(s) \union Elements(t) \subseteq Elements(s \o t)
  <2>1. \A i \in 1..Len(s) : s[i] \in Elements(s \o t)
    <3> TAKE i \in 1..Len(s)
    <3>1. i \in 1..Len(s \o t) /\ (s \o t)[i] = s[i]
      BY <1>1, <1>2
    <3>2. (s \o t)[i] \in Elements(s \o t)
      BY <3>1, ElementsHas
    <3> QED
      BY <3>1, <3>2
  <2>2. \A i \in 1..Len(t) : t[i] \in Elements(s \o t)
    <3> TAKE i \in 1..Len(t)
    <3>1. i + Len(s) \in 1..Len(s \o t) /\ (s \o t)[i + Len(s)] = t[i]
      BY <1>1, <1>3
    <3>2. (s \o t)[i + Len(s)] \in Elements(s \o t)
      BY <3>1, ElementsHas
    <3> QED
      BY <3>1, <3>2
  <2>3. Elements(s) \subseteq Elements(s \o t)
    BY <2>1, ElementsWithin
  <2>4. Elements(t) \subseteq Elements(s \o t)
    BY <2>2, ElementsWithin
  <2> QED
    BY <2>3, <2>4
<1>6. Elements(s \o t) \subseteq Elements(s) \union Elements(t)
  <2> SUFFICES ASSUME NEW i \in 1..(Len(s) + Len(t))
               PROVE  (s \o t)[i] \in Elements(s) \union Elements(t)
    BY <1>1 DEF Elements
  <2>1. CASE i \in 1..Len(s)
    BY <1>1, <1>2, <2>1 DEF Elements
  <2>2. CASE i \notin 1..Len(s)
    <3>1. i - Len(s) \in 1..Len(t) /\ ~(i <= Len(s))
      BY <1>1, <1>4, <2>2
    <3>2. (s \o t)[i] = t[i - Len(s)]
      BY <1>1, <3>1
    <3> QED
      BY <3>1, <3>2 DEF Elements
  <2> QED
    BY <2>1, <2>2
<1> QED
  BY <1>5, <1>6

\* Nothing is in flight when the lists are empty.
LEMMA NoneInFlight ==
    ASSUME entryEvents = <<>>, exitEvents = <<>>, report = <<>>, NEW id
    PROVE  ~InFlight(id)
<1>1. Elements(entryEvents) = {} /\ Elements(exitEvents) = {} /\ Elements(report) = {}
  BY DEF Elements
<1> QED
  BY <1>1 DEF InFlight

\* A step that neither trades nor records, and does not drop events.
LEMMA Untouched ==
    ASSUME EventsInSweep, LossIsReported,
           UNCHANGED <<day, fills, orders, entryEvents, exitEvents, report, process>>,
           incidents \subseteq incidents',
           \/ job'["step"] = job["step"]
           \/ /\ job["step"] \in {"flush", "bars"} <=> job'["step"] \in {"flush", "bars"}
              /\ job["step"] = "record" => report = <<>>
              /\ job["step"] # "idle" /\ job'["step"] # "record"
    PROVE  EventsInSweep' /\ LossIsReported'
<1>1. \A id : (InFlight(id)' <=> InFlight(id)) /\ (Recorded(id)' <=> Recorded(id))
  BY DEF InFlight, Recorded, Elements
<1>2. EventsInSweep'
  BY <1>1 DEF EventsInSweep, Ids
<1>3. LossIsReported'
  BY <1>1 DEF LossIsReported, Ids
<1> QED
  BY <1>2, <1>3

\* A time of the day comes: the day changes between the callbacks only.
LEMMA TickLoses == ASSUME LossInv, Tick PROVE EventsInSweep' /\ LossIsReported'
<1>1. UNCHANGED <<fills, orders, entryEvents, exitEvents, report, process, incidents>>
  BY DEF Tick, tradeVars, ledgerVars, sweepVars, eventVars, hostVars
<1>2. "step" \in Jobs /\ job \in [Jobs -> JobValues]
  BY DEF Jobs, LossInv, TypeOK, ProcessTypes, JobValues
<1>3. \/ job'["step"] = job["step"]
      \/ job["step"] = "idle" /\ job'["step"] = "called" /\ process = "up"
  BY <1>2 DEF Tick
<1>4. \A id : (InFlight(id)' <=> InFlight(id)) /\ (Recorded(id)' <=> Recorded(id))
  BY <1>1 DEF InFlight, Recorded, Elements
<1>5. LossIsReported'
  BY <1>1, <1>4 DEF LossInv, LossIsReported, Ids
<1>6. day' = day \/ AllIdle
  BY TradingDayAssumption DEF Tick
<1>7. \A id \in Ids : InFlight(id) => fills[id].day = day'
  <2>1. CASE day' = day
    BY <2>1 DEF LossInv, EventsInSweep
  <2>2. CASE AllIdle
    <3>1. entryEvents = <<>> /\ exitEvents = <<>> /\ report = <<>>
      BY <1>2, <2>2 DEF AllIdle, LossInv, EventsInSweep
    <3> QED
      BY <3>1, NoneInFlight
  <2> QED
    BY <1>6, <2>1, <2>2
<1>8. EventsInSweep'
  BY <1>1, <1>3, <1>4, <1>7 DEF LossInv, EventsInSweep, Ids
<1> QED
  BY <1>5, <1>8

\* The process starts, dies, ends.
LEMMA HostLoses ==
    ASSUME LossInv, Boot \/ Crash \/ Exit
    PROVE  EventsInSweep' /\ LossIsReported'
<1>1. Fresh /\ UNCHANGED <<day, fills, orders>> /\ incidents \subseteq incidents'
  BY DEF Boot, Crash, Exit, worldVars, Tell
<1>2. /\ entryEvents' = <<>> /\ exitEvents' = <<>> /\ report' = <<>>
      /\ job'["step"] = "idle"
  BY <1>1 DEF Fresh, Jobs
<1>3. \A id : ~InFlight(id)'
  <2>1. Elements(entryEvents)' = {} /\ Elements(exitEvents)' = {} /\ Elements(report)' = {}
    BY <1>2 DEF Elements
  <2> QED
    BY <2>1 DEF InFlight
<1>4. EventsInSweep'
  BY <1>2, <1>3 DEF EventsInSweep
<1>5. ASSUME NEW id \in Ids, ~Recorded(id), fills[id].day \notin incidents
      PROVE  day \in incidents' /\ fills[id].day = day
  <2>1. InFlight(id) /\ fills[id].day = day
    BY <1>5 DEF LossInv, LossIsReported, EventsInSweep
  <2>2. CASE Crash
    BY <2>1, <2>2 DEF Crash, Tell
  <2>3. CASE Boot \/ Exit
    <3>1. job["step"] = "idle"
      BY <2>3 DEF Boot, Exit, AllIdle, Jobs, LossInv, EventsInSweep
    <3>2. entryEvents = <<>> /\ exitEvents = <<>> /\ report = <<>>
      BY <3>1 DEF LossInv, EventsInSweep
    <3> QED
      BY <2>1, <3>2, NoneInFlight
  <2> QED
    BY <2>2, <2>3
<1>6. \A id : Recorded(id)' <=> Recorded(id)
  BY <1>1 DEF Recorded, Elements
<1>7. LossIsReported'
  BY <1>1, <1>5, <1>6 DEF LossIsReported, Ids
<1> QED
  BY <1>4, <1>7

\* A filled and booked order is in flight.
LEMMA FilledLoses ==
    ASSUME LossInv, EntryFilled \/ ExitFilled
    PROVE  EventsInSweep' /\ LossIsReported'
<1> DEFINE n == Len(fills) + 1
<1>1. /\ TypeOK /\ TradeBooked /\ Trade /\ todo # <<>>
      /\ job["step"] \in {"flush", "bars"}
  BY DEF EntryFilled, ExitFilled, Processing, InSweep, TradeBooked, LossInv
<1>2. UNCHANGED <<day, orders, report, process, job, incidents>>
  BY <1>1 DEF TradeBooked, ledgerUnchanged, stepUnchanged, daySteady, worldVars, hostVars
<1>3. /\ fills'[n].day = day /\ \A i \in Ids : fills'[i] = fills[i]
      /\ Ids' = Ids \union {n} /\ n \in Ids'
  BY <1>1, TradeTypes
<1>4. /\ entryEvents \in Seq(Ids') /\ exitEvents \in Seq(Ids')
  BY <1>1, TradeTypes DEF TypeOK, SweepTypes
<1>5. \A id : InFlight(id)' <=> InFlight(id) \/ id = n
  <2>1. CASE EntryFilled
    <3>1. entryEvents' = Append(entryEvents, n) /\ exitEvents' = exitEvents
      BY <2>1 DEF EntryFilled
    <3>2. Elements(entryEvents)' = Elements(entryEvents) \union {n}
      <4>1. Elements(Append(entryEvents, n)) = Elements(entryEvents) \union {n}
        BY <1>3, <1>4, ElementsAppend
      <4> QED
        BY <3>1, <4>1 DEF Elements
    <3>3. Elements(exitEvents)' = Elements(exitEvents) /\ Elements(report)' = Elements(report)
      BY <1>2, <3>1 DEF Elements
    <3> QED
      BY <3>2, <3>3 DEF InFlight
  <2>2. CASE ExitFilled
    <3>1. exitEvents' = Append(exitEvents, n) /\ entryEvents' = entryEvents
      BY <2>2 DEF ExitFilled
    <3>2. Elements(exitEvents)' = Elements(exitEvents) \union {n}
      <4>1. Elements(Append(exitEvents, n)) = Elements(exitEvents) \union {n}
        BY <1>3, <1>4, ElementsAppend
      <4> QED
        BY <3>1, <4>1 DEF Elements
    <3>3. Elements(entryEvents)' = Elements(entryEvents) /\ Elements(report)' = Elements(report)
      BY <1>2, <3>1 DEF Elements
    <3> QED
      BY <3>2, <3>3 DEF InFlight
  <2> QED
    BY <2>1, <2>2
<1>6. \A id : Recorded(id)' <=> Recorded(id)
  BY <1>2 DEF Recorded, Elements
<1> HIDE DEF n
<1>7. EventsInSweep'
  BY <1>1, <1>2, <1>3, <1>5 DEF LossInv, EventsInSweep
<1>8. LossIsReported'
  BY <1>2, <1>3, <1>5, <1>6 DEF LossInv, LossIsReported
<1> QED
  BY <1>7, <1>8

\* An exception drops the events of its sweep, and is reported.
LEMMA RaisingLoses ==
    ASSUME LossInv, Raising
    PROVE  EventsInSweep' /\ LossIsReported'
<1>1. TypeOK /\ Raises /\ job["step"] \in {"flush", "bars"}
  BY DEF Raising, OrderRaises, OrderIsLost, SubscriptionRaises, ReconcileRaises, BarsRaise,
     Tradable, InSweep, LossInv
<1>2. /\ UNCHANGED <<day, orders, report, process>>
      /\ entryEvents' = <<>> /\ exitEvents' = <<>> /\ report = <<>>
      /\ incidents' = incidents \union {day}
  BY <1>1 DEF Raises, ledgerUnchanged, stepUnchanged, daySteady, worldVars, hostVars, Tell, LossInv,
     EventsInSweep
<1>3. job'["step"] = "idle"
  BY <1>1 DEF Raises, Goes, TypeOK, ProcessTypes, Jobs
<1>4. \/ UNCHANGED fills
      \/ Trade /\ todo # <<>>
  BY DEF Raising, OrderRaises, OrderIsLost, SubscriptionRaises, ReconcileRaises, BarsRaise,
     Tradable, untraded
<1>5. \A id \in Ids' : (id \in Ids /\ fills'[id] = fills[id]) \/ fills'[id].day = day
  <2>1. CASE UNCHANGED fills
    BY <2>1 DEF Ids
  <2>2. CASE Trade /\ todo # <<>>
    BY <1>1, <2>2, TradeTypes
  <2> QED
    BY <1>4, <2>1, <2>2
<1>6. \A id : Recorded(id)' <=> Recorded(id)
  BY <1>2 DEF Recorded, Elements
<1>7. \A id : ~InFlight(id)'
  <2>1. Elements(entryEvents)' = {} /\ Elements(exitEvents)' = {} /\ Elements(report)' = {}
    BY <1>2 DEF Elements
  <2> QED
    BY <2>1 DEF InFlight
<1>8. EventsInSweep'
  BY <1>2, <1>3, <1>7 DEF EventsInSweep
<1>9. \A id \in Ids : Recorded(id) \/ fills[id].day = day \/ fills[id].day \in incidents
  BY DEF LossInv, LossIsReported, EventsInSweep
<1>10. LossIsReported'
  BY <1>2, <1>5, <1>6, <1>9 DEF LossIsReported
<1> QED
  BY <1>8, <1>10

\* A sweep begins with empty lists, and none was full.
LEMMA BeginLoses ==
    ASSUME LossInv, StepBegins
    PROVE  EventsInSweep' /\ LossIsReported'
<1>1. /\ UNCHANGED <<day, fills, orders, report, process, incidents>>
      /\ entryEvents' = <<>> /\ exitEvents' = <<>> /\ job["step"] = "called"
  BY DEF StepBegins, Taken, stepUnchanged, daySteady, worldVars, hostVars, tradeVars
<1>2. entryEvents = <<>> /\ exitEvents = <<>> /\ report = <<>>
  BY <1>1 DEF LossInv, EventsInSweep
<1>3. job'["step"] = "flush" /\ process # "down"
  BY <1>1 DEF StepBegins, Goes, LossInv, EventsInSweep, TypeOK, ProcessTypes, Jobs
<1>4. \A id : (InFlight(id)' <=> InFlight(id)) /\ (Recorded(id)' <=> Recorded(id))
  BY <1>1, <1>2 DEF InFlight, Recorded, Elements
<1>5. EventsInSweep'
  BY <1>1, <1>2, <1>3, <1>4 DEF LossInv, EventsInSweep, Ids
<1>6. LossIsReported'
  BY <1>1, <1>4 DEF LossInv, LossIsReported, Ids
<1> QED
  BY <1>5, <1>6

\* A sweep that returns hands its events on.
LEMMA ReturnLoses ==
    ASSUME LossInv, StepReturns
    PROVE  EventsInSweep' /\ LossIsReported'
<1>1. /\ UNCHANGED <<day, fills, orders, process, incidents>>
      /\ entryEvents' = <<>> /\ exitEvents' = <<>>
      /\ report' = entryEvents \o exitEvents /\ job["step"] = "bars"
  BY DEF StepReturns, stepUnchanged, daySteady, worldVars, hostVars, tradeVars
<1>2. report = <<>> /\ process # "down"
  BY <1>1 DEF LossInv, EventsInSweep
<1>3. job'["step"] = "record"
  BY DEF StepReturns, Goes, LossInv, TypeOK, ProcessTypes, Jobs
<1>4. \A id : InFlight(id)' <=> InFlight(id)
  <2>1. Elements(entryEvents \o exitEvents) = Elements(entryEvents) \union Elements(exitEvents)
    BY ElementsConcat DEF LossInv, TypeOK, SweepTypes
  <2>2. Elements(report)' = Elements(entryEvents) \union Elements(exitEvents)
    BY <1>1, <2>1 DEF Elements
  <2>3. Elements(entryEvents)' = {} /\ Elements(exitEvents)' = {} /\ Elements(report) = {}
    BY <1>1, <1>2 DEF Elements
  <2> QED
    BY <2>2, <2>3 DEF InFlight
<1>5. \A id : Recorded(id)' <=> Recorded(id)
  BY <1>1 DEF Recorded, Elements
<1>6. EventsInSweep'
  BY <1>1, <1>2, <1>3, <1>4 DEF LossInv, EventsInSweep, Ids
<1>7. LossIsReported'
  BY <1>1, <1>4, <1>5 DEF LossInv, LossIsReported, Ids
<1> QED
  BY <1>6, <1>7

\* The head of the report is written, or its loss is reported.
LEMMA RecordLoses ==
    ASSUME LossInv, Record
    PROVE  EventsInSweep' /\ LossIsReported'
<1> DEFINE e == Head(report)
<1>1. /\ UNCHANGED <<day, fills, process, job, entryEvents, exitEvents>>
      /\ report # <<>> /\ report' = Tail(report) /\ job["step"] = "record"
      /\ Insert(e)
  BY DEF Record, stepUnchanged, daySteady, worldVars, hostVars, tradeVars, eventVars
<1>2. report \in Seq(Ids) /\ e \in Ids /\ orders \in Seq(Ids)
  BY <1>1, HeadTyped DEF LossInv, TypeOK, SweepTypes, LedgerTypes
<1>3. Elements(report) = Elements(report)' \union {e}
  <2>1. Elements(report) = Elements(Tail(report)) \union {Head(report)}
    BY <1>1, <1>2, ElementsTail
  <2> QED
    BY <1>1, <2>1 DEF Elements
<1>4. \A id : /\ InFlight(id)' => InFlight(id)
             /\ InFlight(id) => InFlight(id)' \/ id = e
  <2>1. /\ Elements(entryEvents)' = Elements(entryEvents)
        /\ Elements(exitEvents)' = Elements(exitEvents)
    BY <1>1 DEF Elements
  <2> QED
    BY <1>3, <2>1 DEF InFlight
<1>5. fills[e].day = day
  <2>1. InFlight(e)
    BY <1>3 DEF InFlight
  <2> QED
    BY <1>2, <2>1 DEF LossInv, EventsInSweep
<1>6. \/ Elements(orders)' = Elements(orders) \union {e} /\ incidents' = incidents
      \/ Elements(orders)' = Elements(orders) /\ incidents' = incidents \union {day}
  <2>1. \/ orders' = Append(orders, e) /\ incidents' = incidents
        \/ orders' = orders /\ incidents' = incidents \union {day}
    BY <1>1 DEF Insert, Tell
  <2>2. Elements(Append(orders, e)) = Elements(orders) \union {e}
    BY <1>2, ElementsAppend
  <2> QED
    BY <2>1, <2>2 DEF Elements
<1> HIDE DEF e
<1>7. EventsInSweep'
  <2>1. \A id \in Ids' : InFlight(id)' => fills'[id].day = day'
    <3> TAKE id \in Ids'
    <3>1. id \in Ids /\ fills' = fills /\ day' = day
      BY <1>1 DEF Ids
    <3>2. InFlight(id) => fills[id].day = day
      BY <3>1 DEF LossInv, EventsInSweep
    <3>3. InFlight(id)' => InFlight(id)
      <4>1. /\ Elements(entryEvents)' = Elements(entryEvents)
            /\ Elements(exitEvents)' = Elements(exitEvents)
        BY <1>1 DEF Elements
      <4> QED
        BY <1>3, <4>1 DEF InFlight
    <3> QED
      BY <3>1, <3>2, <3>3, Zenon
  <2> QED
    BY <1>1, <2>1 DEF LossInv, EventsInSweep
<1>8. LossIsReported'
  BY <1>1, <1>4, <1>5, <1>6 DEF LossInv, LossIsReported, Recorded, Ids
<1> QED
  BY <1>7, <1>8

\* Every other step leaves fills, ledger and events alone.
LEMMA OthersLose ==
    ASSUME LossInv,
           \/ UNCHANGED vars \/ Shutdown
           \/ StartFails \/ LoadOpenPositions \/ StartSession \/ RestoreRaises
           \/ StepSkipped \/ StepEnds \/ EntryPasses \/ Reconcile \/ Bars
           \/ DailyReport \/ EodSignal
    PROVE  EventsInSweep' /\ LossIsReported'
<1>1. EventsInSweep /\ LossIsReported
  BY DEF LossInv
<1>2. job \in [Jobs -> JobValues] /\ "step" \in Jobs
  BY DEF LossInv, TypeOK, ProcessTypes, Jobs, JobValues
<1>3. CASE UNCHANGED vars
  BY <1>1, <1>3, Untouched
     DEF vars, worldVars, tradeVars, ledgerVars, sweepVars, eventVars, hostVars
<1>4. CASE StartFails \/ LoadOpenPositions \/ StartSession \/ RestoreRaises
  <2>1. /\ UNCHANGED <<day, fills, orders, entryEvents, exitEvents, report, process>>
        /\ incidents \subseteq incidents'
        /\ job'["step"] = job["step"]
    BY <1>2, <1>4 DEF StartFails, LoadOpenPositions, StartSession, RestoreRaises,
       sessionUnchanged, worldVars, sweepVars, eventVars, hostVars, Goes, Tell
  <2> QED
    BY <1>1, <2>1, Untouched
<1>5. CASE DailyReport \/ EodSignal
  <2>1. /\ UNCHANGED <<day, fills, orders, entryEvents, exitEvents, report, process, incidents>>
        /\ job'["step"] = job["step"]
    BY <1>2, <1>5 DEF DailyReport, EodSignal, worldVars, sweepVars, eventVars, hostVars,
       tradeVars, ledgerVars, Goes
  <2> QED
    BY <1>1, <2>1, Untouched
<1>6. CASE EntryPasses \/ Reconcile \/ Bars
  <2>1. /\ UNCHANGED <<day, fills, orders, entryEvents, exitEvents, report, process, incidents>>
    BY <1>6 DEF EntryPasses, Reconcile, Bars, stepUnchanged, daySteady, ledgerUnchanged, worldVars,
       eventVars, hostVars, tradeVars
  <2>2. \/ job'["step"] = job["step"]
        \/ job["step"] = "flush" /\ job'["step"] = "bars"
    BY <1>2, <1>6 DEF EntryPasses, Reconcile, Bars, Goes
  <2> QED
    BY <1>1, <2>1, <2>2, Untouched
<1>7. CASE StepSkipped \/ StepEnds
  <2>1. /\ UNCHANGED <<day, fills, orders, entryEvents, exitEvents, report, process>>
        /\ incidents \subseteq incidents'
    BY <1>7 DEF StepSkipped, StepEnds, stepUnchanged, daySteady, ledgerUnchanged, worldVars,
       sweepVars, eventVars, hostVars, tradeVars, Tell
  <2>2. /\ job["step"] = "called" \/ (job["step"] = "record" /\ report = <<>>)
        /\ job'["step"] = "idle"
    BY <1>2, <1>7 DEF StepSkipped, StepEnds, Taken, Goes
  <2> QED
    BY <1>1, <2>1, <2>2, Untouched
<1>8. CASE Shutdown
  <2>1. /\ UNCHANGED <<day, fills, orders, entryEvents, exitEvents, report, incidents, job>>
        /\ process' = "closing"
    BY <1>8 DEF Shutdown, worldVars, sweepVars, eventVars, tradeVars, ledgerVars
  <2>2. \A id : (InFlight(id)' <=> InFlight(id)) /\ (Recorded(id)' <=> Recorded(id))
    BY <2>1 DEF InFlight, Recorded, Elements
  <2>3. EventsInSweep'
    BY <1>1, <2>1, <2>2 DEF EventsInSweep, Ids
  <2>4. LossIsReported'
    BY <1>1, <2>1, <2>2 DEF LossIsReported, Ids
  <2> QED
    BY <2>3, <2>4
<1> QED
  BY <1>3, <1>4, <1>5, <1>6, <1>7, <1>8

LEMMA LossHolds == Spec => []LossInv
<1>1. Init => LossInv
  <2> SUFFICES ASSUME Init PROVE LossInv
    OBVIOUS
  <2>1. Ids = {} /\ entryEvents = <<>> /\ exitEvents = <<>> /\ report = <<>>
    BY DEF Init, Ids
  <2>2. EventsInSweep
    BY <2>1 DEF EventsInSweep, Init
  <2>3. LossIsReported
    BY <2>1 DEF LossIsReported
  <2> QED
    BY <2>2, <2>3, InitTypes DEF LossInv
<1>2. LossInv /\ TypeOK' /\ [Next]_vars => LossInv'
  <2> SUFFICES ASSUME LossInv, [Next]_vars PROVE EventsInSweep' /\ LossIsReported'
    BY DEF LossInv
  <2>1. CASE Boot \/ Crash \/ Exit
    BY <2>1, HostLoses
  <2>2. CASE Tick
    BY <2>2, TickLoses
  <2>3. CASE EntryFilled \/ ExitFilled
    BY <2>3, FilledLoses
  <2>4. CASE Raising
    BY <2>4, RaisingLoses
  <2>5. CASE StepBegins \/ StepReturns \/ Record
    BY <2>5, BeginLoses, ReturnLoses, RecordLoses
  <2>6. CASE \/ UNCHANGED vars \/ Shutdown
             \/ StartFails \/ LoadOpenPositions \/ StartSession \/ RestoreRaises
             \/ StepSkipped \/ StepEnds \/ EntryPasses \/ Reconcile \/ Bars
             \/ DailyReport \/ EodSignal
    BY <2>6, OthersLose
  <2> QED
    BY <2>1, <2>2, <2>3, <2>4, <2>5, <2>6 DEF Next, Callback, Raising
<1> QED
  BY <1>1, <1>2, TypeCorrect, PTL DEF Spec

\* A fill is recorded, on its way to the ledger, or its day has a report.
THEOREM LossesReported == Spec => []LossIsReported
<1>1. LossInv => LossIsReported
  BY DEF LossInv
<1> QED
  BY <1>1, LossHolds, PTL

-----------------------------------------------------------------------------
(* Overlaps are noted.                                                     *)

\* A session start that has read the ledger and a sweep exclude each other, or
\* the overlap is on record.
Noted == job["session_start"] = "load_daily_pnl" /\ Sweeping => overlapped

LEMMA JobsTyped ==
    ASSUME TypeOK
    PROVE  /\ job \in [Jobs -> JobValues]
           /\ "step" \in Jobs /\ "session_start" \in Jobs
BY DEF TypeOK, ProcessTypes, Jobs, JobValues

LEMMA NotedStep ==
    ASSUME TypeOK, Noted, [Next]_vars
    PROVE  Noted'
<1>0. /\ job \in [Jobs -> JobValues]
      /\ "step" \in Jobs /\ "session_start" \in Jobs /\ "step" # "session_start"
  BY JobsTyped
<1>1. ASSUME UNCHANGED <<job, overlapped>> PROVE Noted'
  BY <1>1 DEF Noted, Sweeping
<1>2. CASE Boot \/ Crash \/ Exit
  BY <1>0, <1>2 DEF Boot, Crash, Exit, Fresh, Noted
<1>3. CASE Tick
  <2>1. \A j \in Jobs : job'[j] = job[j] \/ job'[j] = "called"
    BY <1>3 DEF Tick
  <2>2. UNCHANGED overlapped
    BY <1>3 DEF Tick
  <2> QED
    BY <1>0, <2>1, <2>2 DEF Noted, Sweeping
<1>4. CASE LoadOpenPositions
  <2>1. job'["step"] = job["step"] /\ overlapped' = Sweeping
    BY <1>0, <1>4 DEF LoadOpenPositions, Goes
  <2> QED
    BY <2>1 DEF Noted, Sweeping
<1>5. CASE StepBegins
  <2>1. /\ job'["session_start"] = job["session_start"]
        /\ overlapped' = (overlapped \/ job["session_start"] = "load_daily_pnl")
    BY <1>0, <1>5 DEF StepBegins, Goes
  <2> QED
    BY <2>1 DEF Noted
<1>6. CASE StartFails \/ StartSession \/ RestoreRaises
  BY <1>0, <1>6 DEF StartFails, StartSession, RestoreRaises, Goes, Noted
<1>7. CASE StepSkipped \/ StepEnds \/ Raising
  <2>1. Goes("step", "idle")
    BY <1>7 DEF StepSkipped, StepEnds, Raising, OrderRaises, OrderIsLost, SubscriptionRaises,
       ReconcileRaises, BarsRaise, Raises
  <2> QED
    BY <1>0, <2>1 DEF Goes, Noted, Sweeping
<1>8. CASE Reconcile \/ StepReturns
  BY <1>0, <1>8 DEF Reconcile, StepReturns, stepUnchanged, Goes, Noted, Sweeping
<1>9. CASE DailyReport \/ EodSignal
  BY <1>0, <1>9 DEF DailyReport, EodSignal, Goes, Noted, Sweeping
<1>10. CASE \/ EntryPasses \/ EntryFilled \/ ExitFilled \/ Bars \/ Record \/ Shutdown
            \/ UNCHANGED vars
  BY <1>1, <1>10 DEF EntryPasses, EntryFilled, ExitFilled, TradeBooked, Bars, Record, Shutdown,
     stepUnchanged, vars
<1> QED
  BY <1>2, <1>3, <1>4, <1>5, <1>6, <1>7, <1>8, <1>9, <1>10 DEF Next, Callback, Raising

\* Only the next session start takes an overlap off the record.
LEMMA OverlapKept ==
    ASSUME [Next]_vars, ~overlapped', ~LoadOpenPositions
    PROVE  ~overlapped
<1>1. CASE Boot \/ Crash \/ Exit \/ Shutdown \/ Tick \/ UNCHANGED vars
  BY <1>1 DEF Boot, Crash, Exit, Shutdown, Tick, vars
<1>2. CASE StartFails \/ StartSession \/ RestoreRaises \/ DailyReport \/ EodSignal
  BY <1>2 DEF StartFails, StartSession, RestoreRaises, DailyReport, EodSignal
<1>3. CASE StepBegins
  BY <1>3 DEF StepBegins
<1>4. CASE \/ StepSkipped \/ EntryPasses \/ EntryFilled \/ ExitFilled \/ Raising
           \/ Reconcile \/ Bars \/ StepReturns \/ Record \/ StepEnds
  <2>1. stepUnchanged
    BY <1>4 DEF StepSkipped, EntryPasses, EntryFilled, ExitFilled, TradeBooked,
       Raising, OrderRaises, OrderIsLost, SubscriptionRaises, ReconcileRaises, BarsRaise, Raises,
       Reconcile, Bars, StepReturns, Record, StepEnds
  <2> QED
    BY <2>1 DEF stepUnchanged
<1> QED
  BY <1>1, <1>2, <1>3, <1>4 DEF Next, Callback, Raising

-----------------------------------------------------------------------------
(* What the bar loop buys.                                                 *)

\* From the comparison on, the positions are the account's, unless trading is
\* halted or a session start has discarded the comparison.
Backed ==
    job["step"] = "bars" /\ checked # "none" /\ ~halt /\ ~dry =>
        checked = "match" /\ held = account

\* A filled order moves account and positions alike.
LEMMA TradeMoves ==
    ASSUME TradeBooked, ~dry, held = account
    PROVE  held' = account'
BY DEF TradeBooked, Trade

LEMMA BackStep ==
    ASSUME TypeOK, Backed, [Next]_vars
    PROVE  Backed'
<1>0. /\ job \in [Jobs -> JobValues]
      /\ "step" \in Jobs /\ "session_start" \in Jobs /\ "step" # "session_start"
  BY JobsTyped
<1>1. ASSUME UNCHANGED <<held, account, dry, halt, checked>>, job'["step"] = "bars" => job["step"] = "bars"
      PROVE  Backed'
  BY <1>0, <1>1 DEF Backed
<1>2. CASE Boot \/ Crash \/ Exit
  BY <1>0, <1>2 DEF Boot, Crash, Exit, Fresh, Backed
<1>3. CASE Tick
  <2>1. job'["step"] = job["step"] \/ job'["step"] = "called"
    BY <1>0, <1>3 DEF Tick
  <2> QED
    BY <1>1, <1>3, <2>1 DEF Tick, tradeVars, hostVars, riskVars
<1>4. CASE StartSession
  <2>1. checked' = "none"
    BY <1>4 DEF StartSession
  <2> QED
    BY <2>1 DEF Backed
<1>5. CASE StartFails \/ LoadOpenPositions \/ RestoreRaises
  <2>1. job'["step"] = job["step"]
    BY <1>0, <1>5 DEF StartFails, LoadOpenPositions, RestoreRaises, Goes
  <2> QED
    BY <1>1, <1>5, <2>1 DEF StartFails, LoadOpenPositions, RestoreRaises, sessionUnchanged,
       riskVars, hostVars
<1>6. CASE StepSkipped \/ StepBegins \/ StepReturns \/ StepEnds \/ Raising
  <2>1. job'["step"] # "bars"
    BY <1>0, <1>6 DEF StepSkipped, StepBegins, StepReturns, StepEnds, Raising, OrderRaises,
       OrderIsLost, SubscriptionRaises, ReconcileRaises, BarsRaise, Raises, Goes
  <2> QED
    BY <2>1 DEF Backed
<1>7. CASE EntryFilled \/ ExitFilled
  <2>1. TradeBooked /\ UNCHANGED <<job, halt, checked, dry>>
    BY <1>7 DEF EntryFilled, ExitFilled, TradeBooked, stepUnchanged, daySteady, hostVars
  <2> QED
    BY <1>0, <2>1, TradeMoves DEF Backed
<1>8. CASE Reconcile
  <2>1. ~halt' => held = account /\ checked' = "match"
    BY <1>8 DEF Reconcile
  <2>2. UNCHANGED <<held, account>>
    BY <1>8 DEF Reconcile, tradeVars
  <2> QED
    BY <2>1, <2>2 DEF Backed
<1>9. CASE DailyReport \/ EodSignal
  <2>1. job'["step"] = job["step"]
    BY <1>0, <1>9 DEF DailyReport, EodSignal, Goes
  <2> QED
    BY <1>1, <1>9, <2>1 DEF DailyReport, EodSignal, tradeVars, hostVars, riskVars
<1>10. CASE EntryPasses \/ Bars \/ Record \/ Shutdown \/ UNCHANGED vars
  <2>1. UNCHANGED <<held, account, dry, halt, checked, job>>
    BY <1>10 DEF EntryPasses, Bars, Record, Shutdown, stepUnchanged, daySteady, tradeVars, hostVars,
       riskVars, vars
  <2> QED
    BY <1>1, <2>1
<1> QED
  BY <1>2, <1>3, <1>4, <1>5, <1>6, <1>7, <1>8, <1>9, <1>10 DEF Next, Callback, Raising

\* In the bar loop only a filled order trades.
LEMMA FillsGrow ==
    ASSUME [Next]_vars, fills' # fills, job["step"] = "bars"
    PROVE  EntryFilled \/ ExitFilled \/ OrderIsLost \/ SubscriptionRaises
<1>1. ~(Boot \/ Crash \/ Exit \/ Shutdown \/ Tick \/ UNCHANGED vars)
  BY DEF Boot, Crash, Exit, Shutdown, Tick, tradeVars, vars
<1>2. ~(StartFails \/ LoadOpenPositions \/ StartSession \/ RestoreRaises
          \/ DailyReport \/ EodSignal)
  BY DEF StartFails, LoadOpenPositions, StartSession, RestoreRaises, sessionUnchanged,
     DailyReport, EodSignal, tradeVars
<1>3. ~(StepSkipped \/ StepBegins \/ EntryPasses \/ Reconcile \/ Bars \/ StepReturns \/ Record
          \/ StepEnds)
  BY DEF StepSkipped, StepBegins, EntryPasses, Reconcile, Bars, StepReturns, Record, StepEnds,
     tradeVars
<1>4. ~(OrderRaises \/ ReconcileRaises \/ BarsRaise)
  BY DEF OrderRaises, ReconcileRaises, BarsRaise, untraded
<1> QED
  BY <1>1, <1>2, <1>3, <1>4 DEF Next, Callback

\* The bar loop buys only on positions its comparison has found to agree with
\* the account, for every universe, every set of faults and every number of
\* worker threads and restarts; a purchase without a comparison is one that a
\* session start has overtaken.
THEOREM PurchasesBacked == Spec => PurchasesAreBacked
<1> DEFINE Claim == fills' # fills /\ job["step"] = "bars" /\ Processing("buy") /\ ~dry =>
                       checked = "none" \/ (checked = "match" /\ held = account)
<1>1. Init => Backed
  BY DEF Init, Backed, Jobs
<1>2. TypeOK /\ Backed /\ [Next]_vars => Backed'
  BY BackStep
<1>3. TypeOK /\ Backed /\ [Next]_vars => Claim
  <2> SUFFICES ASSUME TypeOK, Backed, [Next]_vars, fills' # fills, job["step"] = "bars",
                      Processing("buy"), ~dry
               PROVE  checked = "none" \/ (checked = "match" /\ held = account)
    OBVIOUS
  <2>1. Tradable
    BY FillsGrow DEF EntryFilled, ExitFilled, OrderIsLost, SubscriptionRaises
  <2>2. ~halt
    BY <2>1 DEF Processing, Tradable
  <2> QED
    BY <2>2 DEF Backed
<1>4. TypeOK /\ Backed /\ [Next]_vars => [Claim]_vars
  BY <1>3
<1>5. [][Claim]_vars => PurchasesAreBacked
  BY DEF PurchasesAreBacked
<1> QED
  BY <1>1, <1>2, <1>4, <1>5, TypeCorrect, PTL DEF Spec

-----------------------------------------------------------------------------
(* What the session holds, and what the ledger would give back: the order  *)
(* of the events.                                                          *)

Side(id) == fills[id].side
Today(id, s) == id \in Ids /\ fills[id].sym = s /\ fills[id].day = day
Bought(id, s) == Today(id, s) /\ Side(id) = "buy"
Sold(id, s) == Today(id, s) /\ Side(id) = "sell"

\* A session starts once a day, before anything of the day is read.
SessionFits ==
    /\ session <= day
    /\ time = 0 \/ job["session_start"] # "idle" => session < day
    /\ time = 0 => job["session_start"] = "idle"

\* The ledger does not change between the two reads of a session start, unless a
\* sweep overlaps them.
LoadedFits ==
    ~overlapped /\ job["session_start"] = "load_daily_pnl" /\ failures["open"] = 0 => loaded = OpenRows(day)

\* Entries are recorded before exits.
Sides ==
    /\ \A i \in 1..Len(entryEvents) : Side(entryEvents[i]) = "buy"
    /\ \A i \in 1..Len(exitEvents) : Side(exitEvents[i]) = "sell"
    /\ \A i, k \in 1..Len(report) :
          i < k /\ Side(report[i]) = "sell" => Side(report[k]) = "sell"

\* No fill is recorded twice, nor on its way to the ledger twice.
Distinct(s) == \A i, k \in 1..Len(s) : s[i] = s[k] => i = k
Once ==
    /\ \A id \in Ids : InFlight(id) => ~Recorded(id)
    /\ Distinct(entryEvents) /\ Distinct(exitEvents) /\ Distinct(report)

\* A list with one more, that it did not hold; its rest.
LEMMA DistinctAppend ==
    ASSUME NEW S, NEW s \in Seq(S), NEW e \in S, Distinct(s), e \notin Elements(s)
    PROVE  Distinct(Append(s, e))
<1>1. /\ Len(s) \in Nat /\ Len(Append(s, e)) = Len(s) + 1 /\ Append(s, e)[Len(s) + 1] = e
      /\ \A i \in 1..Len(s) : Append(s, e)[i] = s[i] /\ s[i] # e
  BY IdsGrow DEF Elements
<1>2. \A i \in 1..(Len(s) + 1) : i \in 1..Len(s) \/ i = Len(s) + 1
  BY <1>1
<1> QED
  BY <1>1, <1>2 DEF Distinct

LEMMA DistinctTail ==
    ASSUME NEW S, NEW s \in Seq(S), s # <<>>, Distinct(s)
    PROVE  /\ Distinct(Tail(s)) /\ Head(s) \notin Elements(Tail(s))
           /\ Len(Tail(s)) \in Nat /\ 1 \in 1..Len(s) /\ Head(s) = s[1]
           /\ \A i \in 1..Len(Tail(s)) : i + 1 \in 1..Len(s) /\ Tail(s)[i] = s[i + 1] /\ 1 < i + 1
<1>1. /\ Len(s) \in Nat \ {0} /\ Len(Tail(s)) = Len(s) - 1 /\ Head(s) = s[1]
      /\ \A i \in 1..(Len(s) - 1) : Tail(s)[i] = s[i + 1]
  BY HeadTailProperties, EmptySeq
<1>2. /\ \A i \in 1..Len(Tail(s)) : /\ i + 1 \in 1..Len(s) /\ 1 < i + 1
                                    /\ Tail(s)[i] = s[i + 1]
      /\ 1 \in 1..Len(s)
  BY <1>1
<1>3. Distinct(Tail(s))
  BY <1>1, <1>2 DEF Distinct
<1>4. \A i \in 1..Len(Tail(s)) : Tail(s)[i] # Head(s)
  <2> TAKE i \in 1..Len(Tail(s))
  <2>1. i + 1 # 1
    BY <1>2
  <2> QED
    BY <1>1, <1>2, <2>1 DEF Distinct
<1> QED
  BY <1>1, <1>2, <1>3, <1>4 DEF Elements

LEMMA DistinctConcat ==
    ASSUME NEW S, NEW s \in Seq(S), NEW t \in Seq(S), Distinct(s), Distinct(t),
           \A i \in 1..Len(s) : \A k \in 1..Len(t) : s[i] # t[k]
    PROVE  Distinct(s \o t)
<1>1. /\ Len(s) \in Nat /\ Len(t) \in Nat /\ Len(s \o t) = Len(s) + Len(t)
      /\ \A i \in 1..(Len(s) + Len(t)) :
            (s \o t)[i] = IF i <= Len(s) THEN s[i] ELSE t[i - Len(s)]
  BY ConcatProperties
<1>2. ASSUME NEW i \in 1..(Len(s) + Len(t)), NEW k \in 1..(Len(s) + Len(t)),
             (s \o t)[i] = (s \o t)[k]
      PROVE  i = k
  <2>1. CASE i <= Len(s) /\ k <= Len(s)
    BY <1>1, <1>2, <2>1 DEF Distinct
  <2>2. CASE i <= Len(s) /\ ~(k <= Len(s))
    <3>1. i \in 1..Len(s) /\ k - Len(s) \in 1..Len(t)
      BY <1>1, <2>2
    <3> QED
      BY <1>1, <1>2, <2>2, <3>1
  <2>3. CASE ~(i <= Len(s)) /\ k <= Len(s)
    <3>1. k \in 1..Len(s) /\ i - Len(s) \in 1..Len(t)
      BY <1>1, <2>3
    <3> QED
      BY <1>1, <1>2, <2>3, <3>1
  <2>4. CASE ~(i <= Len(s)) /\ ~(k <= Len(s))
    <3>1. i - Len(s) \in 1..Len(t) /\ k - Len(s) \in 1..Len(t)
      BY <1>1, <2>4
    <3>2. t[i - Len(s)] = t[k - Len(s)]
      BY <1>1, <1>2, <2>4
    <3>3. i - Len(s) = k - Len(s)
      BY <3>1, <3>2 DEF Distinct
    <3> QED
      BY <1>1, <3>3
  <2> QED
    BY <2>1, <2>2, <2>3, <2>4
<1> QED
  BY <1>1, <1>2 DEF Distinct

\* In a list of entries and a list of exits one after the other no entry comes
\* after an exit.
LEMMA SidesOfConcat ==
    ASSUME TypeOK, Sides
    PROVE  LET r == entryEvents \o exitEvents IN
           \A i, k \in 1..Len(r) : i < k /\ Side(r[i]) = "sell" => Side(r[k]) = "sell"
<1> DEFINE r == entryEvents \o exitEvents
           m == Len(entryEvents)
           n == Len(exitEvents)
<1>1. entryEvents \in Seq(Ids) /\ exitEvents \in Seq(Ids)
  BY DEF TypeOK, SweepTypes
<1>2. /\ m \in Nat /\ n \in Nat /\ Len(r) = m + n
      /\ \A i \in 1..(m + n) : r[i] = IF i <= m THEN entryEvents[i] ELSE exitEvents[i - m]
  BY <1>1, ConcatProperties
<1> HIDE DEF r
<1>3. \A i \in 1..(m + n) : /\ i <= m => Side(r[i]) = "buy"
                            /\ ~(i <= m) => Side(r[i]) = "sell"
  <2> TAKE i \in 1..(m + n)
  <2>1. CASE i <= m
    <3>1. i \in 1..m
      BY <1>2, <2>1
    <3> QED
      BY <1>2, <2>1, <3>1 DEF Sides
  <2>2. CASE ~(i <= m)
    <3>1. i - m \in 1..n
      BY <1>2, <2>2
    <3>2. Side(exitEvents[i - m]) = "sell"
      BY <3>1 DEF Sides
    <3> QED
      BY <1>2, <2>2, <3>2
  <2> QED
    BY <2>1, <2>2
<1>4. ASSUME NEW i \in 1..(m + n), NEW k \in 1..(m + n), i < k, Side(r[i]) = "sell"
      PROVE  Side(r[k]) = "sell"
  <2>1. ~(i <= m)
    BY <1>3, <1>4
  <2>2. ~(k <= m)
    BY <1>2, <1>4, <2>1
  <2> QED
    BY <1>3, <2>2
<1> QED
  BY <1>2, <1>4 DEF r

EventInv == LossInv /\ Noted /\ Sides /\ Once

\* A new fill is not in the ledger, nor on its way.
LEMMA NewFill ==
    ASSUME TypeOK, Trade
    PROVE  /\ Len(fills) + 1 \notin Ids
           /\ ~Recorded(Len(fills) + 1) /\ ~InFlight(Len(fills) + 1)
<1>1. Len(fills) + 1 \notin Ids
  <2>1. Len(fills) \in Nat
    BY DEF TypeOK, WorldTypes
  <2> QED
    BY <2>1 DEF Ids
<1>2. /\ orders \in Seq(Ids) /\ entryEvents \in Seq(Ids) /\ exitEvents \in Seq(Ids)
      /\ report \in Seq(Ids)
  BY DEF TypeOK, LedgerTypes, SweepTypes
<1>3. /\ Elements(orders) \subseteq Ids /\ Elements(entryEvents) \subseteq Ids
      /\ Elements(exitEvents) \subseteq Ids /\ Elements(report) \subseteq Ids
  <2>1. \A i \in 1..Len(orders) : orders[i] \in Ids
    BY <1>2
  <2>2. \A i \in 1..Len(entryEvents) : entryEvents[i] \in Ids
    BY <1>2
  <2>3. \A i \in 1..Len(exitEvents) : exitEvents[i] \in Ids
    BY <1>2
  <2>4. \A i \in 1..Len(report) : report[i] \in Ids
    BY <1>2
  <2> QED
    BY <2>1, <2>2, <2>3, <2>4, ElementsWithin
<1> QED
  BY <1>1, <1>3 DEF Recorded, InFlight

\* What the new fill is.
LEMMA FillOfTrade ==
    ASSUME TypeOK, Trade, todo # <<>>
    PROVE  LET n == Len(fills) + 1 IN
           /\ fills'[n].side = Head(todo).side /\ fills'[n].sym = Head(todo).sym
           /\ fills'[n].day = day /\ n \in Ids' /\ Ids' = Ids \union {n}
           /\ \A i \in Ids : fills'[i] = fills[i]
<1> DEFINE n == Len(fills) + 1
           number == IF dry THEN <<"DRY", counter + 1>> ELSE <<"KIS", Len(fills) + 1>>
           f == [side |-> Head(todo).side, sym |-> Head(todo).sym, day |-> day,
                 number |-> number]
<1>1. fills \in Seq(FillType) /\ fills' \in Seq(FillType) /\ fills' = Append(fills, f)
  BY TradeTypes DEF TypeOK, WorldTypes, Trade
<1>2. fills'[n] = f
  BY <1>1, AppendProperties
<1> HIDE DEF number
<1>3. f.side = Head(todo).side /\ f.sym = Head(todo).sym /\ f.day = day
  OBVIOUS
<1> HIDE DEF f
<1> QED
  BY <1>2, <1>3, TradeTypes

\* Nothing of the events changes.
LEMMA EventsKept ==
    ASSUME Sides, Once, UNCHANGED <<fills, orders, entryEvents, exitEvents, report>>
    PROVE  Sides' /\ Once'
<1>1. Sides'
  BY DEF Sides, Side
<1>2. \A id : (InFlight(id)' <=> InFlight(id)) /\ (Recorded(id)' <=> Recorded(id))
  BY DEF InFlight, Recorded, Elements
<1>3. Once'
  BY <1>2 DEF Once, Distinct, Ids
<1> QED
  BY <1>1, <1>3

\* All lists are empty.
LEMMA NoEvents ==
    ASSUME entryEvents = <<>>, exitEvents = <<>>, report = <<>>
    PROVE  Sides /\ Once
<1>1. 1..Len(<<>>) = {}
  OBVIOUS
<1>2. \A id : ~InFlight(id)
  BY NoneInFlight
<1> QED
  BY <1>1, <1>2 DEF Sides, Once, Distinct

LEMMA FilledEvents ==
    ASSUME EventInv, EntryFilled \/ ExitFilled
    PROVE  Sides' /\ Once'
<1> DEFINE n == Len(fills) + 1
<1>1. /\ TypeOK /\ Trade /\ todo # <<>> /\ report = <<>> /\ UNCHANGED <<orders, report>>
  BY DEF EntryFilled, ExitFilled, Processing, InSweep, TradeBooked, ledgerUnchanged, EventInv,
     LossInv, EventsInSweep
<1>2. /\ fills'[n].side = Head(todo).side /\ n \in Ids' /\ Ids' = Ids \union {n}
      /\ \A i \in Ids : fills'[i] = fills[i]
  BY <1>1, FillOfTrade
<1>3. /\ entryEvents \in Seq(Ids) /\ exitEvents \in Seq(Ids)
      /\ entryEvents \in Seq(Ids') /\ exitEvents \in Seq(Ids')
  BY <1>1, TradeTypes DEF TypeOK, SweepTypes
<1>4. ~Recorded(n) /\ ~InFlight(n)
  BY <1>1, NewFill
<1>5. /\ \A i \in 1..Len(entryEvents) : fills'[entryEvents[i]].side = "buy"
      /\ \A i \in 1..Len(exitEvents) : fills'[exitEvents[i]].side = "sell"
  <2>1. \A i \in 1..Len(entryEvents) : entryEvents[i] \in Ids
    BY <1>3
  <2>2. \A i \in 1..Len(exitEvents) : exitEvents[i] \in Ids
    BY <1>3
  <2> QED
    BY <1>2, <2>1, <2>2 DEF EventInv, Sides, Side
<1>6. n \notin Elements(entryEvents) /\ n \notin Elements(exitEvents)
  BY <1>4 DEF InFlight
<1>7. Elements(report)' = Elements(report) /\ Elements(orders)' = Elements(orders)
  BY <1>1 DEF Elements
<1>8. Distinct(report)' /\ Distinct(entryEvents) /\ Distinct(exitEvents)
  BY <1>1 DEF EventInv, Once, Distinct
<1> HIDE DEF n
<1>9. CASE EntryFilled
  <2>1. entryEvents' = Append(entryEvents, n) /\ exitEvents' = exitEvents
        /\ Head(todo).side = "buy"
    BY <1>9 DEF EntryFilled, Processing, n
  <2>2. /\ Elements(Append(entryEvents, n)) = Elements(entryEvents) \union {n}
        /\ Distinct(Append(entryEvents, n))
        /\ Len(Append(entryEvents, n)) = Len(entryEvents) + 1
        /\ Append(entryEvents, n)[Len(entryEvents) + 1] = n
        /\ \A i \in 1..Len(entryEvents) : Append(entryEvents, n)[i] = entryEvents[i]
        /\ Len(entryEvents) \in Nat
    BY <1>2, <1>3, <1>6, <1>8, ElementsAppend, DistinctAppend, IdsGrow
  <2>3. \A i \in 1..Len(entryEvents') : fills'[entryEvents'[i]].side = "buy"
    <3>1. \A i \in 1..(Len(entryEvents) + 1) :
            i \in 1..Len(entryEvents) \/ i = Len(entryEvents) + 1
      BY <2>2
    <3> QED
      BY <1>2, <1>5, <2>1, <2>2, <3>1
  <2>4. Sides'
    <3>1. 1..Len(report') = {}
      BY <1>1
    <3> QED
      BY <1>5, <2>1, <2>3, <3>1 DEF Sides, Side
  <2>5. \A id : InFlight(id)' <=> InFlight(id) \/ id = n
    <3>1. Elements(entryEvents)' = Elements(entryEvents) \union {n}
          /\ Elements(exitEvents)' = Elements(exitEvents)
      BY <2>1, <2>2 DEF Elements
    <3> QED
      BY <1>7, <3>1 DEF InFlight
  <2>6. Distinct(entryEvents)' /\ Distinct(exitEvents)'
    BY <1>8, <2>1, <2>2 DEF Distinct
  <2>7. \A id \in Ids' : InFlight(id)' => ~Recorded(id)'
    BY <1>2, <1>4, <1>7, <2>5 DEF EventInv, Once, Recorded
  <2> QED
    BY <1>8, <2>4, <2>6, <2>7 DEF Once
<1>10. CASE ExitFilled
  <2>1. exitEvents' = Append(exitEvents, n) /\ entryEvents' = entryEvents
        /\ Head(todo).side = "sell"
    BY <1>10 DEF ExitFilled, Processing, n
  <2>2. /\ Elements(Append(exitEvents, n)) = Elements(exitEvents) \union {n}
        /\ Distinct(Append(exitEvents, n))
        /\ Len(Append(exitEvents, n)) = Len(exitEvents) + 1
        /\ Append(exitEvents, n)[Len(exitEvents) + 1] = n
        /\ \A i \in 1..Len(exitEvents) : Append(exitEvents, n)[i] = exitEvents[i]
        /\ Len(exitEvents) \in Nat
    BY <1>2, <1>3, <1>6, <1>8, ElementsAppend, DistinctAppend, IdsGrow
  <2>3. \A i \in 1..Len(exitEvents') : fills'[exitEvents'[i]].side = "sell"
    <3>1. \A i \in 1..(Len(exitEvents) + 1) :
            i \in 1..Len(exitEvents) \/ i = Len(exitEvents) + 1
      BY <2>2
    <3> QED
      BY <1>2, <1>5, <2>1, <2>2, <3>1
  <2>4. Sides'
    <3>1. 1..Len(report') = {}
      BY <1>1
    <3> QED
      BY <1>5, <2>1, <2>3, <3>1 DEF Sides, Side
  <2>5. \A id : InFlight(id)' <=> InFlight(id) \/ id = n
    <3>1. Elements(exitEvents)' = Elements(exitEvents) \union {n}
          /\ Elements(entryEvents)' = Elements(entryEvents)
      BY <2>1, <2>2 DEF Elements
    <3> QED
      BY <1>7, <3>1 DEF InFlight
  <2>6. Distinct(entryEvents)' /\ Distinct(exitEvents)'
    BY <1>8, <2>1, <2>2 DEF Distinct
  <2>7. \A id \in Ids' : InFlight(id)' => ~Recorded(id)'
    BY <1>2, <1>4, <1>7, <2>5 DEF EventInv, Once, Recorded
  <2> QED
    BY <1>8, <2>4, <2>6, <2>7 DEF Once
<1> QED
  BY <1>9, <1>10

LEMMA ReturnEvents ==
    ASSUME EventInv, StepReturns
    PROVE  /\ Sides' /\ Once'
           /\ \A id : (InFlight(id)' <=> InFlight(id)) /\ (Recorded(id)' <=> Recorded(id))
<1>1. /\ UNCHANGED <<fills, orders>> /\ entryEvents' = <<>> /\ exitEvents' = <<>>
      /\ report' = entryEvents \o exitEvents /\ job["step"] = "bars"
  BY DEF StepReturns, tradeVars
<1>2. TypeOK /\ Sides /\ Once /\ report = <<>>
  BY <1>1 DEF EventInv, LossInv, EventsInSweep
<1>3. entryEvents \in Seq(Ids) /\ exitEvents \in Seq(Ids)
  BY <1>2 DEF TypeOK, SweepTypes
<1>4. \A id : (InFlight(id)' <=> InFlight(id)) /\ (Recorded(id)' <=> Recorded(id))
  <2>1. Elements(entryEvents \o exitEvents) = Elements(entryEvents) \union Elements(exitEvents)
    BY <1>3, ElementsConcat
  <2>2. Elements(report)' = Elements(entryEvents) \union Elements(exitEvents)
    BY <1>1, <2>1 DEF Elements
  <2>3. Elements(entryEvents)' = {} /\ Elements(exitEvents)' = {} /\ Elements(report) = {}
    BY <1>1, <1>2 DEF Elements
  <2>4. Elements(orders)' = Elements(orders)
    BY <1>1 DEF Elements
  <2> QED
    BY <2>2, <2>3, <2>4 DEF InFlight, Recorded
<1>5. Distinct(entryEvents \o exitEvents)
  <2>1. \A i \in 1..Len(entryEvents) : \A k \in 1..Len(exitEvents) :
           entryEvents[i] # exitEvents[k]
    <3> TAKE i \in 1..Len(entryEvents)
    <3> TAKE k \in 1..Len(exitEvents)
    <3>1. Side(entryEvents[i]) = "buy" /\ Side(exitEvents[k]) = "sell"
      BY <1>2 DEF Sides
    <3> QED
      BY <3>1
  <2> QED
    BY <1>2, <1>3, <2>1, DistinctConcat DEF Once
<1>6. Sides'
  <2>1. 1..Len(entryEvents') = {} /\ 1..Len(exitEvents') = {}
    BY <1>1
  <2>2. \A i, k \in 1..Len(entryEvents \o exitEvents) :
           i < k /\ Side((entryEvents \o exitEvents)[i]) = "sell"
             => Side((entryEvents \o exitEvents)[k]) = "sell"
    BY <1>2, SidesOfConcat
  <2> QED
    BY <1>1, <2>1, <2>2 DEF Sides, Side
<1>7. Once'
  <2>1. Distinct(report)'
    BY <1>1, <1>5 DEF Distinct
  <2>2. Distinct(entryEvents)' /\ Distinct(exitEvents)'
    BY <1>1 DEF Distinct
  <2>3. Ids' = Ids
    BY <1>1 DEF Ids
  <2> QED
    BY <1>2, <1>4, <2>1, <2>2, <2>3 DEF Once
<1> QED
  BY <1>4, <1>6, <1>7

\* An insert takes the head of the report away; it is in the ledger from now on,
\* or lost.
LEMMA RecordEvents ==
    ASSUME EventInv, Record
    PROVE  LET e == Head(report) IN
           /\ Sides' /\ Once'
           /\ e \in Ids /\ InFlight(e) /\ fills[e].day = day
           /\ Ids' = Ids /\ UNCHANGED <<fills, day>>
           /\ \A id : InFlight(id)' <=> InFlight(id) /\ id # e
           /\ Side(e) = "sell" => \A id : InFlight(id)' => Side(id) = "sell"
           /\ \/ orders' = Append(orders, e) /\ \A id : Recorded(id)' <=> Recorded(id) \/ id = e
              \/ orders' = orders /\ \A id : Recorded(id)' <=> Recorded(id)
<1> DEFINE e == Head(report)
<1>1. /\ UNCHANGED <<fills, day, entryEvents, exitEvents>>
      /\ report # <<>> /\ report' = Tail(report) /\ job["step"] = "record" /\ Insert(e)
  BY DEF Record, stepUnchanged, daySteady, worldVars, tradeVars, eventVars
<1>2. TypeOK /\ Sides /\ Once /\ EventsInSweep /\ entryEvents = <<>> /\ exitEvents = <<>>
  BY <1>1 DEF EventInv, LossInv, EventsInSweep
<1>3. report \in Seq(Ids) /\ e \in Ids /\ orders \in Seq(Ids)
  BY <1>1, <1>2, HeadTyped DEF TypeOK, SweepTypes, LedgerTypes
<1>4. /\ Distinct(Tail(report)) /\ e \notin Elements(Tail(report))
      /\ 1 \in 1..Len(report) /\ e = report[1]
      /\ \A i \in 1..Len(Tail(report)) :
            i + 1 \in 1..Len(report) /\ Tail(report)[i] = report[i + 1] /\ 1 < i + 1
  BY <1>1, <1>2, <1>3, DistinctTail DEF Once
<1>5. Elements(report) = Elements(Tail(report)) \union {e}
  BY <1>1, <1>3, ElementsTail
<1>6. \A id : InFlight(id)' <=> InFlight(id) /\ id # e
  <2>1. /\ Elements(entryEvents) = {} /\ Elements(exitEvents) = {}
        /\ Elements(entryEvents)' = {} /\ Elements(exitEvents)' = {}
        /\ Elements(report)' = Elements(Tail(report))
    BY <1>1, <1>2 DEF Elements
  <2> QED
    BY <1>4, <1>5, <2>1 DEF InFlight
<1>7. InFlight(e)
  BY <1>5 DEF InFlight
<1>8. \/ orders' = Append(orders, e) /\ \A id : Recorded(id)' <=> Recorded(id) \/ id = e
      \/ orders' = orders /\ \A id : Recorded(id)' <=> Recorded(id)
  <2>1. orders' = Append(orders, e) \/ orders' = orders
    BY <1>1 DEF Insert
  <2>2. Elements(Append(orders, e)) = Elements(orders) \union {e}
    BY <1>3, ElementsAppend
  <2>3. CASE orders' = Append(orders, e)
    <3>1. Elements(orders)' = Elements(orders) \union {e}
      BY <2>2, <2>3 DEF Elements
    <3> QED
      BY <2>3, <3>1 DEF Recorded
  <2>4. CASE orders' = orders
    BY <2>4 DEF Recorded, Elements
  <2> QED
    BY <2>1, <2>3, <2>4
<1> HIDE DEF e
<1>9. Ids' = Ids
  BY <1>1 DEF Ids
<1>10. Sides'
  <2>1. ASSUME NEW i \in 1..Len(Tail(report)), NEW k \in 1..Len(Tail(report)), i < k,
               fills[Tail(report)[i]].side = "sell"
        PROVE  fills[Tail(report)[k]].side = "sell"
    <3>1. /\ i + 1 \in 1..Len(report) /\ k + 1 \in 1..Len(report) /\ i + 1 < k + 1
          /\ Tail(report)[i] = report[i + 1] /\ Tail(report)[k] = report[k + 1]
      BY <1>4, <2>1
    <3> QED
      BY <1>2, <2>1, <3>1 DEF Sides, Side
  <2>2. 1..Len(entryEvents') = {} /\ 1..Len(exitEvents') = {}
    BY <1>1, <1>2
  <2> QED
    BY <1>1, <2>1, <2>2 DEF Sides, Side
<1>11. Once'
  <2>1. Distinct(report)' /\ Distinct(entryEvents)' /\ Distinct(exitEvents)'
    BY <1>1, <1>2, <1>4 DEF Distinct, Once
  <2>2. \A id \in Ids' : InFlight(id)' => ~Recorded(id)'
    BY <1>2, <1>6, <1>8, <1>9 DEF Once
  <2> QED
    BY <2>1, <2>2 DEF Once
<1>12. fills[e].day = day
  BY <1>2, <1>3, <1>7 DEF EventsInSweep
<1>13. Side(e) = "sell" => \A id : InFlight(id)' => Side(id) = "sell"
  <2> SUFFICES ASSUME Side(e) = "sell", NEW id, InFlight(id)' PROVE Side(id) = "sell"
    OBVIOUS
  <2>1. id \in Elements(Tail(report))
    <3>1. Elements(entryEvents) = {} /\ Elements(exitEvents) = {}
      BY <1>2 DEF Elements
    <3> QED
      BY <1>5, <1>6, <3>1 DEF InFlight
  <2>2. PICK i \in 1..Len(Tail(report)) : Tail(report)[i] = id
    BY <2>1 DEF Elements
  <2>3. i + 1 \in 1..Len(report) /\ report[i + 1] = id /\ 1 < i + 1
    BY <1>4, <2>2
  <2> QED
    BY <1>2, <1>4, <2>3 DEF Sides
<1> QED
  BY <1>1, <1>3, <1>6, <1>7, <1>8, <1>9, <1>10, <1>11, <1>12, <1>13 DEF e

LEMMA RaisingEvents ==
    ASSUME EventInv, Raising
    PROVE  /\ Sides' /\ Once'
           /\ \A id : ~InFlight(id)'
           /\ \A id : Recorded(id)' <=> Recorded(id)
<1>1. Raises /\ job["step"] \in {"flush", "bars"}
  BY DEF Raising, OrderRaises, OrderIsLost, SubscriptionRaises, ReconcileRaises, BarsRaise,
     Tradable, InSweep
<1>2. /\ entryEvents' = <<>> /\ exitEvents' = <<>> /\ report' = <<>> /\ orders' = orders
  BY <1>1 DEF Raises, ledgerUnchanged, EventInv, LossInv, EventsInSweep
<1>3. (entryEvents = <<>> /\ exitEvents = <<>> /\ report = <<>> => Sides /\ Once)'
  BY NoEvents, PTL
<1>4. \A id : ~InFlight(id)'
  <2>1. Elements(entryEvents)' = {} /\ Elements(exitEvents)' = {} /\ Elements(report)' = {}
    BY <1>2 DEF Elements
  <2> QED
    BY <2>1 DEF InFlight
<1>5. \A id : Recorded(id)' <=> Recorded(id)
  BY <1>2 DEF Recorded, Elements
<1> QED
  BY <1>2, <1>3, <1>4, <1>5

LEMMA EventStep ==
    ASSUME EventInv, LossInv', [Next]_vars
    PROVE  EventInv'
<1>1. Noted'
  BY NotedStep DEF EventInv, LossInv
<1>2. CASE Boot \/ Crash \/ Exit
  <2>1. entryEvents' = <<>> /\ exitEvents' = <<>> /\ report' = <<>>
    BY <1>2 DEF Boot, Crash, Exit, Fresh
  <2>2. (entryEvents = <<>> /\ exitEvents = <<>> /\ report = <<>> => Sides /\ Once)'
    BY NoEvents, PTL
  <2> QED
    BY <1>1, <2>1, <2>2 DEF EventInv
<1>3. CASE EntryFilled \/ ExitFilled
  BY <1>1, <1>3, FilledEvents DEF EventInv
<1>4. CASE Raising
  BY <1>1, <1>4, RaisingEvents DEF EventInv
<1>5. CASE StepReturns
  BY <1>1, <1>5, ReturnEvents DEF EventInv
<1>6. CASE Record
  BY <1>1, <1>6, RecordEvents DEF EventInv
<1>7. CASE StepBegins
  <2>1. job["step"] = "called"
    BY <1>7 DEF StepBegins, Taken
  <2>2. entryEvents = <<>> /\ exitEvents = <<>>
    BY <2>1 DEF EventInv, LossInv, EventsInSweep
  <2>3. UNCHANGED <<fills, orders, entryEvents, exitEvents, report>>
    BY <1>7, <2>2 DEF StepBegins, tradeVars
  <2> QED
    BY <1>1, <2>3, EventsKept DEF EventInv
<1>8. CASE \/ Tick \/ Shutdown \/ UNCHANGED vars
           \/ StartFails \/ LoadOpenPositions \/ StartSession \/ RestoreRaises
           \/ StepSkipped \/ StepEnds \/ EntryPasses \/ Reconcile \/ Bars
           \/ DailyReport \/ EodSignal
  <2>1. UNCHANGED <<fills, orders, entryEvents, exitEvents, report>>
    BY <1>8 DEF Tick, Shutdown, vars, StartFails, LoadOpenPositions, StartSession, RestoreRaises,
       StepSkipped, StepEnds, EntryPasses, Reconcile, Bars, DailyReport, EodSignal,
       sessionUnchanged, stepUnchanged, daySteady, ledgerUnchanged, tradeVars, ledgerVars, sweepVars,
       eventVars
  <2> QED
    BY <1>1, <2>1, EventsKept DEF EventInv
<1> QED
  BY <1>2, <1>3, <1>4, <1>5, <1>6, <1>7, <1>8 DEF Next, Callback, Raising

LEMMA SessionStep ==
    ASSUME TypeOK, SessionFits, [Next]_vars
    PROVE  SessionFits'
<1>0. /\ job \in [Jobs -> JobValues] /\ "step" \in Jobs /\ "session_start" \in Jobs
      /\ session \in Nat /\ day \in Nat \ {0} /\ time \in 0..(Minutes + 2)
      /\ Minutes \in Nat \ {0}
  BY JobsTyped, TradingDayAssumption DEF TypeOK, WorldTypes, ProcessTypes
<1>9. session \in Nat /\ day \in Nat /\ 0 < day /\ time \in Nat /\ Minutes \in Nat
  BY <1>0
<1>10. /\ session <= day
       /\ time = 0 \/ job["session_start"] # "idle" => session < day
       /\ time = 0 => job["session_start"] = "idle"
  BY DEF SessionFits
<1>1. ASSUME UNCHANGED <<session, day, time>>,
             job'["session_start"] # "idle" => job["session_start"] # "idle"
      PROVE  SessionFits'
  <2>1. session' = session /\ day' = day /\ time' = time
    BY <1>1
  <2>2. time' = 0 => job'["session_start"] = "idle"
    BY <1>1, <1>10, <2>1
  <2> QED
    BY <1>1, <1>10, <2>1, <2>2 DEF SessionFits
<1>2. CASE Boot \/ Crash \/ Exit
  <2>1. session' = 0 /\ day' = day /\ job'["session_start"] = "idle"
    BY <1>0, <1>2 DEF Boot, Crash, Exit, Fresh, worldVars
  <2>2. session' < day'
    BY <1>9, <2>1
  <2>3. session' <= day'
    BY <1>9, <2>1
  <2> QED
    BY <2>1, <2>2, <2>3 DEF SessionFits
<1>3. CASE Tick
  <2>1. /\ session' = session
        /\ time' = IF time = Minutes + 2 THEN 0 ELSE time + 1
        /\ day' = IF time = Minutes + 2 THEN day + 1 ELSE day
    BY <1>3 DEF Tick, riskVars
  <2>2. CASE time = Minutes + 2
    <3>1. time' = 0 /\ day' = day + 1
      BY <2>1, <2>2
    <3>2. session' < day' /\ session' <= day'
      BY <1>9, <1>10, <2>1, <3>1
    <3>3. 0 \notin 2..Minutes /\ "session_start" \notin JobsDue(0)
      BY <1>9 DEF JobsDue
    <3>4. job["session_start"] = "idle"
      BY <1>0, <1>3, <2>2, <3>3 DEF Tick, AllIdle
    <3>5. job'["session_start"] = job["session_start"]
      BY <1>0, <1>3, <2>2, <3>3 DEF Tick
    <3> QED
      BY <3>2, <3>4, <3>5 DEF SessionFits
  <2>3. CASE time = 0
    <3>1. time' = 1 /\ day' = day
      BY <1>9, <2>1, <2>3
    <3>2. session' < day' /\ session' <= day'
      BY <1>9, <1>10, <2>1, <2>3, <3>1
    <3> QED
      BY <3>1, <3>2 DEF SessionFits
  <2>4. CASE time # Minutes + 2 /\ time # 0
    <3>1. time + 1 # 1 /\ time + 1 # 0
      BY <1>9, <2>4
    <3>2. "session_start" \notin JobsDue(time + 1)
      BY <3>1 DEF JobsDue
    <3>3. job'["session_start"] = job["session_start"]
      BY <1>0, <1>3, <2>4, <3>2 DEF Tick
    <3>4. time' = time + 1 /\ day' = day
      BY <2>1, <2>4
    <3>5. time' # 0
      BY <3>1, <3>4
    <3>6. job'["session_start"] # "idle" => session' < day'
      BY <1>10, <2>1, <3>3, <3>4
    <3>7. session' <= day'
      BY <1>10, <2>1, <3>4
    <3> QED
      BY <3>5, <3>6, <3>7 DEF SessionFits
  <2> QED
    BY <2>2, <2>3, <2>4
<1>4. CASE StartSession
  <2>1. session' = day /\ day' = day /\ time' = time /\ job'["session_start"] = "idle"
    BY <1>0, <1>4 DEF StartSession, sessionUnchanged, worldVars, Goes
  <2>2. time # 0
    BY <1>4, <1>10 DEF StartSession
  <2>3. session' <= day'
    BY <1>9, <2>1
  <2> QED
    BY <2>1, <2>2, <2>3 DEF SessionFits
<1>5. CASE StartFails \/ LoadOpenPositions \/ RestoreRaises
  <2>1. UNCHANGED <<session, day, time>> /\ job["session_start"] # "idle"
    BY <1>5 DEF StartFails, LoadOpenPositions, RestoreRaises, sessionUnchanged, worldVars,
       riskVars, Taken
  <2> QED
    BY <1>1, <2>1
<1>6. CASE \/ StepSkipped \/ StepBegins \/ EntryPasses \/ EntryFilled \/ ExitFilled \/ Raising
           \/ Reconcile \/ Bars \/ StepReturns \/ Record \/ StepEnds
  <2>1. daySteady
    BY <1>6 DEF StepSkipped, StepBegins, EntryPasses, EntryFilled, ExitFilled, TradeBooked,
       Raising, OrderRaises, OrderIsLost, SubscriptionRaises, ReconcileRaises, BarsRaise, Raises,
       Reconcile, Bars, StepReturns, Record, StepEnds, stepUnchanged
  <2>2. UNCHANGED job \/ \E pc : Goes("step", pc)
    BY <1>6 DEF StepSkipped, StepBegins, EntryPasses, EntryFilled, ExitFilled, TradeBooked,
       Raising, OrderRaises, OrderIsLost, SubscriptionRaises, ReconcileRaises, BarsRaise, Raises,
       Reconcile, Bars, StepReturns, Record, StepEnds
  <2>3. job'["session_start"] = job["session_start"]
    BY <1>0, <2>2 DEF Goes
  <2> QED
    BY <1>1, <2>1, <2>3 DEF daySteady, worldVars
<1>7. CASE DailyReport \/ EodSignal
  <2>1. job'["session_start"] = job["session_start"]
    BY <1>0, <1>7 DEF DailyReport, EodSignal, Goes
  <2> QED
    BY <1>1, <1>7, <2>1 DEF DailyReport, EodSignal, worldVars, riskVars
<1>8. CASE Shutdown \/ UNCHANGED vars
  BY <1>1, <1>8 DEF Shutdown, vars, worldVars, riskVars
<1> QED
  BY <1>2, <1>3, <1>4, <1>5, <1>6, <1>7, <1>8 DEF Next, Callback, Raising

-----------------------------------------------------------------------------
(* What the session holds, and what the ledger would give back.            *)

\* All fills of the symbol today are in the ledger or on their way, it was
\* bought once, and the ledger could be read.
Traced(s) ==
    /\ \A id \in Ids : Today(id, s) => Recorded(id) \/ InFlight(id)
    /\ \A i, k \in Ids : Bought(i, s) /\ Bought(k, s) => i = k
    /\ failures["open"] = 0

IsLast(id, s) ==
    \E i \in OfSymbol(s, day) : orders[i] = id /\ \A k \in OfSymbol(s, day) : k <= i

\* The last event of the symbol, recorded or to be recorded, is a purchase:
\* what is on its way comes after what is recorded, exits after entries.
Long(s) ==
    /\ \A x \in Ids : Sold(x, s) => ~InFlight(x)
    /\ \E b \in Ids : Bought(b, s) /\ (InFlight(b) \/ IsLast(b, s))

HeldFor(s) ==
    Traced(s) =>
        /\ s \in held <=> Long(s)
        /\ \A x \in Ids : Sold(x, s) /\ InFlight(x) => \E b \in Ids : Bought(b, s)

HeldFits == ~overlapped /\ session = day => \A s \in Symbols : HeldFor(s)

HoldInv == EventInv /\ SessionFits /\ LoadedFits /\ HeldFits

\* As long as nothing is inserted, further fills leave the rows where they are.
LEMMA PlacesKept ==
    ASSUME TypeOK, NEW s, UNCHANGED <<orders, day>>, Ids \subseteq Ids',
           \A id \in Ids : fills'[id] = fills[id]
    PROVE  /\ \A id : IsLast(id, s)' <=> IsLast(id, s)
           /\ \A id \in Ids : /\ Today(id, s)' <=> Today(id, s)
                              /\ Bought(id, s)' <=> Bought(id, s)
                              /\ Sold(id, s)' <=> Sold(id, s)
           /\ \A id : Recorded(id)' <=> Recorded(id)
           /\ OpenRows(day)' = OpenRows(day)
<1>1. \A i \in 1..Len(orders) : orders[i] \in Ids
  BY DEF TypeOK, LedgerTypes
<1>2. \A i \in 1..Len(orders) : fills'[orders[i]] = fills[orders[i]]
  BY <1>1
<1>3. \A x : OfSymbol(x, day)' = OfSymbol(x, day) /\ OfSymbol(x, day) \subseteq 1..Len(orders)
  BY <1>2 DEF OfSymbol, Rows
<1>4. \A id : IsLast(id, s)' <=> IsLast(id, s)
  BY <1>3 DEF IsLast
<1>5. \A id \in Ids : /\ Today(id, s)' <=> Today(id, s)
                      /\ Bought(id, s)' <=> Bought(id, s)
                      /\ Sold(id, s)' <=> Sold(id, s)
  BY DEF Today, Bought, Sold, Side
<1>6. \A id : Recorded(id)' <=> Recorded(id)
  BY DEF Recorded, Elements
<1>7. OpenRows(day)' = OpenRows(day)
  BY <1>2, <1>3 DEF OpenRows
<1> QED
  BY <1>4, <1>5, <1>6, <1>7

\* A step that does not touch the symbol.
LEMMA HeldForKept ==
    ASSUME TypeOK, NEW s, UNCHANGED <<orders, day>>, Ids \subseteq Ids',
           \A id \in Ids : fills'[id] = fills[id],
           \A id \in Ids' : id \in Ids \/ fills'[id].sym # s,
           failures'["open"] = failures["open"], s \in held' <=> s \in held,
           \A id \in Ids : Today(id, s) => (InFlight(id)' <=> InFlight(id)),
           HeldFor(s)
    PROVE  HeldFor(s)'
<1>1. /\ \A id : IsLast(id, s)' <=> IsLast(id, s)
      /\ \A id \in Ids : /\ Today(id, s)' <=> Today(id, s)
                         /\ Bought(id, s)' <=> Bought(id, s)
                         /\ Sold(id, s)' <=> Sold(id, s)
      /\ \A id : Recorded(id)' <=> Recorded(id)
  BY PlacesKept
<1>2. \A id \in Ids' : Today(id, s)' => id \in Ids
  BY DEF Today
<1>3. \A id : (Bought(id, s) => Today(id, s)) /\ (Sold(id, s) => Today(id, s))
  BY DEF Bought, Sold
<1>4. \A id : (Bought(id, s)' => Today(id, s)') /\ (Sold(id, s)' => Today(id, s)')
  BY DEF Bought, Sold
<1>5. Traced(s)' => Traced(s)
  BY <1>1, <1>2 DEF Traced
<1>6. Long(s)' <=> Long(s)
  <2>1. (\A x \in Ids' : Sold(x, s)' => ~InFlight(x)')
          <=> (\A x \in Ids : Sold(x, s) => ~InFlight(x))
    BY <1>1, <1>2, <1>3, <1>4
  <2>2. (\E b \in Ids' : Bought(b, s)' /\ (InFlight(b)' \/ IsLast(b, s)'))
          <=> (\E b \in Ids : Bought(b, s) /\ (InFlight(b) \/ IsLast(b, s)))
    BY <1>1, <1>2, <1>3, <1>4
  <2> QED
    BY <2>1, <2>2 DEF Long
<1>7. ASSUME Traced(s)', NEW x \in Ids', Sold(x, s)', InFlight(x)'
      PROVE  \E b \in Ids' : Bought(b, s)'
  <2>1. x \in Ids /\ Sold(x, s) /\ InFlight(x)
    BY <1>1, <1>2, <1>3, <1>4, <1>7
  <2>2. PICK b \in Ids : Bought(b, s)
    BY <1>5, <1>7, <2>1 DEF HeldFor
  <2> QED
    BY <1>1, <2>2
<1> QED
  BY <1>5, <1>6, <1>7 DEF HeldFor

\* With nothing on its way the ledger says it all.
LEMMA LongByLedger ==
    ASSUME TypeOK, NEW s \in Symbols, \A id : ~InFlight(id)
    PROVE  Long(s) <=> s \in OpenRows(day)
<1>1. \A i \in OfSymbol(s, day) : /\ orders[i] \in Ids /\ Today(orders[i], s)
                                  /\ i \in 1..Len(orders)
  <2>1. \A i \in 1..Len(orders) : orders[i] \in Ids
    BY DEF TypeOK, LedgerTypes
  <2> QED
    BY <2>1 DEF OfSymbol, Rows, Today
<1>2. ASSUME Long(s) PROVE s \in OpenRows(day)
  <2>1. PICK b \in Ids : Bought(b, s) /\ IsLast(b, s)
    BY <1>2 DEF Long
  <2>2. PICK i \in OfSymbol(s, day) : orders[i] = b /\ \A k \in OfSymbol(s, day) : k <= i
    BY <2>1 DEF IsLast
  <2>3. fills[orders[i]].side = "buy"
    BY <2>1, <2>2 DEF Bought, Side
  <2> QED
    BY <2>2, <2>3 DEF OpenRows
<1>3. ASSUME s \in OpenRows(day) PROVE Long(s)
  <2>1. PICK i \in OfSymbol(s, day) : /\ \A k \in OfSymbol(s, day) : k <= i
                                      /\ fills[orders[i]].side = "buy"
    BY <1>3 DEF OpenRows
  <2>2. Bought(orders[i], s) /\ IsLast(orders[i], s)
    BY <1>1, <2>1 DEF Bought, Side, IsLast
  <2> QED
    BY <1>1, <2>2 DEF Long
<1> QED
  BY <1>2, <1>3

LEMMA LoadedStep ==
    ASSUME TypeOK, Noted, LoadedFits, [Next]_vars
    PROVE  LoadedFits'
<1>0. /\ job \in [Jobs -> JobValues] /\ "step" \in Jobs /\ "session_start" \in Jobs
  BY JobsTyped
<1> SUFFICES ASSUME ~overlapped', job'["session_start"] = "load_daily_pnl",
                    failures'["open"] = 0
             PROVE  loaded' = OpenRows(day)'
  BY DEF LoadedFits
<1>1. CASE LoadOpenPositions
  <2>1. UNCHANGED <<fills, orders, day>>
    BY <1>1 DEF LoadOpenPositions, sessionUnchanged, worldVars
  <2>2. ~Fails("open")
    <3>1. SUFFICES ASSUME Fails("open") PROVE FALSE
      OBVIOUS
    <3>2. failures \in [Ops -> Nat] /\ "open" \in Ops
      BY DEF TypeOK, LedgerTypes, Ops
    <3>3. failures'["open"] = failures["open"] + 1 /\ failures["open"] \in Nat
      BY <3>1, <3>2 DEF Fails
    <3> QED
      BY <3>3
  <2>3. loaded' = OpenRows(day)
    BY <1>1, <2>2 DEF LoadOpenPositions
  <2>4. OpenRows(day)' = OpenRows(day)
    BY <2>1, PlacesKept DEF Ids
  <2> QED
    BY <2>3, <2>4
<1>2. CASE Boot \/ Crash \/ Exit \/ StartFails \/ StartSession \/ RestoreRaises
  BY <1>0, <1>2 DEF Boot, Crash, Exit, Fresh, StartFails, StartSession, RestoreRaises, Goes
<1> SUFFICES ASSUME ~LoadOpenPositions PROVE loaded' = OpenRows(day)'
  BY <1>1
<1>9. ~overlapped
  BY OverlapKept
<1>3. CASE Tick
  <2>1. job["session_start"] = "load_daily_pnl" /\ ~AllIdle
    BY <1>0, <1>3 DEF Tick, AllIdle
  <2>2. day' = day
    BY <1>3, <2>1, TradingDayAssumption DEF Tick
  <2>3. UNCHANGED <<fills, orders, failures, loaded>>
    BY <1>3 DEF Tick, tradeVars, ledgerVars
  <2>4. OpenRows(day)' = OpenRows(day)
    BY <2>2, <2>3, PlacesKept DEF Ids
  <2> QED
    BY <1>9, <2>1, <2>3, <2>4 DEF LoadedFits
<1>4. CASE Shutdown \/ UNCHANGED vars
  <2>1. UNCHANGED <<fills, orders, failures, loaded, day, job>>
    BY <1>4 DEF Shutdown, vars, worldVars, tradeVars, ledgerVars
  <2>2. OpenRows(day)' = OpenRows(day)
    BY <2>1, PlacesKept DEF Ids
  <2> QED
    BY <1>9, <2>1, <2>2 DEF LoadedFits
<1>5. CASE StepSkipped \/ StepBegins \/ DailyReport \/ EodSignal
  <2>1. job'["session_start"] = job["session_start"]
    BY <1>0, <1>5 DEF StepSkipped, StepBegins, DailyReport, EodSignal, Goes
  <2>2. UNCHANGED <<fills, orders, loaded, day>>
    BY <1>5 DEF StepSkipped, StepBegins, DailyReport, EodSignal, stepUnchanged, daySteady,
       worldVars, ledgerVars, tradeVars
  <2>3. failures'["open"] = failures["open"]
    <3>1. \/ Succeeds("summary") \/ Fails("summary") \/ UNCHANGED failures
      BY <1>5 DEF StepSkipped, StepBegins, DailyReport, EodSignal, ledgerVars
    <3>2. failures \in [Ops -> Nat] /\ "open" \in Ops
      BY DEF TypeOK, LedgerTypes, Ops
    <3> QED
      BY <3>1, <3>2 DEF Succeeds, Fails
  <2>4. OpenRows(day)' = OpenRows(day)
    BY <2>2, PlacesKept DEF Ids
  <2> QED
    BY <1>9, <2>1, <2>2, <2>3, <2>4 DEF LoadedFits
<1>6. CASE \/ EntryPasses \/ EntryFilled \/ ExitFilled \/ Raising \/ Reconcile \/ Bars
           \/ StepReturns \/ Record \/ StepEnds
  <2>1. Sweeping
    BY <1>6 DEF EntryPasses, EntryFilled, ExitFilled, Raising, OrderRaises, OrderIsLost,
       SubscriptionRaises, ReconcileRaises, BarsRaise, Reconcile, Bars, StepReturns, Record,
       StepEnds, Processing, Tradable, InSweep, Sweeping
  <2>2. UNCHANGED job \/ \E pc : Goes("step", pc)
    BY <1>6 DEF EntryPasses, EntryFilled, ExitFilled, TradeBooked,
       Raising, OrderRaises, OrderIsLost, SubscriptionRaises, ReconcileRaises, BarsRaise, Raises,
       Reconcile, Bars, StepReturns, Record, StepEnds
  <2>3. job'["session_start"] = job["session_start"]
    BY <1>0, <2>2 DEF Goes
  <2> QED
    BY <1>9, <2>1, <2>3 DEF Noted
<1> QED
  BY <1>1, <1>2, <1>3, <1>4, <1>5, <1>6 DEF Next, Callback, Raising

\* A filled order is on its way.
LEMMA FilledInFlight ==
    ASSUME TypeOK, EntryFilled \/ ExitFilled
    PROVE  LET n == Len(fills) + 1 IN
           /\ Trade /\ todo # <<>> /\ UNCHANGED <<orders, day, session, failures>>
           /\ held' = Moved(held, Head(todo))
           /\ n \notin Ids /\ Ids' = Ids \union {n}
           /\ \A id : InFlight(id)' <=> InFlight(id) \/ id = n
<1> DEFINE n == Len(fills) + 1
<1>1. /\ Trade /\ todo # <<>> /\ UNCHANGED <<orders, day, session, failures, report>>
      /\ held' = Moved(held, Head(todo))
  BY DEF EntryFilled, ExitFilled, Processing, TradeBooked, ledgerUnchanged, stepUnchanged, daySteady,
     worldVars
<1>2. n \notin Ids /\ Ids' = Ids \union {n} /\ n \in Ids'
  BY <1>1, NewFill, TradeTypes
<1>3. entryEvents \in Seq(Ids') /\ exitEvents \in Seq(Ids')
  BY <1>1, TradeTypes DEF TypeOK, SweepTypes
<1>4. /\ Elements(Append(entryEvents, n)) = Elements(entryEvents) \union {n}
      /\ Elements(Append(exitEvents, n)) = Elements(exitEvents) \union {n}
  BY <1>2, <1>3, ElementsAppend
<1>5. \/ entryEvents' = Append(entryEvents, n) /\ exitEvents' = exitEvents
      \/ exitEvents' = Append(exitEvents, n) /\ entryEvents' = entryEvents
  BY DEF EntryFilled, ExitFilled
<1>6. \A id : InFlight(id)' <=> InFlight(id) \/ id = n
  <2>1. Elements(report)' = Elements(report)
    BY <1>1 DEF Elements
  <2>2. CASE entryEvents' = Append(entryEvents, n) /\ exitEvents' = exitEvents
    <3>1. /\ Elements(entryEvents)' = Elements(entryEvents) \union {n}
          /\ Elements(exitEvents)' = Elements(exitEvents)
      BY <1>4, <2>2 DEF Elements
    <3> QED
      BY <2>1, <3>1 DEF InFlight
  <2>3. CASE exitEvents' = Append(exitEvents, n) /\ entryEvents' = entryEvents
    <3>1. /\ Elements(exitEvents)' = Elements(exitEvents) \union {n}
          /\ Elements(entryEvents)' = Elements(entryEvents)
      BY <1>4, <2>3 DEF Elements
    <3> QED
      BY <2>1, <3>1 DEF InFlight
  <2> QED
    BY <1>5, <2>2, <2>3
<1> QED
  BY <1>1, <1>2, <1>6

\* A purchase or a sale of this session.
LEMMA HeldByFill ==
    ASSUME HoldInv, ~overlapped, session = day, EntryFilled \/ ExitFilled, NEW s \in Symbols
    PROVE  HeldFor(s)'
<1>0. PICK n, signal : n = Len(fills) + 1 /\ signal = Head(todo)
  OBVIOUS
<1>1. TypeOK /\ HeldFor(s)
  BY DEF HoldInv, EventInv, LossInv, HeldFits
<1>2. /\ Trade /\ todo # <<>> /\ UNCHANGED <<orders, day, session, failures>>
      /\ held' = Moved(held, signal)
      /\ n \notin Ids /\ Ids' = Ids \union {n}
      /\ \A id : InFlight(id)' <=> InFlight(id) \/ id = n
  BY <1>0, <1>1, FilledInFlight
<1>3. /\ fills'[n].side = signal.side /\ fills'[n].sym = signal.sym /\ fills'[n].day = day
      /\ \A i \in Ids : fills'[i] = fills[i]
  BY <1>0, <1>1, <1>2, FillOfTrade
<1>4. \/ EntryFilled /\ signal.side = "buy" /\ signal.sym \notin held
      \/ ExitFilled /\ signal.side = "sell" /\ signal.sym \in held
  BY <1>0 DEF EntryFilled, ExitFilled, Processing, Tradable
<1>5. CASE s # signal.sym
  <2>1. s \in held' <=> s \in held
    BY <1>2, <1>5 DEF Moved
  <2>2. \A id \in Ids' : id \in Ids \/ fills'[id].sym # s
    BY <1>2, <1>3, <1>5
  <2>3. \A id \in Ids : Today(id, s) => (InFlight(id)' <=> InFlight(id))
    BY <1>2
  <2> QED
    BY <1>1, <1>2, <1>3, <2>1, <2>2, <2>3, HeldForKept
<1>6. CASE s = signal.sym
  <2> SUFFICES ASSUME Traced(s)'
               PROVE  /\ s \in held' <=> Long(s)'
                      /\ \A x \in Ids' : Sold(x, s)' /\ InFlight(x)'
                            => \E b \in Ids' : Bought(b, s)'
    BY DEF HeldFor
  <2>1. /\ \A id \in Ids : /\ Today(id, s)' <=> Today(id, s)
                           /\ Bought(id, s)' <=> Bought(id, s)
                           /\ Sold(id, s)' <=> Sold(id, s)
        /\ \A id : Recorded(id)' <=> Recorded(id)
    BY <1>1, <1>2, <1>3, PlacesKept
  <2>2. Traced(s)
    <3>1. \A id \in Ids : Today(id, s) => Recorded(id) \/ InFlight(id)
      BY <1>2, <2>1 DEF Traced
    <3>2. \A i, k \in Ids : Bought(i, s) /\ Bought(k, s) => i = k
      BY <1>2, <2>1 DEF Traced
    <3>3. failures["open"] = 0
      BY <1>2 DEF Traced
    <3> QED
      BY <3>1, <3>2, <3>3 DEF Traced
  <2>3. /\ s \in held <=> Long(s)
        /\ \A x \in Ids : Sold(x, s) /\ InFlight(x) => \E b \in Ids : Bought(b, s)
    BY <1>1, <2>2 DEF HeldFor
  <2>4. CASE EntryFilled /\ signal.side = "buy"
    <3>1. Bought(n, s)' /\ ~Sold(n, s)'
      BY <1>2, <1>3, <1>6, <2>4 DEF Bought, Sold, Today, Side
    <3>2. \A b \in Ids : ~Bought(b, s)
      <4>1. \A b \in Ids : Bought(b, s) => b = n
        BY <1>2, <2>1, <3>1 DEF Traced
      <4> QED
        BY <1>2, <4>1
    <3>3. \A x \in Ids' : Sold(x, s)' => ~InFlight(x)'
      <4> SUFFICES ASSUME NEW x \in Ids', Sold(x, s)', InFlight(x)' PROVE FALSE
        OBVIOUS
      <4>1. x # n
        BY <3>1
      <4>2. x \in Ids
        BY <1>2, <4>1
      <4>3. Sold(x, s)
        BY <2>1, <4>2
      <4>4. InFlight(x)
        BY <1>2, <4>1
      <4> QED
        BY <2>3, <3>2, <4>2, <4>3, <4>4
    <3>4. Long(s)'
      <4>1. n \in Ids' /\ Bought(n, s)' /\ InFlight(n)'
        BY <1>2, <3>1
      <4> QED
        BY <3>3, <4>1 DEF Long
    <3>5. s \in held'
      BY <1>2, <1>6, <2>4 DEF Moved
    <3> QED
      BY <3>3, <3>4, <3>5
  <2>5. CASE ExitFilled /\ signal.side = "sell" /\ signal.sym \in held
    <3>1. PICK b \in Ids : Bought(b, s)
      BY <1>6, <2>3, <2>5 DEF Long
    <3>2. b \in Ids' /\ Bought(b, s)'
      BY <1>2, <2>1, <3>1
    <3>3. n \in Ids' /\ Sold(n, s)' /\ InFlight(n)'
      BY <1>2, <1>3, <1>6, <2>5 DEF Sold, Today, Side
    <3>4. ~Long(s)'
      BY <3>3 DEF Long
    <3>5. s \notin held'
      BY <1>2, <1>6, <2>5 DEF Moved
    <3> QED
      BY <3>2, <3>4, <3>5
  <2> QED
    BY <1>4, <2>4, <2>5
<1> QED
  BY <1>5, <1>6

\* An exception drops what is on its way: the symbols it concerns are not traced
\* any more.
LEMMA HeldByRaise ==
    ASSUME HoldInv, ~overlapped, session = day, Raising, NEW s \in Symbols
    PROVE  HeldFor(s)'
<1>1. TypeOK /\ HeldFor(s) /\ Once
  BY DEF HoldInv, EventInv, LossInv, HeldFits
<1>2. /\ \A id : ~InFlight(id)'
      /\ \A id : Recorded(id)' <=> Recorded(id)
  BY RaisingEvents DEF HoldInv
<1>3. UNCHANGED <<orders, day, failures>>
  BY DEF Raising, OrderRaises, OrderIsLost, SubscriptionRaises, ReconcileRaises, BarsRaise,
     Raises, ledgerUnchanged, stepUnchanged, daySteady, worldVars
<1>4. \/ UNCHANGED <<fills, held>>
      \/ Trade /\ todo # <<>> /\ held' \in {held, Moved(held, Head(todo))}
  BY DEF Raising, OrderRaises, OrderIsLost, SubscriptionRaises, ReconcileRaises, BarsRaise,
     Tradable, untraded
<1> SUFFICES ASSUME Traced(s)' PROVE HeldFor(s)'
  BY DEF HeldFor
<1>5. /\ Ids \subseteq Ids' /\ \A id \in Ids : fills'[id] = fills[id]
      /\ \A id \in Ids' : id \in Ids \/ fills'[id].sym # s
      /\ s \in held' <=> s \in held
  <2>1. CASE UNCHANGED <<fills, held>>
    BY <2>1 DEF Ids
  <2>2. CASE Trade /\ todo # <<>> /\ held' \in {held, Moved(held, Head(todo))}
    <3>0. PICK n : n = Len(fills) + 1
      OBVIOUS
    <3>1. /\ fills'[n].sym = Head(todo).sym /\ fills'[n].day = day
          /\ n \in Ids' /\ Ids' = Ids \union {n} /\ \A i \in Ids : fills'[i] = fills[i]
      BY <1>1, <2>2, <3>0, FillOfTrade
    <3>2. ~Recorded(n)
      BY <1>1, <2>2, <3>0, NewFill
    <3>3. fills'[n].sym # s
      <4> SUFFICES ASSUME fills'[n].sym = s PROVE FALSE
        OBVIOUS
      <4>1. Today(n, s)'
        BY <1>3, <3>1 DEF Today
      <4> QED
        BY <1>2, <3>1, <3>2, <4>1 DEF Traced
    <3>4. s \in held' <=> s \in held
      BY <2>2, <3>1, <3>3 DEF Moved
    <3> QED
      BY <3>1, <3>3, <3>4
  <2> QED
    BY <1>4, <2>1, <2>2
<1>6. \A id \in Ids : Today(id, s) => (InFlight(id)' <=> InFlight(id))
  <2> TAKE id \in Ids
  <2>1. Today(id, s) => Recorded(id)
    <3>1. Today(id, s)' <=> Today(id, s)
      BY <1>1, <1>3, <1>5, PlacesKept
    <3> QED
      BY <1>2, <1>5, <3>1 DEF Traced
  <2> QED
    BY <1>1, <1>2, <2>1 DEF Once
<1> QED
  BY <1>1, <1>3, <1>5, <1>6, HeldForKept

\* One more row, the last of its symbol.
LEMMA RowAdded ==
    ASSUME TypeOK, UNCHANGED <<fills, day>>, NEW e \in Ids, orders' = Append(orders, e),
           fills[e].day = day, NEW s
    PROVE  /\ s # fills[e].sym => \A id : IsLast(id, s)' <=> IsLast(id, s)
           /\ s = fills[e].sym => \A id : IsLast(id, s)' <=> id = e
<1> DEFINE n == Len(orders) + 1
<1>1. /\ n \in Nat /\ Len(orders) \in Nat /\ Len(orders') = n /\ orders'[n] = e
      /\ \A i \in 1..Len(orders) : orders'[i] = orders[i]
  BY IdsGrow DEF TypeOK, LedgerTypes
<1>2. \A i : i \in 1..n <=> i \in 1..Len(orders) \/ i = n
  BY <1>1
<1>3. \A i \in 1..Len(orders) : i < n
  BY <1>1
<1> HIDE DEF n
<1>4. \A i : i \in OfSymbol(s, day)'
               <=> i \in OfSymbol(s, day) \/ (i = n /\ fills[e].sym = s)
  <2> TAKE i
  <2>1. CASE i \in 1..Len(orders)
    <3>1. i # n
      BY <1>1, <1>3, <2>1
    <3> QED
      BY <1>1, <1>2, <2>1, <3>1 DEF OfSymbol, Rows
  <2>2. CASE i \notin 1..Len(orders)
    BY <1>1, <1>2, <2>2 DEF OfSymbol, Rows
  <2> QED
    BY <2>1, <2>2
<1>5. OfSymbol(s, day) \subseteq 1..Len(orders)
  BY DEF OfSymbol, Rows
<1>6. ASSUME s # fills[e].sym PROVE \A id : IsLast(id, s)' <=> IsLast(id, s)
  <2>1. OfSymbol(s, day)' = OfSymbol(s, day)
    BY <1>4, <1>6
  <2> QED
    BY <1>1, <1>5, <2>1 DEF IsLast
<1>7. ASSUME s = fills[e].sym, NEW id PROVE IsLast(id, s)' <=> id = e
  <2>1. n \in OfSymbol(s, day)' /\ \A k \in OfSymbol(s, day)' : k \in Nat /\ k <= n
    <3>1. \A k \in 1..n : k \in Nat /\ k <= n
      BY <1>1
    <3> QED
      BY <1>2, <1>4, <1>5, <1>7, <3>1
  <2>2. \A i \in OfSymbol(s, day)' : (\A k \in OfSymbol(s, day)' : k <= i) => i = n
    <3> SUFFICES ASSUME NEW i \in OfSymbol(s, day)', \A k \in OfSymbol(s, day)' : k <= i
                 PROVE  i = n
      OBVIOUS
    <3>1. i \in Nat /\ n \in Nat /\ i <= n /\ n <= i
      BY <2>1
    <3> QED
      BY <3>1
  <2>3. IsLast(id, s)' => id = e
    BY <1>1, <2>2 DEF IsLast
  <2>4. id = e => IsLast(id, s)'
    BY <1>1, <2>1 DEF IsLast
  <2> QED
    BY <2>3, <2>4
<1> QED
  BY <1>6, <1>7

\* One event of the session is written to the ledger, or lost.
LEMMA HeldByRecord ==
    ASSUME HoldInv, ~overlapped, session = day, Record, NEW s \in Symbols
    PROVE  HeldFor(s)'
<1>0. PICK e : e = Head(report)
  OBVIOUS
<1>1. TypeOK /\ HeldFor(s) /\ Once
  BY DEF HoldInv, EventInv, LossInv, HeldFits
<1>2. /\ e \in Ids /\ InFlight(e) /\ fills[e].day = day
      /\ Ids' = Ids /\ UNCHANGED <<fills, day>>
      /\ \A id : InFlight(id)' <=> InFlight(id) /\ id # e
      /\ Side(e) = "sell" => \A id : InFlight(id)' => Side(id) = "sell"
      /\ \/ orders' = Append(orders, e) /\ \A id : Recorded(id)' <=> Recorded(id) \/ id = e
         \/ orders' = orders /\ \A id : Recorded(id)' <=> Recorded(id)
  BY <1>0, RecordEvents DEF HoldInv
<1>3. held' = held /\ failures'["open"] = failures["open"]
  <2>1. held' = held
    BY DEF Record, tradeVars
  <2>2. OpOf(e) # "open" /\ "open" \in Ops /\ failures \in [Ops -> Nat]
    BY <1>1 DEF OpOf, Ops, TypeOK, LedgerTypes
  <2>3. Insert(e)
    BY <1>0 DEF Record
  <2>4. Succeeds(OpOf(e)) \/ Fails(OpOf(e)) \/ UNCHANGED <<failures, emitted>>
    BY <2>3, InsertCounts
  <2>5. failures'["open"] = failures["open"]
    BY <2>2, <2>4 DEF Succeeds, Fails
  <2> QED
    BY <2>1, <2>5
<1>4. CASE orders' = orders /\ \A id : Recorded(id)' <=> Recorded(id)
  <2>1. CASE fills[e].sym = s
    <3>1. Today(e, s)'
      BY <1>2, <2>1 DEF Today
    <3>2. ~Recorded(e)' /\ ~InFlight(e)'
      BY <1>1, <1>2, <1>4 DEF Once
    <3>3. ~Traced(s)'
      BY <1>2, <3>1, <3>2 DEF Traced
    <3> QED
      BY <3>3 DEF HeldFor
  <2>2. CASE fills[e].sym # s
    <3>1. \A id \in Ids : Today(id, s) => (InFlight(id)' <=> InFlight(id))
      BY <1>2, <2>2 DEF Today
    <3> QED
      BY <1>1, <1>2, <1>3, <1>4, <3>1, HeldForKept
  <2> QED
    BY <2>1, <2>2
<1>5. CASE orders' = Append(orders, e) /\ \A id : Recorded(id)' <=> Recorded(id) \/ id = e
  <2>1. /\ s # fills[e].sym => \A id : IsLast(id, s)' <=> IsLast(id, s)
        /\ s = fills[e].sym => \A id : IsLast(id, s)' <=> id = e
    BY <1>1, <1>2, <1>5, RowAdded
  <2>2. \A id : /\ Today(id, s)' <=> Today(id, s)
                /\ Bought(id, s)' <=> Bought(id, s)
                /\ Sold(id, s)' <=> Sold(id, s)
    BY <1>2 DEF Today, Bought, Sold, Side
  <2> SUFFICES ASSUME Traced(s)'
               PROVE  /\ s \in held' <=> Long(s)'
                      /\ \A x \in Ids' : Sold(x, s)' /\ InFlight(x)'
                            => \E b \in Ids' : Bought(b, s)'
    BY DEF HeldFor
  <2>3. Traced(s)
    <3>1. \A id \in Ids : Today(id, s) => Recorded(id) \/ InFlight(id)
      BY <1>2, <1>5, <2>2 DEF Traced
    <3>2. \A i, k \in Ids : Bought(i, s) /\ Bought(k, s) => i = k
      BY <1>2, <2>2 DEF Traced
    <3>3. failures["open"] = 0
      BY <1>3 DEF Traced
    <3> QED
      BY <3>1, <3>2, <3>3 DEF Traced
  <2>4. /\ s \in held <=> Long(s)
        /\ \A x \in Ids : Sold(x, s) /\ InFlight(x) => \E b \in Ids : Bought(b, s)
    BY <1>1, <2>3 DEF HeldFor
  <2>5. \A x \in Ids' : Sold(x, s)' /\ InFlight(x)' => \E b \in Ids' : Bought(b, s)'
    BY <1>2, <2>2, <2>4
  <2>6. Long(s)' <=> Long(s)
    <3>1. CASE s # fills[e].sym
      <4>1. \A id : Bought(id, s) \/ Sold(id, s) => id # e
        BY <3>1 DEF Bought, Sold, Today
      <4>2. (\A x \in Ids' : Sold(x, s)' => ~InFlight(x)')
              <=> (\A x \in Ids : Sold(x, s) => ~InFlight(x))
        BY <1>2, <2>2, <4>1
      <4>3. (\E b \in Ids' : Bought(b, s)' /\ (InFlight(b)' \/ IsLast(b, s)'))
              <=> (\E b \in Ids : Bought(b, s) /\ (InFlight(b) \/ IsLast(b, s)))
        BY <1>2, <2>1, <2>2, <3>1, <4>1
      <4> QED
        BY <4>2, <4>3 DEF Long
    <3>2. CASE s = fills[e].sym /\ Side(e) # "sell"
      <4>1. Side(e) = "buy"
        <5>1. fills[e] \in FillType
          BY <1>1, <1>2 DEF TypeOK, WorldTypes, Ids
        <5> QED
          BY <3>2, <5>1 DEF Side, FillType
      <4>2. Bought(e, s) /\ ~Sold(e, s)
        BY <1>2, <3>2, <4>1 DEF Bought, Sold, Today
      <4>3. (\A x \in Ids' : Sold(x, s)' => ~InFlight(x)')
              <=> (\A x \in Ids : Sold(x, s) => ~InFlight(x))
        BY <1>2, <2>2, <4>2
      <4>4. \E b \in Ids' : Bought(b, s)' /\ (InFlight(b)' \/ IsLast(b, s)')
        <5>1. Bought(e, s)' /\ IsLast(e, s)' /\ e \in Ids'
          BY <1>2, <2>1, <2>2, <3>2, <4>2
        <5> QED
          BY <5>1
      <4>5. \E b \in Ids : Bought(b, s) /\ (InFlight(b) \/ IsLast(b, s))
        BY <1>2, <4>2
      <4> QED
        BY <4>3, <4>4, <4>5 DEF Long
    <3>3. CASE s = fills[e].sym /\ Side(e) = "sell"
      <4>1. Sold(e, s) /\ ~Bought(e, s)
        BY <1>2, <3>3 DEF Bought, Sold, Today
      <4>2. ~Long(s)
        BY <1>2, <4>1 DEF Long
      <4>3. \A b \in Ids : Bought(b, s)' => ~InFlight(b)' /\ ~IsLast(b, s)'
        <5> SUFFICES ASSUME NEW b \in Ids, Bought(b, s)' PROVE ~InFlight(b)' /\ ~IsLast(b, s)'
          OBVIOUS
        <5>1. Side(b) = "buy" /\ b # e
          BY <2>2, <4>1 DEF Bought
        <5>2. ~InFlight(b)'
          BY <1>2, <3>3, <5>1
        <5> QED
          BY <2>1, <3>3, <5>1, <5>2
      <4>4. ~Long(s)'
        BY <1>2, <4>3 DEF Long
      <4> QED
        BY <4>2, <4>4
    <3> QED
      BY <3>1, <3>2, <3>3
  <2> QED
    BY <1>3, <2>4, <2>5, <2>6
<1> QED
  BY <1>2, <1>4, <1>5

\* The session starts with what the ledger gives back.
LEMMA HeldByStart ==
    ASSUME HoldInv, ~overlapped, StartSession, NEW s \in Symbols
    PROVE  HeldFor(s)'
<1>1. TypeOK /\ EventsInSweep /\ Noted /\ LoadedFits
  BY DEF HoldInv, EventInv, LossInv
<1>2. \A id : ~InFlight(id)
  <2>1. ~Sweeping
    BY <1>1 DEF StartSession, Noted
  <2>2. entryEvents = <<>> /\ exitEvents = <<>> /\ report = <<>>
    BY <1>1, <2>1 DEF EventsInSweep, Sweeping
  <2> QED
    BY <2>2, NoneInFlight
<1>3. /\ UNCHANGED <<fills, orders, day, entryEvents, exitEvents, report>>
      /\ held' = loaded /\ job["session_start"] = "load_daily_pnl"
  BY DEF StartSession, sessionUnchanged, worldVars, sweepVars, eventVars
<1>4. \A id : InFlight(id)' <=> InFlight(id)
  BY <1>3 DEF InFlight, Elements
<1>5. failures'["open"] = failures["open"]
  <2>1. failures \in [Ops -> Nat] /\ "open" \in Ops
    BY <1>1 DEF TypeOK, LedgerTypes, Ops
  <2>2. \E buys : LoadDailyPnl(buys)
    BY DEF StartSession
  <2>3. Succeeds("pnl") \/ Fails("pnl") \/ UNCHANGED <<failures, emitted>>
    BY <2>2 DEF LoadDailyPnl
  <2> QED
    BY <2>1, <2>3 DEF Succeeds, Fails
<1>6. Ids' = Ids
  BY <1>3 DEF Ids
<1>7. /\ \A id : IsLast(id, s)' <=> IsLast(id, s)
      /\ \A id \in Ids : Bought(id, s)' <=> Bought(id, s)
  BY <1>1, <1>3, <1>6, PlacesKept
<1> SUFFICES ASSUME Traced(s)'
             PROVE  /\ s \in held' <=> Long(s)'
                    /\ \A x \in Ids' : Sold(x, s)' /\ InFlight(x)'
                          => \E b \in Ids' : Bought(b, s)'
  BY DEF HeldFor
<1>8. loaded = OpenRows(day)
  BY <1>1, <1>3, <1>5 DEF Traced, LoadedFits
<1>9. Long(s) <=> s \in OpenRows(day)
  BY <1>1, <1>2, LongByLedger
<1>10. Long(s)' <=> Long(s)
  <2>1. \A x : ~InFlight(x)'
    BY <1>2, <1>4
  <2>2. (\E b \in Ids' : Bought(b, s)' /\ (InFlight(b)' \/ IsLast(b, s)'))
          <=> (\E b \in Ids : Bought(b, s) /\ (InFlight(b) \/ IsLast(b, s)))
    BY <1>4, <1>6, <1>7
  <2> QED
    BY <1>2, <2>1, <2>2 DEF Long
<1> QED
  BY <1>2, <1>3, <1>4, <1>8, <1>9, <1>10

\* The day changes under no session of the new day.
LEMMA HeldByTick ==
    ASSUME HoldInv, ~overlapped, Tick, NEW s \in Symbols, session' = day'
    PROVE  HeldFor(s)'
<1>1. TypeOK /\ SessionFits /\ HeldFits
  BY DEF HoldInv, EventInv, LossInv
<1>2. UNCHANGED <<session, fills, orders, failures, held, entryEvents, exitEvents, report>>
  BY DEF Tick, ledgerVars, riskVars, tradeVars, sweepVars, eventVars
<1>3. day' = day
  <2>1. day' \in {day, day + 1}
    BY DEF Tick
  <2>2. session \in Nat /\ day \in Nat /\ session <= day
    BY <1>1 DEF TypeOK, WorldTypes, ProcessTypes, SessionFits
  <2>3. day' # day + 1
    BY <1>2, <2>2
  <2> QED
    BY <2>1, <2>3
<1>4. \A id : InFlight(id)' <=> InFlight(id)
  BY <1>2 DEF InFlight, Elements
<1>5. HeldFor(s)
  BY <1>1, <1>2, <1>3 DEF HeldFits
<1> QED
  BY <1>1, <1>2, <1>3, <1>4, <1>5, HeldForKept DEF Ids

\* The positions of the session are those of the events, whatever happens.
LEMMA HeldStep ==
    ASSUME HoldInv, [Next]_vars
    PROVE  HeldFits'
<1>0. TypeOK /\ EventInv /\ EventsInSweep /\ SessionFits /\ SessionFits'
  BY SessionStep DEF HoldInv, EventInv, LossInv
<1> SUFFICES ASSUME ~overlapped', session' = day', NEW s \in Symbols PROVE HeldFor(s)'
  BY DEF HeldFits
<1>4. CASE LoadOpenPositions
  <2>1. job'["session_start"] # "idle" /\ session' \in Nat
    <3>1. job'["session_start"] = "load_daily_pnl" /\ session' = session
      BY <1>0, <1>4, JobsTyped DEF LoadOpenPositions, Goes, riskVars
    <3> QED
      BY <1>0, <3>1 DEF TypeOK, ProcessTypes
  <2>2. session' < day'
    BY <1>0, <2>1 DEF SessionFits
  <2> QED
    BY <2>1, <2>2
<1> SUFFICES ASSUME ~LoadOpenPositions PROVE HeldFor(s)'
  BY <1>4
<1>18. ~overlapped
  BY OverlapKept
<1>1. CASE Boot \/ Crash \/ Exit
  <2>1. session' = 0 /\ day' = day /\ day # 0
    BY <1>0, <1>1 DEF Boot, Crash, Exit, Fresh, worldVars, TypeOK, WorldTypes
  <2> QED
    BY <2>1
<1>2. CASE Tick
  BY <1>2, <1>18, HeldByTick
<1>3. CASE StartSession
  BY <1>3, <1>18, HeldByStart
<1>5. ASSUME UNCHANGED <<session, day>> PROVE HeldFor(s) /\ session = day
  BY <1>5, <1>18 DEF HoldInv, HeldFits
<1>6. CASE EntryFilled \/ ExitFilled
  <2>1. UNCHANGED <<session, day>>
    BY <1>6 DEF EntryFilled, ExitFilled, TradeBooked, stepUnchanged, daySteady, worldVars
  <2> QED
    BY <1>5, <1>6, <1>18, <2>1, HeldByFill
<1>7. CASE Raising
  <2>1. UNCHANGED <<session, day>>
    BY <1>7 DEF Raising, OrderRaises, OrderIsLost, SubscriptionRaises, ReconcileRaises,
       BarsRaise, Raises, stepUnchanged, daySteady, worldVars
  <2> QED
    BY <1>5, <1>7, <1>18, <2>1, HeldByRaise
<1>8. CASE Record
  <2>1. UNCHANGED <<session, day>>
    BY <1>8 DEF Record, stepUnchanged, daySteady, worldVars
  <2> QED
    BY <1>5, <1>8, <1>18, <2>1, HeldByRecord
<1>9. ASSUME UNCHANGED <<session, day, fills, orders, held>>,
             failures'["open"] = failures["open"],
             \A id : InFlight(id)' <=> InFlight(id)
      PROVE  HeldFor(s)'
  BY <1>0, <1>5, <1>9, HeldForKept DEF Ids
<1>10. CASE StepReturns
  <2>1. \A id : InFlight(id)' <=> InFlight(id)
    BY <1>0, <1>10, ReturnEvents
  <2>2. UNCHANGED <<session, day, fills, orders, held, failures>>
    BY <1>10 DEF StepReturns, stepUnchanged, daySteady, worldVars, tradeVars
  <2> QED
    BY <1>9, <2>1, <2>2
<1>11. ASSUME UNCHANGED <<entryEvents, exitEvents, report>>
       PROVE  \A id : InFlight(id)' <=> InFlight(id)
  BY <1>11 DEF InFlight, Elements
<1>12. CASE StepBegins
  <2>1. job["step"] = "called"
    BY <1>12 DEF StepBegins, Taken
  <2>2. entryEvents = <<>> /\ exitEvents = <<>>
    BY <1>0, <2>1 DEF EventsInSweep
  <2>3. UNCHANGED <<entryEvents, exitEvents, report>>
    BY <1>12, <2>2 DEF StepBegins
  <2>4. UNCHANGED <<session, day, fills, orders, held, failures>>
    BY <1>12 DEF StepBegins, stepUnchanged, daySteady, worldVars, tradeVars
  <2> QED
    BY <1>9, <1>11, <2>3, <2>4
<1>13. CASE DailyReport
  <2>1. UNCHANGED <<session, day, fills, orders, held, entryEvents, exitEvents, report>>
    BY <1>13 DEF DailyReport, worldVars, riskVars, tradeVars, sweepVars, eventVars
  <2>2. Succeeds("summary") \/ Fails("summary") \/ UNCHANGED <<failures, emitted>>
    BY <1>13 DEF DailyReport
  <2>3. failures \in [Ops -> Nat] /\ "open" \in Ops
    BY <1>0 DEF TypeOK, LedgerTypes, Ops
  <2>4. failures'["open"] = failures["open"]
    BY <2>2, <2>3 DEF Succeeds, Fails
  <2> QED
    BY <1>9, <1>11, <2>1, <2>4
<1>14. CASE RestoreRaises
  <2>1. UNCHANGED <<session, day, fills, orders, held, entryEvents, exitEvents, report>>
    BY <1>14 DEF RestoreRaises, sessionUnchanged, worldVars, riskVars, sweepVars, eventVars
  <2>2. \E buys : LoadDailyPnl(buys)
    BY <1>14 DEF RestoreRaises
  <2>3. Succeeds("pnl") \/ Fails("pnl") \/ UNCHANGED <<failures, emitted>>
    BY <2>2 DEF LoadDailyPnl
  <2>4. failures \in [Ops -> Nat] /\ "open" \in Ops
    BY <1>0 DEF TypeOK, LedgerTypes, Ops
  <2>5. failures'["open"] = failures["open"]
    BY <2>3, <2>4 DEF Succeeds, Fails
  <2> QED
    BY <1>9, <1>11, <2>1, <2>5
<1>15. CASE UNCHANGED vars \/ Shutdown \/ EodSignal
  <2>1. UNCHANGED <<session, day, fills, orders, held, failures,
                    entryEvents, exitEvents, report>>
    BY <1>15 DEF vars, Shutdown, EodSignal, worldVars, ledgerVars, riskVars, tradeVars,
       sweepVars, eventVars
  <2> QED
    BY <1>9, <1>11, <2>1
<1>16. CASE StartFails \/ StepSkipped
  <2>1. UNCHANGED <<session, day, fills, orders, held, failures,
                    entryEvents, exitEvents, report>>
    BY <1>16 DEF StartFails, StepSkipped, sessionUnchanged, stepUnchanged, daySteady, worldVars,
       riskVars, tradeVars, sweepVars, eventVars
  <2> QED
    BY <1>9, <1>11, <2>1
<1>17. CASE EntryPasses \/ Reconcile \/ Bars \/ StepEnds
  <2>1. UNCHANGED <<session, day, fills, orders, held, failures,
                    entryEvents, exitEvents, report>>
    BY <1>17 DEF EntryPasses, Reconcile, Bars, StepEnds, stepUnchanged, daySteady, ledgerUnchanged,
       worldVars, tradeVars, eventVars
  <2> QED
    BY <1>9, <1>11, <2>1
<1> QED
  BY <1>1, <1>2, <1>3, <1>6, <1>7, <1>8, <1>10, <1>12, <1>13, <1>14, <1>15, <1>16, <1>17
     DEF Next, Callback, Raising

\* Between two callbacks nothing is on its way.
LEMMA HoldSays == HoldInv => HeldUnlessOverlapped
<1> SUFFICES ASSUME HoldInv, ~overlapped, AllIdle, session = day, NEW s \in Symbols, Replayable(s)
             PROVE  s \in held <=> s \in OpenRows(day)
  BY DEF HeldUnlessOverlapped, HeldIsRecorded
<1>1. TypeOK /\ EventsInSweep /\ HeldFor(s)
  BY DEF HoldInv, EventInv, LossInv, HeldFits
<1>2. job["step"] = "idle"
  BY DEF AllIdle, Jobs
<1>3. \A id : ~InFlight(id)
  BY <1>1, <1>2, NoneInFlight DEF EventsInSweep
<1>4. Traced(s)
  BY DEF Replayable, Traced, Today, Bought, Side
<1>5. s \in held <=> Long(s)
  BY <1>1, <1>4 DEF HeldFor
<1> QED
  BY <1>1, <1>3, <1>5, LongByLedger

\* The positions of a session are those its ledger would give back, between any
\* two callbacks, for every number of workers, every universe and every set of
\* faults, unless a sweep has overlapped the session's start.
THEOREM HeldRecorded == Spec => []HeldUnlessOverlapped
<1>1. Init => HoldInv
  <2> SUFFICES ASSUME Init PROVE EventInv /\ SessionFits /\ LoadedFits /\ HeldFits
    BY DEF HoldInv
  <2>1. Ids = {} /\ entryEvents = <<>> /\ exitEvents = <<>> /\ report = <<>>
    BY DEF Init, Ids
  <2>2. /\ job["step"] = "idle" /\ job["session_start"] = "idle"
        /\ session = 0 /\ day = 1
    BY DEF Init, Jobs
  <2>3. LossInv
    BY <2>1, <2>2, InitTypes DEF LossInv, EventsInSweep, LossIsReported
  <2>4. EventInv
    BY <2>1, <2>2, <2>3, NoEvents DEF EventInv, Noted
  <2>5. SessionFits
    BY <2>2 DEF SessionFits
  <2>6. LoadedFits /\ HeldFits
    BY <2>2 DEF LoadedFits, HeldFits
  <2> QED
    BY <2>4, <2>5, <2>6
<1>2. LossInv' /\ HoldInv /\ [Next]_vars => HoldInv'
  BY EventStep, SessionStep, LoadedStep, HeldStep DEF HoldInv, EventInv, LossInv
<1> QED
  BY <1>1, <1>2, LossHolds, HoldSays, PTL DEF Spec

=============================================================================
