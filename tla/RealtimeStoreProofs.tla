------------------------ MODULE RealtimeStoreProofs ------------------------
(***************************************************************************)
(* What holds of the bar source for every set of symbols, callers, prices  *)
(* and faults: types, the order of the bars, the Executor's way to tell    *)
(* old bars from new ones, that the bars say what the ticks said, the      *)
(* feeds that are known to the store, one alarm per outage.                *)
(***************************************************************************)
EXTENDS RealtimeStore, SequenceTheorems, FiniteSetTheorems, TLAPS

-----------------------------------------------------------------------------
(* Types.                                                                  *)

\* What a new accumulator holds.
LEMMA EmptyTyped ==
    /\ NoBar \in BarType
    /\ [s \in Symbols |-> NoBar] \in [Symbols -> BarType]
    /\ [s \in Symbols |-> <<>>] \in [Symbols -> Seq(BarType)]
    /\ [s \in Symbols |-> <<>>] \in [Symbols -> Seq(TickType)]
    /\ [s \in Symbols |-> 0] \in [Symbols -> Nat]
<1>1. NoBar \in BarType
  BY DEF NoBar, BarType
<1>2. <<>> \in Seq(BarType) /\ <<>> \in Seq(TickType)
  OBVIOUS
<1> QED
  BY <1>1, <1>2

LEMMA InitTypes == ASSUME Init PROVE TypeOK
<1> USE DEF Init
<1>1. LifeTypes
  <2>1. minute \in Nat \ {0}
    OBVIOUS
  <2>2. started \in BOOLEAN
    OBVIOUS
  <2> QED
    BY <2>1, <2>2 DEF LifeTypes
<1>2. AccumulatorTypes
  <2>1. current \in [Symbols -> BarType] /\ handed \in [Symbols -> Nat]
        /\ lastSeen \in [Symbols -> Nat]
    BY EmptyTyped
  <2>2. bars \in [Symbols -> Seq(BarType)]
    BY EmptyTyped
  <2>3. seen \in [Symbols -> Seq(TickType)]
    BY EmptyTyped
  <2>4. registered \subseteq Symbols /\ callback \in TickType \union {NoTick}
    OBVIOUS
  <2> HIDE DEF Init
  <2> QED
    BY <2>1, <2>2, <2>3, <2>4 DEF AccumulatorTypes
<1>3. FeedTypes
  BY DEF FeedTypes
<1>4. PollTypes
  BY DEF PollTypes
<1> QED
  BY <1>1, <1>2, <1>3, <1>4 DEF TypeOK

LEMMA LifeStep == ASSUME TypeOK, [Next]_vars PROVE LifeTypes'
<1>1. LifeTypes
  BY DEF TypeOK
<1>2. CASE UNCHANGED lifeVars
  BY <1>1, <1>2 DEF LifeTypes, lifeVars
<1>3. CASE ClockTick
  BY <1>1, <1>3 DEF LifeTypes, ClockTick
<1>4. CASE Main
  BY <1>1, <1>4 DEF LifeTypes, Main, StartWebsocket, StartPolling, StartRaises, Close,
                    CloseFeeds, Disconnect
<1>5. ASSUME NEW c \in Callers, Caller(c) PROVE UNCHANGED lifeVars
  BY <1>5 DEF Caller, Subscribe, Unsubscribe, Sweep, Attach, AttachRaises, StoreHandle, Detach,
              StartSession
<1>6. Receive \/ Deliver \/ Poller => UNCHANGED lifeVars
  BY DEF Receive, Deliver, Poller, SweepBegins, Poll, SweepEnds, PollerEnds
<1>7. UNCHANGED vars => UNCHANGED lifeVars
  BY DEF vars
<1> QED
  BY <1>2, <1>3, <1>4, <1>5, <1>6, <1>7 DEF Next

\* A tick makes bars of its price.
LEMMA BarsTyped ==
    ASSUME NEW bar \in BarType, NEW tick \in TickType
    PROVE  NewBar(tick) \in BarType /\ ExtendBar(bar, tick) \in BarType
BY DEF BarType, TickType, NewBar, ExtendBar

LEMMA AccumulatorStep == ASSUME TypeOK, [Next]_vars PROVE AccumulatorTypes'
<1>1. AccumulatorTypes /\ LifeTypes /\ FeedTypes /\ PollTypes
  BY DEF TypeOK
<1> DEFINE kept == UNCHANGED <<registered, current, bars, seen, handed, lastSeen, callback>>
<1>2. CASE kept
  BY <1>1, <1>2 DEF AccumulatorTypes
<1>3. ASSUME NEW c \in Callers, NEW s \in Symbols, Subscribe(c, s) \/ Unsubscribe(c, s)
      PROVE  AccumulatorTypes'
  <2>1. NoBar \in BarType /\ <<>> \in Seq(BarType) /\ <<>> \in Seq(TickType)
    BY EmptyTyped
  <2>2. Empty(s) /\ UNCHANGED <<lastSeen, callback>>
    BY <1>3 DEF Subscribe, Unsubscribe
  <2>3. current' \in [Symbols -> BarType] /\ handed' \in [Symbols -> Nat]
    BY <1>1, <2>1, <2>2 DEF AccumulatorTypes, Empty
  <2>4. bars' \in [Symbols -> Seq(BarType)]
    BY <1>1, <2>1, <2>2 DEF AccumulatorTypes, Empty
  <2>5. seen' \in [Symbols -> Seq(TickType)]
    BY <1>1, <2>1, <2>2 DEF AccumulatorTypes, Empty
  <2>6. registered' \subseteq Symbols
    BY <1>1, <1>3 DEF AccumulatorTypes, Subscribe, Unsubscribe
  <2> QED
    BY <1>1, <2>2, <2>3, <2>4, <2>5, <2>6 DEF AccumulatorTypes
<1>4. ASSUME NEW c \in Callers, NEW s \in Symbols, Sweep(c, s) PROVE AccumulatorTypes'
  <2> DEFINE new == {i \in 1..Len(bars[s]) :
                       /\ bars[s][i].minute > lastSeen[s]
                       /\ \A k \in 1..(i - 1) : bars[s][k].minute < bars[s][i].minute}
  <2>1. bars[s] \in Seq(BarType)
    BY <1>1 DEF AccumulatorTypes
  <2>2. IsFiniteSet(1..Len(bars[s]))
    BY <2>1, FS_Interval
  <2>3. Cardinality(new) \in Nat
    <3>1. new \subseteq 1..Len(bars[s])
      OBVIOUS
    <3> HIDE DEF new
    <3> QED
      BY <2>2, <3>1, FS_Subset, FS_CardinalityType
  <2>4. \A i \in new : bars[s][i].minute \in Nat
    <3>1. \A i \in 1..Len(bars[s]) : bars[s][i] \in BarType
      BY <2>1
    <3> QED
      BY <3>1 DEF BarType
  <2>5. PICK last \in new : lastSeen' = [lastSeen EXCEPT ![s] = bars[s][last].minute]
    BY <1>4 DEF Sweep
  <2>6. lastSeen' \in [Symbols -> Nat]
    BY <1>1, <2>4, <2>5 DEF AccumulatorTypes
  <2>7. handed' = [handed EXCEPT ![s] = @ + Cardinality(new)]
    BY <1>4 DEF Sweep
  <2>8. handed' \in [Symbols -> Nat]
    <3> HIDE DEF new
    <3> QED
      BY <1>1, <2>3, <2>7 DEF AccumulatorTypes
  <2>9. UNCHANGED <<registered, current, bars, seen, callback>>
    BY <1>4 DEF Sweep
  <2> QED
    BY <1>1, <2>6, <2>8, <2>9 DEF AccumulatorTypes
<1>5. ASSUME NEW c \in Callers, Attach(c) \/ AttachRaises(c) \/ StoreHandle(c) \/ Detach(c)
      PROVE  kept
  BY <1>5 DEF Attach, AttachRaises, StoreHandle, Detach, accVars
<1>6. CASE Receive
  <2>1. PICK f \in live, m \in Stamps, p \in Prices :
          callback' = [sym |-> f.sym, minute |-> m, price |-> p]
    BY <1>6 DEF Receive
  <2>2. callback' \in TickType
    BY <1>1, <2>1, StoreAssumption DEF Stamps, FeedTypes, LifeTypes, TickType
  <2> QED
    BY <1>1, <1>6, <2>2 DEF AccumulatorTypes, Receive, accVars
<1>7. CASE Deliver
  <2>1. callback \in TickType
    BY <1>1, <1>7 DEF AccumulatorTypes, Deliver
  <2>2. callback.sym \in Symbols
    BY <2>1 DEF TickType
  <2>3. CASE callback.sym \in registered
    <3>1. OnTick(callback.sym, callback)
          /\ seen' = [seen EXCEPT ![callback.sym] = Append(@, callback)]
      BY <1>7, <2>3 DEF Deliver
    <3>2. current[callback.sym] \in BarType /\ bars[callback.sym] \in Seq(BarType)
          /\ seen[callback.sym] \in Seq(TickType)
      BY <1>1, <2>2 DEF AccumulatorTypes
    <3>3. /\ Append(bars[callback.sym], current[callback.sym]) \in Seq(BarType)
          /\ Append(seen[callback.sym], callback) \in Seq(TickType)
      BY <2>1, <3>2, AppendProperties
    <3>4. NewBar(callback) \in BarType /\ ExtendBar(current[callback.sym], callback) \in BarType
      BY <2>1, <3>2, BarsTyped
    <3>5. current' \in [Symbols -> BarType] /\ bars' \in [Symbols -> Seq(BarType)]
      BY <1>1, <3>1, <3>2, <3>3, <3>4 DEF AccumulatorTypes, OnTick
    <3>6. seen' \in [Symbols -> Seq(TickType)]
      BY <1>1, <3>1, <3>3 DEF AccumulatorTypes
    <3> QED
      BY <1>1, <1>7, <3>5, <3>6 DEF AccumulatorTypes, Deliver
  <2>4. CASE callback.sym \notin registered
    BY <1>1, <1>7, <2>4 DEF AccumulatorTypes, Deliver
  <2> QED
    BY <2>3, <2>4
<1>8. CASE Poll
  <2>1. PICK s \in todo :
          \/ \E p \in Prices : callback' = [sym |-> s, minute |-> minute, price |-> p]
          \/ UNCHANGED callback
    BY <1>8 DEF Poll
  <2>2. callback' \in TickType \union {NoTick}
    BY <1>1, <2>1, StoreAssumption DEF AccumulatorTypes, PollTypes, LifeTypes, TickType
  <2> QED
    BY <1>1, <1>8, <2>2 DEF AccumulatorTypes, Poll, accVars
<1>9. ClockTick \/ Main \/ SweepBegins \/ SweepEnds \/ PollerEnds \/ UNCHANGED vars => kept
  BY DEF ClockTick, Main, StartWebsocket, StartPolling, StartRaises, Close, CloseFeeds,
         Disconnect, SweepBegins, SweepEnds, PollerEnds, vars, accVars
<1>10. ASSUME NEW c \in Callers, StartSession(c) PROVE AccumulatorTypes'
  BY <1>1, <1>10 DEF AccumulatorTypes, StartSession
<1> QED
  BY <1>2, <1>3, <1>4, <1>5, <1>6, <1>7, <1>8, <1>9, <1>10 DEF Next, Caller, Poller

LEMMA FeedStep == ASSUME TypeOK, [Next]_vars PROVE FeedTypes'
<1>1. FeedTypes /\ registered \subseteq Symbols
  BY DEF TypeOK, AccumulatorTypes
<1> DEFINE kept == UNCHANGED <<handle, live, strays, call>>
<1>2. CASE kept
  BY <1>1, <1>2 DEF FeedTypes
<1>3. ASSUME NEW c \in Callers, NEW s \in Symbols, Subscribe(c, s) PROVE FeedTypes'
  BY <1>1, <1>3 DEF FeedTypes, Subscribe, lifeVars
<1>4. ASSUME NEW c \in Callers, NEW s \in Symbols, Unsubscribe(c, s) PROVE FeedTypes'
  BY <1>1, <1>4 DEF FeedTypes, Unsubscribe
<1>5. ASSUME NEW c \in Callers, Attach(c) PROVE FeedTypes'
  <2>1. PICK id \in FreeIds :
          /\ live' = live \union {[sym |-> call[c].sym, id |-> id]}
          /\ call' = [call EXCEPT ![c].pc = "store", ![c].handle = id]
    BY <1>5 DEF Attach
  <2>2. id \in FeedIds /\ call[c].pc = "attach"
    BY <1>5, <2>1 DEF FreeIds, Attach
  <2>3. call[c] \in [pc : {"attach", "store", "detach"}, sym : Symbols,
                     handle : FeedIds \union {0}]
    BY <1>1, <2>2 DEF FeedTypes, Idle
  <2>4. call'[c] \in [pc : {"attach", "store", "detach"}, sym : Symbols,
                      handle : FeedIds \union {0}]
    BY <1>1, <2>1, <2>2, <2>3 DEF FeedTypes
  <2>5. \A d \in Callers : d # c => call'[d] = call[d]
    BY <1>1, <2>1 DEF FeedTypes
  <2>6. live' \subseteq [sym : Symbols, id : FeedIds]
    BY <1>1, <2>1, <2>2, <2>3 DEF FeedTypes
  <2>7. UNCHANGED <<handle, strays>> /\ DOMAIN call' = Callers
    BY <1>1, <1>5, <2>1 DEF FeedTypes, Attach, accVars
  <2> QED
    BY <1>1, <2>4, <2>5, <2>6, <2>7 DEF FeedTypes
<1>6. ASSUME NEW c \in Callers, AttachRaises(c) PROVE FeedTypes'
  BY <1>1, <1>6 DEF FeedTypes, AttachRaises, accVars
<1>7. ASSUME NEW c \in Callers, StoreHandle(c) PROVE FeedTypes'
  <2>1. call[c].handle \in FeedIds \union {0}
    BY <1>1, <1>7 DEF FeedTypes, StoreHandle, Idle
  <2> QED
    BY <1>1, <1>7, <2>1 DEF FeedTypes, StoreHandle
<1>8. ASSUME NEW c \in Callers, Detach(c) PROVE FeedTypes'
  <2>1. live' \subseteq live /\ strays' \subseteq strays \union {call[c].sym}
    BY <1>8 DEF Detach
  <2>2. call[c].sym \in Symbols
    BY <1>1, <1>8 DEF FeedTypes, Detach, Idle
  <2>3. handle' = handle /\ call' = [call EXCEPT ![c] = Idle]
    BY <1>8 DEF Detach, accVars
  <2> QED
    BY <1>1, <2>1, <2>2, <2>3 DEF FeedTypes
<1>9. CASE CloseFeeds \/ Disconnect
  BY <1>1, <1>9 DEF FeedTypes, CloseFeeds, Disconnect, accVars
<1>10. ASSUME NEW c \in Callers, NEW s \in Symbols, Sweep(c, s) PROVE kept
  BY <1>10 DEF Sweep
<1>12. ASSUME NEW c \in Callers, StartSession(c) PROVE kept
  BY <1>12 DEF StartSession
<1>11. ClockTick \/ StartWebsocket \/ StartPolling \/ StartRaises \/ Close \/ Receive
         \/ Deliver \/ SweepBegins \/ Poll \/ SweepEnds \/ PollerEnds \/ UNCHANGED vars => kept
  BY DEF ClockTick, StartWebsocket, StartPolling, StartRaises, Close, Receive, Deliver,
         SweepBegins, Poll, SweepEnds, PollerEnds, vars, accVars
<1> QED
  BY <1>2, <1>3, <1>4, <1>5, <1>6, <1>7, <1>8, <1>9, <1>10, <1>11, <1>12
     DEF Next, Main, Caller, Poller

LEMMA PollStep == ASSUME TypeOK, [Next]_vars PROVE PollTypes'
<1>1. PollTypes /\ registered \subseteq Symbols
  BY DEF TypeOK, AccumulatorTypes
<1>2. CASE UNCHANGED pollVars
  BY <1>1, <1>2 DEF PollTypes, pollVars
<1>3. CASE StartPolling \/ Deliver \/ SweepBegins \/ Poll \/ PollerEnds
  BY <1>1, <1>3 DEF PollTypes, StartPolling, Deliver, SweepBegins, Poll, PollerEnds
<1>4. CASE SweepEnds
  BY <1>1, <1>4 DEF PollTypes, SweepEnds, RecordSweepOutcome
<1>5. ASSUME NEW c \in Callers, Caller(c) PROVE UNCHANGED pollVars
  BY <1>5 DEF Caller, Subscribe, Unsubscribe, Sweep, Attach, AttachRaises, StoreHandle, Detach,
              StartSession
<1>6. ClockTick \/ StartWebsocket \/ StartRaises \/ Close \/ CloseFeeds \/ Disconnect
        \/ Receive \/ UNCHANGED vars => UNCHANGED pollVars
  BY DEF ClockTick, StartWebsocket, StartRaises, Close, CloseFeeds, Disconnect, Receive, vars
<1> QED
  BY <1>2, <1>3, <1>4, <1>5, <1>6 DEF Next, Main, Poller

\* The store keeps its types, for every set of callers, symbols and faults.
THEOREM TypeCorrect == Spec => []TypeOK
<1>1. TypeOK /\ [Next]_vars => TypeOK'
  BY LifeStep, AccumulatorStep, FeedStep, PollStep DEF TypeOK
<1> QED
  BY <1>1, InitTypes, PTL DEF Spec

-----------------------------------------------------------------------------
(* The alarm.                                                              *)

\* The polling raises exactly one alarm per outage, whatever the threshold.
THEOREM AlarmsCorrect == Spec => []AlarmOncePerOutage
<1>1. Init => AlarmOncePerOutage
  BY StoreAssumption DEF Init, AlarmOncePerOutage
<1>2. TypeOK /\ AlarmOncePerOutage /\ [Next]_vars => AlarmOncePerOutage'
  <2> SUFFICES ASSUME TypeOK, AlarmOncePerOutage, [Next]_vars PROVE AlarmOncePerOutage'
    OBVIOUS
  <2>1. CASE UNCHANGED <<failures, alarms>>
    BY <2>1 DEF AlarmOncePerOutage
  <2>2. CASE SweepEnds
    BY <2>2, StoreAssumption DEF TypeOK, PollTypes, AlarmOncePerOutage, SweepEnds,
                                 RecordSweepOutcome
  <2>3. ASSUME NEW c \in Callers, Caller(c) PROVE UNCHANGED <<failures, alarms>>
    BY <2>3 DEF Caller, Subscribe, Unsubscribe, Sweep, Attach, AttachRaises, StoreHandle, Detach,
                StartSession, pollVars
  <2>4. ClockTick \/ Main \/ Receive \/ Deliver \/ SweepBegins \/ Poll \/ PollerEnds
          \/ UNCHANGED vars => UNCHANGED <<failures, alarms>>
    BY DEF ClockTick, Main, StartWebsocket, StartPolling, StartRaises, Close, CloseFeeds,
           Disconnect, Receive, Deliver, SweepBegins, Poll, PollerEnds, vars, pollVars
  <2> QED
    BY <2>1, <2>2, <2>3, <2>4 DEF Next, Poller
<1> QED
  BY <1>1, <1>2, TypeCorrect, PTL DEF Spec

-----------------------------------------------------------------------------
(* The order of the bars.                                                  *)

\* How the times of a symbol lie: closed bars before the current one, what the
\* Executor has processed before both, and all before a tick that is on its
\* way.  What is processed is a beginning of the list.
Fits(s) ==
    /\ \A i, k \in 1..Len(bars[s]) : i < k => bars[s][i].minute < bars[s][k].minute
    /\ \A i \in 1..Len(bars[s]) : bars[s][i].minute < current[s].minute
    /\ \A i \in 1..Len(bars[s]) : bars[s][i].minute > 0
    /\ current[s] = NoBar => bars[s] = <<>>
    /\ current[s] # NoBar => lastSeen[s] < current[s].minute
    /\ handed[s] <= Len(bars[s])
    /\ \A i \in 1..Len(bars[s]) : bars[s][i].minute <= lastSeen[s] <=> i <= handed[s]
    /\ current[s].minute <= minute /\ lastSeen[s] < minute
    /\ callback # NoTick => /\ current[s].minute <= callback.minute
                            /\ lastSeen[s] < callback.minute

OrderInv ==
    /\ callback # NoTick => callback.minute <= minute
    /\ \A s \in Symbols : Fits(s)

InTime == "late" \notin Faults

\* What the types say of one symbol.
LEMMA SymbolTyped ==
    ASSUME TypeOK, NEW s \in Symbols
    PROVE  /\ minute \in Nat /\ minute > 0 /\ lastSeen[s] \in Nat /\ handed[s] \in Nat
           /\ current[s] \in BarType /\ current[s].minute \in Nat
           /\ bars[s] \in Seq(BarType) /\ Len(bars[s]) \in Nat
           /\ \A i \in 1..Len(bars[s]) : bars[s][i] \in BarType /\ bars[s][i].minute \in Nat
<1>1. bars[s] \in Seq(BarType) /\ current[s] \in BarType
  BY DEF TypeOK, AccumulatorTypes
<1>2. minute \in Nat /\ minute > 0 /\ lastSeen[s] \in Nat /\ handed[s] \in Nat
  BY DEF TypeOK, AccumulatorTypes, LifeTypes
<1>3. Len(bars[s]) \in Nat /\ \A i \in 1..Len(bars[s]) : bars[s][i] \in BarType
  BY <1>1
<1> QED
  BY <1>1, <1>2, <1>3 DEF BarType

LEMMA OrderInit == ASSUME Init PROVE OrderInv
<1>1. callback = NoTick
  BY DEF Init
<1>2. ASSUME NEW s \in Symbols PROVE Fits(s)
  <2>1. /\ bars[s] = <<>> /\ current[s] = NoBar /\ handed[s] = 0 /\ lastSeen[s] = 0
        /\ minute = 1 /\ NoBar.minute = 0
    BY DEF Init, NoBar
  <2>2. Len(bars[s]) = 0 /\ 1..Len(bars[s]) = {}
    BY <2>1
  <2> QED
    BY <1>1, <2>1, <2>2 DEF Fits
<1> QED
  BY <1>1, <1>2 DEF OrderInv

\* The clock, and a tick stamped by it.
LEMMA OrderOfTime ==
    ASSUME TypeOK, OrderInv, LifeTypes', UNCHANGED <<bars, current, handed, lastSeen>>,
           minute' >= minute,
           \/ UNCHANGED callback
           \/ callback' = NoTick
           \/ callback'.minute = minute /\ UNCHANGED minute
    PROVE  OrderInv'
<1>0. minute \in Nat /\ minute' \in Nat
  BY DEF TypeOK, LifeTypes
<1>1. callback # NoTick => callback.minute \in Nat /\ callback.minute <= minute
  BY DEF TypeOK, AccumulatorTypes, TickType, OrderInv
<1>2. callback' # NoTick => callback'.minute <= minute'
  BY <1>0, <1>1
<1>3. ASSUME NEW s \in Symbols PROVE Fits(s)'
  <2>1. Fits(s)
    BY DEF OrderInv
  <2>2. /\ current[s].minute \in Nat /\ lastSeen[s] \in Nat
        /\ current[s].minute <= minute' /\ lastSeen[s] < minute'
    BY <1>0, <2>1, SymbolTyped DEF Fits
  <2>3. callback' # NoTick => /\ current[s].minute <= callback'.minute
                              /\ lastSeen[s] < callback'.minute
    BY <2>1 DEF Fits
  <2> QED
    BY <2>1, <2>2, <2>3 DEF Fits
<1> QED
  BY <1>2, <1>3 DEF OrderInv

LEMMA OrderOfEmpty ==
    ASSUME TypeOK, OrderInv, NEW x \in Symbols, Empty(x),
           UNCHANGED <<minute, lastSeen, callback>>
    PROVE  OrderInv'
<1>1. ASSUME NEW s \in Symbols PROVE Fits(s)'
  <2>1. Fits(s)
    BY DEF OrderInv
  <2>2. CASE s = x
    <3>1. bars'[s] = <<>> /\ current'[s] = NoBar /\ handed'[s] = 0 /\ NoBar.minute = 0
      BY <2>2 DEF TypeOK, AccumulatorTypes, Empty, NoBar
    <3>2. Len(bars'[s]) = 0 /\ 1..Len(bars'[s]) = {}
      BY <3>1
    <3>3. callback # NoTick => callback.minute \in Nat
      BY DEF TypeOK, AccumulatorTypes, TickType
    <3> QED
      BY <2>1, <3>1, <3>2, <3>3, SymbolTyped DEF Fits
  <2>3. CASE s # x
    <3>1. bars'[s] = bars[s] /\ current'[s] = current[s] /\ handed'[s] = handed[s]
      BY <2>3 DEF TypeOK, AccumulatorTypes, Empty
    <3> QED
      BY <2>1, <3>1 DEF Fits
  <2> QED
    BY <2>2, <2>3
<1> QED
  BY <1>1 DEF OrderInv

LEMMA OrderOfDeliver ==
    ASSUME TypeOK, OrderInv, Deliver
    PROVE  OrderInv'
<1>1. callback \in TickType /\ callback # NoTick /\ callback' = NoTick
  BY DEF Deliver, TypeOK, AccumulatorTypes
<1> DEFINE x == callback.sym
           t == callback.minute
<1>2. x \in Symbols /\ t \in Nat /\ t > 0 /\ t <= minute
  BY <1>1 DEF TickType, OrderInv
<1>3. UNCHANGED <<minute, lastSeen, handed>>
  BY DEF Deliver, lifeVars
<1>4. CASE UNCHANGED <<current, bars>>
  <2>1. minute' >= minute /\ LifeTypes'
    BY <1>3, SymbolTyped, <1>4, <1>2 DEF TypeOK, LifeTypes, Deliver, lifeVars
  <2> QED
    BY <1>1, <1>3, <1>4, <2>1, OrderOfTime
<1>5. CASE OnTick(x, callback)
  <2> SUFFICES ASSUME NEW s \in Symbols PROVE Fits(s)'
    BY <1>1 DEF OrderInv
  <2>1. Fits(s)
    BY DEF OrderInv
  <2>2. CASE s # x
    <3>1. bars'[s] = bars[s] /\ current'[s] = current[s]
      BY <1>2, <1>5, <2>2 DEF TypeOK, AccumulatorTypes, OnTick
    <3> QED
      BY <1>1, <1>3, <2>1, <3>1 DEF Fits
  <2>3. CASE s = x
    <3>0. /\ current[s].minute \in Nat /\ lastSeen[s] \in Nat
          /\ current[s].minute <= t /\ lastSeen[s] < t
      BY <1>1, <2>1, SymbolTyped DEF Fits
    <3>1. CASE current[s] # NoBar /\ current[s].minute = t
      <4>1. bars'[s] = bars[s] /\ current'[s] = ExtendBar(current[s], callback)
        BY <1>2, <1>5, <2>3, <3>1 DEF TypeOK, AccumulatorTypes, OnTick
      <4>2. current'[s].minute = t
        BY <3>1, <4>1, SymbolTyped DEF ExtendBar, BarType
      <4>3. current'[s] # NoBar
        BY <1>2, <4>2 DEF NoBar
      <4> QED
        BY <1>1, <1>2, <1>3, <2>1, <3>0, <3>1, <4>1, <4>2, <4>3 DEF Fits
    <3>2. CASE current[s] = NoBar
      <4>1. bars'[s] = bars[s] /\ current'[s] = NewBar(callback)
        BY <1>2, <1>5, <2>3, <3>2 DEF TypeOK, AccumulatorTypes, OnTick
      <4>2. current'[s].minute = t
        BY <4>1 DEF NewBar
      <4>3. current'[s] # NoBar
        BY <1>2, <4>2 DEF NoBar
      <4>4. bars'[s] = <<>> /\ 1..Len(bars'[s]) = {} /\ Len(bars'[s]) = Len(bars[s])
        BY <2>1, <3>2, <4>1 DEF Fits
      <4> QED
        BY <1>1, <1>2, <1>3, <2>1, <3>0, <4>2, <4>3, <4>4 DEF Fits
    <3>3. CASE current[s] # NoBar /\ current[s].minute # t
      <4>1. bars'[s] = Append(bars[s], current[s]) /\ current'[s] = NewBar(callback)
        BY <1>2, <1>5, <2>3, <3>3 DEF TypeOK, AccumulatorTypes, OnTick
      <4>2. current'[s].minute = t
        BY <4>1 DEF NewBar
      <4>3. current'[s] # NoBar
        BY <1>2, <4>2 DEF NoBar
      <4> DEFINE n == Len(bars[s])
      <4>4. /\ n \in Nat /\ Len(bars'[s]) = n + 1 /\ bars'[s][n + 1] = current[s]
            /\ \A i \in 1..n : bars'[s][i] = bars[s][i]
        BY <4>1, SymbolTyped, AppendProperties
      <4>5. \A i \in 1..n : /\ bars[s][i].minute \in Nat
                            /\ bars[s][i].minute < current[s].minute
        BY <2>1, SymbolTyped DEF Fits
      <4>6. handed[s] \in Nat /\ handed[s] <= n /\ lastSeen[s] < current[s].minute
        BY <2>1, <3>3, SymbolTyped DEF Fits
      <4>7. current[s].minute < t
        BY <1>2, <3>0, <3>3
      <4> HIDE DEF n
      <4>8. \A i \in 1..(n + 1) : i \in 1..n \/ i = n + 1
        BY <4>4
      <4>9. \A i \in 1..(n + 1) : bars'[s][i].minute < t
        <5> TAKE i \in 1..(n + 1)
        <5>1. CASE i \in 1..n
          <6>1. bars'[s][i] = bars[s][i]
            BY <4>4, <5>1
          <6>2. bars[s][i].minute \in Nat /\ bars[s][i].minute < current[s].minute
            BY <4>5, <5>1
          <6> QED
            BY <1>2, <3>0, <4>7, <6>1, <6>2
        <5>2. CASE i = n + 1
          BY <4>4, <4>7, <5>2
        <5> QED
          BY <4>8, <5>1, <5>2
      <4>10. \A i, k \in 1..(n + 1) : i < k => bars'[s][i].minute < bars'[s][k].minute
        <5> TAKE i, k \in 1..(n + 1)
        <5>1. HAVE i < k
        <5>2. i \in 1..n
          BY <4>4, <5>1
        <5>3. CASE k \in 1..n
          BY <2>1, <4>4, <5>1, <5>2, <5>3 DEF Fits, n
        <5>4. CASE k = n + 1
          BY <4>4, <4>5, <5>2, <5>4
        <5> QED
          BY <4>8, <5>3, <5>4
      <4>11. \A i \in 1..(n + 1) : bars'[s][i].minute <= lastSeen[s] <=> i <= handed[s]
        <5> TAKE i \in 1..(n + 1)
        <5>1. CASE i \in 1..n
          BY <2>1, <4>4, <5>1 DEF Fits, n
        <5>2. CASE i = n + 1
          BY <3>0, <4>4, <4>6, <5>2
        <5> QED
          BY <4>8, <5>1, <5>2
      <4>12. \A i \in 1..(n + 1) : bars'[s][i].minute > 0
        <5> TAKE i \in 1..(n + 1)
        <5>1. CASE i \in 1..n
          BY <2>1, <4>4, <5>1 DEF Fits, n
        <5>2. CASE i = n + 1
          BY <3>0, <4>4, <4>6, <5>2
        <5> QED
          BY <4>8, <5>1, <5>2
      <4>13. /\ lastSeen'[s] < current'[s].minute /\ handed'[s] <= Len(bars'[s])
             /\ current'[s].minute <= minute' /\ lastSeen'[s] < minute'
        <5>1. lastSeen[s] < t /\ t <= minute /\ minute \in Nat /\ lastSeen[s] \in Nat
          BY <1>2, <3>0, SymbolTyped
        <5> QED
          BY <1>2, <1>3, <4>2, <4>4, <4>6, <5>1
      <4> QED
        BY <1>1, <1>3, <4>2, <4>3, <4>4, <4>9, <4>10, <4>11, <4>12, <4>13 DEF Fits
    <3> QED
      BY <3>1, <3>2, <3>3
  <2> QED
    BY <2>2, <2>3
<1> QED
  BY <1>4, <1>5 DEF Deliver

\* A sweep processes the rest of the list.
LEMMA OrderOfSweep ==
    ASSUME TypeOK, OrderInv, NEW c \in Callers, NEW x \in Symbols, Sweep(c, x)
    PROVE  OrderInv'
<1>0. UNCHANGED <<minute, bars, current, callback>>
  BY DEF Sweep, lifeVars
<1> DEFINE n == Len(bars[x])
           new == {i \in 1..Len(bars[x]) :
                     /\ bars[x][i].minute > lastSeen[x]
                     /\ \A k \in 1..(i - 1) : bars[x][k].minute < bars[x][i].minute}
<1>1. Fits(x)
  BY DEF OrderInv
<1>2. n \in Nat /\ handed[x] \in Nat /\ lastSeen[x] \in Nat /\ handed[x] <= n
  BY <1>1, SymbolTyped DEF Fits
<1>3. \A i \in 1..n : bars[x][i].minute \in Nat
  BY SymbolTyped
<1>4. new = (handed[x] + 1)..n
  <2>1. \A i \in 1..n : bars[x][i].minute > lastSeen[x] <=> i > handed[x]
    <3> TAKE i \in 1..n
    <3>1. bars[x][i].minute <= lastSeen[x] <=> i <= handed[x]
      BY <1>1 DEF Fits
    <3> QED
      BY <1>2, <1>3, <3>1
  <2>2. \A i \in 1..n : \A k \in 1..(i - 1) : bars[x][k].minute < bars[x][i].minute
    <3> TAKE i \in 1..n
    <3> TAKE k \in 1..(i - 1)
    <3>1. k \in 1..n /\ k < i
      BY <1>2
    <3> QED
      BY <1>1, <3>1 DEF Fits
  <2>3. new = {i \in 1..n : i > handed[x]}
    BY <2>1, <2>2
  <2> HIDE DEF new, n
  <2> QED
    BY <1>2, <2>3
<1>5. PICK last \in new : /\ \A i \in new : i <= last
                          /\ lastSeen' = [lastSeen EXCEPT ![x] = bars[x][last].minute]
  BY DEF Sweep
<1>6. new # {} /\ handed' = [handed EXCEPT ![x] = @ + Cardinality(new)]
  BY DEF Sweep
<1> HIDE DEF new, n
<1>7. last = n /\ n \in 1..n
  BY <1>2, <1>4, <1>5
<1>8. Cardinality(new) = n - handed[x]
  <2>1. handed[x] + 1 <= n
    BY <1>2, <1>4, <1>5
  <2>2. Cardinality((handed[x] + 1)..n) = n - (handed[x] + 1) + 1
    BY <1>2, <2>1, FS_Interval
  <2> QED
    BY <1>2, <1>4, <2>2
<1>9. lastSeen'[x] = bars[x][n].minute /\ handed'[x] = n
  BY <1>2, <1>5, <1>6, <1>7, <1>8 DEF TypeOK, AccumulatorTypes
<1>10. ASSUME NEW s \in Symbols PROVE Fits(s)'
  <2>1. Fits(s)
    BY DEF OrderInv
  <2>2. CASE s # x
    <3>1. lastSeen'[s] = lastSeen[s] /\ handed'[s] = handed[s]
      BY <1>5, <1>6, <2>2 DEF TypeOK, AccumulatorTypes
    <3> QED
      BY <1>0, <2>1, <3>1 DEF Fits
  <2>3. CASE s = x
    <3>1. bars[s][n].minute < current[s].minute /\ current[s] # NoBar
      BY <1>2, <1>7, <2>1, <2>3 DEF Fits, n
    <3>2. bars[s][n].minute \in Nat /\ current[s].minute \in Nat /\ minute \in Nat
      BY <1>3, <1>7, <2>3, SymbolTyped
    <3>3. \A i \in 1..n : bars[s][i].minute <= bars[s][n].minute /\ i <= n
      <4> TAKE i \in 1..n
      <4>1. i <= n /\ (i < n \/ i = n)
        BY <1>2
      <4>2. i < n => bars[s][i].minute < bars[s][n].minute
        BY <1>7, <2>1, <2>3 DEF Fits, n
      <4> QED
        BY <1>3, <2>3, <3>2, <4>1, <4>2
    <3>4. bars[s][n].minute < minute
      BY <2>1, <3>1, <3>2 DEF Fits
    <3>5. callback # NoTick => bars[s][n].minute < callback.minute
      <4>1. callback # NoTick => callback.minute \in Nat
        BY DEF TypeOK, AccumulatorTypes, TickType
      <4> QED
        BY <2>1, <3>1, <3>2, <4>1 DEF Fits
    <3>6. n = Len(bars[s])
      BY <2>3 DEF n
    <3> QED
      BY SMTT(30), <1>0, <1>2, <1>9, <2>1, <2>3, <3>1, <3>3, <3>4, <3>5, <3>6 DEF Fits
  <2> QED
    BY <2>2, <2>3
<1> QED
  BY <1>0, <1>10 DEF OrderInv

LEMMA OrderOfStartSession ==
    ASSUME TypeOK, OrderInv, NEW c \in Callers, StartSession(c)
    PROVE  OrderInv'
<1>0. UNCHANGED <<minute, bars, current, callback>>
  BY DEF StartSession, lifeVars
<1>1. ASSUME NEW s \in Symbols PROVE Fits(s)'
  <2>1. Fits(s)
    BY DEF OrderInv
  <2>2. lastSeen'[s] = 0 /\ handed'[s] = 0
    BY DEF StartSession
  <2>3. \A i \in 1..Len(bars[s]) :
          bars[s][i].minute \in Nat /\ bars[s][i].minute > 0 /\ i > 0
    BY <2>1, SymbolTyped DEF Fits
  <2>4. current[s] # NoBar => 0 < current[s].minute
    BY <2>1, SymbolTyped DEF Fits
  <2>5. callback # NoTick => 0 < callback.minute
    BY DEF TypeOK, AccumulatorTypes, TickType
  <2>6. \A i \in 1..Len(bars[s]) : bars[s][i].minute <= 0 <=> i <= 0
    BY <2>3
  <2>7. 0 < minute /\ 0 <= Len(bars[s])
    BY SymbolTyped
  <2> QED
    BY <1>0, <2>1, <2>2, <2>4, <2>5, <2>6, <2>7 DEF Fits
<1> QED
  BY <1>0, <1>1 DEF OrderInv

LEMMA OrderStep ==
    ASSUME InTime, TypeOK, TypeOK', OrderInv, [Next]_vars
    PROVE  OrderInv'
<1>0. minute \in Nat /\ LifeTypes'
  BY DEF TypeOK, LifeTypes
<1>1. CASE UNCHANGED <<minute, bars, current, handed, lastSeen, callback>>
  BY <1>0, <1>1, OrderOfTime
<1>2. CASE ClockTick
  BY <1>0, <1>2, OrderOfTime DEF ClockTick, accVars
<1>3. CASE Receive
  <2>1. callback'.minute = minute /\ UNCHANGED <<minute, bars, current, handed, lastSeen>>
    BY <1>3 DEF Receive, InTime, Stamps, accVars, lifeVars
  <2> QED
    BY <1>0, <2>1, OrderOfTime
<1>4. CASE Poll
  <2>1. /\ callback'.minute = minute \/ UNCHANGED callback
        /\ UNCHANGED <<minute, bars, current, handed, lastSeen>>
    BY <1>4 DEF Poll, accVars, lifeVars
  <2> QED
    BY <1>0, <2>1, OrderOfTime
<1>5. ASSUME NEW c \in Callers, NEW s \in Symbols, Subscribe(c, s) \/ Unsubscribe(c, s)
      PROVE  OrderInv'
  BY <1>5, OrderOfEmpty DEF Subscribe, Unsubscribe, lifeVars
<1>6. ASSUME NEW c \in Callers, Attach(c) \/ AttachRaises(c) \/ StoreHandle(c) \/ Detach(c)
      PROVE  UNCHANGED <<minute, bars, current, handed, lastSeen, callback>>
  BY <1>6 DEF Attach, AttachRaises, StoreHandle, Detach, accVars, lifeVars
<1>7. Main \/ SweepBegins \/ SweepEnds \/ PollerEnds \/ UNCHANGED vars
        => UNCHANGED <<minute, bars, current, handed, lastSeen, callback>>
  BY DEF Main, StartWebsocket, StartPolling, StartRaises, Close, CloseFeeds, Disconnect,
         SweepBegins, SweepEnds, PollerEnds, vars, accVars, lifeVars
<1> QED
  BY <1>1, <1>2, <1>3, <1>4, <1>5, <1>6, <1>7, OrderOfSweep, OrderOfDeliver,
     OrderOfStartSession
     DEF Next, Caller, Poller

LEMMA OrderSays == ASSUME TypeOK, OrderInv PROVE BarsInTimeOrder /\ OldBarsWereProcessed
<1>1. OldBarsWereProcessed
  BY DEF OldBarsWereProcessed, OrderInv, Fits
<1>2. ASSUME NEW s \in Symbols, NEW i \in 1..Len(AllBars(s)), NEW k \in 1..Len(AllBars(s)), i < k
      PROVE  AllBars(s)[i].minute < AllBars(s)[k].minute
  <2>1. Fits(s)
    BY DEF OrderInv
  <2>2. CASE current[s] = NoBar
    BY <1>2, <2>1, <2>2 DEF Fits, AllBars
  <2>3. CASE current[s] # NoBar
    <3> DEFINE n == Len(bars[s])
    <3>1. AllBars(s) = Append(bars[s], current[s])
      BY <2>3 DEF AllBars
    <3>2. /\ n \in Nat /\ Len(AllBars(s)) = n + 1 /\ AllBars(s)[n + 1] = current[s]
          /\ \A j \in 1..n : AllBars(s)[j] = bars[s][j]
      BY <3>1, SymbolTyped, AppendProperties
    <3>3. i \in 1..n /\ (k \in 1..n \/ k = n + 1)
      BY <1>2, <3>2
    <3>4. CASE k \in 1..n
      BY <1>2, <2>1, <3>2, <3>3, <3>4 DEF Fits
    <3>5. CASE k = n + 1
      BY <2>1, <3>2, <3>3, <3>5 DEF Fits
    <3> QED
      BY <3>3, <3>4, <3>5
  <2> QED
    BY <2>2, <2>3
<1> QED
  BY <1>1, <1>2 DEF BarsInTimeOrder

\* With feeds in the order of time the closed bars are in the order of time, and
\* the Executor's comparison of times passes no bar over and takes none twice,
\* through every subscription and for every number of callers.
THEOREM BarsAreOrdered ==
    ASSUME InTime
    PROVE  Spec => [](BarsInTimeOrder /\ OldBarsWereProcessed)
<1>1. Init => OrderInv
  BY OrderInit
<1>2. TypeOK /\ TypeOK' /\ OrderInv /\ [Next]_vars => OrderInv'
  BY OrderStep
<1>3. TypeOK /\ OrderInv => BarsInTimeOrder /\ OldBarsWereProcessed
  BY OrderSays
<1> QED
  BY <1>1, <1>2, <1>3, TypeCorrect, PTL DEF Spec

\* The Executor's way to tell new bars from old ones, for itself: with feeds in
\* the order of time a session passes no bar over that it did not process, and
\* processes none twice.
THEOREM NoBarIsPassedOver ==
    ASSUME InTime
    PROVE  Spec => []OldBarsWereProcessed
BY BarsAreOrdered, PTL

-----------------------------------------------------------------------------
(* The bars and their ticks.                                               *)

\* Where a run of ticks of one minute begins, and which run a tick is in.
Breaks(t) == {i \in 1..Len(t) : i = 1 \/ t[i].minute # t[i - 1].minute}
RunOf(t, i) == Cardinality({b \in Breaks(t) : b <= i})
TicksOf(t, k) == {i \in 1..Len(t) : RunOf(t, i) = k}

\* The bar has the minute of the ticks T, their first, last, highest and lowest
\* price.
Tells(t, T, bar) ==
    /\ \A i \in T : t[i].minute = bar.minute
    /\ \E i \in T : t[i].price = bar.open /\ \A j \in T : i <= j
    /\ \E i \in T : t[i].price = bar.close /\ \A j \in T : i >= j
    /\ \E i \in T : t[i].price = bar.high /\ \A j \in T : t[j].price <= bar.high
    /\ \E i \in T : t[i].price = bar.low /\ \A j \in T : t[j].price >= bar.low

\* The bars bs are what the ticks t say.
Mirrors(t, bs) ==
    /\ Len(bs) = Cardinality(Breaks(t))
    /\ \A k \in 1..Len(bs) : Tells(t, TicksOf(t, k), bs[k])

\* The bar in progress is of the last tick's minute; there is none before the
\* first tick.
LastTick(s) ==
    /\ current[s] = NoBar => seen[s] = <<>> /\ bars[s] = <<>>
    /\ current[s] # NoBar => /\ Len(seen[s]) > 0
                             /\ seen[s][Len(seen[s])].minute = current[s].minute

TickInv == \A s \in Symbols : LastTick(s) /\ Mirrors(seen[s], AllBars(s))

LEMMA TickInvSays == ASSUME TickInv PROVE BarsAreTheTicks
BY DEF TickInv, BarsAreTheTicks, Mirrors, Tells, TicksOf, RunOf, Breaks

LEMMA TicksTyped ==
    ASSUME NEW t \in Seq(TickType)
    PROVE  /\ Len(t) \in Nat
           /\ \A i \in 1..Len(t) : t[i] \in TickType /\ t[i].minute \in Nat /\ t[i].price \in Nat
<1>1. Len(t) \in Nat /\ \A i \in 1..Len(t) : t[i] \in TickType
  OBVIOUS
<1> QED
  BY <1>1 DEF TickType

LEMMA BreaksFinite ==
    ASSUME NEW t \in Seq(TickType), NEW i
    PROVE  /\ IsFiniteSet(Breaks(t)) /\ Cardinality(Breaks(t)) \in Nat
           /\ RunOf(t, i) \in Nat /\ RunOf(t, i) <= Cardinality(Breaks(t))
<1>1. IsFiniteSet(Breaks(t))
  <2>1. IsFiniteSet(1..Len(t))
    BY FS_Interval, TicksTyped
  <2>2. Breaks(t) \subseteq 1..Len(t)
    BY DEF Breaks
  <2> QED
    BY <2>1, <2>2, FS_Subset
<1>2. {b \in Breaks(t) : b <= i} \subseteq Breaks(t)
  OBVIOUS
<1> QED
  BY <1>1, <1>2, FS_Subset, FS_CardinalityType DEF RunOf

\* Every run has begun when the last tick comes.
LEMMA LastRun ==
    ASSUME NEW t \in Seq(TickType)
    PROVE  RunOf(t, Len(t)) = Cardinality(Breaks(t))
<1>1. \A b \in Breaks(t) : b <= Len(t)
  BY TicksTyped DEF Breaks
<1>2. {b \in Breaks(t) : b <= Len(t)} = Breaks(t)
  BY <1>1
<1> QED
  BY <1>2 DEF RunOf

\* A further tick.
LEMMA FurtherTick ==
    ASSUME NEW t \in Seq(TickType), NEW x \in TickType
    PROVE  /\ Append(t, x) \in Seq(TickType) /\ Len(Append(t, x)) = Len(t) + 1
           /\ Append(t, x)[Len(t) + 1] = x
           /\ \A i \in 1..Len(t) : Append(t, x)[i] = t[i]
BY TicksTyped, AppendProperties

\* It begins a run exactly when its minute is another one ...
LEMMA BreaksOfAppend ==
    ASSUME NEW t \in Seq(TickType), NEW x \in TickType
    PROVE  Breaks(Append(t, x)) =
             IF Len(t) > 0 /\ t[Len(t)].minute = x.minute
             THEN Breaks(t) ELSE Breaks(t) \union {Len(t) + 1}
<1> DEFINE n == Len(t)
           u == Append(t, x)
<1>1. /\ n \in Nat /\ Len(u) = n + 1 /\ u[n + 1] = x
      /\ \A i \in 1..n : u[i] = t[i]
  BY FurtherTick, TicksTyped
<1>2. \A i \in 1..n : i \in Breaks(u) <=> i \in Breaks(t)
  <2> TAKE i \in 1..n
  <2>1. i \in 1..(n + 1) /\ u[i] = t[i]
    BY <1>1
  <2>2. i # 1 => i - 1 \in 1..n /\ u[i - 1] = t[i - 1]
    BY <1>1
  <2> HIDE DEF u, n
  <2> QED
    BY <1>1, <2>1, <2>2 DEF Breaks, n
<1>3. n + 1 \in Breaks(u) <=> ~(n > 0 /\ t[n].minute = x.minute)
  <2>1. n + 1 \in 1..Len(u) /\ (n + 1) - 1 = n /\ (n + 1 = 1 <=> ~(n > 0))
    BY <1>1
  <2>2. n > 0 => u[n] = t[n]
    BY <1>1
  <2> HIDE DEF u, n
  <2> QED
    BY <1>1, <2>1, <2>2 DEF Breaks
<1>4. Breaks(t) \subseteq 1..n /\ Breaks(u) \subseteq 1..(n + 1)
  BY <1>1 DEF Breaks
<1>5. \A i \in 1..(n + 1) : i \in 1..n \/ i = n + 1
  BY <1>1
<1>6. n + 1 \notin 1..n
  BY <1>1
<1> HIDE DEF u, n
<1>7. CASE n > 0 /\ t[n].minute = x.minute
  <2>1. Breaks(u) = Breaks(t)
    BY <1>2, <1>3, <1>4, <1>5, <1>6, <1>7
  <2> QED
    BY <1>7, <2>1 DEF u, n
<1>8. CASE ~(n > 0 /\ t[n].minute = x.minute)
  <2>1. Breaks(u) = Breaks(t) \union {n + 1}
    BY <1>2, <1>3, <1>4, <1>5, <1>6, <1>8
  <2> QED
    BY <1>8, <2>1 DEF u, n
<1> QED
  BY <1>7, <1>8

\* ... and leaves the earlier ticks where they are.
LEMMA RunsOfAppend ==
    ASSUME NEW t \in Seq(TickType), NEW x \in TickType
    PROVE  /\ \A i \in 1..Len(t) : RunOf(Append(t, x), i) = RunOf(t, i)
           /\ RunOf(Append(t, x), Len(t) + 1) = Cardinality(Breaks(Append(t, x)))
<1>0. Len(t) \in Nat
  BY TicksTyped
<1>1. ASSUME NEW i \in 1..Len(t)
      PROVE  {b \in Breaks(Append(t, x)) : b <= i} = {b \in Breaks(t) : b <= i}
  <2>1. ~(Len(t) + 1 <= i)
    BY <1>0
  <2> QED
    BY <2>1, BreaksOfAppend
<1>2. RunOf(Append(t, x), Len(Append(t, x))) = Cardinality(Breaks(Append(t, x)))
  BY FurtherTick, LastRun
<1> QED
  BY <1>1, <1>2, FurtherTick DEF RunOf

LEMMA SameRunGrows ==
    ASSUME NEW t \in Seq(TickType), NEW x \in TickType,
           Len(t) > 0, t[Len(t)].minute = x.minute, NEW k
    PROVE  /\ Cardinality(Breaks(Append(t, x))) = Cardinality(Breaks(t))
           /\ TicksOf(Append(t, x), k) =
                IF k = Cardinality(Breaks(t)) THEN TicksOf(t, k) \union {Len(t) + 1}
                ELSE TicksOf(t, k)
<1>1. Cardinality(Breaks(Append(t, x))) = Cardinality(Breaks(t))
  BY BreaksOfAppend
<1>2. \A i \in 1..Len(t) : RunOf(Append(t, x), i) = RunOf(t, i)
  BY RunsOfAppend
<1>3. RunOf(Append(t, x), Len(t) + 1) = Cardinality(Breaks(t))
  BY <1>1, RunsOfAppend
<1>4. 1..Len(Append(t, x)) = (1..Len(t)) \union {Len(t) + 1}
  BY FurtherTick, TicksTyped
<1> QED
  BY <1>1, <1>2, <1>3, <1>4 DEF TicksOf

LEMMA NewRunBegins ==
    ASSUME NEW t \in Seq(TickType), NEW x \in TickType,
           ~(Len(t) > 0 /\ t[Len(t)].minute = x.minute)
    PROVE  /\ Cardinality(Breaks(Append(t, x))) = Cardinality(Breaks(t)) + 1
           /\ \A k \in 1..Cardinality(Breaks(t)) : TicksOf(Append(t, x), k) = TicksOf(t, k)
           /\ TicksOf(Append(t, x), Cardinality(Breaks(t)) + 1) = {Len(t) + 1}
<1> DEFINE r == Cardinality(Breaks(t))
<1>0. Len(t) \in Nat /\ r \in Nat
  BY TicksTyped, BreaksFinite
<1>1. Cardinality(Breaks(Append(t, x))) = r + 1
  <2>1. Breaks(Append(t, x)) = Breaks(t) \union {Len(t) + 1}
    BY BreaksOfAppend
  <2>2. Len(t) + 1 \notin Breaks(t)
    BY <1>0 DEF Breaks
  <2> QED
    BY <2>1, <2>2, BreaksFinite, FS_AddElement
<1>2. \A i \in 1..Len(t) :
        RunOf(Append(t, x), i) = RunOf(t, i) /\ RunOf(t, i) \in Nat /\ RunOf(t, i) <= r
  BY RunsOfAppend, BreaksFinite
<1>3. RunOf(Append(t, x), Len(t) + 1) = r + 1
  BY <1>1, RunsOfAppend
<1>4. 1..Len(Append(t, x)) = (1..Len(t)) \union {Len(t) + 1}
  BY FurtherTick, TicksTyped
<1> HIDE DEF r
<1>5. \A k \in 1..r : k # r + 1
  BY <1>0
<1>6. \A i \in 1..Len(t) : RunOf(t, i) # r + 1
  BY <1>0, <1>2
<1>7. \A k \in 1..r : TicksOf(Append(t, x), k) = TicksOf(t, k)
  BY <1>2, <1>3, <1>4, <1>5 DEF TicksOf
<1>8. TicksOf(Append(t, x), r + 1) = {Len(t) + 1}
  BY <1>2, <1>3, <1>4, <1>6 DEF TicksOf
<1> QED
  BY <1>1, <1>7, <1>8 DEF r

\* A bar stays true of its ticks when later ones come, ...
LEMMA TellsStill ==
    ASSUME NEW t \in Seq(TickType), NEW x \in TickType, NEW bar,
           NEW T \in SUBSET (1..Len(t)), Tells(t, T, bar)
    PROVE  Tells(Append(t, x), T, bar)
<1>1. \A i \in T : Append(t, x)[i] = t[i]
  BY FurtherTick
<1> HIDE DEF TickType
<1> QED
  BY <1>1 DEF Tells

\* ... takes in one of its own minute, ...
LEMMA TellsMore ==
    ASSUME NEW t \in Seq(TickType), NEW x \in TickType, NEW bar \in BarType,
           NEW T \in SUBSET (1..Len(t)), Tells(t, T, bar), x.minute = bar.minute
    PROVE  Tells(Append(t, x), T \union {Len(t) + 1}, ExtendBar(bar, x))
<1> DEFINE u == Append(t, x)
           n == Len(t) + 1
           new == ExtendBar(bar, x)
<1>1. /\ u[n] = x /\ \A i \in T : u[i] = t[i]
      /\ \A i \in T : i \in Nat /\ i <= n /\ t[i].price \in Nat
  <2>1. u[n] = x /\ \A i \in T : u[i] = t[i]
    BY FurtherTick
  <2>2. Len(t) \in Nat /\ \A i \in T : i \in 1..Len(t) /\ t[i].price \in Nat
    BY TicksTyped
  <2>3. \A i \in T : i \in Nat /\ i <= n
    BY <2>2
  <2> QED
    BY <2>1, <2>2, <2>3
<1>2. x.price \in Nat /\ x.minute \in Nat /\ bar.high \in Nat /\ bar.low \in Nat /\ n \in Nat
  BY TicksTyped DEF BarType, TickType
<1>3. /\ new.minute = bar.minute /\ new.open = bar.open /\ new.close = x.price
      /\ new.high = IF bar.high >= x.price THEN bar.high ELSE x.price
      /\ new.low = IF bar.low <= x.price THEN bar.low ELSE x.price
  BY DEF ExtendBar, BarType
<1> HIDE DEF u, n, new
<1>4. \A i \in T \union {n} : u[i].minute = new.minute
  BY <1>1, <1>3 DEF Tells
<1>5. \E i \in T \union {n} : u[i].price = new.open /\ \A j \in T \union {n} : i <= j
  <2>1. PICK i \in T : t[i].price = bar.open /\ \A j \in T : i <= j
    BY DEF Tells
  <2> QED
    BY <1>1, <1>3, <2>1
<1>6. \E i \in T \union {n} : u[i].price = new.close /\ \A j \in T \union {n} : i >= j
  BY <1>1, <1>2, <1>3
<1>7. \E i \in T \union {n} : /\ u[i].price = new.high
                              /\ \A j \in T \union {n} : u[j].price <= new.high
  <2>1. PICK i \in T : t[i].price = bar.high /\ \A j \in T : t[j].price <= bar.high
    BY DEF Tells
  <2>2. \A j \in T \union {n} : u[j].price <= new.high
    BY <1>1, <1>2, <1>3, <2>1
  <2>3. u[i].price = new.high \/ u[n].price = new.high
    BY <1>1, <1>3, <2>1
  <2> QED
    BY <2>2, <2>3
<1>8. \E i \in T \union {n} : /\ u[i].price = new.low
                              /\ \A j \in T \union {n} : u[j].price >= new.low
  <2>1. PICK i \in T : t[i].price = bar.low /\ \A j \in T : t[j].price >= bar.low
    BY DEF Tells
  <2>2. \A j \in T \union {n} : u[j].price >= new.low
    BY <1>1, <1>2, <1>3, <2>1
  <2>3. u[i].price = new.low \/ u[n].price = new.low
    BY <1>1, <1>3, <2>1
  <2> QED
    BY <2>2, <2>3
<1>9. Tells(u, T \union {n}, new)
  BY <1>4, <1>5, <1>6, <1>7, <1>8 DEF Tells
<1> QED
  BY <1>9 DEF u, n, new

\* ... and is new with the first of another minute.
LEMMA TellsFirst ==
    ASSUME NEW t \in Seq(TickType), NEW x \in TickType
    PROVE  Tells(Append(t, x), {Len(t) + 1}, NewBar(x))
<1>1. Append(t, x)[Len(t) + 1] = x /\ Len(t) + 1 \in Nat /\ x.price \in Nat
  BY FurtherTick, TicksTyped DEF TickType
<1>2. /\ NewBar(x).minute = x.minute /\ NewBar(x).open = x.price /\ NewBar(x).close = x.price
      /\ NewBar(x).high = x.price /\ NewBar(x).low = x.price
  BY DEF NewBar
<1> QED
  BY <1>1, <1>2 DEF Tells

\* A tick of the last minute: the last bar takes it in.
LEMMA MirrorGrows ==
    ASSUME NEW t \in Seq(TickType), NEW x \in TickType,
           Len(t) > 0, t[Len(t)].minute = x.minute,
           NEW bs \in Seq(BarType), NEW bar \in BarType, bar.minute = x.minute,
           Mirrors(t, Append(bs, bar))
    PROVE  Mirrors(Append(t, x), Append(bs, ExtendBar(bar, x)))
<1> DEFINE m == Len(bs)
           old == Append(bs, bar)
           new == Append(bs, ExtendBar(bar, x))
<1>0. ExtendBar(bar, x) \in BarType
  BY BarsTyped
<1>1. /\ m \in Nat /\ Len(old) = m + 1 /\ old[m + 1] = bar
      /\ Len(new) = m + 1 /\ new[m + 1] = ExtendBar(bar, x)
      /\ \A k \in 1..m : old[k] = bs[k] /\ new[k] = bs[k]
  BY <1>0, AppendProperties
<1> HIDE DEF m, old, new
<1>2. Cardinality(Breaks(t)) = m + 1 /\ Cardinality(Breaks(Append(t, x))) = m + 1
  BY <1>1, SameRunGrows DEF Mirrors, old
<1>3. \A k \in 1..(m + 1) : Tells(t, TicksOf(t, k), old[k])
  BY <1>1 DEF Mirrors, old
<1>4. ASSUME NEW k \in 1..(m + 1)
      PROVE  Tells(Append(t, x), TicksOf(Append(t, x), k), new[k])
  <2>1. TicksOf(t, k) \subseteq 1..Len(t)
    BY DEF TicksOf
  <2>2. CASE k = m + 1
    <3>1. TicksOf(Append(t, x), k) = TicksOf(t, k) \union {Len(t) + 1}
      BY <1>2, <2>2, SameRunGrows
    <3>2. Tells(t, TicksOf(t, k), bar)
      BY <1>1, <1>3, <2>2
    <3> QED
      BY <1>1, <2>1, <2>2, <3>1, <3>2, TellsMore
  <2>3. CASE k # m + 1
    <3>1. TicksOf(Append(t, x), k) = TicksOf(t, k)
      BY <1>2, <2>3, SameRunGrows
    <3>2. k \in 1..m
      BY <1>1, <2>3
    <3>3. old[k] = new[k]
      BY <1>1, <3>2
    <3>4. Tells(t, TicksOf(t, k), new[k])
      BY <1>3, <3>3
    <3> QED
      BY <2>1, <3>1, <3>4, TellsStill
  <2> QED
    BY <2>2, <2>3
<1>5. Mirrors(Append(t, x), new)
  BY <1>1, <1>2, <1>4 DEF Mirrors
<1> QED
  BY <1>5 DEF new

\* A tick of another minute, or the first: a bar of its own.
LEMMA MirrorBegins ==
    ASSUME NEW t \in Seq(TickType), NEW x \in TickType,
           ~(Len(t) > 0 /\ t[Len(t)].minute = x.minute),
           NEW bs \in Seq(BarType), Mirrors(t, bs)
    PROVE  Mirrors(Append(t, x), Append(bs, NewBar(x)))
<1> DEFINE m == Len(bs)
           new == Append(bs, NewBar(x))
<1>0. NewBar(x) \in BarType
  BY DEF NewBar, BarType, TickType
<1>1. /\ m \in Nat /\ Len(new) = m + 1 /\ new[m + 1] = NewBar(x)
      /\ \A k \in 1..m : new[k] = bs[k]
  BY <1>0, AppendProperties
<1> HIDE DEF m, new
<1>2. Cardinality(Breaks(t)) = m /\ Cardinality(Breaks(Append(t, x))) = m + 1
  BY NewRunBegins DEF Mirrors, m
<1>3. \A k \in 1..m : Tells(t, TicksOf(t, k), bs[k])
  BY DEF Mirrors, m
<1>4. ASSUME NEW k \in 1..(m + 1)
      PROVE  Tells(Append(t, x), TicksOf(Append(t, x), k), new[k])
  <2>1. TicksOf(t, k) \subseteq 1..Len(t)
    BY DEF TicksOf
  <2>2. CASE k = m + 1
    <3>1. TicksOf(Append(t, x), k) = {Len(t) + 1}
      BY <1>2, <2>2, NewRunBegins
    <3> QED
      BY <1>1, <2>2, <3>1, TellsFirst
  <2>3. CASE k # m + 1
    <3>1. k \in 1..m
      BY <1>1, <2>3
    <3>2. TicksOf(Append(t, x), k) = TicksOf(t, k)
      BY <1>2, <3>1, NewRunBegins
    <3>3. Tells(t, TicksOf(t, k), new[k])
      BY <1>1, <1>3, <3>1
    <3> QED
      BY <2>1, <3>2, <3>3, TellsStill
  <2> QED
    BY <2>2, <2>3
<1>5. Mirrors(Append(t, x), new)
  BY <1>1, <1>2, <1>4 DEF Mirrors
<1> QED
  BY <1>5 DEF new

\* No ticks, no bars.
LEMMA MirrorOfNothing == Mirrors(<<>>, <<>>)
<1>1. Breaks(<<>>) = {}
  BY DEF Breaks
<1> QED
  BY <1>1, FS_EmptySet DEF Mirrors

LEMMA TicksInit == ASSUME Init PROVE TickInv
<1> SUFFICES ASSUME NEW s \in Symbols PROVE LastTick(s) /\ Mirrors(seen[s], AllBars(s))
  BY DEF TickInv
<1>1. current[s] = NoBar /\ bars[s] = <<>> /\ seen[s] = <<>>
  BY DEF Init
<1> QED
  BY <1>1, MirrorOfNothing DEF LastTick, AllBars

\* What does not touch a symbol's accumulator.
LEMMA TicksKept ==
    ASSUME NEW s \in Symbols, LastTick(s), Mirrors(seen[s], AllBars(s)),
           current'[s] = current[s], bars'[s] = bars[s], seen'[s] = seen[s]
    PROVE  LastTick(s)' /\ Mirrors(seen[s], AllBars(s))'
<1>1. AllBars(s)' = AllBars(s)
  BY DEF AllBars
<1>2. Mirrors(seen[s], AllBars(s))' <=> Mirrors(seen'[s], AllBars(s)')
  BY DEF Mirrors, Tells, TicksOf, RunOf, Breaks
<1> QED
  BY <1>1, <1>2 DEF LastTick

LEMMA TicksOfEmpty ==
    ASSUME TypeOK, TickInv, NEW x \in Symbols, Empty(x)
    PROVE  TickInv'
<1> SUFFICES ASSUME NEW s \in Symbols PROVE LastTick(s)' /\ Mirrors(seen[s], AllBars(s))'
  BY DEF TickInv
<1>1. CASE s = x
  <2>1. current'[s] = NoBar /\ bars'[s] = <<>> /\ seen'[s] = <<>>
    BY <1>1 DEF Empty, TypeOK, AccumulatorTypes
  <2>2. LastTick(s)' /\ AllBars(s)' = <<>>
    BY <2>1 DEF LastTick, AllBars
  <2>3. Mirrors(seen[s], AllBars(s))' <=> Mirrors(seen'[s], AllBars(s)')
    BY DEF Mirrors, Tells, TicksOf, RunOf, Breaks
  <2> QED
    BY <2>1, <2>2, <2>3, MirrorOfNothing
<1>2. CASE s # x
  <2>1. current'[s] = current[s] /\ bars'[s] = bars[s] /\ seen'[s] = seen[s]
    BY <1>2 DEF Empty, TypeOK, AccumulatorTypes
  <2> QED
    BY <2>1, TicksKept DEF TickInv
<1> QED
  BY <1>1, <1>2

LEMMA TicksOfDeliver ==
    ASSUME TypeOK, TickInv, Deliver
    PROVE  TickInv'
<1> DEFINE x == callback.sym
<1>1. callback \in TickType /\ x \in Symbols
  BY DEF Deliver, TypeOK, AccumulatorTypes, TickType
<1> SUFFICES ASSUME NEW s \in Symbols PROVE LastTick(s)' /\ Mirrors(seen[s], AllBars(s))'
  BY DEF TickInv
<1>2. LastTick(s) /\ Mirrors(seen[s], AllBars(s))
  BY DEF TickInv
<1>3. Mirrors(seen[s], AllBars(s))' <=> Mirrors(seen'[s], AllBars(s)')
  BY DEF Mirrors, Tells, TicksOf, RunOf, Breaks
<1>4. CASE UNCHANGED <<current, bars, seen>>
  BY <1>2, <1>4, TicksKept
<1>5. CASE OnTick(x, callback) /\ seen' = [seen EXCEPT ![x] = Append(@, callback)] /\ s # x
  <2>1. current'[s] = current[s] /\ bars'[s] = bars[s] /\ seen'[s] = seen[s]
    BY <1>1, <1>5 DEF OnTick, TypeOK, AccumulatorTypes
  <2> QED
    BY <1>2, <2>1, TicksKept
<1>6. CASE OnTick(x, callback) /\ seen' = [seen EXCEPT ![x] = Append(@, callback)] /\ s = x
  <2>1. /\ current[s] \in BarType /\ bars[s] \in Seq(BarType) /\ seen[s] \in Seq(TickType)
        /\ DOMAIN current = Symbols /\ DOMAIN bars = Symbols /\ DOMAIN seen = Symbols
    BY DEF TypeOK, AccumulatorTypes
  <2>2. seen'[s] = Append(seen[s], callback)
    BY <1>1, <1>6, <2>1
  <2>3. Len(seen'[s]) = Len(seen[s]) + 1 /\ seen'[s][Len(seen'[s])] = callback
        /\ Len(seen[s]) \in Nat
    BY <1>1, <2>1, <2>2, FurtherTick, TicksTyped
  <2>4. callback.minute # 0
    BY <1>1 DEF TickType
  <2>5. CASE current[s] # NoBar /\ current[s].minute = callback.minute
    <3>1. current'[s] = ExtendBar(current[s], callback) /\ bars'[s] = bars[s]
      BY <1>1, <1>6, <2>1, <2>5 DEF OnTick
    <3>2. current'[s].minute = callback.minute
      BY <2>1, <2>5, <3>1 DEF ExtendBar, BarType
    <3>3. current'[s] # NoBar
      BY <2>4, <3>2 DEF NoBar
    <3>4. LastTick(s)'
      BY <2>3, <3>2, <3>3 DEF LastTick
    <3>5. /\ Len(seen[s]) > 0 /\ seen[s][Len(seen[s])].minute = callback.minute
          /\ Mirrors(seen[s], Append(bars[s], current[s]))
      BY <1>2, <2>5 DEF LastTick, AllBars
    <3>6. AllBars(s)' = Append(bars[s], ExtendBar(current[s], callback))
      BY <3>1, <3>3 DEF AllBars
    <3>7. Mirrors(Append(seen[s], callback), Append(bars[s], ExtendBar(current[s], callback)))
      BY <1>1, <2>1, <2>5, <3>5, MirrorGrows
    <3> QED
      BY <1>3, <2>2, <3>4, <3>6, <3>7
  <2>6. CASE ~(current[s] # NoBar /\ current[s].minute = callback.minute)
    <3>1. current'[s] = NewBar(callback) /\ bars'[s] = AllBars(s)
      <4>1. current[s] = NoBar => bars'[s] = bars[s]
        BY <1>1, <1>6, <2>1 DEF OnTick
      <4>2. current[s] # NoBar => bars'[s] = Append(bars[s], current[s])
        BY <1>1, <1>6, <2>1, <2>6 DEF OnTick
      <4>3. current'[s] = NewBar(callback)
        BY <1>1, <1>6, <2>1, <2>6 DEF OnTick
      <4> QED
        BY <4>1, <4>2, <4>3 DEF AllBars
    <3>2. current'[s].minute = callback.minute
      BY <3>1 DEF NewBar
    <3>3. current'[s] # NoBar
      BY <2>4, <3>2 DEF NoBar
    <3>4. LastTick(s)'
      BY <2>3, <3>2, <3>3 DEF LastTick
    <3>5. ~(Len(seen[s]) > 0 /\ seen[s][Len(seen[s])].minute = callback.minute)
      <4>1. CASE current[s] = NoBar
        <5>1. Len(seen[s]) = 0
          BY <1>2, <4>1 DEF LastTick
        <5> QED
          BY <5>1
      <4>2. CASE current[s] # NoBar
        BY <1>2, <2>6, <4>2 DEF LastTick
      <4> QED
        BY <4>1, <4>2
    <3>6. AllBars(s)' = Append(AllBars(s), NewBar(callback))
      BY <3>1, <3>3 DEF AllBars
    <3>7. AllBars(s) \in Seq(BarType)
      BY <2>1, AppendProperties DEF AllBars
    <3>8. Mirrors(Append(seen[s], callback), Append(AllBars(s), NewBar(callback)))
      BY <1>1, <1>2, <2>1, <3>5, <3>7, MirrorBegins
    <3> QED
      BY <1>3, <2>2, <3>4, <3>6, <3>8
  <2> QED
    BY <2>5, <2>6
<1> QED
  BY <1>4, <1>5, <1>6 DEF Deliver

LEMMA TicksStep ==
    ASSUME TypeOK, TickInv, [Next]_vars
    PROVE  TickInv'
<1>1. CASE UNCHANGED <<current, bars, seen>>
  BY <1>1, TicksKept DEF TickInv
<1>2. ASSUME NEW c \in Callers, NEW s \in Symbols, Subscribe(c, s) \/ Unsubscribe(c, s)
      PROVE  TickInv'
  BY <1>2, TicksOfEmpty DEF Subscribe, Unsubscribe
<1>3. ASSUME NEW c \in Callers, NEW s \in Symbols, Sweep(c, s)
      PROVE  UNCHANGED <<current, bars, seen>>
  BY <1>3 DEF Sweep
<1>4. ASSUME NEW c \in Callers,
             Attach(c) \/ AttachRaises(c) \/ StoreHandle(c) \/ Detach(c) \/ StartSession(c)
      PROVE  UNCHANGED <<current, bars, seen>>
  BY <1>4 DEF Attach, AttachRaises, StoreHandle, Detach, StartSession, accVars
<1>5. ClockTick \/ Main \/ Receive \/ SweepBegins \/ Poll \/ SweepEnds \/ PollerEnds
        \/ UNCHANGED vars => UNCHANGED <<current, bars, seen>>
  BY DEF ClockTick, Main, StartWebsocket, StartPolling, StartRaises, Close, CloseFeeds,
         Disconnect, Receive, SweepBegins, Poll, SweepEnds, PollerEnds, vars, accVars
<1> QED
  BY <1>1, <1>2, <1>3, <1>4, <1>5, TicksOfDeliver DEF Next, Caller, Poller

\* The bars are what the ticks say, also when ticks come late or out of order,
\* for every number of symbols, callers, prices and ticks: one bar for every run
\* of ticks of one minute, with its first, highest, lowest and last price, and
\* nothing of an earlier subscription.
THEOREM BarsTellTheTicks == Spec => []BarsAreTheTicks
<1>1. Init => TickInv
  BY TicksInit
<1>2. TypeOK /\ TickInv /\ [Next]_vars => TickInv'
  BY TicksStep
<1>3. TickInv => BarsAreTheTicks
  BY TickInvSays
<1> QED
  BY <1>1, <1>2, <1>3, TypeCorrect, PTL DEF Spec

-----------------------------------------------------------------------------
(* The feeds.                                                              *)

AtWork(c) == call[c].pc \in {"attach", "store"}

KnownByStore(f) == f.sym \in registered /\ handle[f.sym] = f.id
KnownByCall(f) ==
    \E c \in Callers : /\ call[c].pc \in {"store", "detach"}
                       /\ call[c].sym = f.sym /\ call[c].handle = f.id

\* A subscribe that nothing has overtaken is the only one of its symbol, which
\* has no feed yet.
AloneAtWork(c) ==
    /\ call[c].sym \in registered /\ handle[call[c].sym] = 0
    /\ \A d \in Callers : AtWork(d) /\ call[d].sym = call[c].sym => d = c

\* Every feed is known, to its accumulator or to the call that is about to store
\* or to end it, unless its symbol is among the strays.
FeedInv ==
    ~Closed =>
        /\ \A f \in live : f.sym \in strays \/ KnownByStore(f) \/ KnownByCall(f)
        /\ \A c \in Callers : AtWork(c) /\ call[c].sym \notin strays => AloneAtWork(c)
        /\ \A s \in Symbols : s \notin registered => handle[s] = 0

LEMMA FeedInit == ASSUME Init PROVE FeedInv
BY DEF Init, FeedInv, AtWork, Idle

\* What the types say of a feed.
LEMMA FeedTyped ==
    ASSUME TypeOK, NEW f \in live
    PROVE  f.sym \in Symbols /\ f.id \in FeedIds /\ f.id # 0
BY StoreAssumption DEF TypeOK, FeedTypes

\* What a call that goes on or ends does to the others: nothing.
LEMMA KnownStill ==
    ASSUME NEW f, NEW c \in Callers, KnownByCall(f),
           \A d \in Callers : d # c => call'[d] = call[d],
           call[c].pc \in {"store", "detach"} => call[c].sym # f.sym \/ call[c].handle # f.id
    PROVE  KnownByCall(f)'
<1>1. PICK d \in Callers : /\ call[d].pc \in {"store", "detach"}
                           /\ call[d].sym = f.sym /\ call[d].handle = f.id
  BY DEF KnownByCall
<1>2. d # c
  BY <1>1
<1> QED
  BY <1>1, <1>2 DEF KnownByCall

\* A subscribe stays alone when one call ends, or goes on in its place.
LEMMA AloneStill ==
    ASSUME NEW c \in Callers, NEW d \in Callers, d # c, AtWork(d), AloneAtWork(d),
           \A e \in Callers : e # c => call'[e] = call[e],
           AtWork(c)' => AtWork(c) /\ call'[c].sym = call[c].sym,
           call[d].sym \in registered', handle'[call[d].sym] = 0
    PROVE  AloneAtWork(d)'
<1>1. call'[d] = call[d]
  OBVIOUS
<1>2. ASSUME NEW e \in Callers, AtWork(e)', call'[e].sym = call'[d].sym PROVE e = d
  <2>1. CASE e = c
    BY <1>1, <1>2, <2>1 DEF AloneAtWork
  <2>2. CASE e # c
    BY <1>1, <1>2, <2>2 DEF AloneAtWork, AtWork
  <2> QED
    BY <2>1, <2>2
<1> QED
  BY <1>1, <1>2 DEF AloneAtWork

LEMMA FeedOfSubscribe ==
    ASSUME TypeOK, FeedInv, NEW c \in Callers, NEW s \in Symbols, Subscribe(c, s)
    PROVE  FeedInv'
<1>0. /\ ~Closed /\ ~Closed' /\ call[c] = Idle /\ s \notin registered
      /\ registered' = registered \union {s} /\ UNCHANGED <<handle, live, strays>>
      /\ DOMAIN call = Callers
  BY DEF Subscribe, lifeVars, Closed, TypeOK, FeedTypes
<1>1. /\ \A d \in Callers : d # c => call'[d] = call[d]
      /\ call'[c] = Idle \/ call'[c] = [pc |-> "attach", sym |-> s, handle |-> 0]
  BY <1>0 DEF Subscribe
<1>2. ASSUME NEW f \in live', f.sym \notin strays' PROVE KnownByStore(f)' \/ KnownByCall(f)'
  <2>1. CASE KnownByStore(f)
    BY <1>0, <2>1 DEF KnownByStore
  <2>2. CASE KnownByCall(f)
    BY <1>0, <1>1, <2>2, KnownStill DEF Idle
  <2> QED
    BY <1>0, <1>2, <2>1, <2>2 DEF FeedInv
<1>3. handle[s] = 0
  BY <1>0 DEF FeedInv
<1>4. ASSUME NEW d \in Callers, d # c, AtWork(d), call[d].sym \notin strays
      PROVE  AloneAtWork(d) /\ call[d].sym # s
  BY <1>0, <1>4 DEF FeedInv, AloneAtWork
<1>5. ASSUME NEW d \in Callers, AtWork(d)', call'[d].sym \notin strays'
      PROVE  AloneAtWork(d)'
  <2>1. CASE d = c
    <3>1. call'[c].sym = s
      BY <1>1, <1>5, <2>1 DEF AtWork, Idle
    <3>2. ASSUME NEW e \in Callers, AtWork(e)', call'[e].sym = s, e # c PROVE FALSE
      <4>1. AtWork(e) /\ call[e].sym = s
        BY <1>1, <3>2 DEF AtWork
      <4> QED
        BY <1>0, <1>4, <1>5, <2>1, <3>1, <3>2, <4>1
    <3> QED
      BY <1>0, <1>3, <2>1, <3>1, <3>2 DEF AloneAtWork
  <2>2. CASE d # c
    <3>1. call'[d] = call[d] /\ AtWork(d)
      BY <1>1, <1>5, <2>2 DEF AtWork
    <3>2. AloneAtWork(d) /\ call[d].sym # s
      BY <1>0, <1>4, <1>5, <2>2, <3>1
    <3>3. ASSUME NEW e \in Callers, AtWork(e)', call'[e].sym = call'[d].sym PROVE e = d
      <4>1. e # c
        BY <1>1, <3>1, <3>2, <3>3 DEF AtWork, Idle
      <4> QED
        BY <1>1, <3>1, <3>2, <3>3, <4>1 DEF AloneAtWork, AtWork
    <3> QED
      BY <1>0, <3>1, <3>2, <3>3 DEF AloneAtWork
  <2> QED
    BY <2>1, <2>2
<1>6. ASSUME NEW x \in Symbols, x \notin registered' PROVE handle'[x] = 0
  BY <1>0, <1>6 DEF FeedInv
<1> QED
  BY <1>2, <1>5, <1>6 DEF FeedInv

LEMMA FeedOfUnsubscribe ==
    ASSUME TypeOK, FeedInv, NEW c \in Callers, NEW s \in Symbols, Unsubscribe(c, s)
    PROVE  FeedInv'
<1>0. /\ ~Closed /\ ~Closed' /\ call[c] = Idle /\ s \in registered
      /\ registered' = registered \ {s} /\ handle' = [handle EXCEPT ![s] = 0]
      /\ strays' = strays \union {x \in {s} : Subscribing(x)}
      /\ UNCHANGED live /\ DOMAIN call = Callers /\ DOMAIN handle = Symbols
  BY DEF Unsubscribe, lifeVars, Closed, TypeOK, FeedTypes
<1>1. /\ \A d \in Callers : d # c => call'[d] = call[d]
      /\ call'[c] = Idle \/ call'[c] = [pc |-> "detach", sym |-> s, handle |-> handle[s]]
  BY <1>0 DEF Unsubscribe
<1>2. ASSUME NEW f \in live', f.sym \notin strays' PROVE KnownByStore(f)' \/ KnownByCall(f)'
  <2>0. f.sym \in Symbols /\ f.id # 0
    BY <1>0, <1>2, FeedTyped
  <2>1. CASE KnownByCall(f)
    BY <1>0, <1>1, <2>1, KnownStill DEF Idle
  <2>2. CASE KnownByStore(f) /\ f.sym = s
    <3>1. call' = [call EXCEPT ![c] = [pc |-> "detach", sym |-> s, handle |-> handle[s]]]
      BY <2>0, <2>2 DEF Unsubscribe, KnownByStore
    <3>2. call'[c] = [pc |-> "detach", sym |-> s, handle |-> handle[s]]
      BY <1>0, <3>1
    <3> QED
      BY <2>2, <3>2 DEF KnownByStore, KnownByCall
  <2>3. CASE KnownByStore(f) /\ f.sym # s
    BY <1>0, <2>0, <2>3 DEF KnownByStore
  <2> QED
    BY <1>0, <1>2, <2>1, <2>2, <2>3 DEF FeedInv
<1>3. ASSUME NEW d \in Callers, AtWork(d)', call'[d].sym \notin strays'
      PROVE  AloneAtWork(d)'
  <2>1. d # c
    BY <1>1, <1>3 DEF AtWork, Idle
  <2>2. call'[d] = call[d] /\ AtWork(d)
    BY <1>1, <1>3, <2>1 DEF AtWork
  <2>3. call[d].sym # s
    BY <1>0, <1>3, <2>2 DEF Subscribing, AtWork
  <2>4. AloneAtWork(d)
    BY <1>0, <1>3, <2>2 DEF FeedInv
  <2>5. call[d].sym \in registered' /\ handle'[call[d].sym] = 0
    <3>1. call[d].sym \in registered /\ handle[call[d].sym] = 0
      BY <2>4 DEF AloneAtWork
    <3>2. call[d].sym \in Symbols
      BY <3>1 DEF TypeOK, AccumulatorTypes
    <3> QED
      BY <1>0, <2>3, <3>1, <3>2
  <2>6. ~AtWork(c)'
    BY <1>1 DEF AtWork, Idle
  <2> QED
    BY <1>1, <2>1, <2>2, <2>4, <2>5, <2>6, AloneStill
<1>4. ASSUME NEW x \in Symbols, x \notin registered' PROVE handle'[x] = 0
  BY <1>0, <1>4 DEF FeedInv
<1> QED
  BY <1>2, <1>3, <1>4 DEF FeedInv

LEMMA FeedOfAttach ==
    ASSUME TypeOK, FeedInv, NEW c \in Callers, Attach(c)
    PROVE  FeedInv'
<1>0. /\ Closed' = Closed /\ call[c].pc = "attach" /\ UNCHANGED <<registered, handle, strays>>
      /\ DOMAIN call = Callers
  BY DEF Attach, lifeVars, accVars, Closed, TypeOK, FeedTypes
<1> SUFFICES ASSUME ~Closed PROVE FeedInv'
  BY <1>0 DEF FeedInv
<1>1. PICK id \in FreeIds :
        /\ live' = live \union {[sym |-> call[c].sym, id |-> id]}
        /\ call' = [call EXCEPT ![c].pc = "store", ![c].handle = id]
  BY DEF Attach
<1>2. call[c] \in [pc : {"attach", "store", "detach"}, sym : Symbols,
                   handle : FeedIds \union {0}]
  BY <1>0 DEF TypeOK, FeedTypes, Idle
<1>3. /\ call'[c].pc = "store" /\ call'[c].handle = id /\ call'[c].sym = call[c].sym
      /\ \A d \in Callers : d # c => call'[d] = call[d]
  BY <1>0, <1>1, <1>2
<1>4. ASSUME NEW f \in live', f.sym \notin strays' PROVE KnownByStore(f)' \/ KnownByCall(f)'
  <2>1. CASE f \in live /\ KnownByStore(f)
    BY <1>0, <2>1 DEF KnownByStore
  <2>2. CASE f \in live /\ KnownByCall(f)
    BY <1>0, <1>3, <2>2, KnownStill
  <2>3. CASE f = [sym |-> call[c].sym, id |-> id]
    BY <1>3, <2>3 DEF KnownByCall
  <2> QED
    BY <1>0, <1>1, <1>4, <2>1, <2>2, <2>3 DEF FeedInv
<1>5. \A d \in Callers : call'[d].sym = call[d].sym /\ (AtWork(d)' <=> AtWork(d))
  BY <1>0, <1>3 DEF AtWork
<1>6. ASSUME NEW d \in Callers, AtWork(d)', call'[d].sym \notin strays'
      PROVE  AloneAtWork(d)'
  <2>1. AloneAtWork(d)
    BY <1>0, <1>5, <1>6 DEF FeedInv
  <2> QED
    BY <1>0, <1>5, <2>1 DEF AloneAtWork
<1>7. ASSUME NEW x \in Symbols, x \notin registered' PROVE handle'[x] = 0
  BY <1>0, <1>7 DEF FeedInv
<1> QED
  BY <1>4, <1>6, <1>7 DEF FeedInv

LEMMA FeedOfStore ==
    ASSUME TypeOK, FeedInv, NEW c \in Callers, StoreHandle(c)
    PROVE  FeedInv'
<1>0. /\ Closed' = Closed /\ call[c].pc = "store" /\ UNCHANGED <<registered, live, strays>>
      /\ DOMAIN call = Callers /\ DOMAIN handle = Symbols
      /\ call' = [call EXCEPT ![c] = Idle] /\ registered \subseteq Symbols
      /\ handle' = IF call[c].sym \in registered
                   THEN [handle EXCEPT ![call[c].sym] = call[c].handle] ELSE handle
  BY DEF StoreHandle, lifeVars, Closed, TypeOK, FeedTypes, AccumulatorTypes
<1> SUFFICES ASSUME ~Closed PROVE FeedInv'
  BY <1>0 DEF FeedInv
<1>1. /\ \A d \in Callers : d # c => call'[d] = call[d]
      /\ call'[c] = Idle /\ ~AtWork(c)' /\ AtWork(c)
  BY <1>0 DEF AtWork, Idle
<1>2. call[c].sym \notin strays => AloneAtWork(c)
  BY <1>1 DEF FeedInv
<1>3. \A x \in Symbols : x # call[c].sym => handle'[x] = handle[x]
  BY <1>0
<1>4. call[c].sym \in registered => handle'[call[c].sym] = call[c].handle
  BY <1>0
<1>5. ASSUME NEW f \in live', f.sym \notin strays' PROVE KnownByStore(f)' \/ KnownByCall(f)'
  <2>1. f.sym \in Symbols /\ f.id # 0 /\ f \in live
    BY <1>0, <1>5, FeedTyped
  <2>2. CASE KnownByStore(f)
    <3>1. f.sym # call[c].sym
      BY <1>0, <1>2, <1>5, <2>1, <2>2 DEF KnownByStore, AloneAtWork
    <3> QED
      BY <1>0, <1>3, <2>1, <2>2, <3>1 DEF KnownByStore
  <2>3. CASE KnownByCall(f) /\ call[c].sym = f.sym /\ call[c].handle = f.id
    <3>1. call[c].sym \in registered
      BY <1>0, <1>2, <1>5, <2>3 DEF AloneAtWork
    <3> QED
      BY <1>0, <1>4, <2>3, <3>1 DEF KnownByStore
  <2>4. CASE KnownByCall(f) /\ (call[c].sym # f.sym \/ call[c].handle # f.id)
    BY <1>1, <2>4, KnownStill
  <2> QED
    BY <1>0, <1>5, <2>1, <2>2, <2>3, <2>4 DEF FeedInv
<1>6. ASSUME NEW d \in Callers, AtWork(d)', call'[d].sym \notin strays'
      PROVE  AloneAtWork(d)'
  <2>1. d # c
    BY <1>1, <1>6
  <2>2. call'[d] = call[d] /\ AtWork(d)
    BY <1>1, <1>6, <2>1 DEF AtWork
  <2>3. AloneAtWork(d)
    BY <1>0, <1>6, <2>2 DEF FeedInv
  <2>4. call[d].sym # call[c].sym
    BY <1>1, <2>1, <2>3 DEF AloneAtWork
  <2>5. call[d].sym \in registered' /\ handle'[call[d].sym] = 0
    <3>1. call[d].sym \in registered /\ handle[call[d].sym] = 0
      BY <2>3 DEF AloneAtWork
    <3> QED
      BY <1>0, <1>3, <2>4, <3>1
  <2> QED
    BY <1>1, <2>1, <2>2, <2>3, <2>5, AloneStill
<1>7. ASSUME NEW x \in Symbols, x \notin registered' PROVE handle'[x] = 0
  <2>1. handle[x] = 0
    BY <1>0, <1>7 DEF FeedInv
  <2> QED
    BY <1>0, <1>3, <1>7, <2>1
<1> QED
  BY <1>5, <1>6, <1>7 DEF FeedInv

LEMMA FeedOfEnd ==
    ASSUME TypeOK, FeedInv, NEW c \in Callers, AttachRaises(c) \/ Detach(c)
    PROVE  FeedInv'
<1>0. /\ Closed' = Closed /\ call[c].pc \in {"attach", "detach"}
      /\ UNCHANGED <<registered, handle>>
      /\ DOMAIN call = Callers /\ call' = [call EXCEPT ![c] = Idle]
  BY DEF AttachRaises, Detach, lifeVars, accVars, Closed, TypeOK, FeedTypes
<1> SUFFICES ASSUME ~Closed PROVE FeedInv'
  BY <1>0 DEF FeedInv
<1>1. /\ \A d \in Callers : d # c => call'[d] = call[d]
      /\ call'[c] = Idle /\ ~AtWork(c)'
  BY <1>0 DEF AtWork, Idle
<1>2. live' \subseteq live /\ strays \subseteq strays'
  BY DEF AttachRaises, Detach
<1>3. ASSUME NEW f \in live', f.sym \notin strays' PROVE KnownByStore(f)' \/ KnownByCall(f)'
  <2>1. CASE KnownByStore(f)
    BY <1>0, <2>1 DEF KnownByStore
  <2>2. CASE KnownByCall(f)
    <3>1. call[c].pc \in {"store", "detach"} => call[c].sym # f.sym \/ call[c].handle # f.id
      <4>1. CASE AttachRaises(c)
        BY <4>1 DEF AttachRaises
      <4>2. CASE Detach(c)
        BY <1>3, <4>2 DEF Detach
      <4> QED
        BY <4>1, <4>2
    <3> QED
      BY <1>1, <2>2, <3>1, KnownStill
  <2> QED
    BY <1>2, <1>3, <2>1, <2>2 DEF FeedInv
<1>4. ASSUME NEW d \in Callers, AtWork(d)', call'[d].sym \notin strays'
      PROVE  AloneAtWork(d)'
  <2>1. d # c
    BY <1>1, <1>4
  <2>2. call'[d] = call[d] /\ AtWork(d)
    BY <1>1, <1>4, <2>1 DEF AtWork
  <2>3. AloneAtWork(d)
    BY <1>2, <1>4, <2>2 DEF FeedInv
  <2>4. call[d].sym \in registered' /\ handle'[call[d].sym] = 0
    BY <1>0, <2>3 DEF AloneAtWork
  <2> QED
    BY <1>1, <2>1, <2>2, <2>3, <2>4, AloneStill
<1>5. ASSUME NEW x \in Symbols, x \notin registered' PROVE handle'[x] = 0
  BY <1>0, <1>5 DEF FeedInv
<1> QED
  BY <1>3, <1>4, <1>5 DEF FeedInv

LEMMA FeedInvStep ==
    ASSUME TypeOK, FeedInv, [Next]_vars
    PROVE  FeedInv'
<1> DEFINE kept == UNCHANGED <<closer, registered, handle, live, strays, call>>
<1>1. CASE kept
  BY <1>1 DEF FeedInv, KnownByStore, KnownByCall, AtWork, AloneAtWork, Closed
<1>2. CASE Close \/ CloseFeeds \/ Disconnect
  BY <1>2 DEF FeedInv, Close, CloseFeeds, Disconnect, Closed
<1>3. ASSUME NEW c \in Callers, NEW s \in Symbols, Sweep(c, s) PROVE kept
  BY <1>3 DEF Sweep, lifeVars
<1>5. ASSUME NEW c \in Callers, StartSession(c) PROVE kept
  BY <1>5 DEF StartSession, lifeVars
<1>4. ClockTick \/ StartWebsocket \/ StartPolling \/ StartRaises \/ Receive \/ Deliver
        \/ SweepBegins \/ Poll \/ SweepEnds \/ PollerEnds \/ UNCHANGED vars => kept
  BY DEF ClockTick, StartWebsocket, StartPolling, StartRaises, Receive, Deliver, SweepBegins,
         Poll, SweepEnds, PollerEnds, vars, accVars, lifeVars
<1> HIDE DEF kept
<1> QED
  BY <1>1, <1>2, <1>3, <1>4, <1>5, FeedOfSubscribe, FeedOfUnsubscribe, FeedOfAttach, FeedOfStore,
     FeedOfEnd DEF Next, Main, Caller, Poller

\* However many threads subscribe and unsubscribe at once, every feed that is
\* live between two calls is the one its accumulator knows, for every number of
\* symbols and feeds and all faults of the library, but for symbols whose own
\* subscribe was overtaken or whose own feed did not end.
THEOREM FeedsCorrect == Spec => []FeedsAreKnown
<1>1. Init => FeedInv
  BY FeedInit
<1>2. TypeOK /\ FeedInv /\ [Next]_vars => FeedInv'
  BY FeedInvStep
<1>3. FeedInv => FeedsAreKnown
  BY DEF FeedInv, FeedsAreKnown, KnownByStore, KnownByCall, AllIdle, Idle
<1> QED
  BY <1>1, <1>2, <1>3, TypeCorrect, PTL DEF Spec

=============================================================================
