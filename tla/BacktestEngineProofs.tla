------------------------ MODULE BacktestEngineProofs ------------------------
(***************************************************************************)
(* The invariants of BacktestEngine for every universe, every bar and all  *)
(* rates.                                                                  *)
(***************************************************************************)
EXTENDS BacktestEngine, FiniteSetTheorems, WellFoundedInduction, TLAPS

-----------------------------------------------------------------------------
(* The inductive invariants.                                               *)

\* A bar of the session, and where the loop has got to with it.
BarInHand == bar \in BarType /\ bar.day = sessionDate /\ lastBar.day = bar.day

\* The session ends: a later bar is in hand, or there is none.
SessionOver ==
    /\ sessionDate # 0
    /\ bar # NoBar => bar \in BarType /\ bar.day > sessionDate /\ lastBar.day = bar.day

LoopInv ==
    /\ pc \notin {"signals", "raised"} => signals = {}
    /\ pc = "feed" => lastBar.day = sessionDate
    /\ pc = "open" => /\ bar \in BarType /\ bar.day > sessionDate /\ lastBar.day = bar.day
                      /\ Long = {} /\ Active = {} /\ phantomLongs = {}
    /\ pc \in {"bar", "time"} => BarInHand
    /\ pc = "signals" /\ then # "closed" => BarInHand
    /\ pc = "close" => SessionOver
    /\ pc = "signals" /\ then = "closed" => SessionOver /\ Long = {}
    /\ pc = "closed" => SessionOver /\ Long = {}
    /\ sessionDate = 0 => Long = {} /\ Active = {} /\ phantomLongs = {}

\* What the signals on their way say of their symbols.
SignalInv ==
    /\ \A g \in signals :
         IF g.kind = "entry" THEN g.sym \in Long /\ g.sym \notin Active \union phantomLongs
         ELSE g.sym \notin Long /\ g.sym \in Active \union phantomLongs
    /\ \A g, h \in signals : g.sym = h.sym => g = h

SyncInv ==
    /\ \A s \in Symbols : active[s].qty = positions[s]
    /\ \A s \in Long : states[s].date = sessionDate
    /\ \A s \in Long : s \in Active \union phantomLongs \union Signalled("entry")
    /\ \A s \in Active \union phantomLongs : s \in Long \union Signalled("exit")
    /\ Active \intersect phantomLongs = {}
    /\ error # "sync"

RangeInv ==
    \A s \in Symbols :
        /\ states[s].date <= sessionDate
        /\ states[s].date # sessionDate => ranges[s] = {}
        /\ states[s].date = sessionDate =>
             /\ states[s].high = 0 <=> ranges[s] = {}
             /\ \A high \in ranges[s] : high <= states[s].high

EnteredInv ==
    \A s \in entered : states[s].date = sessionDate /\ states[s].phase # "flat"

EngineInv == TypeOK /\ LoopInv /\ SignalInv /\ SyncInv

DayInv == EngineInv /\ RangeInv /\ EnteredInv /\ BreakoutOfTheDay /\ OneEntryADay

-----------------------------------------------------------------------------
(* Costs and sizes.                                                        *)

LEMMA DivNat == \A n \in Nat, d \in Nat \ {0} : n \div d \in Nat
OBVIOUS

\* An amount of ten thousandths gives a natural number of won and of costs.
LEMMA AmountType ==
    ASSUME NEW amount \in Nat, NEW rate \in Nat
    PROVE  Won(amount) \in Nat /\ Charge(amount, rate) \in Nat
<1>1. amount * rate \in Nat
  OBVIOUS
<1> QED
  BY <1>1, DivNat DEF Won, Charge

\* A lot bought at a price has the type of a lot.
LEMMA LotTyped ==
    ASSUME NEW price \in Nat, NEW qty \in Nat
    PROVE  Lot(price, qty) \in LotType /\ Lot(price, qty).qty = qty
<1>1. BuyFillPrice(price) \in Nat
  BY BacktestAssumption DEF BuyFillPrice
<1>2. qty * BuyFillPrice(price) \in Nat
  BY <1>1
<1>3. Won(qty * BuyFillPrice(price)) \in Nat
      /\ Charge(qty * BuyFillPrice(price), Commission) \in Nat
  BY <1>2, AmountType, BacktestAssumption
<1> QED
  BY <1>3 DEF Lot, LotType

\* A sale has an amount and brings a whole number of won.
LEMMA SaleTyped ==
    ASSUME NEW lot \in LotType, NEW price \in Nat
    PROVE  /\ lot.qty * SellFillPrice(price) \in Nat
           /\ Proceeds(lot, price) \in Int
           /\ NetPnl(lot, price) \in Int
<1>1. SellFillPrice(price) \in Nat
  BY BacktestAssumption DEF SellFillPrice
<1>2. lot.qty * SellFillPrice(price) \in Nat
  BY <1>1 DEF LotType
<1>3. Won(lot.qty * SellFillPrice(price)) \in Nat
  BY <1>2, AmountType, BacktestAssumption
<1>4. Charge(lot.qty * SellFillPrice(price), Commission) \in Nat
      /\ Charge(lot.qty * SellFillPrice(price), SellTax) \in Nat
  BY <1>2, AmountType, BacktestAssumption
<1>5. Proceeds(lot, price) \in Int
  BY <1>3, <1>4 DEF Proceeds
<1> QED
  BY <1>2, <1>5 DEF NetPnl, Cost, LotType

\* What the RiskManager approves is at least one share.
LEMMA ApprovedQty ==
    ASSUME RM!TypeOK, NEW s \in Symbols, NEW price \in Nat \ {0}, NEW money \in Nat,
           RM!Approves(s, price, money)
    PROVE  RM!EntryQty(price) \in Nat \ {0}
<1>1. startingCapital * PositionPct \in Nat
  BY BacktestAssumption DEF RM!TypeOK
<1>2. RM!TargetNotional \in Nat
  BY <1>1, DivNat DEF RM!TargetNotional
<1>3. RM!EntryQty(price) \in Nat
  BY <1>2, DivNat DEF RM!EntryQty
<1>4. RM!EntryQty(price) * price >= MinNotional
  BY DEF RM!Approves
<1>5. RM!EntryQty(price) # 0
  BY <1>3, <1>4, BacktestAssumption
<1> QED
  BY <1>3, <1>5

-----------------------------------------------------------------------------
(* The loop's own steps leave books and strategy alone.                    *)

LEMMA RiskTypeKept ==
    ASSUME RM!TypeOK, UNCHANGED riskVars
    PROVE  RM!TypeOK'
<1>1. haltLogged' \in BOOLEAN
  BY DEF riskVars, RM!TypeOK
<1>2. positions' \in [Symbols -> Nat]
  BY DEF riskVars, RM!TypeOK
<1> QED
  BY <1>1, <1>2 DEF riskVars, RM!TypeOK

LEMMA SyncKept ==
    ASSUME SignalInv, SyncInv, error' # "sync",
           UNCHANGED <<sessionDate, positions, active, phantomLongs, states, signals>>
    PROVE  SignalInv' /\ SyncInv' /\ Long' = Long /\ Active' = Active
<1>1. Long' = Long /\ Active' = Active
  BY DEF Long, Active
<1>2. SignalInv'
  BY <1>1 DEF SignalInv
<1>3. Signalled("entry")' = Signalled("entry") /\ Signalled("exit")' = Signalled("exit")
  BY DEF Signalled
<1> QED
  BY <1>1, <1>2, <1>3 DEF SyncInv

LEMMA NextBarKeeps ==
    ASSUME EngineInv, NextBar
    PROVE  EngineInv'
<1> USE DEF EngineInv
<1>1. PICK s \in Symbols, day \in 1..MaxDay, time \in 0..MaxTime, shape \in Shapes :
        /\ day > lastBar.day \/ (day = lastBar.day /\ time >= lastBar.time)
        /\ bar' = [sym |-> s, day |-> day, time |-> time,
                   high |-> shape.high, low |-> shape.low, close |-> shape.close]
        /\ lastBar' = [day |-> day, time |-> time]
        /\ pc' = IF sessionDate = 0 THEN "open" ELSE IF day # sessionDate THEN "close" ELSE "bar"
  BY DEF NextBar
<1>2. bar' \in BarType /\ bar'.day = day
  BY <1>1, BacktestAssumption DEF BarType
<1>3. UNCHANGED <<riskVars, bookVars, equity, states, then, signals, error, ranges, entered>>
  BY DEF NextBar
<1>4. TypeOK'
  <2>1. RM!TypeOK'
    BY <1>3, RiskTypeKept DEF TypeOK
  <2>2. fed' \in Nat
    BY DEF NextBar, TypeOK
  <2>3. lastBar' \in [day : Nat, time : Nat]
    BY <1>1, BacktestAssumption
  <2>4. pc' \in {"open", "close", "bar"}
    BY <1>1
  <2> QED
    BY <1>2, <1>3, <2>1, <2>2, <2>3, <2>4 DEF TypeOK, bookVars
<1>5. SignalInv' /\ SyncInv' /\ Long' = Long /\ Active' = Active
  BY <1>3, SyncKept DEF riskVars, bookVars, SyncInv
<1>6. LoopInv'
  <2>1. pc = "feed" /\ signals' = {} /\ lastBar.day = sessionDate
    BY <1>3 DEF LoopInv, NextBar
  <2>2. lastBar'.day = day /\ day >= sessionDate /\ sessionDate' = sessionDate
    BY <1>1, <1>3, <2>1, BacktestAssumption DEF riskVars, TypeOK, RM!TypeOK
  <2>3. CASE sessionDate = 0
    <3>1. pc' = "open" /\ bar'.day > sessionDate'
      BY <1>1, <1>2, <2>2, <2>3
    <3> QED
      BY <1>2, <1>3, <1>5, <2>1, <2>2, <2>3, <3>1 DEF LoopInv, bookVars
  <2>4. CASE sessionDate # 0 /\ day # sessionDate
    <3>1. pc' = "close" /\ bar'.day > sessionDate'
      BY <1>1, <1>2, <2>2, <2>4 DEF TypeOK, RM!TypeOK
    <3> QED
      BY <1>2, <1>5, <2>1, <2>2, <2>4, <3>1 DEF LoopInv, SessionOver
  <2>5. CASE sessionDate # 0 /\ day = sessionDate
    <3>1. pc' = "bar"
      BY <1>1, <2>5
    <3> QED
      BY <1>2, <1>5, <2>1, <2>2, <2>5, <3>1 DEF LoopInv, BarInHand
  <2> QED
    BY <2>3, <2>4, <2>5
<1> QED
  BY <1>4, <1>5, <1>6

LEMMA BarOutOfOrderKeeps ==
    ASSUME EngineInv, BarOutOfOrder
    PROVE  EngineInv'
<1> USE DEF EngineInv
<1>1. pc' = "raised" /\ error' = "order"
  BY DEF BarOutOfOrder, Raise
<1>2. UNCHANGED <<riskVars, bookVars, feedVars, equity, states, then, signals, ranges, entered>>
  BY DEF BarOutOfOrder
<1>3. SignalInv' /\ SyncInv' /\ Long' = Long /\ Active' = Active
  BY <1>1, <1>2, SyncKept DEF riskVars, bookVars
<1>4. RM!TypeOK'
  BY <1>2, RiskTypeKept DEF TypeOK
<1>5. TypeOK'
  BY <1>1, <1>2, <1>4 DEF TypeOK, bookVars, feedVars
<1>6. LoopInv'
  BY <1>1, <1>2, <1>3 DEF LoopInv, riskVars, bookVars
<1> QED
  BY <1>3, <1>5, <1>6

LEMMA EndOfStreamKeeps ==
    ASSUME EngineInv, EndOfStream
    PROVE  EngineInv'
<1> USE DEF EngineInv
<1>1. pc = "feed" /\ bar' = NoBar /\ pc' = IF sessionDate = 0 THEN "done" ELSE "close"
  BY DEF EndOfStream
<1>2. UNCHANGED <<riskVars, bookVars, lastBar, fed, equity, states, then, signals, error,
                  ranges, entered>>
  BY DEF EndOfStream
<1>3. SignalInv' /\ SyncInv' /\ Long' = Long /\ Active' = Active
  BY <1>2, SyncKept DEF riskVars, bookVars, SyncInv
<1>4. RM!TypeOK'
  BY <1>2, RiskTypeKept DEF TypeOK
<1>5. TypeOK'
  BY <1>1, <1>2, <1>4 DEF TypeOK, bookVars
<1>6. LoopInv'
  BY <1>1, <1>2, <1>3 DEF LoopInv, SessionOver, riskVars, bookVars
<1> QED
  BY <1>3, <1>5, <1>6

LEMMA SignalsDoneKeeps ==
    ASSUME EngineInv, SignalsDone
    PROVE  EngineInv'
<1> USE DEF EngineInv
<1>1. pc = "signals" /\ signals = {} /\ pc' = then
  BY DEF SignalsDone
<1>2. UNCHANGED <<riskVars, bookVars, feedVars, equity, states, then, signals, error, ranges,
                  entered>>
  BY DEF SignalsDone
<1>3. SignalInv' /\ SyncInv' /\ Long' = Long /\ Active' = Active
  BY <1>2, SyncKept DEF riskVars, bookVars, SyncInv
<1>4. RM!TypeOK'
  BY <1>2, RiskTypeKept DEF TypeOK
<1>5. pc' \in {"feed", "time", "closed"}
  BY <1>1 DEF TypeOK
<1>6. TypeOK'
  BY <1>2, <1>4, <1>5 DEF TypeOK, bookVars, feedVars
<1>7. LoopInv'
  BY <1>1, <1>2, <1>3, <1>5 DEF LoopInv, BarInHand, SessionOver, riskVars, bookVars, feedVars
<1> QED
  BY <1>3, <1>6, <1>7

-----------------------------------------------------------------------------
(* The ends of a session.                                                  *)

LEMMA SessionClosedKeeps ==
    ASSUME EngineInv, SessionClosed
    PROVE  EngineInv'
<1> USE DEF EngineInv
<1>1. UNCHANGED <<riskVars, bookVars, feedVars, states, then, signals, ranges, entered>>
  BY DEF SessionClosed
<1>2. pc = "closed" /\ signals = {} /\ Long = {} /\ SessionOver
  BY DEF SessionClosed, LoopInv
<1>3. Active = {} /\ phantomLongs = {}
  <2>1. Signalled("exit") = {}
    BY <1>2 DEF Signalled
  <2> QED
    BY <1>2, <2>1 DEF SyncInv, TypeOK, Active
<1>4. equity' = cash /\ UNCHANGED error /\ pc' = IF bar = NoBar THEN "done" ELSE "open"
  BY <1>3 DEF SessionClosed
<1>5. SignalInv' /\ SyncInv' /\ Long' = Long /\ Active' = Active
  BY <1>1, <1>4, SyncKept DEF riskVars, bookVars, SyncInv
<1>6. RM!TypeOK'
  BY <1>1, RiskTypeKept DEF TypeOK
<1>7. TypeOK'
  BY <1>1, <1>4, <1>6 DEF TypeOK, bookVars, feedVars
<1>8. LoopInv'
  BY <1>1, <1>2, <1>3, <1>4, <1>5 DEF LoopInv, SessionOver, riskVars, bookVars, feedVars
<1> QED
  BY <1>5, <1>7, <1>8

LEMMA OpenSessionKeeps ==
    ASSUME EngineInv, OpenSession
    PROVE  EngineInv'
<1> USE DEF EngineInv
<1>1. UNCHANGED <<bookVars, feedVars, equity, states, then, signals>>
  BY DEF OpenSession
<1>2. /\ pc = "open" /\ bar \in BarType /\ bar.day > sessionDate /\ lastBar.day = bar.day
      /\ Long = {} /\ Active = {} /\ phantomLongs = {} /\ signals = {}
  BY DEF OpenSession, LoopInv
<1>3. Long' = {} /\ Active' = {} /\ phantomLongs' = {} /\ signals' = {}
  BY <1>1, <1>2 DEF Long, Active, bookVars
<1>4. ranges' \in [Symbols -> SUBSET Nat] /\ entered' \subseteq Symbols
  BY DEF OpenSession, TypeOK
<1>5. CASE cash > 0
  <2>1. RM!StartSession(bar.day, cash) /\ pc' = "bar" /\ UNCHANGED error
    BY <1>5 DEF OpenSession
  <2>2. RM!TypeOK'
    <3>1. haltLogged' \in BOOLEAN
      BY <2>1 DEF RM!StartSession
    <3>2. positions' \in [Symbols -> Nat]
      BY <2>1 DEF RM!StartSession, RM!NoPositions
    <3>3. bar.day \in Nat /\ cash \in Nat
      BY <1>2, <1>5 DEF BarType, TypeOK
    <3>4. /\ sessionDate' \in Nat \ {0} /\ startingCapital' \in Nat \ {0}
          /\ dailyPnl' = 0 /\ entriesToday' = 0
      BY <1>2, <2>1, <3>3 DEF RM!StartSession, BarType
    <3> QED
      BY <3>1, <3>2, <3>4 DEF RM!TypeOK
  <2>3. TypeOK'
    BY <1>1, <1>4, <2>1, <2>2 DEF TypeOK, bookVars, feedVars
  <2>4. LoopInv'
    BY <1>1, <1>2, <1>3, <2>1 DEF LoopInv, BarInHand, feedVars, RM!StartSession
  <2>5. SignalInv'
    BY <1>3 DEF SignalInv
  <2>6. \A s \in Symbols : active'[s].qty = positions'[s]
    <3>1. \A s \in Symbols : active[s].qty = 0
      BY <1>2 DEF Active, TypeOK, LotType
    <3> QED
      BY <1>1, <2>1, <3>1 DEF RM!StartSession, RM!NoPositions, bookVars
  <2>7. SyncInv'
    BY <1>3, <2>1, <2>6 DEF SyncInv
  <2> QED
    BY <2>3, <2>4, <2>5, <2>7
<1>6. CASE ~(cash > 0)
  <2>1. pc' = "raised" /\ error' = "capital" /\ UNCHANGED riskVars
    BY <1>6 DEF OpenSession, Raise
  <2>2. RM!TypeOK'
    BY <2>1, RiskTypeKept DEF TypeOK
  <2>3. TypeOK'
    BY <1>1, <1>4, <2>1, <2>2 DEF TypeOK, bookVars, feedVars
  <2>4. SignalInv' /\ SyncInv'
    BY <1>1, <2>1, SyncKept DEF riskVars, bookVars
  <2>5. LoopInv'
    BY <1>3, <2>1 DEF LoopInv
  <2> QED
    BY <2>3, <2>4, <2>5
<1> QED
  BY <1>5, <1>6

-----------------------------------------------------------------------------
(* The strategy's steps.                                                   *)

\* A forced exit for everything that is long, or nothing at all.
LEMMA ForceCloseSync ==
    ASSUME TypeOK, SyncInv, signals = {}, NEW now \in Nat, ForceClose(now),
           UNCHANGED <<sessionDate, positions, active, phantomLongs, error>>
    PROVE  /\ states' \in [Symbols -> StateType] /\ signals' \subseteq SignalType
           /\ SignalInv' /\ SyncInv' /\ Active' = Active
           /\ now >= ForceCloseAt => Long' = {}
           /\ Long' \subseteq Long
<1>1. Active' = Active
  BY DEF Active
<1>2. CASE now < ForceCloseAt
  <2>1. UNCHANGED states /\ signals' = {}
    BY <1>2 DEF ForceClose
  <2>2. SignalInv' /\ SyncInv' /\ Long' = Long
    <3>1. signals' = signals
      BY <2>1
    <3>2. SignalInv
      BY DEF SignalInv
    <3> QED
      BY <2>1, <3>1, <3>2, SyncKept DEF SyncInv
  <2>3. ~(now >= ForceCloseAt)
    BY <1>2, BacktestAssumption
  <2> QED
    BY <1>1, <2>1, <2>2, <2>3 DEF TypeOK
<1>3. CASE ~(now < ForceCloseAt)
  <2>1. /\ states' = [s \in Symbols |-> IF s \in Long THEN Leave(states[s]) ELSE states[s]]
        /\ signals' = {Exit(s, 100 * states[s].close) : s \in Long}
    BY <1>3 DEF ForceClose
  <2>2. \A s \in Symbols : states[s] \in StateType
    BY DEF TypeOK
  <2>3. \A s \in Symbols : states'[s] \in StateType /\ states'[s].phase # "long"
    BY <2>1, <2>2 DEF Leave, StateType, Long
  <2>4. states' \in [Symbols -> StateType]
    BY <2>1, <2>3
  <2>5. Long' = {}
    BY <2>3 DEF Long
  <2>6. \A s \in Long : s \in Symbols /\ 100 * states[s].close \in Nat
    BY <2>2 DEF Long, StateType
  <2>7. signals' \subseteq SignalType
    BY <2>1, <2>6 DEF SignalType, Exit
  <2>8. Long = Active \union phantomLongs
    <3>1. Signalled("entry") = {} /\ Signalled("exit") = {}
      BY DEF Signalled
    <3> QED
      BY <3>1 DEF SyncInv
  <2>9. \A g \in signals' : g.kind = "exit" /\ g.sym \in Long
    BY <2>1 DEF Exit
  <2>10. \A s \in Long : \E g \in signals' : g.sym = s
    <3>1. \A s \in Long : Exit(s, 100 * states[s].close) \in signals'
      BY <2>1
    <3>2. \A s \in Long : Exit(s, 100 * states[s].close).sym = s
      BY DEF Exit
    <3> QED
      BY <3>1, <3>2
  <2>11. SignalInv'
    <3>1. \A g, h \in signals' : g.sym = h.sym => g = h
      BY <2>1 DEF Exit
    <3> QED
      BY <1>1, <2>5, <2>8, <2>9, <3>1 DEF SignalInv
  <2>12. Signalled("exit")' = Long
    BY <2>9, <2>10 DEF Signalled
  <2>13. SyncInv'
    BY <1>1, <2>5, <2>8, <2>12 DEF SyncInv
  <2> QED
    BY <1>1, <2>4, <2>5, <2>7, <2>11, <2>13
<1> QED
  BY <1>2, <1>3

LEMMA OnTimeKeeps ==
    ASSUME EngineInv, OnTime
    PROVE  EngineInv'
<1> USE DEF EngineInv
<1>1. /\ pc = "time" /\ pc' = "signals" /\ then' = "feed"
      /\ UNCHANGED <<riskVars, bookVars, feedVars, equity, error, ranges, entered>>
  BY DEF OnTime
<1>2. BarInHand /\ signals = {}
  BY <1>1 DEF LoopInv
<1>3. bar.time \in Nat /\ ForceClose(bar.time)
  BY <1>2 DEF BarInHand, BarType, OnTime
<1>4. /\ states' \in [Symbols -> StateType] /\ signals' \subseteq SignalType
      /\ SignalInv' /\ SyncInv' /\ Active' = Active /\ Long' \subseteq Long
  BY <1>1, <1>2, <1>3, ForceCloseSync DEF riskVars, bookVars
<1>5. RM!TypeOK'
  BY <1>1, RiskTypeKept DEF TypeOK
<1>6. TypeOK'
  BY <1>1, <1>4, <1>5 DEF TypeOK, bookVars, feedVars
<1>7. LoopInv'
  BY <1>1, <1>2, <1>4 DEF LoopInv, BarInHand, riskVars, bookVars, feedVars
<1> QED
  BY <1>4, <1>6, <1>7

LEMMA CloseSessionKeeps ==
    ASSUME EngineInv, CloseSession
    PROVE  EngineInv'
<1> USE DEF EngineInv
<1>1. /\ pc = "close" /\ pc' = "signals" /\ then' = "closed" /\ ForceClose(ForceCloseAt)
      /\ UNCHANGED <<riskVars, bookVars, feedVars, equity, error, ranges, entered>>
  BY DEF CloseSession
<1>2. SessionOver /\ signals = {}
  BY <1>1 DEF LoopInv
<1>3. ForceCloseAt \in Nat /\ ForceCloseAt >= ForceCloseAt
  BY BacktestAssumption
<1>4. /\ states' \in [Symbols -> StateType] /\ signals' \subseteq SignalType
      /\ SignalInv' /\ SyncInv' /\ Active' = Active /\ Long' = {}
  BY <1>1, <1>2, <1>3, ForceCloseSync DEF riskVars, bookVars
<1>5. RM!TypeOK'
  BY <1>1, RiskTypeKept DEF TypeOK
<1>6. TypeOK'
  BY <1>1, <1>4, <1>5 DEF TypeOK, bookVars, feedVars
<1>7. LoopInv'
  BY SMTT(30), <1>1, <1>2, <1>4 DEF LoopInv, SessionOver, riskVars, bookVars, feedVars
<1> QED
  BY <1>4, <1>6, <1>7

\* What on_bar does to the bar's symbol: nothing that matters here, an entry of
\* one that is not long, or an exit of one that is.
LEMMA OnBarCases ==
    ASSUME EngineInv, OnBar
    PROVE  \E state \in StateType :
             /\ states' = [states EXCEPT ![bar.sym] = state]
             /\ state.date = bar.day
             /\ \/ /\ signals' = {}
                   /\ state.phase = "long" <=> bar.sym \in Long
                \/ /\ bar.sym \notin Long /\ state.phase = "long"
                   /\ signals' = {Entry(bar.sym, 100 * bar.close)}
                \/ /\ bar.sym \in Long /\ state.phase = "closed"
                   /\ \E price \in Nat : signals' = {Exit(bar.sym, price)}
<1> USE DEF EngineInv
<1> DEFINE old == IF states[bar.sym].date = bar.day THEN states[bar.sym]
                  ELSE Reset(states[bar.sym], bar.day)
           state == [old EXCEPT !.close = bar.close]
<1>1. /\ bar \in BarType /\ bar.day = sessionDate /\ signals = {}
      /\ bar.sym \in Symbols /\ bar.high \in Nat /\ bar.close \in Nat /\ bar.day \in Nat
  BY DEF OnBar, LoopInv, BarInHand, BarType
<1>2. states[bar.sym] \in StateType
  BY <1>1 DEF TypeOK
<1>3. /\ old \in StateType /\ old.date = bar.day
      /\ old.phase = "long" <=> bar.sym \in Long
  <2>1. CASE states[bar.sym].date = bar.day
    BY <1>1, <1>2, <2>1 DEF Long
  <2>2. CASE states[bar.sym].date # bar.day
    <3>1. bar.sym \notin Long
      BY <1>1, <2>2 DEF SyncInv
    <3> QED
      BY <1>1, <2>2, <3>1 DEF Reset, StateType
  <2> QED
    BY <2>1, <2>2
<1>4. state \in StateType /\ state.date = bar.day /\ state.phase = old.phase
  BY <1>1, <1>3 DEF StateType
<1> HIDE DEF old, state
<1>5. CASE /\ InRange
           /\ states' = [states EXCEPT ![bar.sym] =
                           [state EXCEPT !.high = IF @ >= bar.high THEN @ ELSE bar.high]]
           /\ signals' = {}
  <2> DEFINE next == [state EXCEPT !.high = IF @ >= bar.high THEN @ ELSE bar.high]
  <2>1. next \in StateType /\ next.date = bar.day /\ next.phase = old.phase
    BY <1>1, <1>4 DEF StateType
  <2> QED
    BY <1>3, <1>5, <2>1
<1>6. CASE /\ BreaksOut(state)
           /\ states' = [states EXCEPT ![bar.sym] = EnterLong(state)]
           /\ signals' = {Entry(bar.sym, 100 * bar.close)}
  <2>1. bar.close * (100 - StopPct) \in Nat /\ bar.close * (100 + TakePct) \in Nat
    BY <1>1, BacktestAssumption
  <2>2. EnterLong(state) \in StateType
    BY <1>4, <2>1 DEF EnterLong, StateType
  <2>3. EnterLong(state).date = bar.day /\ EnterLong(state).phase = "long"
    BY <1>4 DEF EnterLong, StateType
  <2>4. bar.sym \notin Long
    BY <1>3, <1>4, <1>6 DEF BreaksOut
  <2> QED
    BY <1>6, <2>2, <2>3, <2>4
<1>7. CASE /\ HitsStop(state) \/ HitsTake(state)
           /\ states' = [states EXCEPT ![bar.sym] = Leave(state)]
           /\ signals' = {Exit(bar.sym, state.stop)} \/ signals' = {Exit(bar.sym, state.take)}
  <2>1. Leave(state) \in StateType /\ Leave(state).date = bar.day /\ Leave(state).phase = "closed"
    BY <1>4 DEF Leave, StateType
  <2>2. bar.sym \in Long
    BY <1>3, <1>4, <1>7 DEF HitsStop, HitsTake
  <2>3. state.stop \in Nat /\ state.take \in Nat
    BY <1>4 DEF StateType
  <2> QED
    BY <1>7, <2>1, <2>2, <2>3
<1>8. CASE states' = [states EXCEPT ![bar.sym] = state] /\ signals' = {}
  BY <1>3, <1>4, <1>8
<1> QED
  BY <1>5, <1>6, <1>7, <1>8 DEF OnBar, old, state

LEMMA OnBarKeeps ==
    ASSUME EngineInv, OnBar
    PROVE  EngineInv'
<1> USE DEF EngineInv
<1>1. /\ pc = "bar" /\ pc' = "signals" /\ then' = "time"
      /\ ranges' = IF InRange THEN [ranges EXCEPT ![bar.sym] = @ \union {bar.high}] ELSE ranges
      /\ UNCHANGED <<riskVars, bookVars, feedVars, equity, error, entered>>
  BY DEF OnBar
<1>2. /\ BarInHand /\ bar \in BarType /\ bar.sym \in Symbols /\ bar.high \in Nat
      /\ bar.close \in Nat /\ signals = {}
  BY <1>1 DEF LoopInv, BarInHand, BarType
<1>3. PICK state \in StateType :
        /\ states' = [states EXCEPT ![bar.sym] = state]
        /\ state.date = bar.day
        /\ \/ /\ signals' = {}
              /\ state.phase = "long" <=> bar.sym \in Long
           \/ /\ bar.sym \notin Long /\ state.phase = "long"
              /\ signals' = {Entry(bar.sym, 100 * bar.close)}
           \/ /\ bar.sym \in Long /\ state.phase = "closed"
              /\ \E price \in Nat : signals' = {Exit(bar.sym, price)}
  BY OnBarCases
<1>4. /\ \A s \in Symbols \ {bar.sym} : states'[s] = states[s]
      /\ states'[bar.sym] = state /\ states' \in [Symbols -> StateType]
  BY <1>2, <1>3 DEF TypeOK
<1>5. Active' = Active /\ phantomLongs' = phantomLongs
  BY <1>1 DEF Active, bookVars
<1>6. Long = Active \union phantomLongs
  <2>1. Signalled("entry") = {} /\ Signalled("exit") = {}
    BY <1>2 DEF Signalled
  <2> QED
    BY <2>1 DEF SyncInv
<1>7. TypeOK'
  <2>1. RM!TypeOK'
    BY <1>1, RiskTypeKept DEF TypeOK
  <2>2. ranges' \in [Symbols -> SUBSET Nat]
    BY <1>1, <1>2 DEF TypeOK
  <2>3. signals' \subseteq SignalType
    BY <1>2, <1>3 DEF SignalType, Entry, Exit
  <2> QED
    BY <1>1, <1>4, <2>1, <2>2, <2>3 DEF TypeOK, bookVars, feedVars
<1>8. \A s \in Long' : states'[s].date = sessionDate'
  BY <1>1, <1>2, <1>3, <1>4 DEF SyncInv, Long, BarInHand, riskVars
<1>9. \A s \in Symbols : active'[s].qty = positions'[s]
  BY <1>1 DEF SyncInv, riskVars, bookVars
<1>10. Active' \intersect phantomLongs' = {} /\ error' # "sync"
  BY <1>1, <1>5 DEF SyncInv
<1>11. LoopInv'
  <2>1. BarInHand'
    BY <1>1, <1>2 DEF BarInHand, riskVars, feedVars
  <2>2. sessionDate' # 0
    BY <1>1, <1>2 DEF BarInHand, BarType, riskVars
  <2> QED
    BY <1>1, <2>1, <2>2 DEF LoopInv
<1>12. CASE signals' = {} /\ (state.phase = "long" <=> bar.sym \in Long)
  <2>1. Long' = Long
    BY <1>4, <1>12, <1>2 DEF Long
  <2>2. SignalInv'
    BY <1>12 DEF SignalInv
  <2>3. SyncInv'
    BY <1>5, <1>6, <1>8, <1>9, <1>10, <2>1 DEF SyncInv
  <2> QED
    BY <1>7, <1>11, <2>2, <2>3
<1>13. CASE /\ bar.sym \notin Long /\ state.phase = "long"
            /\ signals' = {Entry(bar.sym, 100 * bar.close)}
  <2>1. Long' = Long \union {bar.sym}
    BY <1>4, <1>13, <1>2 DEF Long
  <2>2. SignalInv'
    BY <1>5, <1>6, <1>13, <2>1 DEF SignalInv, Entry
  <2>3. Signalled("entry")' = {bar.sym}
    <3>1. \A g \in signals' : g.kind = "entry" /\ g.sym = bar.sym
      BY <1>13 DEF Entry
    <3>2. signals' # {}
      BY <1>13
    <3> QED
      BY <3>1, <3>2 DEF Signalled
  <2>4. SyncInv'
    BY <1>5, <1>6, <1>8, <1>9, <1>10, <2>1, <2>3 DEF SyncInv
  <2> QED
    BY <1>7, <1>11, <2>2, <2>4
<1>14. CASE /\ bar.sym \in Long /\ state.phase = "closed"
            /\ \E price \in Nat : signals' = {Exit(bar.sym, price)}
  <2>1. Long' = Long \ {bar.sym}
    BY <1>4, <1>14, <1>2 DEF Long
  <2>2. SignalInv'
    BY <1>5, <1>6, <1>14, <2>1 DEF SignalInv, Exit
  <2>3. Signalled("exit")' = {bar.sym}
    <3>1. \A g \in signals' : g.kind = "exit" /\ g.sym = bar.sym
      BY <1>14 DEF Exit
    <3>2. signals' # {}
      BY <1>14
    <3> QED
      BY <3>1, <3>2 DEF Signalled
  <2>4. SyncInv'
    BY <1>5, <1>6, <1>8, <1>9, <1>10, <2>1, <2>3 DEF SyncInv
  <2> QED
    BY <1>7, <1>11, <2>2, <2>4
<1> QED
  BY <1>3, <1>12, <1>13, <1>14

-----------------------------------------------------------------------------
(* The signals.                                                            *)

\* A signal in hand comes with its bar, unless the session is over and it is
\* an exit.
LEMMA SignalInHand ==
    ASSUME EngineInv, pc = "signals", NEW signal \in signals
    PROVE  /\ signal.sym \in Symbols /\ signal.price \in Nat /\ sessionDate # 0
           /\ signal.kind = "entry" => bar \in BarType
<1> USE DEF EngineInv
<1>1. signal.sym \in Symbols /\ signal.price \in Nat
  BY DEF TypeOK, SignalType
<1>2. CASE then # "closed"
  BY <1>1, <1>2 DEF LoopInv, BarInHand, BarType
<1>3. CASE then = "closed"
  BY <1>1, <1>3 DEF LoopInv, SessionOver, SignalInv
<1> QED
  BY <1>2, <1>3

\* The signals that are left when one is taken.
LEMMA SignalsLeft ==
    ASSUME SignalInv, signals \subseteq SignalType, NEW signal \in signals,
           signals' = signals \ {signal}
    PROVE  /\ signal.kind = "entry" => /\ Signalled("exit")' = Signalled("exit")
                                       /\ Signalled("entry")' = Signalled("entry") \ {signal.sym}
           /\ signal.kind = "exit" => /\ Signalled("entry")' = Signalled("entry")
                                      /\ Signalled("exit")' = Signalled("exit") \ {signal.sym}
           /\ \A g \in signals' : g.sym # signal.sym
<1>1. \A g \in signals' : g \in signals /\ g.sym # signal.sym
  BY DEF SignalInv
<1> QED
  BY <1>1 DEF Signalled

LEMMA HandleEntryKeeps ==
    ASSUME EngineInv, NEW signal \in signals, HandleEntry(signal)
    PROVE  EngineInv'
<1> USE DEF EngineInv
<1> DEFINE s == signal.sym
           lot == Lot(signal.price, RM!EntryQty(bar.close))
<1>1. /\ pc = "signals" /\ signal.kind = "entry" /\ signals' = signals \ {signal}
      /\ entered' = entered \union {s}
      /\ UNCHANGED <<feedVars, equity, states, pc, then, error, ranges>>
  BY DEF HandleEntry
<1>2. /\ s \in Symbols /\ signal.price \in Nat /\ sessionDate # 0 /\ bar \in BarType
      /\ bar.close \in Nat \ {0}
  BY <1>1, SignalInHand DEF BarType
<1>3. s \in Long /\ s \notin Active /\ s \notin phantomLongs
  BY <1>1 DEF SignalInv
<1>4. Long' = Long
  BY <1>1 DEF Long
<1>5. /\ Signalled("exit")' = Signalled("exit")
      /\ Signalled("entry")' = Signalled("entry") \ {s}
      /\ \A g \in signals' : g \in signals /\ g.sym # s
  BY <1>1, SignalsLeft DEF TypeOK
<1>6. signals' \subseteq SignalType /\ entered' \subseteq Symbols
  BY <1>1, <1>2 DEF TypeOK
<1>7. CASE Refused(s) /\ UNCHANGED <<riskVars, cash, active>>
  <2>1. phantomLongs' = phantomLongs \union {s} /\ Active' = Active
    BY <1>7 DEF Refused, Active
  <2>2. RM!TypeOK'
    BY <1>7, RiskTypeKept DEF TypeOK
  <2>3. TypeOK'
    BY <1>1, <1>2, <1>6, <1>7, <2>1, <2>2 DEF TypeOK, feedVars
  <2>4. SignalInv'
    BY <1>4, <1>5, <2>1 DEF SignalInv
  <2>5. SyncInv'
    BY <1>1, <1>3, <1>4, <1>5, <1>7, <2>1 DEF SyncInv, riskVars
  <2>6. LoopInv'
    BY <1>1, <1>2, <1>4, <1>7 DEF LoopInv, BarInHand, SessionOver, feedVars, riskVars
  <2> QED
    BY <2>3, <2>4, <2>5, <2>6
<1>8. CASE /\ RM!Approves(s, bar.close, Available) /\ RM!RecordEntry(s, lot.qty)
           /\ active' = [active EXCEPT ![s] = lot] /\ cash' = cash - Cost(lot)
           /\ UNCHANGED phantomLongs
  <2>1. Available \in Nat
    BY DEF Available, TypeOK
  <2>2. RM!EntryQty(bar.close) \in Nat \ {0}
    BY <1>2, <1>8, <2>1, ApprovedQty DEF TypeOK
  <2>3. lot \in LotType /\ lot.qty \in Nat \ {0} /\ Cost(lot) \in Nat
    <3>1. lot \in LotType /\ lot.qty = RM!EntryQty(bar.close)
      BY <1>2, <2>2, LotTyped
    <3> QED
      BY <2>2, <3>1 DEF LotType, Cost
  <2> HIDE DEF lot
  <2>4. /\ positions' = [positions EXCEPT ![s] = lot.qty] /\ entriesToday' = entriesToday + 1
        /\ UNCHANGED <<sessionDate, startingCapital, dailyPnl, haltLogged>>
    BY <1>8 DEF RM!RecordEntry
  <2>5. RM!TypeOK'
    <3>1. positions' \in [Symbols -> Nat]
      BY <2>3, <2>4 DEF TypeOK, RM!TypeOK
    <3>2. haltLogged' \in BOOLEAN
      BY <2>4 DEF TypeOK, RM!TypeOK
    <3> QED
      BY <2>4, <3>1, <3>2 DEF TypeOK, RM!TypeOK
  <2>6. active' \in [Symbols -> LotType]
    BY <1>2, <1>8, <2>3 DEF TypeOK
  <2>7. cash' \in Int
    BY <1>8, <2>3 DEF TypeOK
  <2>8. TypeOK'
    BY <1>1, <1>6, <1>8, <2>5, <2>6, <2>7 DEF TypeOK, feedVars
  <2>9. Active' = Active \union {s}
    BY <1>2, <1>8, <2>3 DEF Active, TypeOK
  <2>10. SignalInv'
    BY <1>4, <1>5, <1>8, <2>9 DEF SignalInv
  <2>11. \A t \in Symbols : active'[t].qty = positions'[t]
    BY <1>2, <1>8, <2>4 DEF SyncInv, TypeOK, RM!TypeOK
  <2>12. SyncInv'
    BY <1>1, <1>3, <1>4, <1>5, <1>8, <2>4, <2>9, <2>11 DEF SyncInv
  <2>13. LoopInv'
    BY <1>1, <1>2, <1>4, <2>4 DEF LoopInv, BarInHand, SessionOver, feedVars
  <2> QED
    BY <2>8, <2>10, <2>12, <2>13
<1> QED
  BY <1>7, <1>8 DEF HandleEntry

\* Every exit has its lot or its refusal, so the error is not raised.
LEMMA HandleExitKeeps ==
    ASSUME EngineInv, NEW signal \in signals, HandleExit(signal)
    PROVE  EngineInv'
<1> USE DEF EngineInv
<1> DEFINE s == signal.sym
           lot == active[s]
<1>1. /\ pc = "signals" /\ signal.kind = "exit" /\ signals' = signals \ {signal}
      /\ UNCHANGED <<feedVars, equity, states, then, ranges, entered>>
  BY DEF HandleExit
<1>2. s \in Symbols /\ signal.price \in Nat /\ sessionDate # 0
  BY <1>1, SignalInHand
<1>3. s \notin Long /\ s \in Active \union phantomLongs
  BY <1>1 DEF SignalInv
<1>4. Long' = Long
  BY <1>1 DEF Long
<1>5. /\ Signalled("entry")' = Signalled("entry")
      /\ Signalled("exit")' = Signalled("exit") \ {s}
      /\ \A g \in signals' : g \in signals /\ g.sym # s
  BY <1>1, SignalsLeft DEF TypeOK
<1>6. signals' \subseteq SignalType
  BY <1>1 DEF TypeOK
<1>7. CASE s \in phantomLongs
  <2>1. /\ phantomLongs' = phantomLongs \ {s}
        /\ UNCHANGED <<riskVars, cash, active, pc, error>>
    BY <1>7 DEF HandleExit
  <2>2. Active' = Active
    BY <2>1 DEF Active
  <2>3. RM!TypeOK'
    BY <2>1, RiskTypeKept DEF TypeOK
  <2>4. TypeOK'
    BY <1>1, <1>6, <2>1, <2>3 DEF TypeOK, feedVars
  <2>5. SignalInv'
    BY <1>4, <1>5, <2>1, <2>2 DEF SignalInv
  <2>6. s \notin Active
    BY <1>7 DEF SyncInv
  <2>7. SyncInv'
    BY <1>1, <1>3, <1>4, <1>5, <2>1, <2>2, <2>6 DEF SyncInv, riskVars
  <2>8. LoopInv'
    BY <1>1, <1>2, <1>4, <2>1 DEF LoopInv, BarInHand, SessionOver, feedVars, riskVars
  <2> QED
    BY <2>4, <2>5, <2>7, <2>8
<1>8. CASE s \notin phantomLongs
  <2>1. /\ RM!RecordExit(s, NetPnl(lot, signal.price)) /\ active' = [active EXCEPT ![s] = NoLot]
        /\ cash' = cash + Proceeds(lot, signal.price) /\ UNCHANGED <<pc, error, phantomLongs>>
    BY <1>3, <1>8 DEF HandleExit
  <2>2. lot \in LotType /\ NoLot \in LotType
    BY <1>2 DEF TypeOK, LotType, NoLot
  <2>3. Proceeds(lot, signal.price) \in Int /\ NetPnl(lot, signal.price) \in Int
    BY <1>2, <2>2, SaleTyped
  <2>4. /\ positions' = [positions EXCEPT ![s] = 0]
        /\ dailyPnl' = dailyPnl + NetPnl(lot, signal.price)
        /\ UNCHANGED <<sessionDate, startingCapital, entriesToday>>
    BY <2>1 DEF RM!RecordExit
  <2>5. RM!TypeOK'
    <3>1. positions' \in [Symbols -> Nat]
      BY <2>4 DEF TypeOK, RM!TypeOK
    <3>2. haltLogged' \in BOOLEAN
      BY <2>1 DEF RM!RecordExit
    <3>3. dailyPnl' \in Int
      BY <2>3, <2>4 DEF TypeOK, RM!TypeOK
    <3> QED
      BY <2>4, <3>1, <3>2, <3>3 DEF TypeOK, RM!TypeOK
  <2>6. active' \in [Symbols -> LotType] /\ cash' \in Int
    BY <1>2, <2>1, <2>2, <2>3 DEF TypeOK
  <2>7. TypeOK'
    BY <1>1, <1>6, <2>1, <2>5, <2>6 DEF TypeOK, feedVars
  <2>8. Active' = Active \ {s}
    BY <1>2, <2>1 DEF Active, TypeOK, NoLot
  <2>9. SignalInv'
    BY <1>4, <1>5, <2>1, <2>8 DEF SignalInv
  <2>10. \A t \in Symbols : active'[t].qty = positions'[t]
    BY <1>2, <2>1, <2>4 DEF SyncInv, TypeOK, RM!TypeOK, NoLot
  <2>11. SyncInv'
    BY <1>1, <1>3, <1>4, <1>5, <1>8, <2>1, <2>4, <2>8, <2>10 DEF SyncInv
  <2>12. LoopInv'
    BY <1>1, <1>2, <1>4, <2>1, <2>4 DEF LoopInv, BarInHand, SessionOver, feedVars
  <2> QED
    BY <2>7, <2>9, <2>11, <2>12
<1> QED
  BY <1>7, <1>8

-----------------------------------------------------------------------------
(* The theorems about the synchronisation.                                 *)

LEMMA EngineInit == Init => EngineInv
<1> SUFFICES ASSUME Init PROVE EngineInv
  OBVIOUS
<1> USE DEF Init
<1>1. RM!TypeOK
  <2>1. positions \in [Symbols -> Nat] /\ haltLogged \in BOOLEAN
    BY DEF RM!Init, RM!NoPositions
  <2> QED
    BY <2>1 DEF RM!Init, RM!TypeOK
<1>2. TypeOK
  <2>1. states \in [Symbols -> StateType] /\ active \in [Symbols -> LotType]
    BY DEF Fresh, StateType, NoLot, LotType
  <2>2. ranges \in [Symbols -> SUBSET Nat]
    OBVIOUS
  <2>3. lastBar \in [day : Nat, time : Nat]
    OBVIOUS
  <2> QED
    BY <1>1, <2>1, <2>2, <2>3, BacktestAssumption DEF TypeOK
<1>3. Long = {} /\ Active = {}
  BY DEF Long, Active, Fresh, NoLot
<1>4. sessionDate = 0 /\ \A s \in Symbols : positions[s] = 0
  BY DEF RM!Init, RM!NoPositions
<1>5. LoopInv
  BY <1>3, <1>4 DEF LoopInv
<1>6. SignalInv
  BY DEF SignalInv
<1>7. SyncInv
  BY <1>3, <1>4 DEF SyncInv, NoLot
<1> QED
  BY <1>2, <1>5, <1>6, <1>7 DEF EngineInv

LEMMA EngineStep == EngineInv /\ [Next]_vars => EngineInv'
<1> SUFFICES ASSUME EngineInv, [Next]_vars PROVE EngineInv'
  OBVIOUS
<1>1. CASE UNCHANGED vars
  <2>1. SignalInv' /\ SyncInv' /\ Long' = Long /\ Active' = Active
    BY <1>1, SyncKept DEF vars, riskVars, bookVars, EngineInv, SyncInv
  <2>2. RM!TypeOK'
    BY <1>1, RiskTypeKept DEF vars, EngineInv, TypeOK
  <2>3. TypeOK'
    BY <1>1, <2>2 DEF vars, bookVars, feedVars, EngineInv, TypeOK
  <2>4. LoopInv'
    BY <1>1, <2>1 DEF vars, riskVars, bookVars, feedVars, EngineInv, LoopInv, BarInHand,
                      SessionOver
  <2> QED
    BY <2>1, <2>3, <2>4 DEF EngineInv
<1>2. ASSUME NEW signal \in signals, HandleEntry(signal) \/ HandleExit(signal)
      PROVE  EngineInv'
  BY <1>2, HandleEntryKeeps, HandleExitKeeps
<1> QED
  BY <1>1, <1>2, NextBarKeeps, BarOutOfOrderKeeps, EndOfStreamKeeps, OpenSessionKeeps,
     OnBarKeeps, OnTimeKeeps, SignalsDoneKeeps, CloseSessionKeeps, SessionClosedKeeps DEF Next

LEMMA EngineInvariant == Spec => []EngineInv
BY EngineInit, EngineStep, PTL DEF Spec

\* The state keeps its types (BacktestEngine.run).
THEOREM BacktestTypeCorrect == Spec => []TypeOK
<1>1. EngineInv => TypeOK
  BY DEF EngineInv
<1> QED
  BY <1>1, EngineInvariant, PTL

\* What the strategy believes to be long is held or was refused
\* (engine.py:69-75).
THEOREM StrategyStaysInStep == Spec => []StrategyInStep
<1>1. EngineInv => StrategyInStep
  <2> SUFFICES ASSUME EngineInv PROVE StrategyInStep
    OBVIOUS
  <2>1. Signalled("exit") \subseteq Active \union phantomLongs
    BY DEF EngineInv, SignalInv, Signalled
  <2>2. Signalled("entry") \subseteq Long
    BY DEF EngineInv, SignalInv, Signalled
  <2>3. phantomLongs \subseteq Symbols /\ Long \subseteq Symbols
    BY DEF EngineInv, TypeOK, Long
  <2> QED
    BY <2>1, <2>2, <2>3 DEF EngineInv, SyncInv, StrategyInStep
<1> QED
  BY <1>1, EngineInvariant, PTL

\* The three errors of a lost synchronisation are never raised
\* (engine.py:482-487, :549-558).
THEOREM NeverLosesSync == Spec => []NeverOutOfSync
<1>1. EngineInv => NeverOutOfSync
  BY DEF EngineInv, SyncInv, NeverOutOfSync
<1> QED
  BY <1>1, EngineInvariant, PTL

-----------------------------------------------------------------------------
(* The account.                                                            *)

\* Two floors of parts are at most the floor of the whole.
LEMMA FloorOfParts ==
    ASSUME NEW amount \in Nat, NEW a \in Nat, NEW b \in Nat, a + b <= 100
    PROVE  Charge(amount, a) + Charge(amount, b) <= Won(amount)
<1> DEFINE x == (amount * a) \div 1000000
           y == (amount * b) \div 1000000
<1>1. amount * a \in Nat /\ amount * b \in Nat
  OBVIOUS
<1>2. amount * a + amount * b = amount * (a + b)
  OBVIOUS
<1>3. amount * (a + b) <= amount * 100
  OBVIOUS
<1>4. \A n \in Nat : (n \div 1000000) \in Nat /\ 1000000 * (n \div 1000000) <= n
  OBVIOUS
<1>5. x \in Nat /\ y \in Nat /\ 1000000 * x <= amount * a /\ 1000000 * y <= amount * b
  BY <1>1, <1>4
<1> HIDE DEF x, y
<1>6. 10000 * (x + y) <= amount
  BY <1>1, <1>2, <1>3, <1>5
<1>7. \A z \in Nat : 10000 * z <= amount => z <= amount \div 10000
  OBVIOUS
<1>8. x + y <= amount \div 10000
  BY <1>5, <1>6, <1>7
<1> QED
  BY <1>8 DEF Charge, Won, x, y

\* With rates of at most the whole amount no sale costs more than it brings,
\* and a purchase is only made of what there is: the account never is in debt.
THEOREM NeverInDebt ==
    ASSUME Commission + SellTax <= 100
    PROVE  Spec => []NoDebt
<1>1. Init => NoDebt
  BY BacktestAssumption DEF Init, NoDebt
<1>2. EngineInv /\ NoDebt /\ [Next]_vars => NoDebt'
  <2> SUFFICES ASSUME EngineInv, NoDebt, [Next]_vars PROVE NoDebt'
    OBVIOUS
  <2>1. ASSUME NEW signal \in signals, HandleEntry(signal)
        PROVE  NoDebt'
    <3> DEFINE lot == Lot(signal.price, RM!EntryQty(bar.close))
    <3>1. CASE UNCHANGED cash
      BY <3>1 DEF NoDebt
    <3>2. CASE RM!Approves(signal.sym, bar.close, Available) /\ Affordable(lot)
               /\ cash' = cash - Cost(lot)
      <4>1. pc = "signals" /\ signal.kind = "entry"
        BY <2>1 DEF HandleEntry
      <4>2. signal.sym \in Symbols /\ signal.price \in Nat /\ bar.close \in Nat \ {0}
        BY <4>1, SignalInHand DEF BarType
      <4>3. Available \in Nat
        BY DEF EngineInv, TypeOK, Available
      <4>4. RM!EntryQty(bar.close) \in Nat
        BY <3>2, <4>2, <4>3, ApprovedQty DEF EngineInv, TypeOK
      <4>5. lot \in LotType
        BY <4>2, <4>4, LotTyped
      <4> HIDE DEF lot
      <4>6. Cost(lot) \in Nat
        BY <4>5 DEF Cost, LotType
      <4> QED
        BY <3>2, <4>6 DEF Affordable, NoDebt, EngineInv, TypeOK
    <3> QED
      BY <2>1, <3>1, <3>2 DEF HandleEntry
  <2>2. ASSUME NEW signal \in signals, HandleExit(signal)
        PROVE  NoDebt'
    <3> DEFINE lot == active[signal.sym]
    <3>1. CASE UNCHANGED cash
      BY <3>1 DEF NoDebt
    <3>2. CASE cash' = cash + Proceeds(lot, signal.price)
      <4>1. pc = "signals"
        BY <2>2 DEF HandleExit
      <4>2. lot \in LotType /\ signal.price \in Nat
        BY <4>1, SignalInHand DEF EngineInv, TypeOK
      <4> HIDE DEF lot
      <4>3. lot.qty * SellFillPrice(signal.price) \in Nat
        BY <4>2, SaleTyped
      <4>4. Charge(lot.qty * SellFillPrice(signal.price), Commission)
              + Charge(lot.qty * SellFillPrice(signal.price), SellTax)
            <= Won(lot.qty * SellFillPrice(signal.price))
        BY <4>3, FloorOfParts, BacktestAssumption
      <4>5. /\ Won(lot.qty * SellFillPrice(signal.price)) \in Nat
            /\ Charge(lot.qty * SellFillPrice(signal.price), Commission) \in Nat
            /\ Charge(lot.qty * SellFillPrice(signal.price), SellTax) \in Nat
        BY <4>3, AmountType, BacktestAssumption
      <4>6. Proceeds(lot, signal.price) >= 0 /\ Proceeds(lot, signal.price) \in Int
        BY <4>4, <4>5 DEF Proceeds
      <4> QED
        BY <3>2, <4>6 DEF NoDebt, EngineInv, TypeOK
    <3> QED
      BY <2>2, <3>1, <3>2 DEF HandleExit
  <2>3. CASE UNCHANGED cash
    BY <2>3 DEF NoDebt
  <2>4. CASE \/ NextBar \/ BarOutOfOrder \/ EndOfStream \/ OpenSession \/ OnBar \/ OnTime
             \/ SignalsDone \/ CloseSession \/ SessionClosed \/ UNCHANGED vars
    BY <2>3, <2>4 DEF NextBar, BarOutOfOrder, EndOfStream, OpenSession, OnBar, OnTime,
                      SignalsDone, CloseSession, SessionClosed, bookVars, vars
  <2> QED
    BY <2>1, <2>2, <2>4 DEF Next
<1> QED
  BY <1>1, <1>2, EngineInvariant, PTL DEF Spec

-----------------------------------------------------------------------------
(* Sums.  MoneyAddsUp folds the addition over the lots; what a sum does    *)
(* when one lot changes is proved by descent to a smallest part of the     *)
(* symbols for which it would be wrong.                                    *)

\* The element a fold takes next.
Chosen(T) == CHOOSE x \in T : TRUE

\* g holds the sum of f over every part of its domain, as a fold computes it.
SumsOf(f, g) ==
    g = [T \in SUBSET DOMAIN f |-> IF T = {} THEN 0 ELSE f[Chosen(T)] + g[T \ {Chosen(T)}]]

PartSums(f) == CHOOSE g : SumsOf(f, g)

\* Among the parts of a finite set one has no smaller one.
LEMMA SmallestPart ==
    ASSUME NEW D, IsFiniteSet(D), NEW B \in SUBSET SUBSET D, B # {}
    PROVE  \E T \in B : \A S \in B : ~(S \subseteq T /\ S # T)
<1>1. IsWellFoundedOn(StrictSubsetOrdering(D), SUBSET D)
  BY FS_StrictSubsetOrderingWellFounded, FS_FiniteSubsetsOfFinite
<1>2. PICK T \in B : \A S \in B : ~(<<S, T>> \in StrictSubsetOrdering(D))
  BY <1>1, WFMin
<1> QED
  BY <1>2 DEF StrictSubsetOrdering

\* The sums exist.
LEMMA SumsExist ==
    ASSUME NEW D, IsFiniteSet(D), NEW f \in [D -> Int]
    PROVE  SumsOf(f, PartSums(f))
<1> DEFINE Step(g, T) == IF T = {} THEN 0 ELSE f[Chosen(T)] + g[T \ {Chosen(T)}]
           UpTo(n) == \E g \in [SUBSET D -> Int] :
                        \A T \in SUBSET D : Cardinality(T) <= n => g[T] = Step(g, T)
           Bad == {n \in Nat : ~UpTo(n)}
           Less == OpToRel(<, Nat)
<1>0. \A T \in SUBSET D : /\ IsFiniteSet(T) /\ Cardinality(T) \in Nat
                          /\ T # {} => /\ Chosen(T) \in T
                                       /\ T \ {Chosen(T)} \in SUBSET D
                                       /\ Cardinality(T \ {Chosen(T)}) = Cardinality(T) - 1
  <2> SUFFICES ASSUME NEW T \in SUBSET D
               PROVE  /\ IsFiniteSet(T) /\ Cardinality(T) \in Nat
                      /\ T # {} => /\ Chosen(T) \in T
                                   /\ T \ {Chosen(T)} \in SUBSET D
                                   /\ Cardinality(T \ {Chosen(T)}) = Cardinality(T) - 1
    OBVIOUS
  <2>1. IsFiniteSet(T) /\ Cardinality(T) \in Nat
    BY FS_Subset, FS_CardinalityType
  <2>2. T # {} => Chosen(T) \in T
    BY DEF Chosen
  <2> QED
    BY <2>1, <2>2, FS_RemoveElement
<1>1. UpTo(0)
  <2>1. [T \in SUBSET D |-> 0] \in [SUBSET D -> Int]
    OBVIOUS
  <2>2. ASSUME NEW T \in SUBSET D, Cardinality(T) <= 0 PROVE T = {}
    <3>1. IsFiniteSet(T) /\ Cardinality(T) \in Nat
      BY <1>0
    <3>2. Cardinality(T) = 0
      BY <2>2, <3>1
    <3> QED
      BY <3>1, <3>2, FS_EmptySet
  <2> QED
    BY <2>1, <2>2
<1>2. \A n \in Nat : UpTo(n) => UpTo(n + 1)
  <2> SUFFICES ASSUME NEW n \in Nat, UpTo(n) PROVE UpTo(n + 1)
    OBVIOUS
  <2>1. PICK g \in [SUBSET D -> Int] :
               \A T \in SUBSET D : Cardinality(T) <= n => g[T] = Step(g, T)
    OBVIOUS
  <2> DEFINE h == [T \in SUBSET D |-> Step(g, T)]
  <2>2. h \in [SUBSET D -> Int]
    <3>1. ASSUME NEW T \in SUBSET D PROVE Step(g, T) \in Int
      <4>1. CASE T = {}
        BY <4>1
      <4>2. CASE T # {}
        <5>1. Chosen(T) \in D /\ T \ {Chosen(T)} \in SUBSET D
          BY <1>0, <4>2
        <5>2. f[Chosen(T)] \in Int /\ g[T \ {Chosen(T)}] \in Int
          BY <5>1
        <5> QED
          BY <4>2, <5>2
      <4> QED
        BY <4>1, <4>2
    <3> QED
      BY <3>1
  <2>3. \A T \in SUBSET D : Cardinality(T) <= n => h[T] = g[T]
    BY <2>1
  <2>4. \A T \in SUBSET D : Cardinality(T) <= n + 1 => h[T] = Step(h, T)
    <3> SUFFICES ASSUME NEW T \in SUBSET D, Cardinality(T) <= n + 1, T # {}
                 PROVE  h[T] = Step(h, T)
      OBVIOUS
    <3>1. Cardinality(T \ {Chosen(T)}) <= n /\ T \ {Chosen(T)} \in SUBSET D
      BY <1>0
    <3> QED
      BY <2>3, <3>1
  <2> HIDE DEF h
  <2> QED
    BY <2>2, <2>4
<1> HIDE DEF UpTo
<1>3. Bad = {}
  <2> SUFFICES ASSUME Bad # {} PROVE FALSE
    OBVIOUS
  <2>1. IsWellFoundedOn(Less, Nat) /\ Bad \subseteq Nat
    BY NatLessThanWellFounded
  <2>2. \A i, j \in Nat : i < j => <<i, j>> \in Less
    BY DEF OpToRel
  <2> HIDE DEF Less, Bad
  <2>3. PICK n \in Bad : \A m \in Bad : ~(<<m, n>> \in Less)
    BY <2>1, WFMin
  <2>4. n \in Nat /\ n # 0 /\ ~UpTo(n)
    BY <1>1, <2>1, <2>3 DEF Bad
  <2>5. n - 1 \in Nat /\ n - 1 < n /\ (n - 1) + 1 = n
    BY <2>4
  <2>6. UpTo(n - 1)
    BY <2>2, <2>3, <2>4, <2>5 DEF Bad
  <2> QED
    BY <1>2, <2>4, <2>5, <2>6
<1>4. UpTo(Cardinality(D))
  BY <1>0, <1>3
<1>5. PICK g \in [SUBSET D -> Int] :
             \A T \in SUBSET D : Cardinality(T) <= Cardinality(D) => g[T] = Step(g, T)
  BY <1>4 DEF UpTo
<1>6. \A T \in SUBSET D : g[T] = Step(g, T)
  BY <1>5, FS_Subset
<1>7. g = [T \in SUBSET D |-> Step(g, T)]
  BY <1>6
<1>8. SumsOf(f, g)
  BY <1>7 DEF SumsOf
<1> QED
  BY <1>8 DEF PartSums

\* The fold of the functions module is the last of these sums.
LEMMA FoldIsSum ==
    ASSUME NEW f
    PROVE  FoldFunction(LAMBDA x, y : x + y, 0, f) = PartSums(f)[DOMAIN f]
BY Zenon DEF FoldFunction, FoldFunctionOnSet, MapThenFoldSet, PartSums, SumsOf, Chosen

\* The equation of the sums, at a part of the domain.
SumsUp(f, D, p) ==
    \A T \in SUBSET D :
       /\ T = {} => p[T] = 0
       /\ T # {} => Chosen(T) \in T /\ p[T] = f[Chosen(T)] + p[T \ {Chosen(T)}]

LEMMA PartsSumUp ==
    ASSUME NEW D, IsFiniteSet(D), NEW f \in [D -> Int]
    PROVE  SumsUp(f, D, PartSums(f))
<1>1. SumsOf(f, PartSums(f))
  BY SumsExist
<1> HIDE DEF PartSums
<1>2. \A T \in SUBSET D : T # {} => Chosen(T) \in T
  BY DEF Chosen
<1> QED
  BY <1>1, <1>2 DEF SumsOf, SumsUp

\* Two functions that differ at one place have sums that differ by as much.
AgreeBut(f, g, D, x) == \A y \in D \ {x} : f[y] = g[y]

LEMMA SumsDiffer ==
    ASSUME NEW D, IsFiniteSet(D), NEW f \in [D -> Int], NEW g \in [D -> Int], NEW x \in D,
           AgreeBut(f, g, D, x)
    PROVE  PartSums(f)[D] \in Int /\ PartSums(g)[D] = PartSums(f)[D] + g[x] - f[x]
<1> DEFINE p == PartSums(f)
           q == PartSums(g)
<1>0. SumsUp(f, D, p) /\ SumsUp(g, D, q)
  BY PartsSumUp
<1> HIDE DEF p, q
<1> DEFINE Good(S) == /\ p[S] \in Int /\ q[S] \in Int
                      /\ q[S] = IF x \in S THEN p[S] + g[x] - f[x] ELSE p[S]
           Bad == {S \in SUBSET D : ~Good(S)}
<1>1. Bad \in SUBSET SUBSET D
  OBVIOUS
<1>2. ASSUME Bad # {} PROVE FALSE
  <2> HIDE DEF Bad
  <2>1. PICK S \in Bad : \A R \in Bad : ~(R \subseteq S /\ R # S)
    BY <1>1, <1>2, SmallestPart
  <2> HIDE DEF Good
  <2>2. S \in SUBSET D /\ ~Good(S) /\ \A R \in SUBSET D : R \subseteq S /\ R # S => Good(R)
    BY <2>1 DEF Bad
  <2>3. CASE S = {}
    <3>1. p[S] = 0 /\ q[S] = 0
      BY <1>0, <2>2, <2>3 DEF SumsUp
    <3> QED
      BY <2>2, <2>3, <3>1 DEF Good
  <2>4. CASE S # {}
    <3> DEFINE c == Chosen(S)
               R == S \ {c}
    <3>1. c \in S /\ p[S] = f[c] + p[R] /\ q[S] = g[c] + q[R]
      BY <1>0, <2>2, <2>4 DEF SumsUp
    <3>2. R \in SUBSET D /\ R \subseteq S /\ R # S
      BY <2>2, <3>1
    <3> HIDE DEF c
    <3>3. Good(R)
      BY <2>2, <3>2
    <3>4. /\ c \in D /\ f[c] \in Int /\ g[c] \in Int /\ f[x] \in Int /\ g[x] \in Int
          /\ c # x => f[c] = g[c] /\ (x \in S <=> x \in R)
          /\ c = x => x \in S /\ x \notin R
      BY <2>2, <3>1 DEF AgreeBut
    <3> HIDE DEF R
    <3>5. Good(S)
      BY <3>1, <3>3, <3>4 DEF Good
    <3> QED
      BY <2>2, <3>5
  <2> QED
    BY <2>3, <2>4
<1>3. D \in SUBSET D /\ (D \notin Bad => Good(D))
  OBVIOUS
<1>4. Good(D)
  BY <1>2, <1>3
<1> QED
  BY <1>4 DEF p, q

\* Nothing but zeros sums up to zero.
LEMMA ZerosSumUp ==
    ASSUME NEW D, NEW f, \A x \in D : f[x] = 0, IsFiniteSet(D),
           NEW p, SumsUp(f, D, p), NEW T \in SUBSET D
    PROVE  p[T] = 0
<1> DEFINE Bad == {S \in SUBSET D : p[S] # 0}
<1>1. Bad \in SUBSET SUBSET D
  OBVIOUS
<1>2. ASSUME Bad # {} PROVE FALSE
  <2> HIDE DEF Bad
  <2>1. PICK S \in Bad : \A R \in Bad : ~(R \subseteq S /\ R # S)
    BY <1>1, <1>2, SmallestPart
  <2>2. S # {} /\ S \in SUBSET D /\ p[S] # 0
    BY <2>1 DEF SumsUp, Bad
  <2>3. Chosen(S) \in S /\ p[S] = f[Chosen(S)] + p[S \ {Chosen(S)}]
    BY <2>2 DEF SumsUp
  <2>4. f[Chosen(S)] = 0 /\ p[S \ {Chosen(S)}] = 0
    BY <2>1, <2>2, <2>3 DEF Bad
  <2> QED
    BY <2>2, <2>3, <2>4
<1> QED
  BY <1>2

-----------------------------------------------------------------------------
(* The books.                                                              *)

LotCosts == [s \in Symbols |-> Cost(active[s])]

\* No lot costs nothing.
EmptyLots == \A s \in Symbols : active[s].qty = 0 => Cost(active[s]) = 0

BooksInv == EngineInv /\ EmptyLots /\ MoneyAddsUp

LEMMA CostTyped ==
    ASSUME TypeOK
    PROVE  LotCosts \in [Symbols -> Int]
<1>1. \A s \in Symbols : active[s] \in LotType
  BY DEF TypeOK
<1> QED
  BY <1>1 DEF LotCosts, Cost, LotType

\* MoneyAddsUp with the sum in place of the fold, before and after a step.
LEMMA BooksAsSumNow ==
    MoneyAddsUp <=> (sessionDate # 0 =>
                       cash + PartSums(LotCosts)[Symbols] = startingCapital + dailyPnl)
<1>1. DOMAIN LotCosts = Symbols
  BY DEF LotCosts
<1>2. FoldFunction(LAMBDA x, y : x + y, 0, LotCosts) = PartSums(LotCosts)[Symbols]
  BY <1>1, FoldIsSum
<1> QED
  BY <1>2 DEF MoneyAddsUp, LotCosts

LEMMA BooksAsSum ==
    /\ MoneyAddsUp <=> (sessionDate # 0 =>
                          cash + PartSums(LotCosts)[Symbols] = startingCapital + dailyPnl)
    /\ MoneyAddsUp' <=> (sessionDate' # 0 =>
                          cash' + PartSums(LotCosts')[Symbols] = startingCapital' + dailyPnl')
<1>1. (MoneyAddsUp <=> (sessionDate # 0 =>
         cash + PartSums(LotCosts)[Symbols] = startingCapital + dailyPnl))'
  BY BooksAsSumNow, PTL
<1>2. PartSums(LotCosts)' = PartSums(LotCosts')
  BY DEF PartSums, SumsOf, Chosen
<1> QED
  BY <1>1, <1>2, BooksAsSumNow

LEMMA BooksKept ==
    ASSUME EmptyLots, MoneyAddsUp, UNCHANGED <<riskVars, cash, active>>
    PROVE  EmptyLots' /\ MoneyAddsUp'
<1>1. LotCosts' = LotCosts /\ EmptyLots'
  BY DEF LotCosts, EmptyLots, Cost
<1> QED
  BY <1>1, BooksAsSum DEF riskVars

\* One lot changes, and the sum by the difference of its costs.
LEMMA OneLotChanges ==
    ASSUME TypeOK, NEW s \in Symbols, NEW lot \in LotType, active' = [active EXCEPT ![s] = lot]
    PROVE  /\ PartSums(LotCosts)[Symbols] \in Int
           /\ PartSums(LotCosts')[Symbols]
                = PartSums(LotCosts)[Symbols] + Cost(lot) - Cost(active[s])
<1> DEFINE f == LotCosts
           g == LotCosts'
<1>1. f \in [Symbols -> Int]
  BY CostTyped
<1>2. active' \in [Symbols -> LotType] /\ active'[s] = lot
      /\ \A t \in Symbols \ {s} : active'[t] = active[t]
  BY DEF TypeOK
<1>3. g \in [Symbols -> Int]
  BY <1>2 DEF LotCosts, Cost, LotType
<1>4. f[s] = Cost(active[s]) /\ g[s] = Cost(lot) /\ \A t \in Symbols \ {s} : f[t] = g[t]
  BY <1>2 DEF LotCosts, Cost
<1> HIDE DEF f, g
<1>5. AgreeBut(f, g, Symbols, s)
  BY <1>4 DEF AgreeBut
<1>6. IsFiniteSet(Symbols)
  BY BacktestAssumption
<1>7. /\ PartSums(f)[Symbols] \in Int
      /\ PartSums(g)[Symbols] = PartSums(f)[Symbols] + g[s] - f[s]
  BY <1>1, <1>3, <1>5, <1>6, SumsDiffer
<1> QED
  BY <1>4, <1>7 DEF f, g

LEMMA BooksInit == Init => BooksInv
<1> SUFFICES ASSUME Init PROVE BooksInv
  OBVIOUS
<1>1. MoneyAddsUp
  BY DEF Init, RM!Init, MoneyAddsUp
<1>2. EmptyLots
  BY DEF Init, EmptyLots, NoLot, Cost
<1> QED
  BY <1>1, <1>2, EngineInit DEF BooksInv

LEMMA HandleEntryBooks ==
    ASSUME BooksInv, NEW signal \in signals, HandleEntry(signal), TypeOK'
    PROVE  EmptyLots' /\ MoneyAddsUp'
<1> USE DEF BooksInv, EngineInv
<1> DEFINE s == signal.sym
           lot == Lot(signal.price, RM!EntryQty(bar.close))
<1>1. CASE UNCHANGED <<riskVars, cash, active>>
  BY <1>1, BooksKept
<1>2. CASE /\ RM!Approves(s, bar.close, Available) /\ RM!RecordEntry(s, lot.qty)
           /\ active' = [active EXCEPT ![s] = lot] /\ cash' = cash - Cost(lot)
  <2>1. s \in Symbols /\ signal.price \in Nat /\ bar.close \in Nat \ {0}
    BY SignalInHand DEF HandleEntry, BarType
  <2>2. Available \in Nat
    BY DEF TypeOK, Available
  <2>3. RM!EntryQty(bar.close) \in Nat \ {0}
    BY <1>2, <2>1, <2>2, ApprovedQty DEF TypeOK
  <2>4. lot \in LotType /\ lot.qty = RM!EntryQty(bar.close)
    BY <2>1, <2>3, LotTyped
  <2>5. signal.kind = "entry" /\ s \notin Active
    BY DEF HandleEntry, SignalInv
  <2>6. Cost(active[s]) = 0
    BY <2>1, <2>5 DEF Active, EmptyLots, TypeOK, LotType
  <2> HIDE DEF lot
  <2>7. EmptyLots'
    <3>1. active'[s] = lot /\ \A t \in Symbols \ {s} : active'[t] = active[t]
      BY <1>2, <2>1 DEF TypeOK
    <3> QED
      BY <2>3, <2>4, <3>1 DEF EmptyLots, Cost
  <2>8. /\ PartSums(LotCosts)[Symbols] \in Int /\ Cost(lot) \in Int
        /\ PartSums(LotCosts')[Symbols] = PartSums(LotCosts)[Symbols] + Cost(lot)
    <3>1. Cost(lot) \in Int
      BY <2>4 DEF Cost, LotType
    <3>2. active' = [active EXCEPT ![s] = lot]
      BY <1>2
    <3>3. /\ PartSums(LotCosts)[Symbols] \in Int
          /\ PartSums(LotCosts')[Symbols] = PartSums(LotCosts)[Symbols] + Cost(lot) - Cost(active[s])
      BY <2>1, <2>4, <3>2, OneLotChanges
    <3> QED
      BY <2>6, <3>1, <3>3
  <2>9. sessionDate # 0 /\ UNCHANGED <<sessionDate, startingCapital, dailyPnl>>
    BY <1>2 DEF RM!RecordEntry
  <2>10. cash + PartSums(LotCosts)[Symbols] = startingCapital + dailyPnl
    BY <2>9, BooksAsSum
  <2>11. cash' + PartSums(LotCosts')[Symbols] = startingCapital' + dailyPnl'
    BY <1>2, <2>8, <2>9, <2>10 DEF TypeOK
  <2>12. MoneyAddsUp'
    BY <2>11, BooksAsSum
  <2> QED
    BY <2>7, <2>12
<1> QED
  BY <1>1, <1>2 DEF HandleEntry

LEMMA HandleExitBooks ==
    ASSUME BooksInv, NEW signal \in signals, HandleExit(signal), TypeOK'
    PROVE  EmptyLots' /\ MoneyAddsUp'
<1> USE DEF BooksInv, EngineInv
<1> DEFINE s == signal.sym
           lot == active[s]
<1>1. CASE UNCHANGED <<riskVars, cash, active>>
  BY <1>1, BooksKept
<1>2. CASE /\ RM!RecordExit(s, NetPnl(lot, signal.price))
           /\ active' = [active EXCEPT ![s] = NoLot]
           /\ cash' = cash + Proceeds(lot, signal.price)
  <2>1. s \in Symbols /\ signal.price \in Nat
    BY SignalInHand DEF HandleExit
  <2>2. lot \in LotType
    BY <2>1 DEF TypeOK
  <2>3. NoLot \in LotType /\ Cost(NoLot) = 0
    BY DEF NoLot, LotType, Cost
  <2>4. Proceeds(lot, signal.price) \in Int
    BY <2>1, <2>2, SaleTyped
  <2>5. EmptyLots'
    <3>1. active'[s] = NoLot /\ \A t \in Symbols \ {s} : active'[t] = active[t]
      BY <1>2, <2>1 DEF TypeOK
    <3> QED
      BY <2>3, <3>1 DEF EmptyLots, Cost
  <2>6. /\ PartSums(LotCosts)[Symbols] \in Int /\ Cost(lot) \in Int
        /\ PartSums(LotCosts')[Symbols] = PartSums(LotCosts)[Symbols] + Cost(NoLot) - Cost(lot)
    <3>1. Cost(lot) \in Int
      BY <2>2 DEF Cost, LotType
    <3> QED
      BY <1>2, <2>1, <2>3, <3>1, OneLotChanges
  <2>7. /\ sessionDate # 0 /\ UNCHANGED <<sessionDate, startingCapital>>
        /\ dailyPnl' = dailyPnl + (Proceeds(lot, signal.price) - Cost(lot))
    BY <1>2 DEF RM!RecordExit, NetPnl
  <2>8. cash + PartSums(LotCosts)[Symbols] = startingCapital + dailyPnl
    BY <2>7, BooksAsSum
  <2> HIDE DEF lot
  <2>9. cash' + PartSums(LotCosts')[Symbols] = startingCapital' + dailyPnl'
    BY <1>2, <2>3, <2>4, <2>6, <2>7, <2>8 DEF TypeOK, RM!TypeOK
  <2>10. MoneyAddsUp'
    BY <2>9, BooksAsSum
  <2> QED
    BY <2>5, <2>10
<1> QED
  BY <1>1, <1>2 DEF HandleExit

LEMMA OpenSessionBooks ==
    ASSUME BooksInv, OpenSession
    PROVE  EmptyLots' /\ MoneyAddsUp'
<1> USE DEF BooksInv, EngineInv
<1>1. active' = active /\ cash' = cash
  BY DEF OpenSession, bookVars
<1>2. EmptyLots' /\ LotCosts' = LotCosts
  BY <1>1 DEF EmptyLots, LotCosts, Cost
<1>3. CASE UNCHANGED riskVars
  BY <1>1, <1>3, BooksKept
<1>4. CASE RM!StartSession(bar.day, cash)
  <2>1. \A s \in Symbols : active[s].qty = 0
    BY DEF OpenSession, LoopInv, Active, TypeOK, LotType
  <2>2. LotCosts \in [Symbols -> Int] /\ \A s \in Symbols : LotCosts[s] = 0
    BY <2>1, CostTyped DEF EmptyLots, LotCosts
  <2>3. SumsUp(LotCosts, Symbols, PartSums(LotCosts))
    BY <2>2, PartsSumUp, BacktestAssumption
  <2>4. PartSums(LotCosts)[Symbols] = 0
    BY <2>2, <2>3, ZerosSumUp, BacktestAssumption
  <2>6. startingCapital' = cash /\ dailyPnl' = 0 /\ cash \in Int
    BY <1>4 DEF RM!StartSession, TypeOK
  <2>7. cash' + PartSums(LotCosts')[Symbols] = startingCapital' + dailyPnl'
    BY <1>1, <1>2, <2>4, <2>6
  <2>8. MoneyAddsUp'
    BY <2>7, BooksAsSum
  <2> QED
    BY <1>2, <2>8
<1> QED
  BY <1>3, <1>4 DEF OpenSession

LEMMA BooksStep == BooksInv /\ [Next]_vars => BooksInv'
<1> SUFFICES ASSUME BooksInv, [Next]_vars PROVE BooksInv'
  OBVIOUS
<1>1. EngineInv' /\ TypeOK'
  BY EngineStep DEF BooksInv, EngineInv
<1>2. CASE OpenSession
  BY <1>1, <1>2, OpenSessionBooks DEF BooksInv
<1>3. ASSUME NEW signal \in signals, HandleEntry(signal)
      PROVE  BooksInv'
  BY <1>1, <1>3, HandleEntryBooks DEF BooksInv
<1>4. ASSUME NEW signal \in signals, HandleExit(signal)
      PROVE  BooksInv'
  BY <1>1, <1>4, HandleExitBooks DEF BooksInv
<1>5. CASE \/ NextBar \/ BarOutOfOrder \/ EndOfStream \/ OnBar \/ OnTime
           \/ SignalsDone \/ CloseSession \/ SessionClosed \/ UNCHANGED vars
  <2>1. UNCHANGED <<riskVars, cash, active>>
    BY <1>5 DEF NextBar, BarOutOfOrder, EndOfStream, OnBar, OnTime, SignalsDone,
                CloseSession, SessionClosed, bookVars, vars
  <2> QED
    BY <1>1, <2>1, BooksKept DEF BooksInv
<1> QED
  BY <1>2, <1>3, <1>4, <1>5 DEF Next

\* The profit the RiskManager halts on is that of the account, after every
\* purchase and sale with its slippage, commission and tax (engine.py:411-461):
\* for any universe, not only the two symbols of the run.
THEOREM EngineMoneyAddsUp == Spec => []MoneyAddsUp
<1>1. BooksInv => MoneyAddsUp
  BY ZenonT(40) DEF BooksInv
<1> QED
  BY <1>1, BooksInit, BooksStep, PTL DEF Spec

-----------------------------------------------------------------------------
(* The day.                                                                *)

\* The bar's own symbol is the only one whose state and range a bar changes,
\* and an entry is a close above a range of this very day.
LEMMA OnBarDay ==
    ASSUME DayInv, OnBar
    PROVE  /\ RangeInv' /\ EnteredInv'
           /\ \A g \in signals' :
                g.kind = "entry" => /\ g.sym \notin entered'
                                    /\ ranges'[g.sym] # {}
                                    /\ \A high \in ranges'[g.sym] : g.price > 100 * high
<1> USE DEF DayInv, EngineInv
<1> DEFINE s == bar.sym
           old == IF states[s].date = bar.day THEN states[s] ELSE Reset(states[s], bar.day)
           state == [old EXCEPT !.close = bar.close]
<1>1. /\ bar \in BarType /\ bar.day = sessionDate /\ s \in Symbols /\ bar.high \in Nat \ {0}
      /\ bar.close \in Nat /\ bar.day \in Nat /\ states[s] \in StateType
      /\ ranges[s] \subseteq Nat
  BY DEF OnBar, LoopInv, BarInHand, BarType, TypeOK
<1>2. /\ sessionDate' = sessionDate /\ entered' = entered
      /\ ranges' = IF InRange THEN [ranges EXCEPT ![s] = @ \union {bar.high}] ELSE ranges
  BY DEF OnBar, riskVars
<1>3. /\ old \in StateType /\ old.date = sessionDate
      /\ old.high = 0 <=> ranges[s] = {}
      /\ \A high \in ranges[s] : high <= old.high
      /\ s \in entered => old.phase # "flat"
  <2>1. CASE states[s].date = bar.day
    BY <1>1, <2>1 DEF RangeInv, EnteredInv
  <2>2. CASE states[s].date # bar.day
    BY <1>1, <2>2 DEF RangeInv, EnteredInv, Reset, StateType
  <2> QED
    BY <2>1, <2>2
<1>4. /\ state \in StateType /\ state.date = old.date /\ state.high = old.high
      /\ state.phase = old.phase
  BY <1>1, <1>3 DEF StateType
<1> HIDE DEF old, state
<1>5. \A next \in StateType :
        /\ states' = [states EXCEPT ![s] = next]
        /\ next.date = sessionDate
        /\ s \in entered => next.phase # "flat"
        /\ next.high = 0 <=> ranges'[s] = {}
        /\ \A high \in ranges'[s] : high <= next.high
        => RangeInv' /\ EnteredInv'
  <2> SUFFICES ASSUME NEW next \in StateType,
                      states' = [states EXCEPT ![s] = next], next.date = sessionDate,
                      s \in entered => next.phase # "flat",
                      next.high = 0 <=> ranges'[s] = {},
                      \A high \in ranges'[s] : high <= next.high
               PROVE  RangeInv' /\ EnteredInv'
    OBVIOUS
  <2>1. \A t \in Symbols \ {s} : states'[t] = states[t] /\ ranges'[t] = ranges[t]
    BY <1>1, <1>2 DEF TypeOK
  <2>2. states'[s] = next
    BY <1>1 DEF TypeOK
  <2>3. sessionDate \in Nat
    BY <1>1
  <2>4. RangeInv'
    BY <1>2, <2>1, <2>2, <2>3 DEF RangeInv
  <2>5. EnteredInv'
    BY <1>2, <2>1, <2>2 DEF EnteredInv, TypeOK
  <2> QED
    BY <2>4, <2>5
<1>6. CASE /\ InRange
           /\ states' = [states EXCEPT ![s] =
                           [state EXCEPT !.high = IF @ >= bar.high THEN @ ELSE bar.high]]
           /\ signals' = {}
  <2> DEFINE next == [state EXCEPT !.high = IF @ >= bar.high THEN @ ELSE bar.high]
  <2>1. /\ next \in StateType /\ next.date = sessionDate /\ next.phase = old.phase
        /\ next.high = IF old.high >= bar.high THEN old.high ELSE bar.high
    BY <1>1, <1>3, <1>4 DEF StateType
  <2>2. ranges'[s] = ranges[s] \union {bar.high}
    BY <1>1, <1>2, <1>6 DEF TypeOK
  <2>3. next.high # 0 /\ \A high \in ranges'[s] : high <= next.high
    BY <1>1, <1>3, <2>1, <2>2 DEF StateType
  <2>4. states' = [states EXCEPT ![s] = next]
    BY <1>6
  <2> HIDE DEF next
  <2> QED
    BY <1>3, <1>5, <1>6, <2>1, <2>2, <2>3, <2>4
<1>7. CASE /\ BreaksOut(state)
           /\ states' = [states EXCEPT ![s] = EnterLong(state)]
           /\ signals' = {Entry(s, 100 * bar.close)}
  <2>1. bar.close * (100 - StopPct) \in Nat /\ bar.close * (100 + TakePct) \in Nat
    BY <1>1, BacktestAssumption
  <2>2. /\ EnterLong(state) \in StateType /\ EnterLong(state).date = state.date
        /\ EnterLong(state).high = state.high /\ EnterLong(state).phase = "long"
    BY <1>4, <2>1 DEF EnterLong, StateType
  <2>3. ranges' = ranges
    BY <1>1, <1>2, <1>7, BacktestAssumption DEF BreaksOut, InRange, BarType
  <2>4. RangeInv' /\ EnteredInv'
    BY <1>3, <1>4, <1>5, <1>7, <2>2, <2>3
  <2>5. s \notin entered /\ ranges[s] # {}
    BY <1>3, <1>4, <1>7 DEF BreaksOut
  <2>6. \A high \in ranges[s] : 100 * bar.close > 100 * high
    BY <1>1, <1>3, <1>4, <1>7 DEF BreaksOut, StateType
  <2>7. \A g \in signals' : g.sym = s /\ g.price = 100 * bar.close
    BY <1>7 DEF Entry
  <2> QED
    BY <1>2, <2>3, <2>4, <2>5, <2>6, <2>7
<1>8. CASE /\ HitsStop(state) \/ HitsTake(state)
           /\ states' = [states EXCEPT ![s] = Leave(state)]
           /\ signals' = {Exit(s, state.stop)} \/ signals' = {Exit(s, state.take)}
  <2>1. /\ Leave(state) \in StateType /\ Leave(state).date = state.date
        /\ Leave(state).high = state.high /\ Leave(state).phase = "closed"
    BY <1>4 DEF Leave, StateType
  <2>2. ranges' = ranges
    BY <1>1, <1>2, <1>8, BacktestAssumption DEF HitsStop, HitsTake, InRange, BarType
  <2>3. RangeInv' /\ EnteredInv'
    BY <1>3, <1>4, <1>5, <1>8, <2>1, <2>2
  <2>4. \A g \in signals' : g.kind = "exit"
    BY <1>8 DEF Exit
  <2> QED
    BY <2>3, <2>4
<1>9. CASE ~InRange /\ states' = [states EXCEPT ![s] = state] /\ signals' = {}
  <2>1. ranges' = ranges
    BY <1>2, <1>9
  <2> QED
    BY <1>3, <1>4, <1>5, <1>9, <2>1
<1> QED
  BY <1>6, <1>7, <1>8, <1>9 DEF OnBar, old, state

\* A forced close changes phases only, and enters nothing.
LEMMA ForceCloseDay ==
    ASSUME DayInv, NEW now \in Nat, ForceClose(now),
           UNCHANGED <<sessionDate, ranges, entered>>
    PROVE  /\ RangeInv' /\ EnteredInv'
           /\ \A g \in signals' : g.kind = "exit"
<1> USE DEF DayInv, EngineInv
<1>1. \A s \in Symbols : states[s] \in StateType
  BY DEF TypeOK
<1>2. \A s \in Symbols : /\ states'[s].date = states[s].date /\ states'[s].high = states[s].high
                         /\ states[s].phase # "flat" => states'[s].phase # "flat"
  BY <1>1 DEF ForceClose, Leave, StateType
<1>3. \A g \in signals' : g.kind = "exit"
  BY DEF ForceClose, Exit
<1>4. RangeInv'
  BY <1>2 DEF RangeInv
<1>5. EnteredInv'
  BY <1>2 DEF EnteredInv, TypeOK
<1> QED
  BY <1>3, <1>4, <1>5

LEMMA DayInit == Init => DayInv
<1> SUFFICES ASSUME Init PROVE DayInv
  OBVIOUS
<1> USE DEF Init
<1>1. sessionDate = 0
  BY DEF RM!Init
<1>2. RangeInv /\ EnteredInv
  BY <1>1 DEF RangeInv, EnteredInv, Fresh
<1>3. BreakoutOfTheDay /\ OneEntryADay
  BY DEF BreakoutOfTheDay, OneEntryADay
<1> QED
  BY <1>2, <1>3, EngineInit DEF DayInv

LEMMA DayStep == DayInv /\ [Next]_vars => DayInv'
<1> SUFFICES ASSUME DayInv, [Next]_vars PROVE DayInv'
  OBVIOUS
<1> USE DEF DayInv
<1>0. EngineInv'
  BY EngineStep
<1>1. CASE OpenSession
  <2>1. pc = "open" /\ bar.day > sessionDate /\ signals' = {} /\ states' = states
    BY <1>1 DEF OpenSession, EngineInv, LoopInv
  <2>2. bar.day \in Nat /\ sessionDate \in Nat /\ \A s \in Symbols : states[s].date \in Nat
    BY <2>1 DEF EngineInv, LoopInv, BarType, TypeOK, RM!TypeOK, StateType
  <2>3. CASE cash > 0
    <3>1. sessionDate' = bar.day /\ entered' = {} /\ \A s \in Symbols : ranges'[s] = {}
      BY <1>1, <2>3 DEF OpenSession, RM!StartSession
    <3>2. \A s \in Symbols : states'[s].date < sessionDate'
      BY <2>1, <2>2, <3>1 DEF RangeInv
    <3>3. RangeInv'
      BY <2>1, <2>2, <3>1, <3>2 DEF RangeInv
    <3> QED
      BY <1>0, <2>1, <3>1, <3>3 DEF EnteredInv, BreakoutOfTheDay, OneEntryADay
  <2>4. CASE ~(cash > 0)
    <3>1. UNCHANGED <<sessionDate, states, ranges, entered>>
      BY <1>1, <2>4 DEF OpenSession, riskVars
    <3>2. RangeInv' /\ EnteredInv'
      BY <3>1 DEF RangeInv, EnteredInv
    <3> QED
      BY <1>0, <2>1, <3>2 DEF BreakoutOfTheDay, OneEntryADay
  <2> QED
    BY <2>3, <2>4
<1>2. CASE OnBar
  BY <1>0, <1>2, OnBarDay DEF BreakoutOfTheDay, OneEntryADay
<1>3. CASE OnTime
  <2>1. bar.time \in Nat
    BY <1>3 DEF OnTime, EngineInv, LoopInv, BarInHand, BarType
  <2>2. RangeInv' /\ EnteredInv' /\ \A g \in signals' : g.kind = "exit"
    BY <1>3, <2>1, ForceCloseDay DEF OnTime, riskVars
  <2> QED
    BY <1>0, <2>2 DEF BreakoutOfTheDay, OneEntryADay
<1>4. CASE CloseSession
  <2>1. RangeInv' /\ EnteredInv' /\ \A g \in signals' : g.kind = "exit"
    BY <1>4, ForceCloseDay, BacktestAssumption DEF CloseSession, riskVars
  <2> QED
    BY <1>0, <2>1 DEF BreakoutOfTheDay, OneEntryADay
<1>5. ASSUME NEW signal \in signals, HandleEntry(signal)
      PROVE  DayInv'
  <2>1. /\ signal.kind = "entry" /\ entered' = entered \union {signal.sym}
        /\ signals' = signals \ {signal} /\ states' = states /\ ranges' = ranges
        /\ sessionDate' = sessionDate
    BY <1>5 DEF HandleEntry, riskVars, RM!RecordEntry
  <2>2. \A g \in signals' : g \in signals /\ g.sym # signal.sym
    BY <2>1 DEF EngineInv, SignalInv
  <2>3. states[signal.sym].date = sessionDate /\ states[signal.sym].phase = "long"
    BY <2>1 DEF EngineInv, SignalInv, SyncInv, Long
  <2>4. RangeInv' /\ EnteredInv'
    BY <2>1, <2>3 DEF RangeInv, EnteredInv
  <2> QED
    BY <1>0, <2>1, <2>2, <2>4 DEF BreakoutOfTheDay, OneEntryADay
<1>6. CASE /\ signals' \subseteq signals
           /\ UNCHANGED <<sessionDate, states, ranges, entered>>
  <2>1. RangeInv' /\ EnteredInv'
    BY <1>6 DEF RangeInv, EnteredInv
  <2> QED
    BY <1>0, <1>6, <2>1 DEF BreakoutOfTheDay, OneEntryADay
<1>7. ASSUME NEW signal \in signals, HandleExit(signal)
      PROVE  DayInv'
  <2>1. signals' \subseteq signals /\ UNCHANGED <<sessionDate, states, ranges, entered>>
    BY <1>7 DEF HandleExit, riskVars, RM!RecordExit
  <2> QED
    BY <1>6, <2>1
<1>8. CASE NextBar \/ BarOutOfOrder \/ EndOfStream \/ SignalsDone \/ SessionClosed
           \/ UNCHANGED vars
  <2>1. signals' \subseteq signals /\ UNCHANGED <<sessionDate, states, ranges, entered>>
    BY <1>8 DEF NextBar, BarOutOfOrder, EndOfStream, SignalsDone, SessionClosed, riskVars, vars
  <2> QED
    BY <1>6, <2>1
<1> QED
  BY <1>1, <1>2, <1>3, <1>4, <1>5, <1>7, <1>8 DEF Next

LEMMA DayInvariant == Spec => []DayInv
BY DayInit, DayStep, PTL DEF Spec

\* An entry is a breakout of its own day's opening range (orb.py:201-225).
THEOREM EntriesAreBreakouts == Spec => []BreakoutOfTheDay
<1>1. DayInv => BreakoutOfTheDay
  BY DEF DayInv
<1> QED
  BY <1>1, DayInvariant, PTL

\* A symbol has one entry a day, also after a refusal (orb.py:227-236).
THEOREM EntersOnce == Spec => []OneEntryADay
<1>1. DayInv => OneEntryADay
  BY DEF DayInv
<1> QED
  BY <1>1, DayInvariant, PTL

-----------------------------------------------------------------------------
(* The RiskManager is used as its specification demands.                   *)

\* Every step is an operation of the RiskManager called within its protocol,
\* or one it does not see.
LEMMA RiskStep == EngineInv /\ [Next]_vars => [RM!Next]_(RM!vars)
<1> SUFFICES ASSUME EngineInv, [Next]_vars PROVE [RM!Next]_(RM!vars)
  OBVIOUS
<1> USE DEF EngineInv
<1>1. CASE UNCHANGED riskVars
  BY <1>1 DEF riskVars, RM!vars
<1>2. CASE OpenSession
  <2>1. CASE ~(cash > 0)
    BY <1>1, <1>2, <2>1 DEF OpenSession
  <2>2. CASE cash > 0
    <3>1. RM!StartSession(bar.day, cash)
      BY <1>2, <2>2 DEF OpenSession
    <3>2. bar.day \in Nat \ {0} /\ cash \in Nat /\ bar.day > sessionDate
      BY <1>2, <2>2 DEF OpenSession, LoopInv, BarType, TypeOK
    <3>3. RM!Start
      BY <3>1, <3>2 DEF RM!Start
    <3> QED
      BY <3>3 DEF RM!Next
  <2> QED
    BY <2>1, <2>2
<1>3. ASSUME NEW signal \in signals, HandleEntry(signal)
      PROVE  [RM!Next]_(RM!vars)
  <2> DEFINE lot == Lot(signal.price, RM!EntryQty(bar.close))
  <2>1. signal.sym \in Symbols /\ signal.price \in Nat /\ bar.close \in Nat \ {0}
    BY <1>3, SignalInHand DEF HandleEntry, BarType
  <2>2. Available \in Nat
    BY DEF TypeOK, Available
  <2>3. CASE RM!Approves(signal.sym, bar.close, Available) /\ RM!RecordEntry(signal.sym, lot.qty)
    <3>1. RM!EntryQty(bar.close) \in Nat \ {0}
      BY <2>1, <2>2, <2>3, ApprovedQty DEF TypeOK
    <3>2. lot.qty = RM!EntryQty(bar.close)
      BY <2>1, <3>1, LotTyped
    <3>3. lot.qty \in 1..RM!EntryQty(bar.close)
      BY <3>1, <3>2
    <3> HIDE DEF lot
    <3>4. RM!Enter
      BY <2>1, <2>2, <2>3, <3>3 DEF RM!Enter
    <3> QED
      BY <3>4 DEF RM!Next
  <2> QED
    BY <1>1, <1>3, <2>3 DEF HandleEntry
<1>4. ASSUME NEW signal \in signals, HandleExit(signal)
      PROVE  [RM!Next]_(RM!vars)
  <2>1. signal.sym \in Symbols /\ signal.price \in Nat
    BY <1>4, SignalInHand DEF HandleExit
  <2>2. NetPnl(active[signal.sym], signal.price) \in Int
    BY <2>1, SaleTyped DEF TypeOK
  <2>3. CASE RM!RecordExit(signal.sym, NetPnl(active[signal.sym], signal.price))
    <3>1. RM!Exit
      BY <2>1, <2>2, <2>3 DEF RM!Exit
    <3> QED
      BY <3>1 DEF RM!Next
  <2> QED
    BY <1>1, <1>4, <2>3 DEF HandleExit
<1>5. CASE \/ NextBar \/ BarOutOfOrder \/ EndOfStream \/ OnBar \/ OnTime
           \/ SignalsDone \/ CloseSession \/ SessionClosed \/ UNCHANGED vars
  BY <1>1, <1>5 DEF NextBar, BarOutOfOrder, EndOfStream, OnBar, OnTime, SignalsDone,
                    CloseSession, SessionClosed, vars
<1> QED
  BY <1>2, <1>3, <1>4, <1>5 DEF Next

\* The engine implements the RiskManager's specification: sessions in the order
\* of their days, entries approved in the present state and no larger than what
\* was approved, exits of what is held (engine.py:314, :411-461, :499).
THEOREM EngineKeepsProtocol == Spec => RM!Spec
<1>1. Init => RM!Init
  BY DEF Init
<1> QED
  BY <1>1, RiskStep, EngineInvariant, PTL DEF Spec, RM!Spec

\* No day of a replay has more entries than the cap: RiskManager's own
\* invariant, carried over to the engine.
THEOREM ReplayKeepsCap == Spec => []RM!EntriesWithinCap
<1>1. Init => RM!EntriesWithinCap
  BY BacktestAssumption DEF Init, RM!Init, RM!EntriesWithinCap
<1>2. RM!TypeOK /\ RM!EntriesWithinCap /\ [RM!Next]_(RM!vars) => RM!EntriesWithinCap'
  BY BacktestAssumption
  DEF RM!TypeOK, RM!EntriesWithinCap, RM!Next, RM!vars, RM!Start, RM!StartSession,
      RM!Restore, RM!RestoreSession, RM!Enter, RM!Exit, RM!Approves, RM!RecordEntry,
      RM!RecordExit
<1>3. EngineInv /\ [Next]_vars /\ RM!EntriesWithinCap => RM!EntriesWithinCap'
  BY <1>2, RiskStep DEF EngineInv, TypeOK
<1> QED
  BY <1>1, <1>3, EngineInvariant, PTL DEF Spec

=============================================================================
