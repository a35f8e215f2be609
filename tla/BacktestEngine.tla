--------------------------- MODULE BacktestEngine ---------------------------
(***************************************************************************)
(* The replay of minute bars: src/stock_agent/backtest/engine.py with the  *)
(* ORBStrategy it asks (strategy/orb.py), the costs it charges (costs.py)  *)
(* and the RiskManager.  BacktestEngine.run is one loop over the bars, here*)
(* split where it calls a part.                                            *)
(*                                                                         *)
(* A bar's prices are won, a signal's hundredths of a won, a fill's ten    *)
(* thousandths; rates are percent.  So every Decimal of the code is an     *)
(* integer here and its int() is \div.  or_low, or_confirmed and a state's *)
(* own last_bar_time decide nothing in a replay and are left out.          *)
(***************************************************************************)
EXTENDS Integers, FiniteSets, Functions

CONSTANTS             \* RiskManager
    Symbols, PositionPct, MaxPositions, DailyLossPct, DailyMaxEntries, MinNotional

CONSTANTS
    StartingCapital, Commission, SellTax, Slippage,    \* BacktestConfig
    OrStart, OrEnd, ForceCloseAt, StopPct, TakePct,    \* StrategyConfig
    Shapes,           \* [high, low, close] of the bars
    MaxTime,          \* bound: minutes of a day
    MaxDay,           \* bound: days
    MaxBars           \* bound: bars of the stream

ASSUME BacktestAssumption ==
    /\ IsFiniteSet(Symbols)
    /\ PositionPct \in Nat \ {0} /\ MaxPositions \in Nat \ {0} /\ DailyLossPct \in Nat \ {0}
    /\ DailyMaxEntries \in Nat \ {0} /\ MinNotional \in Nat \ {0}
    /\ StartingCapital \in Nat \ {0} /\ Commission \in Nat /\ SellTax \in Nat
    /\ Slippage \in 0..99
    /\ OrStart \in Nat /\ OrEnd \in Nat /\ ForceCloseAt \in Nat
    /\ OrStart < OrEnd /\ OrEnd < ForceCloseAt
    /\ StopPct \in Nat \ {0} /\ StopPct <= 100 /\ TakePct \in Nat \ {0}
    /\ Shapes \subseteq [high : Nat \ {0}, low : Nat \ {0}, close : Nat \ {0}]
    /\ MaxTime \in Nat /\ MaxDay \in Nat /\ MaxBars \in Nat

VARIABLES             \* the RiskManager
    sessionDate, startingCapital, dailyPnl, entriesToday, positions, haltLogged

VARIABLES             \* the engine
    cash,
    active,           \* symbol -> its lot, or NoLot
    phantomLongs,
    equity,           \* the last entry of daily_equity, 0 = none

    states,           \* the strategy: symbol -> _SymbolState

    pc,               \* where run is
    then,             \* ... and where it goes when the signals are processed
    bar,              \* the bar in hand, or NoBar
    lastBar,          \* last_bar_time: [day, time]
    signals,          \* signals not yet processed
    error,            \* what run has raised, or "none"
    fed               \* bars taken

VARIABLES             \* history of the session
    ranges,           \* symbol -> highs of its bars in the opening range
    entered           \* symbols with an entry signal

riskVars == <<sessionDate, startingCapital, dailyPnl, entriesToday, positions, haltLogged>>
bookVars == <<cash, active, phantomLongs>>
feedVars == <<bar, lastBar, fed>>
vars == <<riskVars, bookVars, feedVars, equity, states, pc, then, signals, error, ranges, entered>>

RM == INSTANCE RiskManager
        WITH Dates <- Nat \ {0}, Capitals <- Nat, Prices <- Nat \ {0}, CashLevels <- Nat,
             Pnls <- Int, Quantities <- Nat

-----------------------------------------------------------------------------
(* Costs.                                                                  *)

BuyFillPrice(price) == price * (100 + Slippage)
SellFillPrice(price) == price * (100 - Slippage)
Won(amount) == amount \div 10000
Charge(amount, rate) == (amount * rate) \div 1000000

NoLot == [qty |-> 0, notional |-> 0, commission |-> 0]

Lot(price, qty) ==
    LET amount == qty * BuyFillPrice(price)
    IN  [qty |-> qty, notional |-> Won(amount), commission |-> Charge(amount, Commission)]

Cost(lot) == lot.notional + lot.commission

\* What a sale brings after its commission and tax.
Proceeds(lot, price) ==
    LET amount == lot.qty * SellFillPrice(price)
    IN  Won(amount) - Charge(amount, Commission) - Charge(amount, SellTax)

\* Mutant: the tax is paid, but the RiskManager is not told.
NetPnl_Untaxed(lot, price) ==
    Proceeds(lot, price) + Charge(lot.qty * SellFillPrice(price), SellTax) - Cost(lot)

NetPnl(lot, price) == Proceeds(lot, price) - Cost(lot)

-----------------------------------------------------------------------------

NoBar == [sym |-> "none", day |-> 0, time |-> 0, high |-> 0, low |-> 0, close |-> 0]

\* Mutant: the range of the day before stays.
Reset_KeepsRange(state, day) ==
    [date |-> day, high |-> state.high, phase |-> "flat", stop |-> 0, take |-> 0, close |-> 0]

\* _SymbolState.reset
Reset(state, day) ==
    [date |-> day, high |-> 0, phase |-> "flat", stop |-> 0, take |-> 0, close |-> 0]

Fresh == [date |-> 0, high |-> 0, phase |-> "flat", stop |-> 0, take |-> 0, close |-> 0]

Long == {s \in Symbols : states[s].phase = "long"}
Active == {s \in Symbols : active[s].qty > 0}

Init ==
    /\ RM!Init
    /\ cash = StartingCapital /\ active = [s \in Symbols |-> NoLot] /\ phantomLongs = {}
    /\ equity = 0 /\ states = [s \in Symbols |-> Fresh]
    /\ pc = "feed" /\ then = "feed" /\ bar = NoBar /\ lastBar = [day |-> 0, time |-> 0]
    /\ signals = {} /\ error = "none" /\ fed = 0
    /\ ranges = [s \in Symbols |-> {}] /\ entered = {}

Raise(why) == pc' = "raised" /\ error' = why

-----------------------------------------------------------------------------
(* The loop.                                                               *)

NextBar ==
    /\ pc = "feed" /\ fed < MaxBars
    /\ \E s \in Symbols, day \in 1..MaxDay, time \in 0..MaxTime, shape \in Shapes :
         /\ day > lastBar.day \/ (day = lastBar.day /\ time >= lastBar.time)
         /\ bar' = [sym |-> s, day |-> day, time |-> time,
                    high |-> shape.high, low |-> shape.low, close |-> shape.close]
         /\ lastBar' = [day |-> day, time |-> time]
         /\ pc' = IF sessionDate = 0 THEN "open" ELSE IF day # sessionDate THEN "close" ELSE "bar"
    /\ fed' = fed + 1
    /\ UNCHANGED <<riskVars, bookVars, equity, states, then, signals, error, ranges, entered>>

\* A bar earlier than the one before.
BarOutOfOrder ==
    /\ pc = "feed" /\ fed < MaxBars
    /\ \E day \in 1..MaxDay, time \in 0..MaxTime :
         day < lastBar.day \/ (day = lastBar.day /\ time < lastBar.time)
    /\ Raise("order")
    /\ UNCHANGED <<riskVars, bookVars, feedVars, equity, states, then, signals, ranges, entered>>

EndOfStream ==
    /\ pc = "feed"
    /\ bar' = NoBar
    /\ pc' = IF sessionDate = 0 THEN "done" ELSE "close"
    /\ UNCHANGED <<riskVars, bookVars, lastBar, fed, equity, states, then, signals, error,
                   ranges, entered>>

\* RiskManager.start_session with what is left of the money, if any is.
OpenSession ==
    /\ pc = "open"
    /\ IF cash > 0
       THEN /\ RM!StartSession(bar.day, cash) /\ pc' = "bar"
            /\ ranges' = [s \in Symbols |-> {}] /\ entered' = {}
            /\ UNCHANGED error
       ELSE Raise("capital") /\ UNCHANGED <<riskVars, ranges, entered>>
    /\ UNCHANGED <<bookVars, feedVars, equity, states, then, signals>>

-----------------------------------------------------------------------------
(* The strategy.                                                           *)

Entry(s, price) == [kind |-> "entry", sym |-> s, price |-> price]
Exit(s, price) == [kind |-> "exit", sym |-> s, price |-> price]

InRange == OrStart <= bar.time /\ bar.time < OrEnd

BreaksOut(state) ==
    /\ OrEnd <= bar.time /\ bar.time < ForceCloseAt
    /\ state.phase = "flat" /\ state.high # 0 /\ bar.close > state.high

HitsStop(state) == OrEnd <= bar.time /\ state.phase = "long" /\ 100 * bar.low <= state.stop

HitsTake(state) ==
    /\ OrEnd <= bar.time /\ state.phase = "long" /\ 100 * bar.high >= state.take
    /\ ~HitsStop(state)

EnterLong(state) ==
    [state EXCEPT !.phase = "long", !.stop = bar.close * (100 - StopPct),
                  !.take = bar.close * (100 + TakePct)]

\* Mutant: after an exit the symbol may be bought again.
Leave_Flat(state) == [state EXCEPT !.phase = "flat"]

Leave(state) == [state EXCEPT !.phase = "closed"]

\* on_bar
OnBar ==
    LET s == bar.sym
        old == IF states[s].date = bar.day THEN states[s] ELSE Reset(states[s], bar.day)
        state == [old EXCEPT !.close = bar.close]
    IN  /\ pc = "bar" /\ pc' = "signals" /\ then' = "time"
        /\ \/ /\ InRange
              /\ states' = [states EXCEPT ![s] =
                              [state EXCEPT !.high = IF @ >= bar.high THEN @ ELSE bar.high]]
              /\ signals' = {}
           \/ /\ BreaksOut(state)
              /\ states' = [states EXCEPT ![s] = EnterLong(state)]
              /\ signals' = {Entry(s, 100 * bar.close)}
           \/ /\ HitsStop(state)
              /\ states' = [states EXCEPT ![s] = Leave(state)]
              /\ signals' = {Exit(s, state.stop)}
           \/ /\ HitsTake(state)
              /\ states' = [states EXCEPT ![s] = Leave(state)]
              /\ signals' = {Exit(s, state.take)}
           \/ /\ ~InRange /\ ~BreaksOut(state) /\ ~HitsStop(state) /\ ~HitsTake(state)
              /\ states' = [states EXCEPT ![s] = state]
              /\ signals' = {}
        /\ ranges' = IF InRange THEN [ranges EXCEPT ![s] = @ \union {bar.high}] ELSE ranges
        /\ UNCHANGED <<riskVars, bookVars, feedVars, equity, error, entered>>

\* on_time: what is long is closed at the last close that was seen.
ForceClose(now) ==
    IF now < ForceCloseAt THEN UNCHANGED states /\ signals' = {}
    ELSE /\ states' = [s \in Symbols |-> IF s \in Long THEN Leave(states[s]) ELSE states[s]]
         /\ signals' = {Exit(s, 100 * states[s].close) : s \in Long}

OnTime ==
    /\ pc = "time" /\ pc' = "signals" /\ then' = "feed"
    /\ ForceClose(bar.time)
    /\ UNCHANGED <<riskVars, bookVars, feedVars, equity, error, ranges, entered>>

-----------------------------------------------------------------------------
(* The signals.                                                            *)

\* Mutant: the cash is not looked at again after the costs are known.
Affordable_Always(lot) == TRUE

Affordable(lot) == Cost(lot) <= cash

Available == IF cash >= 0 THEN cash ELSE 0

\* Mutant: what the costs forbid is not remembered.
Refused_Forgotten(s) == phantomLongs' = IF RM!Approves(s, bar.close, Available)
                                        THEN phantomLongs ELSE phantomLongs \union {s}

\* The strategy believes it is long all the same.
Refused(s) == phantomLongs' = phantomLongs \union {s}

HandleEntry(signal) ==
    LET s == signal.sym
        lot == Lot(signal.price, RM!EntryQty(bar.close))
    IN  /\ pc = "signals" /\ signal.kind = "entry" /\ signals' = signals \ {signal}
        /\ entered' = entered \union {s}
        /\ \/ /\ ~RM!Approves(s, bar.close, Available)
              /\ Refused(s) /\ UNCHANGED <<riskVars, cash, active>>
           \/ /\ RM!Approves(s, bar.close, Available) /\ ~Affordable(lot)
              /\ Refused(s) /\ UNCHANGED <<riskVars, cash, active>>
           \/ /\ RM!Approves(s, bar.close, Available) /\ Affordable(lot)
              /\ RM!RecordEntry(s, lot.qty)
              /\ active' = [active EXCEPT ![s] = lot] /\ cash' = cash - Cost(lot)
              /\ UNCHANGED phantomLongs
        /\ UNCHANGED <<feedVars, equity, states, pc, then, error, ranges>>

HandleExit(signal) ==
    LET s == signal.sym
        lot == active[s]
    IN  /\ pc = "signals" /\ signal.kind = "exit" /\ signals' = signals \ {signal}
        /\ \/ /\ s \in phantomLongs
              /\ phantomLongs' = phantomLongs \ {s}
              /\ UNCHANGED <<riskVars, cash, active, pc, error>>
           \/ /\ s \notin phantomLongs
              /\ IF s \in Active
                 THEN /\ RM!RecordExit(s, NetPnl(lot, signal.price))
                      /\ active' = [active EXCEPT ![s] = NoLot]
                      /\ cash' = cash + Proceeds(lot, signal.price)
                      /\ UNCHANGED <<pc, error>>
                 ELSE Raise("sync") /\ UNCHANGED <<riskVars, cash, active>>
              /\ UNCHANGED phantomLongs
        /\ UNCHANGED <<feedVars, equity, states, then, ranges, entered>>

SignalsDone ==
    /\ pc = "signals" /\ signals = {}
    /\ pc' = then
    /\ UNCHANGED <<riskVars, bookVars, feedVars, equity, states, then, signals, error, ranges,
                   entered>>

-----------------------------------------------------------------------------
(* _close_session: on_time at force_close_at, then nothing may be left.    *)

CloseSession ==
    /\ pc = "close" /\ pc' = "signals" /\ then' = "closed"
    /\ ForceClose(ForceCloseAt)
    /\ UNCHANGED <<riskVars, bookVars, feedVars, equity, error, ranges, entered>>

SessionClosed ==
    /\ pc = "closed"
    /\ IF Active = {} /\ phantomLongs = {}
       THEN /\ equity' = cash
            /\ pc' = IF bar = NoBar THEN "done" ELSE "open"
            /\ UNCHANGED error
       ELSE Raise("sync") /\ UNCHANGED equity
    /\ UNCHANGED <<riskVars, bookVars, feedVars, states, then, signals, ranges, entered>>

Next ==
    \/ NextBar \/ BarOutOfOrder \/ EndOfStream \/ OpenSession \/ OnBar \/ OnTime
    \/ \E signal \in signals : HandleEntry(signal) \/ HandleExit(signal)
    \/ SignalsDone \/ CloseSession \/ SessionClosed

Spec == Init /\ [][Next]_vars

-----------------------------------------------------------------------------
(* Properties.                                                             *)

LotType == [qty : Nat, notional : Nat, commission : Nat]
StateType ==
    [date : Nat, high : Nat, phase : {"flat", "long", "closed"}, stop : Nat, take : Nat,
     close : Nat]
BarType ==
    [sym : Symbols, day : Nat \ {0}, time : Nat, high : Nat \ {0}, low : Nat \ {0},
     close : Nat \ {0}]
SignalType == [kind : {"entry", "exit"}, sym : Symbols, price : Nat]

TypeOK ==
    /\ RM!TypeOK
    /\ cash \in Int /\ active \in [Symbols -> LotType] /\ phantomLongs \subseteq Symbols
    /\ equity \in Int /\ states \in [Symbols -> StateType]
    /\ pc \in {"feed", "open", "bar", "time", "signals", "close", "closed", "done", "raised"}
    /\ then \in {"feed", "time", "closed"}
    /\ bar \in BarType \union {NoBar} /\ lastBar \in [day : Nat, time : Nat]
    /\ signals \subseteq SignalType /\ error \in {"none", "order", "capital", "sync"}
    /\ fed \in Nat /\ ranges \in [Symbols -> SUBSET Nat] /\ entered \subseteq Symbols

Signalled(kind) == {signal.sym : signal \in {g \in signals : g.kind = kind}}

\* What the strategy believes to be long is what the engine holds or has
\* refused (engine.py:69-75), up to the signals on their way.
StrategyInStep ==
    error = "none" =>
        /\ Long \union Signalled("exit") = Active \union phantomLongs \union Signalled("entry")
        /\ Active \intersect phantomLongs = {}

\* The three errors that stand for a lost synchronisation are never raised
\* (engine.py:482-487, :549-558): every exit has its lot or its refusal, and a
\* session ends with neither, also one whose bars end early.
NeverOutOfSync == error # "sync"

\* The profit that the RiskManager sees is that of the account: the session's
\* capital and profit are the cash and what the lots have cost.
MoneyAddsUp ==
    sessionDate # 0 =>
        cash + FoldFunction(LAMBDA x, y : x + y, 0, [s \in Symbols |-> Cost(active[s])])
            = startingCapital + dailyPnl

\* Neither a purchase with its slippage and commission nor a sale with its
\* commission and tax takes more than there is.
NoDebt == cash >= 0

\* An entry is a breakout of its own day's opening range (orb.py:201-225): the
\* range is not empty, not that of an earlier day and lower than the price.
BreakoutOfTheDay ==
    \A signal \in signals :
        signal.kind = "entry" =>
            /\ ranges[signal.sym] # {}
            /\ \A high \in ranges[signal.sym] : signal.price > 100 * high

\* One entry a day and symbol, also after a refusal (orb.py:227-236).
OneEntryADay ==
    \A signal \in signals : signal.kind = "entry" => signal.sym \notin entered

=============================================================================
