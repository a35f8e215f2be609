-------------------------- MODULE PortfolioAccount --------------------------
(***************************************************************************)
(* What the five portfolio backtests of src/stock_agent/backtest/ share:   *)
(* the stream of daily bars, the account, the arithmetic of a trade and    *)
(* the buffers of a strategy.  A symbol is its place in the order of the   *)
(* codes.  A bar's prices are won, a signal's hundredths of a won, a fill's *)
(* ten thousandths; rates are percent, so that int() is \div.              *)
(***************************************************************************)
EXTENDS Integers, Sequences, FiniteSets, Functions

CONSTANTS
    Symbols,              \* the universe
    StartingCapital, Commission, SellTax, Slippage, PositionPct,
    Closes, Lows,         \* prices of the bars
    MaxDay,               \* bound: days
    MonthOf,              \* day -> its month
    Baselines             \* the backtests that a run may be of

Days == 1..MaxDay

\* Of the configurations __post_init__ lets pass, those whose charges on a
\* sale do not exceed what it brings.
ASSUME AccountAssumption ==
    /\ Symbols \subseteq Nat /\ IsFiniteSet(Symbols)
    /\ StartingCapital \in Nat \ {0} /\ Commission \in Nat /\ SellTax \in Nat
    /\ Commission + SellTax <= 100
    /\ Slippage \in 0..99 /\ PositionPct \in 1..100
    /\ Closes \subseteq Lows /\ Lows \subseteq Nat \ {0} /\ MaxDay \in Nat
    /\ MonthOf \in [Days -> Nat \ {0}]
    /\ \A d, e \in Days : d <= e => MonthOf[d] <= MonthOf[e]
    /\ Baselines \subseteq {"dca", "golden_cross", "momentum", "low_vol", "rsi_mr"}

VARIABLES
    baseline,    \* which compute_..._baseline runs
    pc,          \* "feed", "on_time", "sell", "buy", "on_bar", "liquidate", "done"
    bar,         \* the bar in hand
    session,     \* last_session_date, 0 = none
    latest,      \* symbol -> its last close, 0 = none
    equity,      \* the last entry of daily_equity
    cash,
    lots,        \* symbol -> its lots, the oldest first
    profit,      \* the sum of net_pnl_krw over the trades
    closes,      \* the strategy: symbol -> its last closes
    seen,        \* the strategy: symbol -> the day of the last of them
    holdings     \* the strategy: what it believes to hold

streamVars == <<baseline, bar, session, latest, equity>>
accountVars == <<cash, lots, profit>>
bufferVars == <<closes, seen>>

-----------------------------------------------------------------------------
(* A trade.                                                                *)

BuyFillPrice(price) == price * (100 + Slippage)
SellFillPrice(price) == price * (100 - Slippage)
Won(amount) == amount \div 10000
Charge(amount, rate) == (amount * rate) \div 1000000

Lot(price, qty) ==
    LET amount == qty * BuyFillPrice(price)
    IN  [qty |-> qty, notional |-> Won(amount),
         commission |-> Charge(amount, Commission), day |-> bar'.day]

Cost(lot) == lot.notional + lot.commission

Proceeds(lot, price) ==
    LET amount == lot.qty * SellFillPrice(price)
    IN  Won(amount) - Charge(amount, Commission) - Charge(amount, SellTax)

LotStates == [qty : Nat, notional : Nat, commission : Nat, day : Days]

Held == {s \in Symbols : lots[s] # <<>>}

Allocated(money, slots, price) ==
    (money * PositionPct * 100) \div (slots * BuyFillPrice(price))

\* Mutant: the commission is not looked at.
Affordable_Notional(lot) == lot.notional <= cash

Affordable(lot) == Cost(lot) <= cash

\* A purchase that floors to no share or exceeds the cash is not made, and
\* nobody tells the strategy.
Buys(sym, price, qty) ==
    LET lot == Lot(price, qty) IN
    IF qty > 0 /\ Affordable(lot)
    THEN /\ cash' = cash - Cost(lot)
         /\ lots' = [lots EXCEPT ![sym] = Append(@, lot)]
         /\ UNCHANGED profit
    ELSE UNCHANGED accountVars

\* Mutant: the tax is in the trade and not in the cash.
Sells_Untaxed(sym, price) ==
    LET lot == Head(lots[sym])
        tax == Charge(lot.qty * SellFillPrice(price), SellTax)
    IN  IF lots[sym] = <<>> THEN UNCHANGED accountVars
        ELSE /\ cash' = cash + Proceeds(lot, price) + tax
             /\ profit' = profit + Proceeds(lot, price) - Cost(lot)
             /\ lots' = [lots EXCEPT ![sym] = Tail(@)]

Sells(sym, price) ==
    LET lot == Head(lots[sym]) IN
    IF lots[sym] = <<>> THEN UNCHANGED accountVars
    ELSE /\ cash' = cash + Proceeds(lot, price)
         /\ profit' = profit + Proceeds(lot, price) - Cost(lot)
         /\ lots' = [lots EXCEPT ![sym] = Tail(@)]

-----------------------------------------------------------------------------
(* The stream.                                                             *)

\* Cash and the lots at the last closes.
Worth ==
    cash + FoldFunction(+, 0, [s \in Symbols |->
              FoldFunction(+, 0, [i \in DOMAIN lots[s] |-> lots[s][i].qty * latest[s]])])

Bars(syms) == [sym : syms, day : Days, close : Closes, low : Lows]

NoBar == [sym |-> 0, day |-> 0, close |-> 0, low |-> 0]

\* DailyBarLoader merges the bars of the symbols by time and symbol; a symbol
\* may have none on a day.
Follows(next) ==
    \/ next.day > session
    \/ next.day = session /\ next.sym > bar.sym

\* Only one strategy reads the low.
Shaped(next) ==
    IF baseline = "rsi_mr" THEN next.low <= next.close ELSE next.low = next.close

\* The head of the loop: a new session files the equity of the one before.
Arrives(next) ==
    /\ pc = "feed"
    /\ Follows(next) /\ Shaped(next)
    /\ bar' = next
    /\ session' = next.day
    /\ equity' = IF session \in {0, next.day} THEN equity ELSE Worth
    /\ UNCHANGED baseline

Closed == latest' = [latest EXCEPT ![bar'.sym] = bar'.close]

Deque(buffer, maxlen, close) ==
    IF Len(buffer) < maxlen THEN Append(buffer, close)
    ELSE Append(Tail(buffer), close)

\* What every on_bar does first.
Buffered(maxlen) ==
    /\ closes' = [closes EXCEPT ![bar'.sym] = Deque(@, maxlen, bar'.close)]
    /\ seen' = [seen EXCEPT ![bar'.sym] = bar'.day]

\* The last session's equity is filed before the lots are closed in thought.
EndOfStream ==
    /\ pc = "feed"
    /\ pc' = "liquidate"
    /\ equity' = IF session = 0 THEN equity ELSE Worth
    /\ UNCHANGED <<baseline, bar, session, latest, accountVars, bufferVars, holdings>>

\* _hypothetical_exit, symbol by symbol.
Liquidate ==
    /\ pc = "liquidate"
    /\ \E s \in Held :
         /\ \A t \in Held : s <= t
         /\ Sells(s, latest[s] * 100)
    /\ UNCHANGED <<streamVars, pc, bufferVars, holdings>>

Liquidated ==
    /\ pc = "liquidate"
    /\ Held = {}
    /\ pc' = "done"
    /\ UNCHANGED <<streamVars, accountVars, bufferVars, holdings>>
=============================================================================
