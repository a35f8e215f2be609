---------------------------- MODULE RsiReversion ----------------------------
(***************************************************************************)
(* backtest/rsi_mr.py with strategy/rsi_mr.py: a symbol is bought when its *)
(* RSI is low and sold when it is high or the low reaches the stop.        *)
(***************************************************************************)
EXTENDS PortfolioAccount

CONSTANTS RsiPeriod, Oversold, Overbought, StopLossPct, MaxPositions

ASSUME RsiAssumption ==
    /\ RsiPeriod \in Nat \ {0}
    /\ Oversold \in 1..49 /\ Overbought \in 51..99
    /\ StopLossPct \in 1..99 /\ MaxPositions \in Nat \ {0}

VARIABLES
    stops,       \* symbol -> _Holding.stop_price, 0 = not held
    lastExit     \* _last_exit_date, 0 = none

rsiVars == <<stops, lastExit>>

-----------------------------------------------------------------------------
(* _compute_rsi: 100 * gains / (gains + losses), and 100 without losses.   *)

Moves(buffer, sign) ==
    FoldFunction(+, 0, [i \in 1..(Len(buffer) - 1) |->
        IF sign * (buffer[i + 1] - buffer[i]) > 0
        THEN sign * (buffer[i + 1] - buffer[i]) ELSE 0])

Gains(buffer) == Moves(buffer, 1)
Losses(buffer) == Moves(buffer, -1)

RsiReady == Len(closes'[bar'.sym]) >= RsiPeriod + 1

RsiAbove(buffer, level) ==
    \/ Losses(buffer) = 0
    \/ 100 * Gains(buffer) > level * (Gains(buffer) + Losses(buffer))

RsiBelow(buffer, level) ==
    /\ Losses(buffer) > 0
    /\ 100 * Gains(buffer) < level * (Gains(buffer) + Losses(buffer))

-----------------------------------------------------------------------------
(* on_bar, and what _process_signals makes of its one signal.              *)

RsiArrives ==
    /\ \E next \in Bars(Symbols) : Arrives(next)
    /\ Closed
    /\ Buffered(RsiPeriod + 1)
    /\ UNCHANGED pc

Stopped == bar'.sym \in holdings /\ bar'.low * 100 <= stops[bar'.sym]

TakesProfit ==
    /\ bar'.sym \in holdings /\ ~Stopped
    /\ RsiReady /\ RsiAbove(closes'[bar'.sym], Overbought)

Enters ==
    /\ bar'.sym \notin holdings
    /\ RsiReady /\ RsiBelow(closes'[bar'.sym], Oversold)
    /\ Cardinality(holdings) < MaxPositions
    /\ lastExit[bar'.sym] # bar'.day

Leaves ==
    /\ holdings' = holdings \ {bar'.sym}
    /\ stops' = [stops EXCEPT ![bar'.sym] = 0]
    /\ lastExit' = [lastExit EXCEPT ![bar'.sym] = bar'.day]

StopLoss ==
    /\ RsiArrives
    /\ Stopped
    /\ Leaves
    /\ Sells(bar'.sym, stops[bar'.sym])

TakeProfit ==
    /\ RsiArrives
    /\ TakesProfit
    /\ Leaves
    /\ Sells(bar'.sym, bar'.close * 100)

\* What is left is divided among the places that are free of lots.
RsiBuys(sym, price) ==
    LET slots == MaxPositions - Cardinality(Held) IN
    IF lots[sym] # <<>> \/ slots <= 0 THEN UNCHANGED accountVars
    ELSE Buys(sym, price, Allocated(cash, slots, price))

Enter ==
    /\ RsiArrives
    /\ Enters
    /\ holdings' = holdings \cup {bar'.sym}
    /\ stops' = [stops EXCEPT ![bar'.sym] = bar'.close * (100 - StopLossPct)]
    /\ RsiBuys(bar'.sym, bar'.close * 100)
    /\ UNCHANGED lastExit

Pass ==
    /\ RsiArrives
    /\ ~Stopped /\ ~TakesProfit /\ ~Enters
    /\ UNCHANGED <<accountVars, holdings, rsiVars>>

Rsi ==
    /\ baseline = "rsi_mr"
    /\ \/ StopLoss \/ TakeProfit \/ Enter \/ Pass
       \/ (EndOfStream \/ Liquidate \/ Liquidated) /\ UNCHANGED rsiVars

RsiInit ==
    /\ stops = [s \in Symbols |-> 0]
    /\ lastExit = [s \in Symbols |-> 0]

RsiTypeOK ==
    /\ stops \in [Symbols -> Nat]
    /\ lastExit \in [Symbols -> 0..MaxDay]
    /\ baseline = "rsi_mr" => \A s \in Symbols : s \in holdings <=> stops[s] > 0
=============================================================================
