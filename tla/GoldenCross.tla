---------------------------- MODULE GoldenCross ----------------------------
(***************************************************************************)
(* backtest/golden_cross.py with strategy/golden_cross.py: one symbol, held *)
(* while its close is above the mean of the last SmaPeriod closes.          *)
(***************************************************************************)
EXTENDS PortfolioAccount

CONSTANTS SmaSymbol, SmaPeriod

ASSUME GoldenCrossAssumption ==
    SmaSymbol \in Symbols /\ SmaPeriod \in Nat \ {0}

-----------------------------------------------------------------------------

SumOf(buffer) == FoldFunction(+, 0, buffer)

SmaReady == Len(closes'[SmaSymbol]) >= SmaPeriod

CrossesUp ==
    /\ SmaReady /\ SmaSymbol \notin holdings
    /\ bar'.close * SmaPeriod > SumOf(closes'[SmaSymbol])

CrossesDown ==
    /\ SmaReady /\ SmaSymbol \in holdings
    /\ bar'.close * SmaPeriod < SumOf(closes'[SmaSymbol])

\* Mutant: the strategy is flat again without a signal.
GoldenOnBar_Forgets ==
    IF CrossesUp THEN holdings' = {SmaSymbol}
    ELSE IF SmaReady THEN holdings' = {} ELSE UNCHANGED holdings

GoldenOnBar ==
    IF CrossesUp THEN holdings' = {SmaSymbol}
    ELSE IF CrossesDown THEN holdings' = {}
    ELSE UNCHANGED holdings

GoldenBuy ==
    IF lots[SmaSymbol] # <<>> THEN UNCHANGED accountVars
    ELSE Buys(SmaSymbol, bar'.close * 100, Allocated(cash, 1, bar'.close * 100))

GoldenExit == Sells(SmaSymbol, bar'.close * 100)

GoldenBar ==
    /\ \E next \in Bars({SmaSymbol}) : Arrives(next)
    /\ Closed
    /\ Buffered(SmaPeriod)
    /\ GoldenOnBar
    /\ IF CrossesUp THEN GoldenBuy
       ELSE IF CrossesDown THEN GoldenExit
       ELSE UNCHANGED accountVars
    /\ UNCHANGED pc

Golden ==
    /\ baseline = "golden_cross"
    /\ GoldenBar \/ EndOfStream \/ Liquidate \/ Liquidated
=============================================================================
