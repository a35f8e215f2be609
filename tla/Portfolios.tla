----------------------------- MODULE Portfolios -----------------------------
(***************************************************************************)
(* The portfolio backtests side by side: one run is of one of them, and    *)
(* what an account must keep to is asked of all.                           *)
(***************************************************************************)
EXTENDS DcaBacktest, GoldenCross, Rebalancing, RsiReversion

vars == <<streamVars, pc, accountVars, bufferVars, holdings, dcaVars,
          rebalanceVars, rsiVars>>

Init ==
    /\ baseline \in Baselines
    /\ pc = "feed" /\ bar = NoBar /\ session = 0
    /\ latest = [s \in Symbols |-> 0]
    /\ equity = StartingCapital
    /\ cash = StartingCapital /\ profit = 0
    /\ lots = [s \in Symbols |-> <<>>]
    /\ closes = [s \in Symbols |-> <<>>]
    /\ seen = [s \in Symbols |-> 0]
    /\ holdings = {}
    /\ DcaInit /\ RebalanceInit /\ RsiInit

Next ==
    \/ Dca /\ UNCHANGED <<rebalanceVars, rsiVars>>
    \/ Golden /\ UNCHANGED <<dcaVars, rebalanceVars, rsiVars>>
    \/ (Momentum \/ LowVolatility) /\ UNCHANGED <<dcaVars, rsiVars>>
    \/ Rsi /\ UNCHANGED <<dcaVars, rebalanceVars>>

Spec == Init /\ [][Next]_vars

-----------------------------------------------------------------------------

TypeOK ==
    /\ baseline \in Baselines
    /\ pc \in {"feed", "on_time", "sell", "buy", "on_bar", "liquidate", "done"}
    /\ bar \in Bars(Symbols) \cup {NoBar}
    /\ session \in 0..MaxDay /\ session = bar.day
    /\ latest \in [Symbols -> {0} \cup Closes]
    /\ cash \in Int /\ profit \in Int
    /\ lots \in [Symbols -> Seq(LotStates)]
    /\ closes \in [Symbols -> Seq(Closes)]
    /\ seen \in [Symbols -> 0..session]
    /\ holdings \subseteq Symbols
    /\ DcaTypeOK /\ RebalanceTypeOK /\ RsiTypeOK

\* A strategy is never told that a purchase failed, and an exit of what it
\* does not believe in never comes: every lot must be one it will sell.
EveryLotIsBelieved ==
    (baseline # "dca" /\ pc = "feed") => Held \subseteq holdings

\* The places of the portfolio are those of the account too: one lot of a
\* symbol, and not more symbols than the configuration allows, although the
\* strategies count what they believe and the accounts what they hold.
Places ==
    CASE baseline = "golden_cross" -> 1
      [] baseline = "rsi_mr" -> MaxPositions
      [] OTHER -> TopN

CapKept ==
    baseline # "dca" =>
        /\ Cardinality(Held) <= Places
        /\ \A s \in Symbols : Len(lots[s]) <= 1

\* Sizes are computed from the price of the signal and paid at that of the
\* fill plus commission, and several purchases share one cash.
NoDebt == cash >= 0

\* Nothing is lost between cash, lots and trades, with every amount floored on
\* its own.  (The last lots of dca are closed without touching the cash.)
MoneyAddsUp ==
    (baseline # "dca" \/ pc = "feed") =>
        cash + FoldFunction(+, 0, [s \in Symbols |->
                 FoldFunction(+, 0, [i \in DOMAIN lots[s] |-> Cost(lots[s][i])])])
          = StartingCapital + profit

=============================================================================
