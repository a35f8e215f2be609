---------------------------- MODULE Rebalancing ----------------------------
(***************************************************************************)
(* backtest/momentum.py and backtest/low_volatility.py with the strategies *)
(* of the same names: at the first bar of a new period the best TopN of    *)
(* the universe are held.  The two programs are one but for the ranking and *)
(* the length of the period.                                               *)
(***************************************************************************)
EXTENDS PortfolioAccount

CONSTANTS
    TopN,
    Lookback,         \* lookback_days
    MonthInterval     \* rebalance_month_interval

ASSUME RebalancingAssumption ==
    /\ TopN \in Nat \ {0} /\ Lookback \in Nat \ {0} /\ MonthInterval \in 1..12

VARIABLES
    period,      \* of the last rebalancing, 0 = none
    exits,       \* signals not yet processed
    entries,
    snapshot     \* cash_snapshot

rebalanceVars == <<period, exits, entries, snapshot>>

-----------------------------------------------------------------------------
(* The strategies.                                                         *)

LastClose(s) == closes[s][Len(closes[s])]

\* momentum.py: last / first, the smaller code first.
Stronger(s, t) ==
    LET x == LastClose(s) * closes[t][1]
        y == LastClose(t) * closes[s][1]
    IN  x > y \/ (x = y /\ s < t)

\* low_volatility.py: the variance of the daily returns, over the square of
\* the product of the closes they are relative to.
Product(buffer) ==
    FoldFunction(LAMBDA x, y : x * y, 1, [i \in 1..(Len(buffer) - 1) |-> buffer[i]])

Returns(buffer) ==
    [i \in 1..(Len(buffer) - 1) |->
        ((buffer[i + 1] - buffer[i]) * Product(buffer)) \div buffer[i]]

Variance(buffer) ==
    LET r == Returns(buffer)
        n == Len(buffer) - 1
        sum == FoldFunction(+, 0, r)
    IN  n * FoldFunction(+, 0, [i \in 1..n |-> r[i] * r[i]]) - sum * sum

Calmer(s, t) ==
    LET p == Product(closes[s])
        q == Product(closes[t])
        x == Variance(closes[s]) * q * q
        y == Variance(closes[t]) * p * p
    IN  x < y \/ (x = y /\ s < t)

Better(s, t) == IF baseline = "momentum" THEN Stronger(s, t) ELSE Calmer(s, t)

\* A variance takes two returns.
Candidates ==
    {s \in Symbols : /\ Len(closes[s]) >= Lookback
                     /\ baseline = "low_vol" => Len(closes[s]) >= 3}

\* Momentum has months for periods; absolute months from 0, here from 1.
PeriodOf(day) ==
    IF baseline = "momentum" THEN MonthOf[day]
    ELSE (MonthOf[day] - 1) \div MonthInterval + 1

\* With fewer candidates the rebalancing is tried again the next day.
Due == period # PeriodOf(bar.day) /\ Cardinality(Candidates) >= TopN

\* Mutant: nothing is sold.
Rebalance_KeepsAll(top) ==
    /\ exits' = {}
    /\ entries' = top \ holdings
    /\ holdings' = holdings \cup top

Rebalance(top) ==
    /\ exits' = holdings \ top
    /\ entries' = top \ holdings
    /\ holdings' = top

OnTime ==
    /\ pc = "on_time"
    /\ Due
    /\ \E top \in SUBSET Candidates :
         /\ Cardinality(top) = TopN
         /\ \A s \in top, t \in Candidates \ top : Better(s, t)
         /\ Rebalance(top)
    /\ period' = PeriodOf(bar.day)
    /\ pc' = "sell"
    /\ UNCHANGED <<streamVars, accountVars, bufferVars, snapshot>>

NotDue ==
    /\ pc = "on_time"
    /\ ~Due
    /\ pc' = "on_bar"
    /\ UNCHANGED <<streamVars, accountVars, bufferVars, holdings, rebalanceVars>>

-----------------------------------------------------------------------------
(* The account.                                                            *)

\* Mutant: the closes of the day come first.
RebalanceBar_ClosesFirst ==
    /\ \E next \in Bars(Symbols) : Arrives(next)
    /\ pc' = IF session \in {0, session'} THEN "on_bar" ELSE "on_time"
    /\ Buffered(Lookback)
    /\ UNCHANGED <<latest, accountVars, holdings, rebalanceVars>>

RebalanceBar ==
    /\ \E next \in Bars(Symbols) : Arrives(next)
    /\ pc' = IF session \in {0, session'} THEN "on_bar" ELSE "on_time"
    /\ UNCHANGED <<latest, accountVars, bufferVars, holdings, rebalanceVars>>

ExecuteExit ==
    /\ pc = "sell"
    /\ \E s \in exits :
         /\ \A t \in exits : s <= t
         /\ exits' = exits \ {s}
         /\ Sells(s, LastClose(s) * 100)
    /\ UNCHANGED <<streamVars, pc, bufferVars, holdings, period, entries, snapshot>>

\* What is left after the sales is divided once.
ExitsDone ==
    /\ pc = "sell"
    /\ exits = {}
    /\ snapshot' = cash
    /\ pc' = "buy"
    /\ UNCHANGED <<streamVars, accountVars, bufferVars, holdings, period, exits, entries>>

AttemptBuy ==
    /\ pc = "buy"
    /\ UNCHANGED streamVars
    /\ \E s \in entries :
         LET price == LastClose(s) * 100 IN
         /\ \A t \in entries : s <= t
         /\ entries' = entries \ {s}
         /\ IF lots[s] # <<>> THEN UNCHANGED accountVars
            ELSE Buys(s, price, Allocated(snapshot, TopN, price))
    /\ UNCHANGED <<pc, bufferVars, holdings, period, exits, snapshot>>

EntriesDone ==
    /\ pc = "buy"
    /\ entries = {}
    /\ pc' = "on_bar"
    /\ UNCHANGED <<streamVars, accountVars, bufferVars, holdings, rebalanceVars>>

RebalanceOnBar ==
    /\ pc = "on_bar"
    /\ UNCHANGED bar
    /\ Closed
    /\ Buffered(Lookback)
    /\ pc' = "feed"
    /\ UNCHANGED <<baseline, session, equity, accountVars, holdings, rebalanceVars>>

RebalanceNext ==
    \/ RebalanceBar \/ OnTime \/ NotDue
    \/ ExecuteExit \/ ExitsDone \/ AttemptBuy \/ EntriesDone
    \/ RebalanceOnBar
    \/ (EndOfStream \/ Liquidate \/ Liquidated) /\ UNCHANGED rebalanceVars

Momentum == baseline = "momentum" /\ RebalanceNext

LowVolatility == baseline = "low_vol" /\ RebalanceNext

RebalanceInit == period = 0 /\ exits = {} /\ entries = {} /\ snapshot = 0

RebalanceTypeOK ==
    /\ period \in Nat
    /\ exits \subseteq Symbols /\ entries \subseteq Symbols
    /\ snapshot \in Int

\* A rebalancing decides and trades at closes of earlier days: with the bar of
\* the new day in hand no symbol's buffer has it yet.
NoLookAhead ==
    pc \in {"on_time", "sell", "buy"} => \A s \in Symbols : seen[s] < bar.day
=============================================================================
