---------------------------- MODULE DcaBacktest ----------------------------
(***************************************************************************)
(* backtest/dca.py with strategy/dca.py: one symbol, bought once a month   *)
(* on its purchase_day-th bar of the month and never sold.                 *)
(***************************************************************************)
EXTENDS PortfolioAccount

CONSTANTS Target, MonthlyInvestment, PurchaseDay

ASSUME DcaAssumption ==
    /\ Target \in Symbols
    /\ MonthlyInvestment \in 1..StartingCapital
    /\ PurchaseDay \in 1..28

VARIABLES
    month,       \* current_year_month, 0 = none
    counter,     \* bars of the month
    entered      \* entered_this_month

dcaVars == <<month, counter, entered>>

-----------------------------------------------------------------------------

DcaQty == (MonthlyInvestment * 10000) \div BuyFillPrice(bar'.close * 100)

NewMonth == MonthOf[bar'.day] # month

Count == IF NewMonth THEN 1 ELSE counter + 1

\* Mutant: the mark of the month is not looked at.
DcaSignal_Again == Count >= PurchaseDay

\* Later than the day is good enough, when the month began without bars.
DcaSignal == (NewMonth \/ ~entered) /\ Count >= PurchaseDay

\* The month counts as entered before anybody knows if there is a purchase.
DcaOnBar ==
    /\ month' = MonthOf[bar'.day]
    /\ counter' = Count
    /\ entered' = ((~NewMonth /\ entered) \/ DcaSignal)

DcaBar ==
    /\ \E next \in Bars({Target}) : Arrives(next)
    /\ Closed
    /\ DcaOnBar
    /\ IF DcaSignal THEN Buys(Target, bar'.close * 100, DcaQty)
       ELSE UNCHANGED accountVars
    /\ UNCHANGED <<pc, bufferVars, holdings>>

\* _hypothetical_liquidation makes the trades and leaves the cash alone.
DcaLiquidate ==
    LET lot == Head(lots[Target]) IN
    /\ pc = "liquidate"
    /\ lots[Target] # <<>>
    /\ profit' = profit + Proceeds(lot, latest[Target] * 100) - Cost(lot)
    /\ lots' = [lots EXCEPT ![Target] = Tail(@)]
    /\ UNCHANGED <<streamVars, pc, cash, bufferVars, holdings, dcaVars>>

Dca ==
    /\ baseline = "dca"
    /\ \/ DcaBar
       \/ (EndOfStream \/ Liquidated) /\ UNCHANGED dcaVars
       \/ DcaLiquidate

DcaInit == month = 0 /\ counter = 0 /\ entered = FALSE

DcaTypeOK ==
    /\ month \in {0} \cup {MonthOf[d] : d \in Days}
    /\ counter \in 0..MaxDay
    /\ entered \in BOOLEAN

\* A month is bought once, whatever bars it lacks and however long the buffer
\* of lots: the months of the lots go up.
OncePerMonth ==
    baseline = "dca" =>
        \A i, j \in DOMAIN lots[Target] :
            i < j => MonthOf[lots[Target][i].day] < MonthOf[lots[Target][j].day]
=============================================================================
