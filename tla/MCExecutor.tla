----------------------------- MODULE MCExecutor -----------------------------
(* Small instances of Executor.  An account of 100 won where a position is *)
(* 40: two shares at 20 won.  One loss of 20 trips the breaker.            *)
EXTENDS Executor

CONSTANTS a, b

MCUniverse == <<a, b>>
MCDates == 1..2
MCOneDay == {1}
MCThreeDays == 1..3
MCCapitals == {100}
MCPrices == {20}
MCOneShare == {40}
MCCashLevels == {0, 100}
MCPnls == {-20, 5}
MCQuantities == {0, 2}
MCNone == {0}
MCShares == {0, 1}
MCCash == {100}
MCLoss == {-20}
MCEmptyAccount == {[s \in Symbols |-> 0]}
MCOneHeld == {[s \in Symbols |-> IF s = a THEN 1 ELSE 0]}
MCAccounts == [Symbols -> {0, 2}]
=============================================================================
