--------------------------- MODULE MCRiskManager ---------------------------
(* A small instance of RiskManager: three symbols, two days, one account   *)
(* of 100 won where a position is 40 and the loss limit 20.                *)
EXTENDS RiskManager

MCDates == 1..2
MCCapitals == {0, 3, 100}
MCPrices == {15, 40, 50}
MCCashLevels == {39, 100}
MCPnls == {-24, -12, 5}
MCQuantities == {0, 1}
=============================================================================
