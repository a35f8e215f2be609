---------------------------- MODULE MCPortfolios ----------------------------
(* Two symbols over six days of three months.                          *)
EXTENDS Portfolios

MCMonths == <<1, 1, 1, 2, 2, 3>>
MCCloses == {4, 12}
MCLows == {3, 4, 12}
MCBaselines == {"dca", "golden_cross", "momentum", "low_vol", "rsi_mr"}
=============================================================================
