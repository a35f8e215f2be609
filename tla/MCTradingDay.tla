---------------------------- MODULE MCTradingDay ----------------------------
(* Two symbols, so that one order's fate meets another's record. *)
EXTENDS TradingDay
CONSTANTS a, b
MCUniverse == <<a, b>>
=============================================================================
