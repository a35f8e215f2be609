---------------------------- MODULE MCBarCaches ----------------------------
(* Two days of trade around a holiday that the calendar's file does not     *)
(* list, and a Saturday.  The processes start on the second day of trade.   *)
EXTENDS BarCaches, TLC

CONSTANTS a, one, two

MCBusinessDays == 1..3
MCTraded ==
    [s \in Symbols |-> [d \in 1..LastDay |->
        IF d = 1 THEN 1..BarsPerDay ELSE IF d = 3 THEN {2} ELSE {}]]
MCLists == {<<a>>}
MCRanges == {<<1, 3>>}
MCSymmetry == Permutations({one, two})
=============================================================================
