----------------------------- MODULE BarCaches -----------------------------
(***************************************************************************)
(* The two caches of past bars under one clock.                            *)
(***************************************************************************)
EXTENDS MinuteBars, DailyBars

CONSTANT FirstToday   \* the date on which the processes start

ASSUME FirstTodayAssumption == FirstToday \in Days

vars == <<clockVars, calls, minuteVars, dailyVars>>

Init ==
    /\ today = FirstToday /\ now = 0 /\ calls = 0
    /\ MinuteInit
    /\ DailyInit

Next ==
    \/ Tick /\ UNCHANGED <<minuteVars, dailyVars>>
    \/ MinuteNext /\ UNCHANGED <<clockVars, dailyVars>>
    \/ DailyNext /\ UNCHANGED <<clockVars, minuteVars>>

Spec == Init /\ [][Next]_vars

TypeOK == MarketTypeOK /\ MinuteTypeOK /\ DailyTypeOK
=============================================================================
