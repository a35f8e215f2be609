----------------------------- MODULE MarketDays -----------------------------
(***************************************************************************)
(* What the data sources have: days of trading, the bars of a day, and the *)
(* clock that both bar caches read.  A day is a number, a bar is the number *)
(* of its minute counted from 09:00.                                       *)
(***************************************************************************)
EXTENDS Integers, FiniteSets

CONSTANTS
    Symbols,
    LastDay,      \* bound: days
    BarsPerDay,
    BusinessDays, \* days is_business_day accepts
    MaxCalls,     \* bound: requests for bars to either cache
    Traded        \* symbol -> day -> bars in which it was traded

Days == 1..LastDay
Bars == 1..BarsPerDay

\* A holiday the calendar's file does not list is a business day without
\* trading, never the other way round.
ASSUME MarketAssumption ==
    /\ LastDay \in Nat /\ BarsPerDay \in Nat \ {0}
    /\ BusinessDays \subseteq Days /\ MaxCalls \in Nat
    /\ Traded \in [Symbols -> [Days -> SUBSET Bars]]
    /\ \A s \in Symbols : \A d \in Days \ BusinessDays : Traded[s][d] = {}

VARIABLES
    today,        \* the date of the clock
    now,          \* bars of today that are over
    calls         \* bound: requests so far

clockVars == <<today, now>>

MarketOpen == now < BarsPerDay

\* The bars the source can show: those of today only as far as the day is.
Shown(sym, day) ==
    {b \in Traded[sym][day] : day < today \/ (day = today /\ b <= now)}

\* Of the last day only the night is reached.
Tick ==
    /\ today < LastDay
    /\ \/ /\ now < BarsPerDay
          /\ now' = now + 1
          /\ UNCHANGED today
       \/ /\ now = BarsPerDay
          /\ today' = today + 1
          /\ now' = 0
    /\ UNCHANGED calls

Called ==
    /\ calls < MaxCalls
    /\ calls' = calls + 1

MarketTypeOK == today \in Days /\ now \in 0..BarsPerDay /\ calls \in 0..MaxCalls
=============================================================================
