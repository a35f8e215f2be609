----------------------------- MODULE MCStudies -----------------------------
(* A grid of two axes with two values each, run three times; a calendar *)
(* whose months have two or three days.                                 *)
EXTENDS Studies

MCAxisSizes == <<2, 2>>
MCCurrent == <<1, 1>>
MCMeasured == [m \in Combos \X Inputs |->
    IF m[1] = <<1, 1>> THEN [mdd |-> -25, ret |-> 9, sharpe |-> 50]
    ELSE IF m[1] = <<2, 2>> THEN [mdd |-> -10, ret |-> 5, sharpe |-> 50]
    ELSE IF m[1] = <<1, 2>> THEN [mdd |-> -24, ret |-> 6, sharpe |-> 31]
    ELSE [mdd |-> -10, ret |-> 6, sharpe |-> IF m[2] = "now" THEN 31 ELSE 30]]
MCDcaReturn == [i \in Inputs |-> 5]
MCOtherFiles == {<<Row(<<2, 2>>, "before"), [combo |-> <<3, 1>>, of |-> "before"]>>}

MCMonthDays == <<3, 2, 3, 3, 2, 3, 3, 3, 3, 3, 2, 3, 3>>
MCSpans == [from : 1..5, to : {12, 15, 16}, train : 1..2, test : 1..2, step : 1..2]
           \cup [from : {5}, to : {4, 12}, train : 0..1, test : 0..1, step : 0..1]
MCReturns == {-1, 2}
MCDrawdowns == {-25, -24, -15, -14}
=============================================================================
