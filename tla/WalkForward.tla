----------------------------- MODULE WalkForward -----------------------------
(***************************************************************************)
(* backtest/walk_forward.py with scripts/walk_forward_rsi_mr.py: a span is *)
(* cut into rolling windows, RSI mean reversion is computed on the train   *)
(* and the test period of each, and the averages decide.                   *)
(***************************************************************************)
EXTENDS StudyProcess, FiniteSetsExt

CONSTANTS
    MonthDays,   \* month -> its number of days
    Spans,       \* [from, to, train, test, step] of the command line
    Returns,     \* returns of a backtest, in percent
    Threshold    \* pass_threshold, in percent

Months == DOMAIN MonthDays

ASSUME WalkForwardAssumption ==
    /\ MonthDays \in Seq(Nat \ {0}) /\ Months # {}
    /\ Returns \subseteq Int /\ Threshold \in Nat
    /\ Spans \subseteq [from : Nat \ {0}, to : Nat, train : Nat, test : Nat, step : Nat]

VARIABLES
    span,
    windows,     \* those still to be computed
    results,     \* [n, train, test]: windows computed, sums of their returns
    passed,      \* how many of them passed their three gates
    isPass       \* the verdict of the report

walkVars == <<span, windows, results, passed, isPass>>

-----------------------------------------------------------------------------
(* Dates: the days are numbered, from the first day of the first month.    *)

FirstDay ==
    LET first[m \in Months] == IF m = 1 THEN 1 ELSE first[m - 1] + MonthDays[m - 1]
    IN [m \in Months |-> first[m]]

Date(m, d) == FirstDay[m] + d - 1
MonthIn(date) == Max({m \in Months : FirstDay[m] <= date})
DayIn(date) == date - FirstDay[MonthIn(date)] + 1

\* The calendar goes on behind a span, as far as a window can reach.
ASSUME CalendarAssumption ==
    \A s \in Spans : s.from <= s.to =>
        MonthIn(s.to + 1) + s.train + s.test + s.step <= Len(MonthDays)

\* The day of the month, or the month's last.
AddMonths(date, n) ==
    LET m == MonthIn(date) + n IN Date(m, Min({DayIn(date), MonthDays[m]}))

\* Mutant: a window begins a step after the one before it.
Window_Chained(s, i) ==
    LET start[k \in 0..i] == IF k = 0 THEN s.from ELSE AddMonths(start[k - 1], s.step)
        testFrom == AddMonths(start[i], s.train)
    IN [trainFrom |-> start[i], trainTo |-> testFrom - 1,
        testFrom |-> testFrom, testTo |-> AddMonths(testFrom, s.test) - 1]

Window(s, i) ==
    LET trainFrom == AddMonths(s.from, i * s.step)
        testFrom == AddMonths(trainFrom, s.train)
    IN [trainFrom |-> trainFrom, trainTo |-> testFrom - 1,
        testFrom |-> testFrom, testTo |-> AddMonths(testFrom, s.test) - 1]

\* generate_windows refuses a span that is none.
Rolls(s) == s.from <= s.to /\ s.train > 0 /\ s.test > 0 /\ s.step > 0

\* generate_windows: up to the first one that does not fit.
GenerateWindows(s) ==
    LET n == CHOOSE i \in 0..Len(MonthDays) :
               Window(s, i).testTo > s.to /\ \A k \in 0..(i - 1) : Window(s, k).testTo <= s.to
    IN [i \in 1..n |-> Window(s, i - 1)]

\* What the WalkForwardWindows of a list must be.
Wellformed(w) ==
    w.trainFrom <= w.trainTo /\ w.testFrom <= w.testTo /\ w.trainTo < w.testFrom

\* run_rsi_mr_walk_forward, which takes lists of its caller, asks for more.
Accepted(ws) == ws # <<>> /\ \A i \in 2..Len(ws) : ws[i - 1].testFrom < ws[i].testFrom

-----------------------------------------------------------------------------

Nothing == [n |-> 0, train |-> 0, test |-> 0]

NoSpan == [from |-> 0, to |-> 0, train |-> 0, test |-> 0, step |-> 0]

\* With the process goes all it had in memory.
Forgets ==
    span' = NoSpan /\ windows' = <<>> /\ results' = Nothing /\ passed' = 0 /\ isPass' = FALSE

WalkStops(code) == Stops(code) /\ Forgets

BeginWalk ==
    /\ Starts
    /\ \E s \in Spans : LET ws == IF Rolls(s) THEN GenerateWindows(s) ELSE <<>> IN
         IF ws # <<>> /\ \A i \in DOMAIN ws : Wellformed(ws[i])
         THEN /\ span' = s /\ windows' = ws /\ pc' = "compute" /\ exit' = "none"
              /\ UNCHANGED <<results, passed, isPass>>
         ELSE WalkStops("2")
    /\ UNCHANGED <<script, faults, told>>

\* The three gates of a test period.
WindowPasses(mdd, test, dca, sharpe) == mdd > -25 /\ test - dca > 0 /\ sharpe > 30

\* Train and test of the strategy, test of the DCA baseline.
ComputeWindow ==
    /\ pc = "compute" /\ results.n < Len(windows)
    /\ \E train, test, dca \in Returns, mdd \in {-25, -24}, sharpe \in {30, 31} :
         /\ results' = [n |-> results.n + 1, train |-> results.train + train,
                        test |-> results.test + test]
         /\ passed' = IF WindowPasses(mdd, test, dca, sharpe) THEN passed + 1 ELSE passed
    /\ UNCHANGED <<script, pc, exit, runs, faults, told, span, windows, isPass>>

\* degradation <= pass_threshold, of the averages; a train average that is not
\* positive counts as no degradation.
DegradationWithin(train, test) ==
    train > 0 => 100 * (train - test) <= Threshold * train

Aggregate ==
    /\ pc = "compute" /\ results.n = Len(windows)
    /\ isPass' = DegradationWithin(results.train, results.test)
    /\ pc' = "markdown"
    /\ UNCHANGED <<script, exit, runs, faults, told, span, windows, results, passed>>

WriteWalk ==
    \/ Tells("markdown") /\ pc' = "csv" /\ UNCHANGED <<exit, walkVars>>
    \/ Tells("csv") /\ WalkStops("0")

Walk ==
    /\ script = "walk_forward"
    /\ \/ BeginWalk \/ ComputeWindow \/ Aggregate \/ WriteWalk
       \/ (ComputingFails \/ TellsHalf) /\ Forgets

WalkInit == span = NoSpan /\ windows = <<>> /\ results = Nothing /\ passed = 0 /\ isPass = FALSE

WalkTypeOK ==
    /\ span \in Spans \cup {NoSpan}
    /\ windows \in Seq([trainFrom : Nat, trainTo : Nat, testFrom : Nat, testTo : Nat])
    /\ results \in [n : 0..Len(windows), train : Int, test : Int]
    /\ passed \in 0..results.n /\ isPass \in BOOLEAN

\* Whatever the lengths of the months do to the ends of the periods: windows
\* lie in the span, each begins on the day of the month the span begins on, as
\* near as its month allows, the library would accept the list, and where every
\* month has that day and the step is the test period, no day is tested twice
\* and none is left out.
WindowsRoll ==
    windows # <<>> =>
        /\ Accepted(windows)
        /\ \A i \in DOMAIN windows :
             /\ span.from <= windows[i].trainFrom /\ windows[i].testTo <= span.to
             /\ DayIn(windows[i].trainFrom) =
                  Min({DayIn(span.from), MonthDays[MonthIn(windows[i].trainFrom)]})
        /\ (span.step = span.test /\ \A m \in Months : DayIn(span.from) <= MonthDays[m])
             => \A i \in 2..Len(windows) : windows[i].testFrom = windows[i - 1].testTo + 1
=============================================================================
