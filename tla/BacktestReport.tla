--------------------------- MODULE BacktestReport ---------------------------
(***************************************************************************)
(* scripts/backtest.py: one strategy over a span, its verdict, and the     *)
(* three files of its report.  Metrics are percent, Sharpe hundredths.     *)
(***************************************************************************)
EXTENDS StudyProcess

CONSTANTS
    Drawdowns, Sharpes, Sessions,   \* what a backtest may come to
    SymbolCounts                    \* how many --symbols resolve to

ASSUME ReportAssumption ==
    /\ Drawdowns \subseteq Int /\ Sharpes \subseteq Int /\ Sessions \subseteq Nat
    /\ SymbolCounts \subseteq Nat

Strategies == {"orb", "vwap-mr", "gap-reversal", "dca", "golden-cross", "momentum",
               "low-vol", "rsi-mr"}

VARIABLES
    strategy,
    symbols,     \* how many are computed, 0 = none yet
    result,      \* [mdd, sharpe, sessions]
    label        \* the verdict: [failed, caveats]

reportVars == <<strategy, symbols, result, label>>

-----------------------------------------------------------------------------
(* The verdicts.                                                           *)

Short(r) == IF r.sessions < 240 THEN {"sample"} ELSE {}

\* _verdict_label: the drawdown alone.
SessionLabel(r, n) ==
    IF r.mdd <= -15 THEN [failed |-> {"mdd"}, caveats |-> {}]
    ELSE [failed |-> {}, caveats |-> Short(r) \cup IF n = 1 THEN {"single"} ELSE {}]

\* Mutant: the size of the sample is forgotten.
Gates_AnySample(r, open) ==
    LET failed == (IF r.mdd > -25 THEN {} ELSE {"mdd"})
                  \cup IF r.sharpe > 30 THEN {} ELSE {"sharpe"}
    IN [failed |-> failed, caveats |-> IF failed = {} THEN open ELSE {}]

\* Gates 1 and 3 of ADR-0022; a sample too small is said of a PASS only.
Gates(r, open) ==
    LET failed == (IF r.mdd > -25 THEN {} ELSE {"mdd"})
                  \cup IF r.sharpe > 30 THEN {} ELSE {"sharpe"}
    IN [failed |-> failed, caveats |-> IF failed = {} THEN Short(r) \cup open ELSE {}]

\* dca is what gate 2 compares with; of the others it stays open.
DcaLabel(r) == Gates(r, {})
GoldenCrossLabel(r) == Gates(r, {"alpha"})
MomentumLabel(r) == Gates(r, {"alpha"})
LowVolatilityLabel(r) == Gates(r, {"alpha"})
RsiLabel(r) == Gates(r, {"alpha"})

-----------------------------------------------------------------------------
(* The pipelines.                                                          *)

NoResult == [mdd |-> 0, sharpe |-> 0, sessions |-> 0]
NoLabel == [failed |-> {}, caveats |-> {}]

Results == [mdd : Drawdowns, sharpe : Sharpes, sessions : Sessions]

BeginReport ==
    /\ Starts
    /\ strategy' \in Strategies
    /\ symbols' = 0 /\ result' = NoResult /\ label' = NoLabel
    /\ pc' = "compute" /\ exit' = "none"
    /\ UNCHANGED <<script, faults, told>>

\* --from behind --to, or no capital.
ReportRefused ==
    /\ Starts
    /\ exit' = "2"
    /\ UNCHANGED <<script, pc, faults, told, reportVars>>

Computes(n, r) ==
    /\ pc = "compute"
    /\ symbols' = n /\ result' = r
    /\ pc' = "markdown"
    /\ UNCHANGED <<script, exit, runs, faults, told, strategy>>

\* A universe without a symbol is refused; a list of nothing but commas comes
\* through as no symbol, which the loader and each strategy's configuration
\* refuse with the same error.
Resolved == SymbolCounts \ {0}

NoSymbols ==
    /\ pc = "compute" /\ 0 \in SymbolCounts
    /\ strategy \notin {"dca", "golden-cross"}
    /\ Stops("2")
    /\ UNCHANGED <<script, runs, faults, told, reportVars>>

SessionPipeline ==
    /\ strategy \in {"orb", "vwap-mr", "gap-reversal"}
    /\ \E n \in Resolved, r \in Results : Computes(n, r) /\ label' = SessionLabel(r, n)

\* The first of the symbols, or 069500.
DcaPipeline ==
    /\ strategy = "dca"
    /\ \E r \in Results : Computes(1, r) /\ label' = DcaLabel(r)

GoldenCrossPipeline ==
    /\ strategy = "golden-cross"
    /\ \E r \in Results : Computes(1, r) /\ label' = GoldenCrossLabel(r)

MomentumPipeline ==
    /\ strategy = "momentum"
    /\ \E n \in Resolved, r \in Results : Computes(n, r) /\ label' = MomentumLabel(r)

LowVolatilityPipeline ==
    /\ strategy = "low-vol"
    /\ \E n \in Resolved, r \in Results : Computes(n, r) /\ label' = LowVolatilityLabel(r)

RsiPipeline ==
    /\ strategy = "rsi-mr"
    /\ \E n \in Resolved, r \in Results : Computes(n, r) /\ label' = RsiLabel(r)

\* The verdict is a line of the Markdown.
WriteMarkdown == Tells("markdown") /\ pc' = "csv" /\ UNCHANGED exit
WriteMetricsCsv == Tells("csv") /\ pc' = "trades" /\ UNCHANGED exit
WriteTradesCsv == Tells("trades") /\ Stops("0")

Backtest ==
    /\ script = "backtest"
    /\ \/ BeginReport \/ ReportRefused \/ NoSymbols
       \/ SessionPipeline \/ DcaPipeline \/ GoldenCrossPipeline
       \/ MomentumPipeline \/ LowVolatilityPipeline \/ RsiPipeline
       \/ /\ WriteMarkdown \/ WriteMetricsCsv \/ WriteTradesCsv
             \/ ComputingFails \/ TellsHalf
          /\ UNCHANGED reportVars

ReportInit ==
    strategy = "orb" /\ symbols = 0 /\ result = NoResult /\ label = NoLabel

ReportTypeOK ==
    /\ strategy \in Strategies /\ symbols \in SymbolCounts \cup {0, 1}
    /\ result \in Results \cup {NoResult}
    /\ label \in [failed : SUBSET {"mdd", "sharpe"},
                   caveats : SUBSET {"sample", "single", "alpha"}]

\* Exit 0 is a report of which all files tell of the run that has ended,
\* whatever earlier runs have left half written, and of which a PASS without
\* reservations has its 240 sessions, no drawdown of 25 %, and, but for the
\* strategies of a session, its Sharpe ratio (ADR-0017, ADR-0022).
PassIsEarned ==
    (script = "backtest" /\ exit = "0") =>
        /\ \A f \in ReportFiles : told[f] = runs
        /\ label.failed = {} => result.mdd > -25
        /\ (label.failed = {} /\ label.caveats \subseteq {"alpha"}) =>
             /\ result.sessions >= 240
             /\ symbols > 1 \/ strategy \in {"dca", "golden-cross"} \/ result.sharpe > 30
             /\ strategy \in {"orb", "vwap-mr", "gap-reversal"} \/ result.sharpe > 30
=============================================================================
