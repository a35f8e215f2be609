---------------------------- MODULE StudyProcess ----------------------------
(***************************************************************************)
(* What the command lines of the studies share: one process that is run    *)
(* again and again, its exit code, the exceptions main() tells apart and   *)
(* the files of a report.                                                  *)
(***************************************************************************)
EXTENDS Integers, Sequences, FiniteSets

CONSTANTS MaxRuns, MaxFaults   \* bounds: runs; exceptions and crashes

ASSUME ProcessAssumption == MaxRuns \in Nat /\ MaxFaults \in Nat

VARIABLES
    script,     \* "orb", "gap", "c4", "walk_forward", "backtest"
    pc,
    exit,       \* how the last run ended
    runs,
    faults,
    told        \* file of a report -> the run it tells of, 0 = none or half

ReportFiles == {"markdown", "csv", "trades"}

\* RuntimeError and the errors of the loaders end with 2, OSError with 3,
\* everything else with a traceback.
Errors == {"2", "3", "traceback"}

Fault == faults < MaxFaults /\ faults' = faults + 1

Starts ==
    /\ pc = "idle" /\ runs < MaxRuns
    /\ runs' = runs + 1

Stops(code) == pc' = "idle" /\ exit' = code

\* A file of the report, opened with "w".
Tells(f) == pc = f /\ told' = [told EXCEPT ![f] = runs] /\ UNCHANGED <<script, runs, faults>>

\* A full disk, or a crash: the files before it are of this run, it is half
\* written, and those behind it are of an earlier one.
TellsHalf ==
    /\ pc \in ReportFiles /\ Fault
    /\ told' \in {[told EXCEPT ![pc] = 0], told}
    /\ \E code \in {"3", "killed"} : Stops(code)
    /\ UNCHANGED <<script, runs>>

\* What main() makes of an exception while it computes, and a crash there.
ComputingFails ==
    /\ pc = "compute" /\ Fault
    /\ \E code \in Errors \cup {"killed"} : Stops(code)
    /\ UNCHANGED <<script, runs, told>>
=============================================================================
