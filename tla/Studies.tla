------------------------------ MODULE Studies ------------------------------
(***************************************************************************)
(* The command lines of the studies side by side: a behaviour is of one of *)
(* them, run over and over.                                                *)
(***************************************************************************)
EXTENDS ParameterStudy, WalkForward, BacktestReport

vars == <<script, pc, exit, runs, faults, told, studyVars, walkVars, reportVars>>

Init ==
    /\ script \in {"orb", "gap", "c4", "walk_forward", "backtest"}
    /\ pc = "idle" /\ exit = "none" /\ runs = 0 /\ faults = 0
    /\ told = [f \in ReportFiles |-> 0]
    /\ StudyInit /\ WalkInit /\ ReportInit

Next ==
    \/ Study /\ UNCHANGED <<walkVars, reportVars>>
    \/ Walk /\ UNCHANGED <<studyVars, reportVars>>
    \/ Backtest /\ UNCHANGED <<studyVars, walkVars>>

Spec == Init /\ [][Next]_vars

TypeOK ==
    /\ script \in {"orb", "gap", "c4", "walk_forward", "backtest"}
    /\ pc \in {"idle", "load", "run", "write", "compute"} \cup ReportFiles
    /\ exit \in Errors \cup {"none", "0", "killed"}
    /\ runs \in 0..MaxRuns /\ faults \in 0..MaxFaults
    /\ told \in [ReportFiles -> 0..MaxRuns]
    /\ StudyTypeOK /\ WalkTypeOK /\ ReportTypeOK
=============================================================================
