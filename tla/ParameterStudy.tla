--------------------------- MODULE ParameterStudy ---------------------------
(***************************************************************************)
(* The parameter studies: scripts/sensitivity.py over backtest/sensitivity *)
(* ("orb", and "gap" for --strategy-type=gap-reversal) and                 *)
(* scripts/c4_rsi_mr_sensitivity.py over backtest/rsi_mr_sensitivity       *)
(* ("c4").  The same command is given again and again, on data, dates or a *)
(* universe that may have changed, and may stop anywhere.                  *)
(*                                                                         *)
(* A combination is the tuple of its positions on the axes, a row is a     *)
(* combination with the inputs it was measured on.  A row that a crash cut *)
(* off in the middle is "torn"; "cut" is one whose last number lost digits. *)
(***************************************************************************)
EXTENDS StudyProcess, Functions, SequencesExt

CONSTANTS
    AxisSizes,          \* axis -> how many values it has
    Current,            \* the combination in use (c4)
    Inputs,             \* data, dates, capital and universe of a run
    Measured,           \* <<combination, input>> -> its metrics
    DcaReturn,          \* input -> what the DCA baseline returns on it
    OtherFiles          \* what a file of an earlier study may hold

Axes == DOMAIN AxisSizes
Combos == {c \in [Axes -> 1..Max(Range(AxisSizes))] :
             \A a \in Axes : c[a] <= AxisSizes[a]}

\* ParameterAxis and the grids refuse anything else.
ASSUME StudyAssumption ==
    /\ AxisSizes \in Seq(Nat \ {0}) /\ Axes # {}
    /\ Current \in Combos
    /\ Inputs # {} /\ Inputs \intersect {"cut", "torn"} = {}
    /\ Measured \in [Combos \X Inputs -> [mdd : Int, ret : Int, sharpe : Int]]
    /\ DcaReturn \in [Inputs -> Int]
    /\ OtherFiles \subseteq Seq([combo : [Axes -> Nat], of : Inputs])

VARIABLES
    resume,     \* --resume: "none", "same" as --output-csv, an "other" file
    workers,    \* --workers
    inputs,     \* those of this run
    file,       \* "same", "other" -> the rows of the CSV, <<>> also if absent
    existing,   \* the rows that --resume brought
    todo,       \* combinations submitted and not yet started
    running,    \* combinations in a worker
    finished,   \* [combo, ok]: futures done and not yet read
    new,        \* the rows of this run
    error,      \* the exception on its way: "none" or one of Errors
    merged,     \* the rows to be written at the end
    verdict     \* the Phase 3 verdict in the Markdown of c4

command == <<script, resume, workers, told>>
poolVars == <<todo, running, finished, new, error>>
studyVars == <<resume, workers, inputs, file, existing, poolVars, merged, verdict>>

-----------------------------------------------------------------------------
(* The grid.                                                               *)

GridSize == FoldFunction(LAMBDA x, y : x * y, 1, AxisSizes)

\* The odometer: the last axis that has a value left, those behind it again
\* at their first.
Turned(c) ==
    LET p == Max({a \in Axes : c[a] < AxisSizes[a]}) IN
    [a \in Axes |-> IF a < p THEN c[a] ELSE IF a = p THEN c[a] + 1 ELSE 1]

Combinations ==
    LET nth[n \in 1..GridSize] ==
          IF n = 1 THEN [a \in Axes |-> 1] ELSE Turned(nth[n - 1])
    IN nth

Row(c, of) == [combo |-> c, of |-> of]
CombosOf(rows) == {row.combo : row \in Range(rows)}

\* filter_remaining_combos: what no row has, in grid order, whatever inputs
\* the rows were measured on.
Remaining(rows) ==
    LET kept[n \in 0..GridSize] ==
          IF n = 0 THEN <<>>
          ELSE IF Combinations[n] \in CombosOf(rows) THEN kept[n - 1]
          ELSE Append(kept[n - 1], Combinations[n])
    IN kept[GridSize]

\* by_key: the last row of a combination counts.
LastOf(rows, c) == SelectLastInSeq(rows, LAMBDA row : row.combo = c)

\* merge_sensitivity_rows: grid order, new rows first, orphans are dropped.
Merged(old, fresh) ==
    LET all == old \o fresh
    IN [n \in 1..GridSize |-> all[LastOf(all, Combinations[n])]]

Missing(old, fresh) == Remaining(old \o fresh) # <<>>

-----------------------------------------------------------------------------
(* The CSV.                                                                *)

Torn(rows) == rows # <<>> /\ Last(rows).of = "torn"

\* What load_sensitivity_rows makes of a file: a torn line is too short, or
\* only its last cell is, and then a number is accepted as it stands.
OrbLoads(rows) ==
    IF ~Torn(rows) THEN {[rows |-> rows, error |-> "none"]}
    ELSE {[rows |-> <<>>, error |-> e] : e \in {"2", "traceback"}}
         \cup {[rows |-> Append(Front(rows), Row(Last(rows).combo, "cut")),
                error |-> "none"]}

\* The last cell of c4 is a bool, which is refused when it is not whole.
C4Loads(rows) ==
    {[rows |-> IF Torn(rows) THEN <<>> ELSE rows, error |-> e] :
       e \in IF Torn(rows) THEN {"2", "traceback"} ELSE {"none"}}

Loads(rows) == IF script = "c4" THEN C4Loads(rows) ELSE OrbLoads(rows)

\* What a "w" that did not come to its end leaves of the rows: any of them, up
\* to all, and part of the next.
LeftOf(rows) ==
    {SubSeq(rows, 1, n) : n \in 0..Len(rows)}
    \cup {Append(SubSeq(rows, 1, n), Row(rows[n + 1].combo, "torn")) :
            n \in 0..(Len(rows) - 1)}

-----------------------------------------------------------------------------
(* The run.                                                                *)

\* With the process goes all it had in memory.
Ends(code) ==
    /\ Stops(code)
    /\ existing' = <<>> /\ merged' = <<>> /\ error' = "none"
    /\ todo' = <<>> /\ running' = {} /\ finished' = {} /\ new' = <<>>

\* The arguments are checked; c4 measures its DCA baseline.
Begin ==
    /\ Starts
    /\ ~(script = "gap" /\ workers > 1)
    /\ inputs' \in Inputs
    /\ pc' = "load" /\ exit' = "none" /\ verdict' = "none"
    /\ UNCHANGED <<command, file, existing, poolVars, merged, faults>>

\* --from behind --to, or the provider of gap-reversal, which cannot be pickled
\* for a worker.
Refused ==
    /\ Starts
    /\ exit' = "2"
    /\ UNCHANGED <<command, pc, inputs, file, existing, poolVars,
                   merged, verdict, faults>>

\* --resume of a file that is there.
LoadResume ==
    \E loaded \in IF resume = "none" THEN {[rows |-> <<>>, error |-> "none"]}
                  ELSE Loads(file[resume]) :
        IF loaded.error = "none"
        THEN /\ pc' = "run"
             /\ existing' = loaded.rows
             /\ todo' = Remaining(loaded.rows)
             /\ UNCHANGED <<running, finished, new, error, merged, exit>>
        ELSE Ends(loaded.error)

Load ==
    /\ pc = "load"
    /\ LoadResume
    /\ UNCHANGED <<command, inputs, file, verdict, runs, faults>>

\* The universe, the configuration, the loader or the DCA baseline fail.
LoadFails ==
    /\ pc = "load" /\ Fault
    /\ \E code \in Errors : Ends(code)
    /\ UNCHANGED <<command, inputs, file, verdict, runs>>

\* A combination goes to a worker.  One worker is the loop of
\* run_sensitivity_combos: the row is taken before the next one starts.
Start ==
    /\ pc = "run" /\ todo # <<>>
    /\ Cardinality(running) < workers
    /\ workers = 1 => finished = {}
    /\ running' = running \cup {Head(todo)}
    /\ todo' = Tail(todo)
    /\ UNCHANGED <<command, pc, inputs, file, existing, finished,
                   new, error, merged, verdict, exit, runs, faults>>

Completes(c, ok) ==
    /\ pc = "run" /\ c \in running
    /\ running' = running \ {c}
    /\ finished' = finished \cup {[combo |-> c, ok |-> ok]}
    /\ UNCHANGED <<command, pc, inputs, file, existing, todo,
                   new, error, merged, verdict, exit, runs>>

RunSingleCombo ==
    \/ \E c \in running : Completes(c, TRUE) /\ UNCHANGED faults
    \/ \E c \in running : Completes(c, FALSE) /\ Fault

\* An exception leaves the pool: futures that nobody started are cancelled,
\* but not those already in the call queue of the workers, which holds one
\* more than there are workers.
Raises(code) ==
    /\ error' = code
    /\ \E n \in 0..Len(todo) :
         /\ n <= IF workers = 1 THEN 0 ELSE workers + 1
         /\ todo' = SubSeq(todo, 1, n)

\* Mutant: the rows are not read back.
Flushed_Alone(row) == {[rows |-> <<row>>, error |-> "none"]}

\* Mutant: the row that is flushed is the one before.
Flushed_Late(row) ==
    {IF new # <<>> /\ loaded.error = "none"
     THEN [rows |-> Append(loaded.rows, Last(new)), error |-> "none"]
     ELSE loaded : loaded \in Loads(file["same"])}

\* append_sensitivity_row: all rows anew into a .tmp that replaces the file.
Flushed(row) ==
    {IF loaded.error = "none" THEN [rows |-> Append(loaded.rows, row), error |-> "none"]
     ELSE loaded : loaded \in Loads(file["same"])}

\* on_row, in the main process: only --resume writes before the end.
Takes(c) ==
    /\ new' = Append(new, Row(c, inputs))
    /\ IF resume = "none" THEN UNCHANGED <<file, todo, error>>
       ELSE \E flush \in Flushed(Row(c, inputs)) :
              IF flush.error = "none"
              THEN file' = [file EXCEPT !["same"] = flush.rows] /\ UNCHANGED <<todo, error>>
              ELSE Raises(flush.error) /\ UNCHANGED file

\* as_completed hands over what is done, in any order.
Read(f) ==
    /\ pc = "run" /\ error = "none" /\ f \in finished
    /\ finished' = finished \ {f}
    /\ UNCHANGED <<command, pc, inputs, existing, running, merged,
                   verdict, exit, runs>>

ReadRow ==
    \E f \in finished : f.ok /\ Read(f) /\ Takes(f.combo) /\ UNCHANGED faults

\* The worker's exception, or one of the flush: the file stays as it is.
ReadError ==
    \E f \in finished :
        /\ Read(f)
        /\ \/ ~f.ok /\ UNCHANGED faults
           \/ f.ok /\ resume # "none" /\ Fault
        /\ \E code \in Errors : Raises(code)
        /\ UNCHANGED <<file, new>>

\* The pool is left when its last worker has ended.
Drained ==
    /\ pc = "run" /\ error # "none" /\ running = {} /\ todo = <<>>
    /\ Ends(error)
    /\ UNCHANGED <<command, inputs, file, verdict, runs, faults>>

\* kill, a reboot, the machine freezes; a .tmp half written is nobody's.
Kill ==
    /\ pc \in {"load", "run"} /\ Fault
    /\ Ends("killed")
    /\ UNCHANGED <<command, inputs, file, verdict, runs>>

-----------------------------------------------------------------------------
(* The report.                                                             *)

\* The gates of ADR-0022, as the row took them when it was measured.
AllGatesPass(row) ==
    LET metrics == Measured[<<row.combo, row.of>>] IN
    /\ metrics.mdd > -25
    /\ metrics.ret - DcaReturn[row.of] > 0
    /\ metrics.sharpe > 30

\* Mutant: the change of any axes.
Adjacent_All == Combos \ {Current}

\* One axis changed, to any other of its values.
Adjacent ==
    {c \in Combos : c # Current /\ \E a \in Axes : c = [Current EXCEPT ![a] = c[a]]}

FindRow(rows, c) == {row \in Range(rows) : row.combo = c}

Passing(rows) == {row \in rows : AllGatesPass(row)}

\* The Phase 3 gate: half of the grid, and 70 % of what is next to the
\* combination in use; without a row there the ratio is 0.
Phase3(rows) ==
    LET neighbours == UNION {FindRow(rows, c) : c \in Adjacent}
        overall == 2 * Cardinality(Passing(Range(rows))) >= GridSize
        local == /\ neighbours # {}
                 /\ 10 * Cardinality(Passing(neighbours)) >= 7 * Cardinality(neighbours)
    IN IF overall /\ local THEN "PASS" ELSE "FAIL"

AllRead == pc = "run" /\ error = "none" /\ todo = <<>> /\ running = {} /\ finished = {}

\* The Markdown, before the CSV.
Report ==
    /\ AllRead
    /\ IF Missing(existing, new) THEN Ends("2") /\ UNCHANGED verdict
       ELSE /\ pc' = "write"
            /\ merged' = Merged(existing, new)
            /\ verdict' = IF script = "c4" THEN Phase3(merged') ELSE verdict
            /\ UNCHANGED <<exit, existing, poolVars>>
    /\ UNCHANGED <<command, inputs, file, runs, faults>>

ReportFails ==
    /\ AllRead /\ Fault
    /\ Ends("3")
    /\ UNCHANGED <<command, inputs, file, verdict, runs>>

\* The final write_csv, over what the flushes have left.
WriteCsv ==
    /\ pc = "write"
    /\ file' = [file EXCEPT !["same"] = merged]
    /\ Ends("0")
    /\ UNCHANGED <<command, inputs, verdict, runs, faults>>

\* It is no .tmp: a full disk or a crash leaves what had got there.
WriteBreaks ==
    /\ pc = "write" /\ Fault
    /\ \E left \in LeftOf(merged) : file' = [file EXCEPT !["same"] = left]
    /\ \E code \in {"3", "killed"} : Ends(code)
    /\ UNCHANGED <<command, inputs, verdict, runs>>

Study ==
    /\ script \in {"orb", "gap", "c4"}
    /\ \/ Begin \/ Refused \/ Load \/ LoadFails
       \/ Start \/ RunSingleCombo \/ ReadRow \/ ReadError \/ Drained \/ Kill
       \/ Report \/ ReportFails \/ WriteCsv \/ WriteBreaks

NoStudy == resume = "none" /\ workers = 1

StudyInit ==
    /\ IF script \in {"orb", "gap", "c4"}
       THEN resume \in {"none", "same", "other"} /\ workers \in {1, 2}
       ELSE NoStudy
    /\ inputs = CHOOSE i \in Inputs : TRUE
    /\ \E rows \in IF resume = "other" THEN OtherFiles ELSE {<<>>} :
         file = [f \in {"same", "other"} |-> IF f = "other" THEN rows ELSE <<>>]
    /\ existing = <<>> /\ merged = <<>> /\ verdict = "none" /\ error = "none"
    /\ todo = <<>> /\ running = {} /\ finished = {} /\ new = <<>>

-----------------------------------------------------------------------------

Rows == [combo : [Axes -> Nat], of : Inputs \cup {"cut", "torn"}]

StudyTypeOK ==
    /\ resume \in {"none", "same", "other"} /\ workers \in {1, 2}
    /\ inputs \in Inputs
    /\ file \in [{"same", "other"} -> Seq(Rows)]
    /\ existing \in Seq(Rows) /\ new \in Seq(Rows) /\ merged \in Seq(Rows)
    /\ todo \in Seq(Combos) /\ running \subseteq Combos
    /\ finished \subseteq [combo : Combos, ok : BOOLEAN]
    /\ error \in Errors \cup {"none"}
    /\ verdict \in {"none", "PASS", "FAIL"}

Whole(rows) == IF Torn(rows) THEN Front(rows) ELSE rows

\* Whatever raises, is killed or is repeated, in whatever order the workers
\* end: the rows of the CSV only ever get company, until the final write.
FlushedRowsStay ==
    [][pc # "write" => IsPrefix(Whole(file["same"]), file'["same"])]_file

\* A loop stopped at any point before the final write has measured at most one
\* combination that the next run with the same --resume measures again
\* (docs/runbooks/step_a_home_resume.md:11).
Unrecorded == Combos \ (Range(todo) \cup CombosOf(file["same"]))

OneCombinationIsLost ==
    (pc = "run" /\ resume = "same" /\ workers = 1 /\ error = "none") =>
        Cardinality(Unrecorded) <= 1

\* The grid in the order of its positions, all axes being numbers.
Before(c, d) ==
    \E a \in Axes : c[a] < d[a] /\ \A b \in Axes : b < a => c[b] = d[b]

\* What an uninterrupted run decides, from the metrics alone.
Decided(i) ==
    LET passes(c) == AllGatesPass(Row(c, i))
        near == {c \in Combos : Cardinality({a \in Axes : c[a] # Current[a]}) = 1}
    IN IF /\ 2 * Cardinality({c \in Combos : passes(c)}) >= Cardinality(Combos)
          /\ near # {}
          /\ 10 * Cardinality({c \in near : passes(c)}) >= 7 * Cardinality(near)
       THEN "PASS" ELSE "FAIL"

\* Exit 0 after any number of failures, crashes and resumes is the file of an
\* uninterrupted run, each combination once and in grid order, and where no row
\* is of other inputs its verdict.
ResumeIsUninterrupted ==
    (script \in {"orb", "gap", "c4"} /\ exit = "0") =>
        LET rows == file["same"] IN
        /\ CombosOf(rows) = Combos
        /\ \A n, m \in DOMAIN rows : n < m => Before(rows[n].combo, rows[m].combo)
        /\ (script = "c4" /\ \A row \in Range(rows) : row.of = inputs)
             => verdict = Decided(inputs)
=============================================================================
