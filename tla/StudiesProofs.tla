--------------------------- MODULE StudiesProofs ---------------------------
(***************************************************************************)
(* What the files and the verdicts of the studies say, for every grid,     *)
(* every data and however often a run is stopped and given again, and what *)
(* the windows of a walk-forward are on every calendar.                    *)
(***************************************************************************)
EXTENDS Studies, FiniteSetTheorems, SequenceTheorems, WellFoundedInduction, TLAPS

-----------------------------------------------------------------------------
(* The report of a backtest.                                               *)

\* What the verdict promises of the result it is of.
Earned ==
    /\ label.failed = {} => result.mdd > -25
    /\ (label.failed = {} /\ label.caveats \subseteq {"alpha"}) =>
         /\ result.sessions >= 240
         /\ symbols > 1 \/ strategy \in {"dca", "golden-cross"} \/ result.sharpe > 30
         /\ strategy \in {"orb", "vwap-mr", "gap-reversal"} \/ result.sharpe > 30

\* The files are written in their order, behind the verdict.
Written ==
    /\ exit = "0" => pc = "idle" /\ \A f \in ReportFiles : told[f] = runs
    /\ pc = "csv" => told["markdown"] = runs
    /\ pc = "trades" => told["markdown"] = runs /\ told["csv"] = runs
    /\ pc \in ReportFiles \/ exit = "0" => Earned

PassInv ==
    /\ runs \in Nat /\ told \in [ReportFiles -> Nat]
    /\ script = "backtest" => Written

LEMMA RunsTyped ==
    ASSUME runs \in Nat, told \in [ReportFiles -> Nat], [Next]_vars
    PROVE  runs' \in Nat /\ told' \in [ReportFiles -> Nat] /\ script' = script
<1>1. CASE UNCHANGED <<runs, told, script>>
  BY <1>1
<1>2. ASSUME Starts, UNCHANGED <<told, script>>
      PROVE  runs' \in Nat /\ told' \in [ReportFiles -> Nat] /\ script' = script
  BY <1>2 DEF Starts
<1>3. ASSUME NEW f \in ReportFiles, Tells(f)
      PROVE  runs' \in Nat /\ told' \in [ReportFiles -> Nat] /\ script' = script
  BY <1>3 DEF Tells
<1>4. CASE TellsHalf
  <2>1. told' \in {[told EXCEPT ![pc] = 0], told} /\ pc \in ReportFiles
    BY <1>4 DEF TellsHalf
  <2>2. [told EXCEPT ![pc] = 0] \in [ReportFiles -> Nat]
    OBVIOUS
  <2> QED
    BY <1>4, <2>1, <2>2 DEF TellsHalf
<1>5. CASE Study
  <2>1. CASE Begin \/ Refused
    BY <1>2, <2>1 DEF Begin, Refused, command
  <2>2. CASE Load \/ LoadFails \/ Start \/ RunSingleCombo \/ ReadRow \/ ReadError
    BY <2>2, <1>1 DEF Load, LoadFails, Start, RunSingleCombo, Completes, ReadRow, ReadError,
       Read, command
  <2>3. CASE \/ Drained \/ Kill \/ Report \/ ReportFails \/ WriteCsv \/ WriteBreaks
    BY <2>3, <1>1 DEF Drained, Kill, Report, ReportFails, WriteCsv, WriteBreaks, command
  <2> QED
    BY <1>5, <2>1, <2>2, <2>3 DEF Study
<1>6. CASE Walk
  <2>1. CASE BeginWalk
    BY <1>2, <2>1 DEF BeginWalk
  <2>2. CASE ComputeWindow \/ Aggregate \/ ComputingFails
    BY <1>1, <2>2 DEF ComputeWindow, Aggregate, ComputingFails
  <2>3. CASE WriteWalk
    BY <1>3, <2>3 DEF WriteWalk, ReportFiles
  <2> QED
    BY <1>4, <1>6, <2>1, <2>2, <2>3 DEF Walk
<1>7. CASE Backtest
  <2>1. CASE BeginReport \/ ReportRefused
    BY <1>2, <2>1 DEF BeginReport, ReportRefused
  <2>2. CASE \/ NoSymbols \/ SessionPipeline \/ DcaPipeline \/ GoldenCrossPipeline
             \/ MomentumPipeline \/ LowVolatilityPipeline \/ RsiPipeline
             \/ ComputingFails
    BY <1>1, <2>2 DEF NoSymbols, SessionPipeline, DcaPipeline, GoldenCrossPipeline,
       MomentumPipeline, LowVolatilityPipeline, RsiPipeline, Computes, ComputingFails
  <2>3. CASE WriteMarkdown \/ WriteMetricsCsv \/ WriteTradesCsv
    BY <1>3, <2>3 DEF WriteMarkdown, WriteMetricsCsv, WriteTradesCsv, ReportFiles
  <2> QED
    BY <1>4, <1>7, <2>1, <2>2, <2>3 DEF Backtest
<1>8. CASE UNCHANGED vars
  BY <1>1, <1>8 DEF vars
<1> QED
  BY <1>5, <1>6, <1>7, <1>8 DEF Next

\* What a verdict of the gates promises, and one of the drawdown alone.
LEMMA GatesPromise ==
    ASSUME NEW r \in Results, NEW open, Gates(r, open).failed = {}
    PROVE  /\ r.mdd > -25 /\ r.sharpe > 30
           /\ Gates(r, open).caveats \subseteq {"alpha"} => r.sessions >= 240
<1>1. r.mdd \in Int /\ r.sharpe \in Int /\ r.sessions \in Nat
  BY ReportAssumption DEF Results
<1>2. r.mdd > -25 /\ r.sharpe > 30
  BY <1>1 DEF Gates
<1>3. Gates(r, open).caveats = Short(r) \cup open
  BY DEF Gates
<1>4. "sample" \notin {"alpha"}
  OBVIOUS
<1>5. Gates(r, open).caveats \subseteq {"alpha"} => Short(r) = {}
  BY <1>3, <1>4 DEF Short
<1>6. Short(r) = {} => r.sessions >= 240
  BY <1>1 DEF Short
<1> QED
  BY <1>2, <1>5, <1>6

LEMMA SessionPromises ==
    ASSUME NEW r \in Results, NEW n \in Nat \ {0}, SessionLabel(r, n).failed = {}
    PROVE  /\ r.mdd > -25
           /\ SessionLabel(r, n).caveats \subseteq {"alpha"} => r.sessions >= 240 /\ n > 1
<1>1. r.mdd \in Int /\ r.sessions \in Nat
  BY ReportAssumption DEF Results
<1>2. ~(r.mdd <= -15)
  BY DEF SessionLabel
<1>3. SessionLabel(r, n).caveats = Short(r) \cup IF n = 1 THEN {"single"} ELSE {}
  BY <1>2 DEF SessionLabel
<1>4. "sample" \notin {"alpha"} /\ "single" \notin {"alpha"}
  OBVIOUS
<1>5. SessionLabel(r, n).caveats \subseteq {"alpha"} => Short(r) = {} /\ n # 1
  BY <1>3, <1>4 DEF Short
<1>6. Short(r) = {} => r.sessions >= 240
  BY <1>1 DEF Short
<1>7. r.mdd > -25
  BY <1>1, <1>2
<1> QED
  BY <1>5, <1>6, <1>7

\* A backtest that is computed has its verdict from its own result.
LEMMA LabelsEarned ==
    ASSUME \/ SessionPipeline \/ DcaPipeline \/ GoldenCrossPipeline
           \/ MomentumPipeline \/ LowVolatilityPipeline \/ RsiPipeline
    PROVE  Earned' /\ pc' = "markdown" /\ exit' = exit /\ pc = "compute"
<1>1. ASSUME NEW n \in Nat \ {0}, NEW r \in Results, Computes(n, r),
             label' = SessionLabel(r, n), strategy \in {"orb", "vwap-mr", "gap-reversal"}
      PROVE  Earned'
  BY <1>1, SessionPromises DEF Computes, Earned
<1>2. ASSUME NEW n, NEW r \in Results, Computes(n, r), NEW open, label' = Gates(r, open)
      PROVE  Earned'
  BY <1>2, GatesPromise DEF Computes, Earned
<1>3. Resolved \subseteq Nat \ {0}
  BY ReportAssumption DEF Resolved
<1>4. Earned'
  <2>1. CASE SessionPipeline
    BY <1>1, <1>3, <2>1 DEF SessionPipeline
  <2>2. CASE DcaPipeline \/ GoldenCrossPipeline
    BY <1>2, <2>2 DEF DcaPipeline, GoldenCrossPipeline, DcaLabel, GoldenCrossLabel
  <2>3. CASE MomentumPipeline \/ LowVolatilityPipeline \/ RsiPipeline
    BY <1>2, <2>3 DEF MomentumPipeline, LowVolatilityPipeline, RsiPipeline, MomentumLabel,
       LowVolatilityLabel, RsiLabel
  <2> QED
    BY <2>1, <2>2, <2>3
<1>5. \E n, r : Computes(n, r)
  BY DEF SessionPipeline, DcaPipeline, GoldenCrossPipeline, MomentumPipeline,
     LowVolatilityPipeline, RsiPipeline
<1> QED
  BY <1>4, <1>5 DEF Computes

LEMMA WrittenStep ==
    ASSUME runs \in Nat, told \in [ReportFiles -> Nat], Written, Backtest
    PROVE  Written'
<1>1. CASE BeginReport
  BY <1>1 DEF BeginReport, Starts, Written, ReportFiles
<1>2. CASE ReportRefused
  BY <1>2 DEF ReportRefused, Starts, Written, ReportFiles
<1>3. CASE NoSymbols
  BY <1>3 DEF NoSymbols, Stops, Written, ReportFiles
<1>4. CASE \/ SessionPipeline \/ DcaPipeline \/ GoldenCrossPipeline
           \/ MomentumPipeline \/ LowVolatilityPipeline \/ RsiPipeline
  BY <1>4, LabelsEarned DEF Written
<1>5. CASE (ComputingFails \/ TellsHalf) /\ UNCHANGED reportVars
  <2>1. exit' \in Errors \cup {"killed"} /\ pc' = "idle"
    BY <1>5 DEF ComputingFails, TellsHalf, Stops, Errors
  <2> QED
    BY <2>1 DEF Written, Errors, ReportFiles
<1>6. CASE (WriteMarkdown \/ WriteMetricsCsv \/ WriteTradesCsv) /\ UNCHANGED reportVars
  <2>1. Earned'
    <3>1. Earned
      BY <1>6 DEF WriteMarkdown, WriteMetricsCsv, WriteTradesCsv, Tells, Written, ReportFiles
    <3> QED
      BY <1>6, <3>1 DEF Earned, reportVars
  <2>2. pc # "idle" /\ exit # "0"
    BY <1>6 DEF WriteMarkdown, WriteMetricsCsv, WriteTradesCsv, Tells, Written
  <2>3. CASE WriteMarkdown
    BY <2>1, <2>2, <2>3 DEF WriteMarkdown, Tells, Written, ReportFiles
  <2>4. CASE WriteMetricsCsv
    BY <2>1, <2>2, <2>4 DEF WriteMetricsCsv, Tells, Written, ReportFiles
  <2>5. CASE WriteTradesCsv
    BY <2>1, <2>2, <2>5 DEF WriteTradesCsv, Tells, Stops, Written, ReportFiles
  <2> QED
    BY <1>6, <2>3, <2>4, <2>5
<1> QED
  BY <1>1, <1>2, <1>3, <1>4, <1>5, <1>6 DEF Backtest

\* Exit 0 of a backtest is a report of one run, and a PASS in it is earned.
THEOREM PassesAreEarned == Spec => []PassIsEarned
<1>1. Init => PassInv
  <2> SUFFICES ASSUME Init PROVE PassInv
    OBVIOUS
  <2>1. runs \in Nat /\ told \in [ReportFiles -> Nat]
    BY DEF Init
  <2>2. Written
    BY DEF Init, Written, ReportFiles
  <2> QED
    BY <2>1, <2>2 DEF PassInv
<1>2. PassInv /\ [Next]_vars => PassInv'
  <2> SUFFICES ASSUME PassInv, [Next]_vars PROVE PassInv'
    OBVIOUS
  <2>1. runs \in Nat /\ told \in [ReportFiles -> Nat]
    BY DEF PassInv
  <2>2. runs' \in Nat /\ told' \in [ReportFiles -> Nat] /\ script' = script
    BY <2>1, RunsTyped
  <2> SUFFICES ASSUME script = "backtest" PROVE Written'
    BY <2>2 DEF PassInv
  <2>3. Written
    BY DEF PassInv
  <2>4. CASE Backtest
    BY <2>1, <2>3, <2>4, WrittenStep
  <2>5. CASE UNCHANGED vars
    BY <2>3, <2>5 DEF vars, reportVars, Written, Earned
  <2> QED
    BY <2>4, <2>5 DEF Next, Study, Walk
<1>3. PassInv => PassIsEarned
  BY DEF PassInv, Written, Earned, PassIsEarned
<1> QED
  BY <1>1, <1>2, <1>3, PTL DEF Spec

-----------------------------------------------------------------------------
(* Numbers.                                                                *)

\* What holds of 0 and of the next number holds of all.
LEMMA Upwards ==
    ASSUME NEW P \in SUBSET Nat, 0 \in P, \A n \in P : n + 1 \in P
    PROVE  P = Nat
<1> DEFINE Bad == Nat \ P
           Less == OpToRel(<, Nat)
<1> SUFFICES ASSUME Bad # {} PROVE FALSE
  OBVIOUS
<1>1. IsWellFoundedOn(Less, Nat) /\ Bad \subseteq Nat
  BY NatLessThanWellFounded
<1>2. \A i, j \in Nat : i < j => <<i, j>> \in Less
  BY DEF OpToRel
<1> HIDE DEF Less
<1>3. PICK n \in Bad : \A m \in Bad : ~(<<m, n>> \in Less)
  <2> HIDE DEF Bad
  <2> QED
    BY <1>1, WFMin
<1>4. n \in Nat /\ n # 0 /\ n \notin P
  BY <1>3
<1>5. n - 1 \in Nat /\ n - 1 < n /\ (n - 1) + 1 = n
  BY <1>4
<1>6. n - 1 \in P
  BY <1>2, <1>3, <1>4, <1>5
<1> QED
  BY <1>4, <1>5, <1>6

LEMMA LeastOf ==
    ASSUME NEW S \in SUBSET Nat, S # {}
    PROVE  \E m \in S : \A n \in S : m <= n
<1> DEFINE Less == OpToRel(<, Nat)
<1>1. IsWellFoundedOn(Less, Nat)
  BY NatLessThanWellFounded
<1>2. \A i, j \in Nat : i < j => <<i, j>> \in Less
  BY DEF OpToRel
<1> HIDE DEF Less
<1>3. PICK m \in S : \A n \in S : ~(<<n, m>> \in Less)
  BY <1>1, WFMin
<1>4. \A n \in S : ~(n < m)
  BY <1>2, <1>3
<1> QED
  BY <1>4

LEMMA GreatestOf ==
    ASSUME NEW S \in SUBSET Nat, S # {}, NEW b \in Nat, \A n \in S : n <= b
    PROVE  Max(S) \in S /\ \A n \in S : n <= Max(S)
<1> DEFINE B == {k \in Nat : \A n \in S : n <= k}
<1>1. PICK m \in B : \A k \in B : m <= k
  <2>1. B \in SUBSET Nat /\ b \in B
    OBVIOUS
  <2> HIDE DEF B
  <2> QED
    BY <2>1, LeastOf
<1>2. m \in S
  <2> SUFFICES ASSUME m \notin S PROVE FALSE
    OBVIOUS
  <2>1. \A n \in S : n < m
    BY <1>1
  <2>2. m - 1 \in Nat /\ m - 1 < m /\ \A n \in S : n <= m - 1
    <3>1. PICK n \in S : TRUE
      OBVIOUS
    <3>2. m \in Nat /\ n \in Nat /\ n < m
      BY <1>1, <2>1, <3>1
    <3> QED
      BY <2>1, <3>2
  <2>3. m - 1 \in B
    BY <2>2
  <2> QED
    BY <1>1, <2>2, <2>3
<1>3. \E x \in S : \A y \in S : x >= y
  BY <1>1, <1>2
<1>4. Max(S) \in S /\ \A y \in S : Max(S) >= y
  BY <1>3 DEF Max
<1> QED
  BY <1>4

-----------------------------------------------------------------------------
(* The grid: its combinations, and their number.                           *)

LEMMA SizesTyped ==
    /\ Len(AxisSizes) \in Nat /\ Axes = 1..Len(AxisSizes) /\ Axes # {}
    /\ AxisSizes \in [Axes -> Nat \ {0}]
BY StudyAssumption DEF Axes

LEMMA SizesBounded == \E b \in Nat : \A a \in Axes : AxisSizes[a] <= b
<1> DEFINE P == {n \in Nat : \E b \in Nat : \A a \in Axes : a <= n => AxisSizes[a] <= b}
<1>1. 0 \in P
  BY SizesTyped
<1>2. ASSUME NEW n \in P PROVE n + 1 \in P
  <2>1. PICK b \in Nat : \A a \in Axes : a <= n => AxisSizes[a] <= b
    BY <1>2
  <2>2. CASE n + 1 \in Axes
    <3> DEFINE d == b + AxisSizes[n + 1]
    <3>1. AxisSizes[n + 1] \in Nat /\ d \in Nat /\ AxisSizes[n + 1] <= d /\ b <= d
      BY <2>1, <2>2, SizesTyped
    <3>2. \A a \in Axes : a \in Nat /\ AxisSizes[a] \in Nat /\ (a <= n + 1 => a <= n \/ a = n + 1)
      BY SizesTyped, <1>2
    <3> HIDE DEF d
    <3>3. \A a \in Axes : a <= n + 1 => AxisSizes[a] <= d
      BY <2>1, <3>1, <3>2
    <3> QED
      BY <3>1, <3>3
  <2>3. CASE n + 1 \notin Axes
    <3>1. \A a \in Axes : a \in Nat /\ (a <= n + 1 => a <= n)
      BY SizesTyped, <1>2, <2>3
    <3> QED
      BY <2>1, <3>1
  <2> QED
    BY <2>2, <2>3
<1>3. P = Nat
  <2>1. P \in SUBSET Nat
    OBVIOUS
  <2> HIDE DEF P
  <2> QED
    BY <1>1, <1>2, <2>1, Upwards
<1>4. Len(AxisSizes) \in P
  BY <1>3, SizesTyped
<1>5. \A a \in Axes : a <= Len(AxisSizes)
  BY SizesTyped
<1> QED
  BY <1>4, <1>5

\* A combination has a value of each axis.
Box(T) == {c \in [T -> Nat \ {0}] : \A a \in T : c[a] <= AxisSizes[a]}

LEMMA CombosAre == Combos = Box(Axes)
<1>1. /\ Range(AxisSizes) \in SUBSET Nat /\ Range(AxisSizes) # {}
      /\ \A a \in Axes : AxisSizes[a] \in Range(AxisSizes)
      /\ DOMAIN AxisSizes = Axes
  BY SizesTyped DEF Range
<1>2. PICK b \in Nat : \A n \in Range(AxisSizes) : n <= b
  BY SizesBounded, SizesTyped DEF Range
<1> DEFINE top == Max(Range(AxisSizes))
<1>3. top \in Nat /\ \A a \in Axes : AxisSizes[a] <= top
  BY <1>1, <1>2, GreatestOf
<1>4. Combos = {c \in [Axes -> 1..top] : \A a \in Axes : c[a] <= AxisSizes[a]}
  BY DEF Combos
<1> HIDE DEF top
<1>5. ASSUME NEW c \in Box(Axes) PROVE c \in [Axes -> 1..top]
  <2>1. c \in [Axes -> Nat \ {0}] /\ \A a \in Axes : c[a] <= AxisSizes[a]
    BY <1>5 DEF Box
  <2>2. \A a \in Axes : c[a] \in 1..top
    <3> TAKE a \in Axes
    <3>1. c[a] \in Nat \ {0} /\ AxisSizes[a] \in Nat /\ c[a] <= AxisSizes[a] /\ AxisSizes[a] <= top
      BY <1>3, <2>1, SizesTyped
    <3> QED
      BY <1>3, <3>1
  <2> QED
    BY <2>1, <2>2
<1>6. ASSUME NEW c \in Combos PROVE c \in [Axes -> Nat \ {0}]
  <2>1. 1..top \subseteq Nat \ {0}
    BY <1>3
  <2> QED
    BY <1>4, <1>6, <2>1
<1> QED
  BY <1>4, <1>5, <1>6 DEF Box

-----------------------------------------------------------------------------
(* The size of the grid is the number of its combinations: the fold takes  *)
(* one axis after the other, and so does the count.                        *)

\* The axis a fold takes next.
Chosen(T) == CHOOSE x \in T : TRUE

\* g holds the product of f over every part of its domain, as a fold computes it.
ProductsOf(f, g) ==
    g = [T \in SUBSET DOMAIN f |-> IF T = {} THEN 1 ELSE f[Chosen(T)] * g[T \ {Chosen(T)}]]

PartProducts(f) == CHOOSE g : ProductsOf(f, g)

LEMMA ChosenPart ==
    ASSUME NEW D, IsFiniteSet(D), NEW T \in SUBSET D, T # {}
    PROVE  /\ Chosen(T) \in T /\ T \ {Chosen(T)} \in SUBSET D
           /\ Cardinality(T) \in Nat \ {0}
           /\ Cardinality(T \ {Chosen(T)}) = Cardinality(T) - 1
<1>1. IsFiniteSet(T) /\ Cardinality(T) \in Nat
  BY FS_Subset, FS_CardinalityType
<1>2. Chosen(T) \in T
  BY DEF Chosen
<1>3. Cardinality(T) # 0
  BY <1>1, FS_EmptySet
<1> QED
  BY <1>1, <1>2, <1>3, FS_RemoveElement

LEMMA ProductsExist ==
    ASSUME NEW D, IsFiniteSet(D), NEW f, DOMAIN f = D
    PROVE  ProductsOf(f, PartProducts(f))
<1> DEFINE Step(g, T) == IF T = {} THEN 1 ELSE f[Chosen(T)] * g[T \ {Chosen(T)}]
           UpTo(n) == \E g : \A T \in SUBSET D : Cardinality(T) < n => g[T] = Step(g, T)
           P == {n \in Nat : UpTo(n)}
<1>0. \A T \in SUBSET D : Cardinality(T) \in Nat
  BY FS_Subset, FS_CardinalityType
<1>1. UpTo(0)
  BY <1>0
<1>2. ASSUME NEW n \in Nat, UpTo(n) PROVE UpTo(n + 1)
  <2>1. PICK g : \A T \in SUBSET D : Cardinality(T) < n => g[T] = Step(g, T)
    BY <1>2
  <2> DEFINE h == [T \in SUBSET D |-> Step(g, T)]
  <2>2. \A T \in SUBSET D : Cardinality(T) < n => h[T] = g[T]
    BY <2>1
  <2>3. ASSUME NEW T \in SUBSET D, Cardinality(T) < n + 1, T # {}
        PROVE  h[T] = f[Chosen(T)] * h[T \ {Chosen(T)}]
    <3>1. Cardinality(T \ {Chosen(T)}) < n /\ T \ {Chosen(T)} \in SUBSET D
      BY <2>3, ChosenPart
    <3>2. h[T \ {Chosen(T)}] = g[T \ {Chosen(T)}]
      BY <2>2, <3>1
    <3> QED
      BY <2>3, <3>2
  <2>4. h[{}] = 1
    OBVIOUS
  <2> HIDE DEF h
  <2>5. \A T \in SUBSET D : Cardinality(T) < n + 1 => h[T] = Step(h, T)
    BY <2>3, <2>4
  <2> QED
    BY <2>5
<1> HIDE DEF UpTo
<1>3. P = Nat
  <2>1. P \in SUBSET Nat /\ 0 \in P /\ \A n \in P : n + 1 \in P
    BY <1>1, <1>2
  <2> HIDE DEF P
  <2> QED
    BY <2>1, Upwards
<1>4. Cardinality(D) \in Nat /\ UpTo(Cardinality(D) + 1)
  BY <1>0, <1>3
<1>5. PICK g : \A T \in SUBSET D : Cardinality(T) < Cardinality(D) + 1 => g[T] = Step(g, T)
  BY <1>4 DEF UpTo
<1>6. \A T \in SUBSET D : Cardinality(T) < Cardinality(D) + 1
  BY <1>0, <1>4, FS_Subset
<1>7. \A T \in SUBSET D : g[T] = Step(g, T)
  BY <1>5, <1>6
<1> DEFINE k == [T \in SUBSET D |-> g[T]]
<1>8. \A T \in SUBSET D : k[T] = g[T] /\ (T # {} => T \ {Chosen(T)} \in SUBSET D)
  BY ChosenPart
<1>9. k = [T \in SUBSET D |-> Step(k, T)]
  <2>1. \A T \in SUBSET D : k[T] = Step(k, T)
    BY <1>7, <1>8
  <2>2. k = [T \in SUBSET D |-> k[T]]
    OBVIOUS
  <2> HIDE DEF k
  <2> QED
    BY <2>1, <2>2
<1> HIDE DEF k
<1>10. ProductsOf(f, k)
  BY <1>9 DEF ProductsOf
<1> QED
  BY <1>10 DEF PartProducts

LEMMA GridIsProduct == GridSize = PartProducts(AxisSizes)[DOMAIN AxisSizes]
BY Zenon DEF GridSize, FoldFunction, FoldFunctionOnSet, MapThenFoldSet, PartProducts,
   ProductsOf, Chosen

\* One axis more multiplies the combinations.
LEMMA BoxGrows ==
    ASSUME NEW T \in SUBSET Axes, NEW x \in Axes, x \notin T, IsFiniteSet(Box(T))
    PROVE  /\ IsFiniteSet(Box(T \cup {x}))
           /\ Cardinality(Box(T \cup {x})) = AxisSizes[x] * Cardinality(Box(T))
<1> DEFINE S == (1..AxisSizes[x]) \X Box(T)
           U == T \cup {x}
           with(v, c) == [a \in U |-> IF a = x THEN v ELSE c[a]]
           F == [p \in S |-> with(p[1], p[2])]
<1>0. AxisSizes[x] \in Nat \ {0}
  BY SizesTyped
<1>1. IsFiniteSet(S) /\ Cardinality(S) = AxisSizes[x] * Cardinality(Box(T))
  <2>1. IsFiniteSet(1..AxisSizes[x]) /\ Cardinality(1..AxisSizes[x]) = AxisSizes[x]
    BY SMTT(30), <1>0, FS_Interval
  <2> QED
    BY <2>1, FS_Product
<1>2. ASSUME NEW v \in 1..AxisSizes[x], NEW c \in Box(T) PROVE with(v, c) \in Box(U)
  <2>1. c \in [T -> Nat \ {0}] /\ \A a \in T : c[a] <= AxisSizes[a]
    BY DEF Box
  <2>2. \A a \in U : with(v, c)[a] \in Nat \ {0} /\ with(v, c)[a] <= AxisSizes[a]
    BY <1>0, <2>1
  <2> QED
    BY <2>2 DEF Box
<1>3. F \in [S -> Box(U)]
  BY <1>2
<1>4. ASSUME NEW p \in S, NEW q \in S, F[p] = F[q] PROVE p = q
  <2>1. /\ p = <<p[1], p[2]>> /\ q = <<q[1], q[2]>>
        /\ p[2] \in [T -> Nat \ {0}] /\ q[2] \in [T -> Nat \ {0}]
    BY DEF Box
  <2>2. with(p[1], p[2]) = with(q[1], q[2])
    BY <1>4
  <2>3. p[1] = q[1]
    <3>1. with(p[1], p[2])[x] = p[1] /\ with(q[1], q[2])[x] = q[1]
      OBVIOUS
    <3> QED
      BY <2>2, <3>1
  <2>4. \A a \in T : p[2][a] = q[2][a]
    <3>1. \A a \in T : with(p[1], p[2])[a] = p[2][a] /\ with(q[1], q[2])[a] = q[2][a]
      OBVIOUS
    <3> QED
      BY <2>2, <3>1
  <2>5. p[2] = q[2]
    BY <2>1, <2>4
  <2> QED
    BY <2>1, <2>3, <2>5
<1>5. ASSUME NEW c \in Box(U) PROVE \E p \in S : F[p] = c
  <2>1. c \in [U -> Nat \ {0}] /\ \A a \in U : c[a] <= AxisSizes[a]
    BY DEF Box
  <2> DEFINE r == [a \in T |-> c[a]]
  <2>2. r \in Box(T)
    BY <2>1 DEF Box
  <2>3. c[x] \in 1..AxisSizes[x]
    BY <1>0, <2>1
  <2>4. with(c[x], r) = c
    BY <2>1
  <2>5. <<c[x], r>> \in S /\ F[<<c[x], r>>] = with(c[x], r)
    BY <2>2, <2>3
  <2> QED
    BY <2>4, <2>5
<1>6. F \in Bijection(S, Box(U))
  <2> HIDE DEF S, F, U
  <2>1. IsInjective(F)
    BY <1>3, <1>4 DEF IsInjective
  <2> QED
    BY <1>3, <1>5, <2>1 DEF Bijection, Injection, Surjection
<1>7. ExistsBijection(S, Box(U))
  BY <1>6 DEF ExistsBijection
<1> QED
  BY <1>1, <1>7, FS_Bijection

LEMMA GridCounts ==
    /\ IsFiniteSet(Combos) /\ Cardinality(Combos) = GridSize
    /\ GridSize \in Nat \ {0}
<1> DEFINE q == PartProducts(AxisSizes)
<1>1. IsFiniteSet(Axes) /\ DOMAIN AxisSizes = Axes
  BY SizesTyped, FS_Interval
<1>2. \A T \in SUBSET Axes : q[T] = IF T = {} THEN 1 ELSE AxisSizes[Chosen(T)] * q[T \ {Chosen(T)}]
  <2>1. ProductsOf(AxisSizes, q)
    BY <1>1, ProductsExist
  <2> HIDE DEF q
  <2> QED
    BY <1>1, <2>1 DEF ProductsOf
<1>3. GridSize = q[Axes]
  BY <1>1, GridIsProduct
<1> HIDE DEF q
<1> DEFINE Good(T) == /\ IsFiniteSet(Box(T)) /\ Cardinality(Box(T)) = q[T]
                      /\ q[T] \in Nat \ {0}
           P == {n \in Nat : \A T \in SUBSET Axes : Cardinality(T) = n => Good(T)}
<1>4. 0 \in P
  <2> SUFFICES ASSUME NEW T \in SUBSET Axes, Cardinality(T) = 0 PROVE Good(T)
    OBVIOUS
  <2>1. T = {}
    BY <1>1, FS_Subset, FS_EmptySet
  <2>2. q[T] = 1
    BY <1>2, <2>1
  <2> DEFINE e == [a \in T |-> 1]
  <2>3. Box(T) = {e}
    <3>1. e \in Box(T)
      BY <2>1 DEF Box
    <3>2. ASSUME NEW c \in Box(T) PROVE c = e
      <4>1. c = [a \in T |-> c[a]]
        BY DEF Box
      <4>2. [a \in T |-> c[a]] = [a \in T |-> 1]
        BY <2>1
      <4> QED
        BY <4>1, <4>2
    <3> HIDE DEF e
    <3> QED
      BY <3>1, <3>2
  <2> HIDE DEF e
  <2>4. IsFiniteSet({e}) /\ Cardinality({e}) = 1
    BY FS_Singleton
  <2> QED
    BY <2>2, <2>3, <2>4
<1>5. ASSUME NEW n \in P PROVE n + 1 \in P
  <2> SUFFICES ASSUME NEW T \in SUBSET Axes, Cardinality(T) = n + 1 PROVE Good(T)
    BY <1>5
  <2> DEFINE x == Chosen(T)
             R == T \ {x}
  <2>0. n \in Nat /\ n + 1 # 0
    BY <1>5
  <2>1. T # {}
    BY <2>0, FS_EmptySet
  <2>2. x \in T /\ x \in Axes /\ R \in SUBSET Axes /\ Cardinality(R) = n
    <3>1. x \in T /\ R \in SUBSET Axes /\ Cardinality(R) = Cardinality(T) - 1
      BY <1>1, <2>1, ChosenPart
    <3> QED
      BY <2>0, <3>1
  <2>3. q[T] = AxisSizes[x] * q[R]
    BY <1>2, <2>1
  <2>4. x \notin R /\ T = R \cup {x}
    BY <2>2
  <2>5. Good(R)
    BY <1>5, <2>2
  <2> HIDE DEF x, R
  <2>6. IsFiniteSet(Box(T)) /\ Cardinality(Box(T)) = AxisSizes[x] * Cardinality(Box(R))
    BY <2>2, <2>4, <2>5, BoxGrows
  <2>7. AxisSizes[x] \in Nat \ {0}
    BY <2>2, SizesTyped
  <2>8. AxisSizes[x] * q[R] \in Nat \ {0}
    <3>1. \A i, j \in Nat \ {0} : i * j \in Nat \ {0}
      OBVIOUS
    <3> QED
      BY <2>5, <2>7, <3>1
  <2> QED
    BY <2>3, <2>5, <2>6, <2>8
<1> HIDE DEF Good
<1>6. P = Nat
  <2>1. P \in SUBSET Nat
    OBVIOUS
  <2> HIDE DEF P
  <2> QED
    BY <1>4, <1>5, <2>1, Upwards
<1>7. Good(Axes)
  BY <1>1, <1>6, FS_CardinalityType
<1> QED
  BY <1>3, <1>7, CombosAre DEF Good

-----------------------------------------------------------------------------
(* The odometer: it turns to the next combination of the order.            *)

LEMMA ComboTyped ==
    ASSUME NEW c
    PROVE  c \in Combos <=> /\ c \in [Axes -> Nat \ {0}]
                            /\ \A a \in Axes : c[a] <= AxisSizes[a]
BY CombosAre DEF Box

LEMMA AxesNumbers == /\ \A a \in Axes : a \in Nat /\ a <= Len(AxisSizes)
                     /\ \A a \in Axes : AxisSizes[a] \in Nat \ {0}
                     /\ Axes \in SUBSET Nat
BY SizesTyped

\* The least axis at which two combinations differ.
LEMMA FirstDifference ==
    ASSUME NEW c \in Combos, NEW d \in Combos, c # d
    PROVE  \E a \in Axes : c[a] # d[a] /\ \A b \in Axes : b < a => c[b] = d[b]
<1> DEFINE S == {a \in Axes : c[a] # d[a]}
<1>1. S \in SUBSET Nat /\ S # {}
  <2>1. c \in [Axes -> Nat \ {0}] /\ d \in [Axes -> Nat \ {0}]
    BY ComboTyped
  <2>2. \E a \in Axes : c[a] # d[a]
    BY <2>1
  <2> QED
    BY <2>2, AxesNumbers
<1>2. PICK a \in S : \A b \in S : a <= b
  <2> HIDE DEF S
  <2> QED
    BY <1>1, LeastOf
<1>3. \A b \in Axes : b < a => b \notin S
  <2>1. \A b \in Axes : b \in Nat /\ a \in Nat
    BY AxesNumbers, <1>2
  <2> QED
    BY <1>2, <2>1
<1> QED
  BY <1>2, <1>3

LEMMA BeforeTotal ==
    ASSUME NEW c \in Combos, NEW d \in Combos, c # d
    PROVE  Before(c, d) \/ Before(d, c)
<1>1. PICK a \in Axes : c[a] # d[a] /\ \A b \in Axes : b < a => c[b] = d[b]
  BY FirstDifference
<1>2. c[a] \in Nat /\ d[a] \in Nat
  BY ComboTyped
<1> QED
  BY <1>1, <1>2 DEF Before

LEMMA BeforeIsOrder ==
    /\ \A c \in Combos : ~Before(c, c)
    /\ \A c, d, e \in Combos : Before(c, d) /\ Before(d, e) => Before(c, e)
<1>1. ASSUME NEW c \in Combos PROVE ~Before(c, c)
  <2>1. \A a \in Axes : c[a] \in Nat
    BY ComboTyped
  <2> QED
    BY <2>1 DEF Before
<1>2. ASSUME NEW c \in Combos, NEW d \in Combos, NEW e \in Combos, Before(c, d), Before(d, e)
      PROVE  Before(c, e)
  <2>1. PICK a \in Axes : c[a] < d[a] /\ \A b \in Axes : b < a => c[b] = d[b]
    BY <1>2 DEF Before
  <2>2. PICK k \in Axes : d[k] < e[k] /\ \A b \in Axes : b < k => d[b] = e[b]
    BY <1>2 DEF Before
  <2>3. \A b \in Axes : b \in Nat /\ c[b] \in Nat /\ d[b] \in Nat /\ e[b] \in Nat
    BY ComboTyped, AxesNumbers
  <2>4. CASE a <= k
    <3>1. c[a] < e[a]
      <4>1. CASE a = k
        BY <2>1, <2>2, <2>3, <4>1
      <4>2. CASE a < k
        BY <2>1, <2>2, <2>3, <4>2
      <4> QED
        BY <2>3, <2>4, <4>1, <4>2
    <3>2. \A b \in Axes : b < a => c[b] = e[b]
      BY <2>1, <2>2, <2>3, <2>4
    <3> QED
      BY <3>1, <3>2 DEF Before
  <2>5. CASE k < a
    <3>1. c[k] < e[k]
      BY <2>1, <2>2, <2>3, <2>5
    <3>2. \A b \in Axes : b < k => c[b] = e[b]
      BY <2>1, <2>2, <2>3, <2>5
    <3> QED
      BY <3>1, <3>2 DEF Before
  <2> QED
    BY <2>3, <2>4, <2>5
<1> QED
  BY <1>1, <1>2

First == [a \in Axes |-> 1]
HasNext(c) == \E a \in Axes : c[a] < AxisSizes[a]

LEMMA FirstIsFirst ==
    /\ First \in Combos
    /\ \A c \in Combos : c = First \/ Before(First, c)
<1>1. First \in Combos
  <2>1. First \in [Axes -> Nat \ {0}]
    BY DEF First
  <2>2. \A a \in Axes : First[a] <= AxisSizes[a]
    BY AxesNumbers DEF First
  <2> QED
    BY <2>1, <2>2, ComboTyped
<1>2. ASSUME NEW c \in Combos, c # First PROVE Before(First, c)
  <2>1. PICK a \in Axes : First[a] # c[a] /\ \A b \in Axes : b < a => First[b] = c[b]
    BY <1>1, <1>2, FirstDifference
  <2>2. First[a] = 1 /\ c[a] \in Nat \ {0}
    BY ComboTyped DEF First
  <2>3. First[a] < c[a]
    BY <2>1, <2>2
  <2> QED
    BY <2>1, <2>3 DEF Before
<1> QED
  BY <1>1, <1>2

\* Where the odometer turns.
LEMMA TurnsAt ==
    ASSUME NEW c \in Combos, HasNext(c)
    PROVE  \E p \in Axes :
             /\ c[p] < AxisSizes[p]
             /\ \A a \in Axes : p < a => c[a] = AxisSizes[a]
             /\ Turned(c) = [a \in Axes |-> IF a < p THEN c[a] ELSE IF a = p THEN c[a] + 1 ELSE 1]
<1> DEFINE S == {a \in Axes : c[a] < AxisSizes[a]}
           p == Max(S)
<1>1. S \in SUBSET Nat /\ S # {} /\ \A n \in S : n <= Len(AxisSizes)
  BY AxesNumbers DEF HasNext
<1>2. p \in S /\ \A n \in S : n <= p
  <2>1. Len(AxisSizes) \in Nat
    BY SizesTyped
  <2> HIDE DEF S
  <2> QED
    BY <1>1, <2>1, GreatestOf
<1>3. Turned(c) = [a \in Axes |-> IF a < p THEN c[a] ELSE IF a = p THEN c[a] + 1 ELSE 1]
  BY DEF Turned
<1> HIDE DEF p
<1>4. ASSUME NEW a \in Axes, p < a PROVE c[a] = AxisSizes[a]
  <2>1. a \in Nat /\ p \in Nat /\ c[a] \in Nat /\ AxisSizes[a] \in Nat /\ c[a] <= AxisSizes[a]
    BY <1>2, ComboTyped, AxesNumbers
  <2>2. a \notin S
    BY <1>2, <1>4, <2>1
  <2> QED
    BY <2>1, <2>2
<1> QED
  BY <1>2, <1>3, <1>4

\* It turns to a combination, the next one.
LEMMA TurnedIsNext ==
    ASSUME NEW c \in Combos, HasNext(c)
    PROVE  /\ Turned(c) \in Combos /\ Before(c, Turned(c))
           /\ \A d \in Combos : Before(c, d) => d = Turned(c) \/ Before(Turned(c), d)
<1> DEFINE t == Turned(c)
<1>1. PICK p \in Axes :
         /\ c[p] < AxisSizes[p]
         /\ \A a \in Axes : p < a => c[a] = AxisSizes[a]
         /\ t = [a \in Axes |-> IF a < p THEN c[a] ELSE IF a = p THEN c[a] + 1 ELSE 1]
  BY TurnsAt
<1> HIDE DEF t
<1>2. \A a \in Axes : /\ a \in Nat /\ p \in Nat
                      /\ c[a] \in Nat \ {0} /\ AxisSizes[a] \in Nat \ {0} /\ c[a] <= AxisSizes[a]
  BY ComboTyped, AxesNumbers
<1>3. \A a \in Axes : /\ a < p => t[a] = c[a]
                      /\ a = p => t[a] = c[a] + 1
                      /\ p < a => t[a] = 1
  BY <1>1, <1>2
<1>4. t \in Combos
  <2>1. \A a \in Axes : t[a] \in Nat \ {0} /\ t[a] <= AxisSizes[a]
    BY <1>1, <1>2, <1>3
  <2>2. t \in [Axes -> Nat \ {0}]
    BY <1>1, <2>1
  <2> QED
    BY <2>1, <2>2, ComboTyped
<1>5. Before(c, t)
  <2>1. c[p] < t[p] /\ \A b \in Axes : b < p => c[b] = t[b]
    BY <1>2, <1>3
  <2> QED
    BY <2>1 DEF Before
<1>6. ASSUME NEW d \in Combos, Before(c, d), d # t PROVE Before(t, d)
  <2>1. PICK k \in Axes : t[k] # d[k] /\ \A b \in Axes : b < k => t[b] = d[b]
    BY <1>4, <1>6, FirstDifference
  <2>2. PICK a \in Axes : c[a] < d[a] /\ \A b \in Axes : b < a => c[b] = d[b]
    BY <1>6 DEF Before
  <2>3. \A b \in Axes : d[b] \in Nat \ {0} /\ d[b] <= AxisSizes[b]
    BY ComboTyped
  <2>4. a <= p
    <3> SUFFICES ASSUME p < a PROVE FALSE
      BY <1>2
    <3> QED
      BY <1>1, <1>2, <2>2, <2>3
  <2>5. t[k] < d[k]
    <3>1. CASE k < a
      BY <1>2, <1>3, <2>1, <2>2, <2>4, <3>1
    <3>2. CASE k = a
      BY <1>2, <1>3, <2>1, <2>2, <2>3, <2>4, <3>2
    <3>3. CASE a < k /\ a < p
      <4>1. t[a] = c[a] /\ t[a] = d[a]
        BY <1>3, <2>1, <3>3
      <4> QED
        BY <1>2, <2>2, <2>3, <4>1
    <3>4. CASE p < k
      <4>1. t[k] = 1
        BY <1>3, <3>4
      <4> QED
        BY <2>1, <2>3, <4>1
    <3> QED
      BY <1>2, <2>4, <3>1, <3>2, <3>3, <3>4
  <2> QED
    BY <2>1, <2>5 DEF Before
<1> QED
  BY <1>4, <1>5, <1>6 DEF t

\* Behind the last one there is none.
LEMMA LastIsLast ==
    ASSUME NEW c \in Combos, ~HasNext(c), NEW d \in Combos
    PROVE  ~Before(c, d)
<1>1. \A a \in Axes : c[a] \in Nat /\ d[a] \in Nat /\ AxisSizes[a] \in Nat
                      /\ d[a] <= AxisSizes[a] /\ ~(c[a] < AxisSizes[a])
  BY ComboTyped, AxesNumbers DEF HasNext
<1>2. \A a \in Axes : ~(c[a] < d[a])
  BY <1>1
<1> QED
  BY <1>2 DEF Before

-----------------------------------------------------------------------------
(* The list of the combinations.                                           *)

OdometerOf(f) ==
    f = [n \in 1..GridSize |-> IF n = 1 THEN [a \in Axes |-> 1] ELSE Turned(f[n - 1])]

LEMMA CombinationsChosen == Combinations = CHOOSE f : OdometerOf(f)
BY Zenon DEF Combinations, OdometerOf

\* The list exists: up to any length, and so to its end.
LEMMA CombinationsExist == OdometerOf(Combinations)
<1> DEFINE Step(g, n) == IF n = 1 THEN First ELSE Turned(g[n - 1])
           UpTo(k) == \E g : \A n \in 1..GridSize : n < k => g[n] = Step(g, n)
           P == {k \in Nat : UpTo(k)}
<1>0. GridSize \in Nat \ {0}
  BY GridCounts
<1>1. UpTo(0)
  BY <1>0
<1>2. ASSUME NEW k \in Nat, UpTo(k) PROVE UpTo(k + 1)
  <2>1. PICK g : \A n \in 1..GridSize : n < k => g[n] = Step(g, n)
    BY <1>2
  <2> DEFINE h == [n \in 1..GridSize |-> Step(g, n)]
  <2>2. \A n \in 1..GridSize : n < k => h[n] = g[n]
    BY <2>1
  <2>3. ASSUME NEW n \in 1..GridSize, n < k + 1, n # 1 PROVE h[n] = Turned(h[n - 1])
    <3>1. n - 1 \in 1..GridSize /\ n - 1 < k
      BY <1>0, <2>3
    <3>2. h[n - 1] = g[n - 1]
      BY <2>2, <3>1
    <3> QED
      BY <2>3, <3>2
  <2>4. 1 \in 1..GridSize /\ h[1] = First
    BY <1>0
  <2> HIDE DEF h
  <2>5. \A n \in 1..GridSize : n < k + 1 => h[n] = Step(h, n)
    BY <2>3, <2>4
  <2> QED
    BY <2>5
<1> HIDE DEF UpTo
<1>3. P = Nat
  <2>1. P \in SUBSET Nat /\ 0 \in P /\ \A n \in P : n + 1 \in P
    BY <1>1, <1>2
  <2> HIDE DEF P
  <2> QED
    BY <2>1, Upwards
<1>4. UpTo(GridSize + 1)
  BY <1>0, <1>3
<1>5. PICK g : \A n \in 1..GridSize : n < GridSize + 1 => g[n] = Step(g, n)
  BY <1>4 DEF UpTo
<1>6. \A n \in 1..GridSize : g[n] = Step(g, n)
  BY <1>0, <1>5
<1> DEFINE f == [n \in 1..GridSize |-> g[n]]
<1>7. \A n \in 1..GridSize : f[n] = Step(f, n)
  <2> TAKE n \in 1..GridSize
  <2>1. n # 1 => n - 1 \in 1..GridSize
    BY <1>0
  <2> QED
    BY <1>6, <2>1
<1>8. f = [n \in 1..GridSize |-> Step(f, n)]
  <2>1. f = [n \in 1..GridSize |-> f[n]]
    OBVIOUS
  <2> HIDE DEF f
  <2> QED
    BY <1>7, <2>1
<1> HIDE DEF f
<1>9. OdometerOf(f)
  BY <1>8 DEF OdometerOf, First
<1> QED
  BY <1>9, CombinationsChosen

LEMMA CombinationsTurn ==
    /\ DOMAIN Combinations = 1..GridSize
    /\ Combinations[1] = First
    /\ \A n \in 1..GridSize : n # 1 => Combinations[n] = Turned(Combinations[n - 1])
<1>1. OdometerOf(Combinations)
  BY CombinationsExist
<1>2. GridSize \in Nat \ {0} /\ 1 \in 1..GridSize
  BY GridCounts
<1> HIDE DEF Combinations
<1>3. Combinations = [n \in 1..GridSize |->
                        IF n = 1 THEN First ELSE Turned(Combinations[n - 1])]
  BY <1>1 DEF OdometerOf, First
<1> QED
  BY <1>2, <1>3

\* The first n of the list are combinations in their order, and all others come
\* behind them.
Enumerates(n) ==
    /\ \A i \in 1..n : Combinations[i] \in Combos
    /\ \A i, k \in 1..n : i < k => Before(Combinations[i], Combinations[k])
    /\ \A c \in Combos : (\E i \in 1..n : c = Combinations[i]) \/ Before(Combinations[n], c)

\* A list of fewer than all has one behind it.
LEMMA NotTheLast ==
    ASSUME NEW n \in 1..GridSize, n # GridSize, Enumerates(n)
    PROVE  HasNext(Combinations[n])
<1> SUFFICES ASSUME ~HasNext(Combinations[n]) PROVE FALSE
  OBVIOUS
<1>0. GridSize \in Nat /\ n \in Nat /\ n < GridSize /\ n \in 1..n
  BY GridCounts
<1>1. \A c \in Combos : \E i \in 1..n : c = Combinations[i]
  <2> TAKE c \in Combos
  <2>1. Combinations[n] \in Combos
    BY <1>0 DEF Enumerates
  <2>2. ~Before(Combinations[n], c)
    BY <2>1, LastIsLast
  <2> QED
    BY <2>2 DEF Enumerates
<1> DEFINE f == [i \in 1..n |-> Combinations[i]]
<1>2. f \in Surjection(1..n, Combos)
  <2>1. f \in [1..n -> Combos]
    BY DEF Enumerates
  <2>2. \A c \in Combos : \E i \in 1..n : f[i] = c
    BY <1>1
  <2> HIDE DEF f
  <2> QED
    BY <2>1, <2>2 DEF Surjection
<1>3. ExistsSurjection(1..n, Combos)
  BY <1>2 DEF ExistsSurjection
<1>4. Cardinality(Combos) <= n
  BY <1>0, <1>3, FS_SurjCardinalityBound
<1> QED
  BY <1>0, <1>4, GridCounts

LEMMA EnumeratesAll == Enumerates(GridSize)
<1> DEFINE P == {n \in Nat : n + 1 \in 1..GridSize => Enumerates(n + 1)}
<1>0. GridSize \in Nat \ {0}
  BY GridCounts
<1>1. 0 \in P
  <2>1. Combinations[1] = First
    BY CombinationsTurn
  <2> HIDE DEF Combinations
  <2>2. \A i : i \in 1..1 <=> i = 1
    OBVIOUS
  <2>3. Enumerates(1)
    BY <2>1, <2>2, FirstIsFirst DEF Enumerates
  <2>4. 0 + 1 = 1 /\ 0 \in Nat
    OBVIOUS
  <2> QED
    BY <2>3, <2>4
<1>2. ASSUME NEW m \in P PROVE m + 1 \in P
  <2> SUFFICES ASSUME NEW n \in Nat, n = m + 1, n + 1 \in 1..GridSize
               PROVE  Enumerates(n + 1)
    BY <1>2
  <2>1. m \in Nat /\ n \in 1..GridSize /\ n # GridSize /\ n \in 1..n
    BY <1>0, <1>2
  <2>2. Enumerates(n)
    BY <1>2, <2>1
  <2>3. HasNext(Combinations[n])
    BY <2>1, <2>2, NotTheLast
  <2> DEFINE k == n + 1
  <2>4. Combinations[k] = Turned(Combinations[n])
    <3>1. k \in 1..GridSize /\ k # 1 /\ k - 1 = n
      BY <2>1
    <3> QED
      BY <3>1, CombinationsTurn
  <2>5. \A i : i \in 1..k <=> i \in 1..n \/ i = k
    BY <2>1
  <2>6. k \notin 1..n /\ \A i \in 1..n : ~(k < i) /\ i < k
    BY <2>1
  <2> HIDE DEF Combinations, k
  <2>7. Combinations[n] \in Combos
    BY <2>1, <2>2 DEF Enumerates
  <2>8. /\ Combinations[k] \in Combos /\ Before(Combinations[n], Combinations[k])
        /\ \A d \in Combos : Before(Combinations[n], d)
                               => d = Combinations[k] \/ Before(Combinations[k], d)
    BY <2>3, <2>4, <2>7, TurnedIsNext
  <2>9. \A i \in 1..k : Combinations[i] \in Combos
    BY <2>2, <2>5, <2>8 DEF Enumerates
  <2>10. \A i \in 1..n : Before(Combinations[i], Combinations[k])
    <3> TAKE i \in 1..n
    <3>1. CASE i = n
      BY <2>8, <3>1
    <3>2. CASE i < n
      <4>1. Before(Combinations[i], Combinations[n])
        BY <2>1, <2>2, <3>2 DEF Enumerates
      <4>2. Combinations[i] \in Combos
        BY <2>2 DEF Enumerates
      <4> QED
        BY <2>7, <2>8, <4>1, <4>2, BeforeIsOrder
    <3> QED
      BY <3>1, <3>2
  <2>11. \A i, j \in 1..k : i < j => Before(Combinations[i], Combinations[j])
    <3> SUFFICES ASSUME NEW i \in 1..k, NEW j \in 1..k, i < j
                 PROVE  Before(Combinations[i], Combinations[j])
      OBVIOUS
    <3>1. CASE j = k
      <4>1. i \in 1..n
        BY <2>1, <2>5, <3>1
      <4> QED
        BY <2>10, <3>1, <4>1
    <3>2. CASE j \in 1..n
      <4>1. i \in 1..n
        BY <2>5, <2>6, <3>2
      <4> QED
        BY <2>2, <3>2, <4>1 DEF Enumerates
    <3> QED
      BY <2>5, <3>1, <3>2
  <2>12. \A c \in Combos : (\E i \in 1..k : c = Combinations[i]) \/ Before(Combinations[k], c)
    <3> TAKE c \in Combos
    <3>1. (\E i \in 1..n : c = Combinations[i]) \/ Before(Combinations[n], c)
      BY <2>2 DEF Enumerates
    <3> QED
      BY <2>5, <2>8, <3>1
  <2>13. Enumerates(k)
    BY <2>9, <2>11, <2>12 DEF Enumerates
  <2> QED
    BY <2>13 DEF k
<1>3. P = Nat
  <2>1. P \in SUBSET Nat
    OBVIOUS
  <2> HIDE DEF P
  <2> QED
    BY <1>1, <1>2, <2>1, Upwards
<1>4. /\ GridSize - 1 \in Nat /\ (GridSize - 1) + 1 = GridSize
      /\ GridSize \in 1..GridSize
  BY <1>0
<1>5. GridSize - 1 \in P
  <2> HIDE DEF P
  <2> QED
    BY <1>3, <1>4
<1>6. (GridSize - 1) + 1 \in 1..GridSize => Enumerates((GridSize - 1) + 1)
  BY <1>5
<1> QED
  BY <1>4, <1>6

\* The odometer lists the grid: every combination once, in the order of its
\* positions (itertools.product, sensitivity.py).
THEOREM GridIsEnumerated ==
    /\ Combinations \in [1..GridSize -> Combos]
    /\ \A i, k \in 1..GridSize : i < k => Before(Combinations[i], Combinations[k])
    /\ \A c \in Combos : \E i \in 1..GridSize : c = Combinations[i]
<1>0. GridSize \in Nat \ {0} /\ GridSize \in 1..GridSize
  BY GridCounts
<1>1. Enumerates(GridSize)
  BY EnumeratesAll
<1>2. Combinations = [n \in 1..GridSize |-> Combinations[n]]
  <2>1. OdometerOf(Combinations)
    BY CombinationsExist
  <2> HIDE DEF Combinations
  <2> QED
    BY <2>1 DEF OdometerOf
<1> HIDE DEF Combinations
<1>3. Combinations \in [1..GridSize -> Combos]
  BY <1>1, <1>2 DEF Enumerates
<1>4. \A i, k \in 1..GridSize : i < k => Before(Combinations[i], Combinations[k])
  BY <1>1 DEF Enumerates
<1>5. ASSUME NEW c \in Combos PROVE \E i \in 1..GridSize : c = Combinations[i]
  <2> SUFFICES ASSUME \A i \in 1..GridSize : c # Combinations[i] PROVE FALSE
    OBVIOUS
  <2> DEFINE f == [i \in 1..GridSize |-> Combinations[i]]
  <2>1. f \in Injection(1..GridSize, Combos \ {c})
    <3>1. f \in [1..GridSize -> Combos \ {c}]
      BY <1>3
    <3>2. ASSUME NEW i \in 1..GridSize, NEW k \in 1..GridSize, f[i] = f[k] PROVE i = k
      <4>1. ~Before(Combinations[i], Combinations[i]) /\ Combinations[i] = Combinations[k]
        BY <1>3, <3>2, BeforeIsOrder
      <4>2. ~(i < k) /\ ~(k < i)
        BY <1>4, <4>1
      <4> QED
        BY <1>0, <4>2
    <3> HIDE DEF f
    <3> QED
      BY <3>1, <3>2 DEF Injection, IsInjective
  <2>2. /\ IsFiniteSet(Combos \ {c})
        /\ Cardinality(Combos \ {c}) = GridSize - 1
    BY GridCounts, FS_RemoveElement
  <2>3. Cardinality(1..GridSize) = GridSize /\ IsFiniteSet(1..GridSize)
    BY <1>0, FS_Interval
  <2>4. Cardinality(1..GridSize) <= Cardinality(Combos \ {c})
    <3> HIDE DEF f
    <3> QED
      BY <2>1, <2>2, FS_Injection
  <2> QED
    BY <1>0, <2>2, <2>3, <2>4
<1> QED
  BY <1>3, <1>4, <1>5
-----------------------------------------------------------------------------
(* What is left of the list: the sequences that the runs work on.          *)

LEMMA RangeTyped ==
    ASSUME NEW S, NEW s \in Seq(S)
    PROVE  /\ Range(s) \subseteq S
           /\ \A e : e \in Range(s) <=> \E i \in 1..Len(s) : s[i] = e
BY LenProperties DEF Range

LEMMA RangeEmpty == Range(<<>>) = {}
BY DEF Range

LEMMA RangeAppend ==
    ASSUME NEW S, NEW s \in Seq(S), NEW e \in S
    PROVE  Range(Append(s, e)) = Range(s) \cup {e}
<1> DEFINE t == Append(s, e)
<1>1. /\ t \in Seq(S) /\ Len(t) = Len(s) + 1 /\ Len(s) \in Nat
      /\ t[Len(s) + 1] = e /\ \A i \in 1..Len(s) : t[i] = s[i]
  BY AppendProperties, LenProperties
<1> HIDE DEF t
<1>2. ASSUME NEW x \in Range(t) PROVE x \in Range(s) \cup {e}
  <2>1. PICK i \in 1..Len(t) : t[i] = x
    BY <1>1, RangeTyped
  <2>2. CASE i = Len(s) + 1
    BY <1>1, <2>1, <2>2
  <2>3. CASE i \in 1..Len(s)
    <3>1. s[i] = x
      BY <1>1, <2>1, <2>3
    <3> QED
      BY <2>3, <3>1, RangeTyped
  <2> QED
    BY <1>1, <2>1, <2>2, <2>3
<1>3. ASSUME NEW x \in Range(s) PROVE x \in Range(t)
  <2>1. PICK i \in 1..Len(s) : s[i] = x
    BY RangeTyped
  <2>2. i \in 1..Len(t) /\ t[i] = x
    BY <1>1, <2>1
  <2> QED
    BY <1>1, <2>2, RangeTyped
<1>4. e \in Range(t)
  <2>1. Len(s) + 1 \in 1..Len(t)
    BY <1>1
  <2> QED
    BY <1>1, <2>1, RangeTyped
<1> QED
  BY <1>2, <1>3, <1>4 DEF t

\* The queue: what is taken from its front and what is left.
LEMMA RangeTail ==
    ASSUME NEW S, NEW s \in Seq(S), s # <<>>
    PROVE  /\ Head(s) \in S /\ Tail(s) \in Seq(S)
           /\ Range(s) = {Head(s)} \cup Range(Tail(s))
<1>1. /\ Head(s) \in S /\ Tail(s) \in Seq(S) /\ Len(Tail(s)) = Len(s) - 1
      /\ \A i \in 1..Len(Tail(s)) : Tail(s)[i] = s[i + 1]
  BY HeadTailProperties
<1>2. Len(s) \in Nat \ {0} /\ Head(s) = s[1]
  BY EmptySeq
<1>3. ASSUME NEW x \in Range(s) PROVE x \in {Head(s)} \cup Range(Tail(s))
  <2>1. PICK i \in 1..Len(s) : s[i] = x
    BY RangeTyped
  <2>2. CASE i = 1
    BY <1>2, <2>1, <2>2
  <2>3. CASE i # 1
    <3>1. i - 1 \in 1..Len(Tail(s)) /\ Tail(s)[i - 1] = s[(i - 1) + 1] /\ (i - 1) + 1 = i
      BY <1>1, <1>2, <2>3
    <3>2. Tail(s)[i - 1] = x
      BY <2>1, <3>1
    <3>3. \E k \in 1..Len(Tail(s)) : Tail(s)[k] = x
      BY <3>1, <3>2
    <3>4. x \in Range(Tail(s))
      BY <1>1, <3>3, RangeTyped
    <3> QED
      BY <3>4
  <2> QED
    BY <2>2, <2>3
<1>4. ASSUME NEW x \in Range(Tail(s)) PROVE x \in Range(s)
  <2>1. PICK i \in 1..Len(Tail(s)) : Tail(s)[i] = x
    BY <1>1, RangeTyped
  <2>2. i + 1 \in 1..Len(s) /\ s[i + 1] = x
    BY <1>1, <1>2, <2>1
  <2> QED
    BY <2>2, RangeTyped
<1>5. Head(s) \in Range(s)
  <2>1. 1 \in 1..Len(s)
    BY <1>2
  <2> QED
    BY <1>2, <2>1, RangeTyped
<1> QED
  BY <1>1, <1>3, <1>4, <1>5

LEMMA RangePrefix ==
    ASSUME NEW S, NEW s \in Seq(S), NEW n \in 0..Len(s)
    PROVE  /\ SubSeq(s, 1, n) \in Seq(S) /\ Len(SubSeq(s, 1, n)) = n
           /\ \A i \in 1..n : SubSeq(s, 1, n)[i] = s[i]
           /\ Range(SubSeq(s, 1, n)) \subseteq Range(s)
<1> DEFINE t == SubSeq(s, 1, n)
<1>1. Len(s) \in Nat /\ n \in Nat /\ n <= Len(s)
  BY LenProperties
<1>2. \A i \in 1..n : s[i] \in S
  BY <1>1, ElementOfSeq
<1>3. t \in Seq(S) /\ Len(t) = n /\ \A i \in 1..n : t[i] = s[i]
  BY <1>1, <1>2, SubSeqProperties
<1> HIDE DEF t
<1>4. ASSUME NEW x \in Range(t) PROVE x \in Range(s)
  <2>1. PICK i \in 1..Len(t) : t[i] = x
    BY <1>3, RangeTyped
  <2>2. i \in 1..Len(s) /\ s[i] = x
    BY <1>1, <1>3, <2>1
  <2> QED
    BY <2>2, RangeTyped
<1> QED
  BY <1>3, <1>4 DEF t

LEMMA RangeConcat ==
    ASSUME NEW S, NEW s \in Seq(S), NEW t \in Seq(S)
    PROVE  s \o t \in Seq(S) /\ Range(s \o t) = Range(s) \cup Range(t)
<1> DEFINE u == s \o t
<1>1. /\ u \in Seq(S) /\ Len(u) = Len(s) + Len(t) /\ Len(s) \in Nat /\ Len(t) \in Nat
      /\ \A i \in 1..Len(s) + Len(t) : u[i] = IF i <= Len(s) THEN s[i] ELSE t[i - Len(s)]
  BY ConcatProperties, LenProperties
<1> HIDE DEF u
<1>2. ASSUME NEW x \in Range(u) PROVE x \in Range(s) \cup Range(t)
  <2>1. PICK i \in 1..Len(u) : u[i] = x
    BY <1>1, RangeTyped
  <2>2. CASE i <= Len(s)
    <3>1. i \in 1..Len(s) /\ s[i] = x
      BY <1>1, <2>1, <2>2
    <3> QED
      BY <3>1, RangeTyped
  <2>3. CASE ~(i <= Len(s))
    <3>1. i - Len(s) \in 1..Len(t) /\ t[i - Len(s)] = x
      BY <1>1, <2>1, <2>3
    <3> QED
      BY <3>1, RangeTyped
  <2> QED
    BY <2>2, <2>3
<1>3. ASSUME NEW x \in Range(s) PROVE x \in Range(u)
  <2>1. PICK i \in 1..Len(s) : s[i] = x
    BY RangeTyped
  <2>2. i \in 1..Len(u) /\ u[i] = x
    BY <1>1, <2>1
  <2> QED
    BY <1>1, <2>2, RangeTyped
<1>4. ASSUME NEW x \in Range(t) PROVE x \in Range(u)
  <2>1. PICK i \in 1..Len(t) : t[i] = x
    BY RangeTyped
  <2>2. i + Len(s) \in 1..Len(u) /\ ~(i + Len(s) <= Len(s)) /\ (i + Len(s)) - Len(s) = i
    BY <1>1, <2>1
  <2>3. u[i + Len(s)] = x
    BY <1>1, <2>1, <2>2
  <2> QED
    BY <1>1, <2>2, <2>3, RangeTyped
<1> QED
  BY <1>1, <1>2, <1>3, <1>4 DEF u
\* What Remaining builds, combination by combination.
KeptOf(f, rows) ==
    f = [n \in 0..GridSize |->
          IF n = 0 THEN <<>>
          ELSE IF Combinations[n] \in CombosOf(rows) THEN f[n - 1]
          ELSE Append(f[n - 1], Combinations[n])]

Kept(rows) == CHOOSE f : KeptOf(f, rows)

LEMMA RemainingKept == ASSUME NEW rows PROVE Remaining(rows) = Kept(rows)[GridSize]
BY Zenon DEF Remaining, Kept, KeptOf

LEMMA KeptExists == ASSUME NEW rows PROVE KeptOf(Kept(rows), rows)
<1> DEFINE Step(g, n) == IF n = 0 THEN <<>>
                         ELSE IF Combinations[n] \in CombosOf(rows) THEN g[n - 1]
                         ELSE Append(g[n - 1], Combinations[n])
           UpTo(k) == \E g : \A n \in 0..GridSize : n < k => g[n] = Step(g, n)
           P == {k \in Nat : UpTo(k)}
<1>0. GridSize \in Nat \ {0}
  BY GridCounts
<1>1. UpTo(0)
  BY <1>0
<1>2. ASSUME NEW k \in Nat, UpTo(k) PROVE UpTo(k + 1)
  <2>1. PICK g : \A n \in 0..GridSize : n < k => g[n] = Step(g, n)
    BY <1>2
  <2> HIDE DEF Step
  <2> DEFINE h == [n \in 0..GridSize |-> Step(g, n)]
  <2>2. \A n \in 0..GridSize : n < k => h[n] = g[n]
    BY <2>1
  <2>3. ASSUME NEW n \in 0..GridSize, n < k + 1 PROVE h[n] = Step(h, n)
    <3>1. h[n] = Step(g, n)
      OBVIOUS
    <3>2. CASE n = 0
      BY <3>1, <3>2 DEF Step
    <3>3. CASE n # 0
      <4>1. n - 1 \in 0..GridSize /\ n - 1 < k
        BY <1>0, <2>3, <3>3
      <4>2. h[n - 1] = g[n - 1]
        BY <2>2, <4>1
      <4> HIDE DEF h
      <4> QED
        BY <3>1, <3>3, <4>2 DEF Step
    <3> QED
      BY <3>2, <3>3
  <2> HIDE DEF h
  <2> QED
    BY <2>3
<1> HIDE DEF UpTo
<1>3. P = Nat
  <2>1. P \in SUBSET Nat /\ 0 \in P /\ \A n \in P : n + 1 \in P
    BY <1>1, <1>2
  <2> HIDE DEF P
  <2> QED
    BY <2>1, Upwards
<1>4. UpTo(GridSize + 1)
  BY <1>0, <1>3
<1>5. PICK g : \A n \in 0..GridSize : n < GridSize + 1 => g[n] = Step(g, n)
  BY <1>4 DEF UpTo
<1> HIDE DEF Step
<1>6. \A n \in 0..GridSize : g[n] = Step(g, n)
  BY <1>0, <1>5
<1> DEFINE f == [n \in 0..GridSize |-> g[n]]
<1>7. ASSUME NEW n \in 0..GridSize PROVE f[n] = Step(f, n)
  <2>1. n # 0 => f[n - 1] = g[n - 1]
    BY <1>0
  <2>2. f[n] = Step(g, n)
    BY <1>6
  <2> HIDE DEF f
  <2> QED
    BY <2>1, <2>2 DEF Step
<1>8. f = [n \in 0..GridSize |-> Step(f, n)]
  <2>1. f = [n \in 0..GridSize |-> f[n]]
    OBVIOUS
  <2> HIDE DEF f
  <2> QED
    BY <1>7, <2>1
<1> HIDE DEF f
<1>9. KeptOf(f, rows)
  BY <1>8 DEF KeptOf, Step
<1> QED
  BY <1>9 DEF Kept

\* filter_remaining_combos is what no row has.
LEMMA RemainingIs ==
    ASSUME NEW rows
    PROVE  /\ Remaining(rows) \in Seq(Combos)
           /\ Range(Remaining(rows)) = Combos \ CombosOf(rows)
<1> DEFINE f == Kept(rows)
           Upto(n) == {Combinations[i] : i \in 1..n}
           Good(n) == f[n] \in Seq(Combos) /\ Range(f[n]) = Upto(n) \ CombosOf(rows)
           P == {n \in Nat : n <= GridSize => Good(n)}
<1>0. GridSize \in Nat \ {0}
  BY GridCounts
<1>1. \A n \in 0..GridSize :
        f[n] = IF n = 0 THEN <<>>
               ELSE IF Combinations[n] \in CombosOf(rows) THEN f[n - 1]
               ELSE Append(f[n - 1], Combinations[n])
  <2>1. KeptOf(f, rows)
    BY KeptExists
  <2> HIDE DEF f
  <2> QED
    BY <2>1 DEF KeptOf
<1> HIDE DEF f
<1>2. Good(0)
  <2>1. f[0] = <<>>
    BY <1>0, <1>1
  <2>2. Upto(0) = {}
    OBVIOUS
  <2> QED
    BY <2>1, <2>2, RangeEmpty, EmptySeq
<1>3. ASSUME NEW n \in Nat, n + 1 <= GridSize, Good(n) PROVE Good(n + 1)
  <2>0. n + 1 \in 1..GridSize /\ n + 1 \in 0..GridSize /\ (n + 1) - 1 = n /\ n + 1 # 0
    BY <1>0, <1>3
  <2>1. Combinations[n + 1] \in Combos
    BY <2>0, GridIsEnumerated
  <2>2. Upto(n + 1) = Upto(n) \cup {Combinations[n + 1]}
    <3>1. \A i : i \in 1..(n + 1) <=> i \in 1..n \/ i = n + 1
      OBVIOUS
    <3> HIDE DEF Combinations
    <3> QED
      BY <3>1
  <2> HIDE DEF Upto, Combinations
  <2>3. CASE Combinations[n + 1] \in CombosOf(rows)
    <3>1. f[n + 1] = f[n]
      BY <1>1, <2>0, <2>3
    <3> QED
      BY <1>3, <2>2, <2>3, <3>1
  <2>4. CASE Combinations[n + 1] \notin CombosOf(rows)
    <3>1. f[n + 1] = Append(f[n], Combinations[n + 1])
      BY <1>1, <2>0, <2>4
    <3>2. f[n + 1] \in Seq(Combos) /\ Range(f[n + 1]) = Range(f[n]) \cup {Combinations[n + 1]}
      BY <1>3, <2>1, <3>1, RangeAppend, AppendProperties
    <3> QED
      BY <1>3, <2>2, <2>4, <3>2
  <2> QED
    BY <2>3, <2>4
<1> HIDE DEF Good
<1>4. P = Nat
  <2>1. P \in SUBSET Nat /\ 0 \in P /\ \A n \in P : n + 1 \in P
    <3>1. ASSUME NEW n \in P, n + 1 <= GridSize PROVE Good(n + 1)
      <4>1. n \in Nat /\ n <= GridSize
        BY <1>0, <3>1
      <4> QED
        BY <1>3, <3>1, <4>1
    <3> QED
      BY <1>2, <3>1
  <2> HIDE DEF P
  <2> QED
    BY <2>1, Upwards
<1>5. Good(GridSize)
  BY <1>0, <1>4
<1>6. Upto(GridSize) = Combos
  <2>1. /\ \A i \in 1..GridSize : Combinations[i] \in Combos
        /\ \A c \in Combos : \E i \in 1..GridSize : c = Combinations[i]
    BY GridIsEnumerated
  <2> HIDE DEF Combinations
  <2> QED
    BY <2>1
<1> QED
  BY <1>5, <1>6, RemainingKept DEF Good, f
LEMMA FrontIs ==
    ASSUME NEW S, NEW s \in Seq(S), s # <<>>
    PROVE  /\ Front(s) \in Seq(S) /\ Last(s) \in S
           /\ Len(Front(s)) = Len(s) - 1 /\ Len(s) \in Nat \ {0}
           /\ \A i \in 1..Len(s) - 1 : Front(s)[i] = s[i]
           /\ Range(s) = Range(Front(s)) \cup {Last(s)}
<1>1. Len(s) \in Nat \ {0}
  BY EmptySeq
<1>2. Len(s) - 1 \in 0..Len(s) /\ Len(s) \in 1..Len(s)
  BY <1>1
<1>3. /\ Front(s) \in Seq(S) /\ Len(Front(s)) = Len(s) - 1
      /\ \A i \in 1..Len(s) - 1 : Front(s)[i] = s[i]
      /\ Range(Front(s)) \subseteq Range(s)
  BY <1>2, RangePrefix DEF Front
<1>4. Last(s) \in S /\ Last(s) \in Range(s)
  <2>1. s[Len(s)] \in S
    BY <1>2, ElementOfSeq
  <2>2. s[Len(s)] \in Range(s)
    BY <1>2, RangeTyped
  <2> QED
    BY <2>1, <2>2 DEF Last
<1>5. ASSUME NEW x \in Range(s), x # Last(s) PROVE x \in Range(Front(s))
  <2>1. PICK i \in 1..Len(s) : s[i] = x
    BY RangeTyped
  <2>2. i # Len(s)
    BY <1>5, <2>1 DEF Last
  <2>3. i \in 1..Len(Front(s)) /\ i \in 1..Len(s) - 1
    BY <1>1, <1>3, <2>2
  <2>4. Front(s)[i] = x
    BY <1>3, <2>1, <2>3
  <2>5. \E k \in 1..Len(Front(s)) : Front(s)[k] = x
    BY <2>3, <2>4
  <2> QED
    BY <1>3, <2>5, RangeTyped
<1> QED
  BY <1>1, <1>3, <1>4, <1>5

LEMMA AppendPrefix ==
    ASSUME NEW S, NEW s \in Seq(S), NEW e \in S
    PROVE  IsPrefix(s, Append(s, e))
<1> DEFINE t == Append(s, e)
<1>1. /\ t \in Seq(S) /\ Len(t) = Len(s) + 1 /\ Len(s) \in Nat
      /\ \A i \in 1..Len(s) : t[i] = s[i]
  BY AppendProperties, LenProperties
<1> HIDE DEF t
<1>2. Len(s) \in 0..Len(t) /\ Len(s) \in 0..Len(s)
  BY <1>1
<1>3. /\ SubSeq(t, 1, Len(s)) \in Seq(S) /\ Len(SubSeq(t, 1, Len(s))) = Len(s)
      /\ \A i \in 1..Len(s) : SubSeq(t, 1, Len(s))[i] = t[i]
  BY <1>1, <1>2, RangePrefix
<1>4. SubSeq(t, 1, Len(s)) = s
  BY <1>1, <1>3, SeqEqual
<1>5. SubSeq(s, 1, Len(s)) = s
  BY SubSeqFull
<1> QED
  BY <1>1, <1>4, <1>5 DEF IsPrefix, t

LEMMA SamePrefix == ASSUME NEW S, NEW s \in Seq(S) PROVE IsPrefix(s, s)
<1>1. Len(s) \in Nat
  BY LenProperties
<1> QED
  BY <1>1 DEF IsPrefix

LEMMA CombosAppend ==
    ASSUME NEW S, NEW s \in Seq(S), NEW e \in S
    PROVE  CombosOf(Append(s, e)) = CombosOf(s) \cup {e.combo}
BY RangeAppend DEF CombosOf

-----------------------------------------------------------------------------
(* The rows of the CSV.                                                    *)

LEMMA RowsTyped ==
    /\ Combos \subseteq [Axes -> Nat]
    /\ \A c \in [Axes -> Nat], of \in Inputs \cup {"cut", "torn"} :
         Row(c, of) \in Rows /\ Row(c, of).combo = c /\ Row(c, of).of = of
<1>1. Combos \subseteq [Axes -> Nat]
  BY ComboTyped
<1> QED
  BY <1>1 DEF Row, Rows

\* What a reader takes from the file: its whole rows are in front, and every
\* combination with a row still has one.
LEMMA LoadsKeep ==
    ASSUME NEW rows \in Seq(Rows), NEW loaded \in Loads(rows)
    PROVE  /\ loaded.rows \in Seq(Rows) /\ loaded.error \in Errors \cup {"none"}
           /\ loaded.error = "none" =>
                /\ IsPrefix(Whole(rows), loaded.rows)
                /\ CombosOf(loaded.rows) = CombosOf(rows)
<1>1. CASE ~Torn(rows)
  <2>1. loaded = [rows |-> rows, error |-> "none"]
    BY <1>1 DEF Loads, C4Loads, OrbLoads
  <2> QED
    BY <1>1, <2>1, SamePrefix DEF Whole
<1>2. CASE Torn(rows) /\ loaded.error # "none"
  <2>1. loaded.rows = <<>> /\ loaded.error \in Errors
    BY <1>2 DEF Loads, C4Loads, OrbLoads, Errors
  <2> QED
    BY <1>2, <2>1, EmptySeq
<1>3. CASE Torn(rows) /\ loaded.error = "none"
  <2>0. rows # <<>>
    BY <1>3 DEF Torn
  <2> DEFINE cut == Row(Last(rows).combo, "cut")
  <2>1. loaded.rows = Append(Front(rows), cut)
    BY <1>3 DEF Loads, C4Loads, OrbLoads
  <2>2. Front(rows) \in Seq(Rows) /\ Last(rows) \in Rows /\ Range(rows) = Range(Front(rows)) \cup {Last(rows)}
    BY <2>0, FrontIs
  <2>3. cut \in Rows /\ cut.combo = Last(rows).combo
    <3>1. Last(rows).combo \in [Axes -> Nat]
      BY <2>2 DEF Rows
    <3> QED
      BY <3>1, RowsTyped
  <2> HIDE DEF cut
  <2>4. loaded.rows \in Seq(Rows) /\ IsPrefix(Front(rows), loaded.rows)
    BY <2>1, <2>2, <2>3, AppendProperties, AppendPrefix
  <2>5. CombosOf(loaded.rows) = CombosOf(Front(rows)) \cup {cut.combo}
    BY <2>1, <2>2, <2>3, CombosAppend
  <2>6. CombosOf(rows) = CombosOf(Front(rows)) \cup {Last(rows).combo}
    BY <2>2 DEF CombosOf
  <2> QED
    BY <1>3, <2>3, <2>4, <2>5, <2>6 DEF Whole
<1> QED
  BY <1>1, <1>2, <1>3

LEMMA FlushedKeeps ==
    ASSUME file \in [{"same", "other"} -> Seq(Rows)],
           NEW row \in Rows, NEW flush \in Flushed(row)
    PROVE  /\ flush.rows \in Seq(Rows) /\ flush.error \in Errors \cup {"none"}
           /\ flush.error = "none" =>
                /\ IsPrefix(Whole(file["same"]), flush.rows)
                /\ CombosOf(flush.rows) = CombosOf(file["same"]) \cup {row.combo}
<1>0. file["same"] \in Seq(Rows)
  OBVIOUS
<1>1. PICK loaded \in Loads(file["same"]) :
        flush = IF loaded.error = "none"
                THEN [rows |-> Append(loaded.rows, row), error |-> "none"] ELSE loaded
  BY DEF Flushed
<1>2. /\ loaded.rows \in Seq(Rows) /\ loaded.error \in Errors \cup {"none"}
      /\ loaded.error = "none" =>
           /\ IsPrefix(Whole(file["same"]), loaded.rows)
           /\ CombosOf(loaded.rows) = CombosOf(file["same"])
  BY <1>0, LoadsKeep
<1>3. CASE loaded.error # "none"
  BY <1>1, <1>2, <1>3
<1>4. CASE loaded.error = "none"
  <2>1. flush.rows = Append(loaded.rows, row) /\ flush.error = "none"
    BY <1>1, <1>4
  <2>2. flush.rows \in Seq(Rows)
    BY <1>2, <2>1, AppendProperties
  <2>3. CombosOf(flush.rows) = CombosOf(file["same"]) \cup {row.combo}
    BY <1>2, <1>4, <2>1, CombosAppend
  <2>4. IsPrefix(Whole(file["same"]), flush.rows)
    <3>1. PICK s \in Seq(Rows) : s = Whole(file["same"])
      <4>1. CASE Torn(file["same"])
        BY <1>0, <4>1, FrontIs DEF Whole, Torn
      <4>2. CASE ~Torn(file["same"])
        BY <1>0, <4>2 DEF Whole
      <4> QED
        BY <4>1, <4>2
    <3>2. IsPrefix(s, loaded.rows)
      BY <1>2, <1>4, <3>1
    <3>3. IsPrefix(s, flush.rows)
      <4> DEFINE u == loaded.rows
                 w == Append(u, row)
      <4>1. /\ w \in Seq(Rows) /\ Len(w) = Len(u) + 1 /\ Len(u) \in Nat /\ Len(s) \in Nat
            /\ \A i \in 1..Len(u) : w[i] = u[i]
        BY <1>2, AppendProperties, LenProperties
      <4>2. Len(s) <= Len(u) /\ SubSeq(s, 1, Len(s)) = SubSeq(u, 1, Len(s))
        BY <3>2 DEF IsPrefix
      <4>3. u \in Seq(Rows)
        BY <1>2
      <4> HIDE DEF w, u
      <4>4. Len(s) \in 0..Len(u) /\ Len(s) \in 0..Len(w) /\ 1..Len(s) \subseteq 1..Len(u)
        BY <4>1, <4>2
      <4>5. /\ SubSeq(u, 1, Len(s)) \in Seq(Rows) /\ Len(SubSeq(u, 1, Len(s))) = Len(s)
            /\ \A i \in 1..Len(s) : SubSeq(u, 1, Len(s))[i] = u[i]
        BY <4>3, <4>4, RangePrefix
      <4>6. /\ SubSeq(w, 1, Len(s)) \in Seq(Rows) /\ Len(SubSeq(w, 1, Len(s))) = Len(s)
            /\ \A i \in 1..Len(s) : SubSeq(w, 1, Len(s))[i] = w[i]
        BY <4>1, <4>4, RangePrefix
      <4>7. \A i \in 1..Len(s) : SubSeq(u, 1, Len(s))[i] = SubSeq(w, 1, Len(s))[i]
        BY <4>1, <4>4, <4>5, <4>6
      <4>8. SubSeq(u, 1, Len(s)) = SubSeq(w, 1, Len(s))
        BY <4>5, <4>6, <4>7, SeqEqual
      <4>9. Len(s) <= Len(w)
        BY <4>1, <4>2
      <4>10. IsPrefix(s, w)
        BY <4>2, <4>8, <4>9 DEF IsPrefix
      <4> QED
        BY <2>1, <4>10 DEF w, u
    <3> QED
      BY <3>1, <3>3
  <2> QED
    BY <2>1, <2>2, <2>3, <2>4
<1> QED
  BY <1>3, <1>4
\* by_key finds a row of the combination wherever there is one.
LEMMA LastOfIs ==
    ASSUME NEW rows \in Seq(Rows), NEW c \in CombosOf(rows)
    PROVE  /\ LastOf(rows, c) \in 1..Len(rows)
           /\ rows[LastOf(rows, c)].combo = c
<1> DEFINE I == {i \in 1..Len(rows) : rows[i].combo = c}
<1>1. LastOf(rows, c) = IF I # {} THEN Max(I) ELSE 0
  BY Zenon DEF LastOf, SelectLastInSeq
<1>2. I # {}
  <2>1. PICK row \in Range(rows) : row.combo = c
    BY DEF CombosOf
  <2>2. PICK i \in 1..Len(rows) : rows[i] = row
    BY RangeTyped
  <2> QED
    BY <2>1, <2>2
<1>3. I \in SUBSET Nat /\ Len(rows) \in Nat /\ \A n \in I : n <= Len(rows)
  BY LenProperties
<1>4. Max(I) \in I
  <2> HIDE DEF I
  <2> QED
    BY <1>2, <1>3, GreatestOf
<1> QED
  BY <1>1, <1>2, <1>4

\* merge_sensitivity_rows, when no combination is missing.
LEMMA MergedIs ==
    ASSUME NEW old \in Seq(Rows), NEW fresh \in Seq(Rows), ~Missing(old, fresh)
    PROVE  /\ Merged(old, fresh) \in Seq(Rows) /\ Len(Merged(old, fresh)) = GridSize
           /\ \A n \in 1..GridSize : Merged(old, fresh)[n].combo = Combinations[n]
<1> DEFINE all == old \o fresh
<1>1. all \in Seq(Rows)
  BY RangeConcat
<1>2. Combos \subseteq CombosOf(all)
  <2>1. Remaining(all) = <<>>
    BY DEF Missing
  <2>2. Range(Remaining(all)) = Combos \ CombosOf(all)
    BY RemainingIs
  <2> QED
    BY <2>1, <2>2, RangeEmpty
<1> HIDE DEF all
<1>3. ASSUME NEW n \in 1..GridSize
      PROVE  /\ all[LastOf(all, Combinations[n])] \in Rows
             /\ all[LastOf(all, Combinations[n])].combo = Combinations[n]
  <2>1. Combinations[n] \in CombosOf(all)
    BY <1>2, GridIsEnumerated
  <2> QED
    BY <1>1, <2>1, LastOfIs, ElementOfSeq
<1>4. Merged(old, fresh) = [n \in 1..GridSize |-> all[LastOf(all, Combinations[n])]]
  BY DEF Merged, all
<1> DEFINE m == [n \in 1..GridSize |-> all[LastOf(all, Combinations[n])]]
<1>5. m \in [1..GridSize -> Rows] /\ \A n \in 1..GridSize : m[n].combo = Combinations[n]
  <2> HIDE DEF Combinations
  <2> QED
    BY <1>3
<1> HIDE DEF m
<1>6. m \in Seq(Rows) /\ Len(m) = GridSize
  BY <1>5, GridCounts
<1> QED
  BY <1>4, <1>5, <1>6 DEF m

-----------------------------------------------------------------------------
(* The types of a study.                                                   *)

LEMMA EndsTyped ==
    ASSUME StudyTypeOK, NEW code, Ends(code), file' \in [{"same", "other"} -> Seq(Rows)],
           UNCHANGED <<resume, workers, inputs, verdict>>
    PROVE  StudyTypeOK'
<1>1. /\ existing' = <<>> /\ merged' = <<>> /\ error' = "none"
      /\ todo' = <<>> /\ running' = {} /\ finished' = {} /\ new' = <<>>
  BY DEF Ends
<1>2. <<>> \in Seq(Rows) /\ <<>> \in Seq(Combos)
  BY EmptySeq
<1> QED
  BY <1>1, <1>2 DEF StudyTypeOK

LEMMA RaisesTyped ==
    ASSUME StudyTypeOK, NEW code, Raises(code)
    PROVE  /\ error' = code /\ todo' \in Seq(Combos)
           /\ Range(todo') \subseteq Range(todo)
<1>1. PICK n \in 0..Len(todo) : todo' = SubSeq(todo, 1, n)
  BY DEF Raises
<1>2. todo \in Seq(Combos)
  BY DEF StudyTypeOK
<1> QED
  BY <1>1, <1>2, RangePrefix DEF Raises

LEMMA TakesTyped ==
    ASSUME StudyTypeOK, NEW c \in Combos, Takes(c)
    PROVE  /\ new' = Append(new, Row(c, inputs)) /\ new' \in Seq(Rows)
           /\ Row(c, inputs) \in Rows /\ Row(c, inputs).combo = c
           /\ file' \in [{"same", "other"} -> Seq(Rows)]
           /\ todo' \in Seq(Combos) /\ error' \in Errors \cup {"none"}
           /\ Range(todo') \subseteq Range(todo)
           /\ \/ resume = "none" /\ file' = file /\ todo' = todo /\ error' = error
              \/ /\ resume # "none" /\ todo' = todo /\ error' = error
                 /\ \E flush \in Flushed(Row(c, inputs)) :
                      flush.error = "none" /\ file' = [file EXCEPT !["same"] = flush.rows]
              \/ error' # "none" /\ file' = file
<1> DEFINE row == Row(c, inputs)
<1>0. /\ file \in [{"same", "other"} -> Seq(Rows)] /\ inputs \in Inputs
      /\ new \in Seq(Rows) /\ todo \in Seq(Combos) /\ error \in Errors \cup {"none"}
  BY DEF StudyTypeOK
<1>1. row \in Rows /\ row.combo = c
  BY <1>0, RowsTyped
<1>2. new' = Append(new, row) /\ new' \in Seq(Rows)
  BY <1>0, <1>1, AppendProperties DEF Takes
<1> HIDE DEF row
<1>3. CASE resume = "none"
  BY <1>0, <1>1, <1>2, <1>3 DEF Takes, row
<1>4. CASE resume # "none"
  <2>1. PICK flush \in Flushed(row) :
          IF flush.error = "none"
          THEN file' = [file EXCEPT !["same"] = flush.rows] /\ UNCHANGED <<todo, error>>
          ELSE Raises(flush.error) /\ UNCHANGED file
    BY <1>4 DEF Takes, row
  <2>2. flush.rows \in Seq(Rows) /\ flush.error \in Errors \cup {"none"}
    BY <1>0, <1>1, FlushedKeeps
  <2>3. CASE flush.error = "none"
    <3>1. file' = [file EXCEPT !["same"] = flush.rows] /\ todo' = todo /\ error' = error
      BY <2>1, <2>3
    <3>2. file' \in [{"same", "other"} -> Seq(Rows)]
      BY <1>0, <2>2, <3>1
    <3> QED
      BY <1>0, <1>1, <1>2, <1>4, <2>3, <3>1, <3>2 DEF row
  <2>4. CASE flush.error # "none"
    <3>1. Raises(flush.error) /\ file' = file
      BY <2>1, <2>4
    <3>2. error' = flush.error /\ todo' \in Seq(Combos) /\ Range(todo') \subseteq Range(todo)
      BY <3>1, RaisesTyped
    <3> QED
      BY <1>0, <1>1, <1>2, <1>4, <2>2, <2>4, <3>1, <3>2 DEF row
  <2> QED
    BY <2>3, <2>4
<1> QED
  BY <1>3, <1>4
LEMMA StudyTypeStep ==
    ASSUME StudyTypeOK, [Next]_vars
    PROVE  StudyTypeOK'
<1>0. /\ file \in [{"same", "other"} -> Seq(Rows)] /\ inputs \in Inputs
      /\ resume \in {"none", "same", "other"}
      /\ existing \in Seq(Rows) /\ new \in Seq(Rows) /\ merged \in Seq(Rows)
      /\ todo \in Seq(Combos) /\ running \subseteq Combos
      /\ finished \subseteq [combo : Combos, ok : BOOLEAN]
      /\ error \in Errors \cup {"none"} /\ workers \in {1, 2}
      /\ verdict \in {"none", "PASS", "FAIL"}
  BY DEF StudyTypeOK
<1>1. CASE UNCHANGED studyVars
  BY <1>0, <1>1 DEF StudyTypeOK, studyVars, poolVars
<1>2. CASE Begin
  BY <1>0, <1>2 DEF StudyTypeOK, Begin, command, poolVars
<1>3. CASE Refused
  BY <1>0, <1>3 DEF StudyTypeOK, Refused, command, poolVars
<1>4. CASE Load
  <2>1. /\ LoadResume
        /\ UNCHANGED <<resume, workers, inputs, file, verdict>>
    BY <1>4 DEF Load, command
  <2>2. PICK loaded \in (IF resume = "none" THEN {[rows |-> <<>>, error |-> "none"]}
                         ELSE Loads(file[resume])) :
          IF loaded.error = "none"
          THEN /\ existing' = loaded.rows
               /\ todo' = Remaining(loaded.rows)
               /\ UNCHANGED <<running, finished, new, error, merged>>
          ELSE Ends(loaded.error)
    BY <2>1 DEF LoadResume
  <2>3. CASE loaded.error # "none"
    <3>1. Ends(loaded.error)
      BY <2>2, <2>3
    <3>2. file' \in [{"same", "other"} -> Seq(Rows)]
      BY <1>0, <2>1
    <3> QED
      BY <2>1, <3>1, <3>2, EndsTyped
  <2>4. CASE loaded.error = "none"
    <3>1. loaded.rows \in Seq(Rows)
      <4>1. CASE resume = "none"
        <5>1. loaded = [rows |-> <<>>, error |-> "none"]
          BY <2>2, <4>1
        <5>2. loaded.rows = <<>> /\ <<>> \in Seq(Rows)
          BY <5>1, EmptySeq
        <5> QED
          BY <5>2
      <4>2. CASE resume # "none"
        <5>1. loaded \in Loads(file[resume]) /\ file[resume] \in Seq(Rows)
          BY <1>0, <2>2, <4>2
        <5> QED
          BY <5>1, LoadsKeep
      <4> QED
        BY <4>1, <4>2
    <3>2. Remaining(loaded.rows) \in Seq(Combos)
      BY RemainingIs
    <3> QED
      BY <1>0, <2>1, <2>2, <2>4, <3>1, <3>2 DEF StudyTypeOK
  <2> QED
    BY <2>3, <2>4
<1>5. ASSUME NEW code, Ends(code), UNCHANGED <<command, inputs, file, verdict>>
      PROVE  StudyTypeOK'
  <2>1. UNCHANGED <<resume, workers, inputs, verdict>> /\ file' \in [{"same", "other"} -> Seq(Rows)]
    BY <1>0, <1>5 DEF command
  <2> QED
    BY <1>5, <2>1, EndsTyped
<1>6. CASE LoadFails
  BY <1>5, <1>6 DEF LoadFails
<1>7. CASE Start
  <2>1. Head(todo) \in Combos /\ Tail(todo) \in Seq(Combos)
    BY <1>0, <1>7, RangeTail DEF Start
  <2> QED
    BY <1>0, <1>7, <2>1 DEF StudyTypeOK, Start, command
<1>8. CASE RunSingleCombo
  <2>1. PICK c \in running, ok \in BOOLEAN : Completes(c, ok)
    BY <1>8 DEF RunSingleCombo
  <2>2. [combo |-> c, ok |-> ok] \in [combo : Combos, ok : BOOLEAN]
    BY <1>0, <2>1
  <2> QED
    BY <1>0, <2>1, <2>2 DEF StudyTypeOK, Completes, command
<1>9. CASE ReadRow
  <2>1. PICK f \in finished : Read(f) /\ Takes(f.combo)
    BY <1>9 DEF ReadRow
  <2>2. f.combo \in Combos
    BY <1>0
  <2>3. /\ new' \in Seq(Rows) /\ file' \in [{"same", "other"} -> Seq(Rows)]
        /\ todo' \in Seq(Combos) /\ error' \in Errors \cup {"none"}
    BY <2>1, <2>2, TakesTyped
  <2> QED
    BY <1>0, <2>1, <2>3 DEF StudyTypeOK, Read, command
<1>10. CASE ReadError
  <2>1. PICK f \in finished, code \in Errors :
          Read(f) /\ Raises(code) /\ UNCHANGED <<file, new>>
    BY <1>10 DEF ReadError
  <2>2. error' = code /\ todo' \in Seq(Combos)
    BY <2>1, RaisesTyped
  <2> QED
    BY <1>0, <2>1, <2>2 DEF StudyTypeOK, Read, command
<1>11. CASE Drained
  BY <1>5, <1>11 DEF Drained
<1>12. CASE Kill
  BY <1>5, <1>12 DEF Kill
<1>13. CASE Report
  <2>1. CASE Missing(existing, new)
    BY <1>5, <1>13, <2>1 DEF Report
  <2>2. CASE ~Missing(existing, new)
    <3>1. /\ merged' = Merged(existing, new)
          /\ verdict' = IF script = "c4" THEN Phase3(merged') ELSE verdict
          /\ UNCHANGED <<existing, poolVars, command, inputs, file>>
      BY <1>13, <2>2 DEF Report
    <3>2. merged' \in Seq(Rows)
      BY <1>0, <2>2, <3>1, MergedIs
    <3>3. verdict' \in {"none", "PASS", "FAIL"}
      <4>1. PICK p \in {"PASS", "FAIL"} : p = Phase3(merged')
        BY DEF Phase3
      <4> QED
        BY <1>0, <3>1, <4>1
    <3> QED
      BY <1>0, <3>1, <3>2, <3>3 DEF StudyTypeOK, poolVars, command
  <2> QED
    BY <2>1, <2>2
<1>14. CASE ReportFails
  BY <1>5, <1>14 DEF ReportFails
<1>15. CASE WriteCsv
  <2>1. file' \in [{"same", "other"} -> Seq(Rows)]
    BY <1>0, <1>15 DEF WriteCsv
  <2> QED
    BY <1>15, <2>1, EndsTyped DEF WriteCsv, command
<1>16. CASE WriteBreaks
  <2>1. PICK left \in LeftOf(merged) : file' = [file EXCEPT !["same"] = left]
    BY <1>16 DEF WriteBreaks
  <2>2. left \in Seq(Rows)
    <3>1. Len(merged) \in Nat
      BY <1>0, LenProperties
    <3>2. \A n \in 0..Len(merged) : SubSeq(merged, 1, n) \in Seq(Rows)
      BY <1>0, RangePrefix
    <3>3. CASE \E n \in 0..Len(merged) : left = SubSeq(merged, 1, n)
      BY <3>2, <3>3
    <3>4. CASE \E n \in 0..(Len(merged) - 1) :
                 left = Append(SubSeq(merged, 1, n), Row(merged[n + 1].combo, "torn"))
      <4>1. PICK n \in 0..(Len(merged) - 1) :
              left = Append(SubSeq(merged, 1, n), Row(merged[n + 1].combo, "torn"))
        BY <3>4
      <4>2. n \in 0..Len(merged) /\ n + 1 \in 1..Len(merged)
        BY <3>1, <4>1
      <4>3. merged[n + 1] \in Rows
        BY <1>0, <4>2, ElementOfSeq
      <4>4. merged[n + 1].combo \in [Axes -> Nat]
        BY <4>3 DEF Rows
      <4>5. Row(merged[n + 1].combo, "torn") \in Rows
        BY <4>4, RowsTyped
      <4> QED
        BY <3>2, <4>1, <4>2, <4>5, AppendProperties
    <3> QED
      BY <2>1, <3>3, <3>4 DEF LeftOf
  <2>3. file' \in [{"same", "other"} -> Seq(Rows)]
    BY <1>0, <2>1, <2>2
  <2> QED
    BY <1>16, <2>3, EndsTyped DEF WriteBreaks, command
<1> QED
  BY <1>1, <1>2, <1>3, <1>4, <1>6, <1>7, <1>8, <1>9, <1>10, <1>11, <1>12, <1>13,
     <1>14, <1>15, <1>16 DEF Next, Study, vars

LEMMA StudyTypeStarts == Init => StudyTypeOK
<1> SUFFICES ASSUME Init PROVE StudyTypeOK
  OBVIOUS
<1>1. StudyInit
  BY DEF Init
<1>2. /\ resume \in {"none", "same", "other"} /\ workers \in {1, 2}
      /\ existing = <<>> /\ merged = <<>> /\ verdict = "none" /\ error = "none"
      /\ todo = <<>> /\ running = {} /\ finished = {} /\ new = <<>>
      /\ inputs = CHOOSE i \in Inputs : TRUE
  BY <1>1 DEF StudyInit, NoStudy
<1>3. inputs \in Inputs
  BY <1>2, StudyAssumption
<1>4. PICK rows \in IF resume = "other" THEN OtherFiles ELSE {<<>>} :
        file = [f \in {"same", "other"} |-> IF f = "other" THEN rows ELSE <<>>]
  BY <1>1 DEF StudyInit
<1>5. rows \in Seq(Rows) /\ <<>> \in Seq(Rows) /\ <<>> \in Seq(Combos)
  <2>1. [combo : [Axes -> Nat], of : Inputs] \subseteq Rows
    BY DEF Rows
  <2>2. ASSUME rows \in OtherFiles PROVE rows \in Seq(Rows)
    <3>1. rows \in Seq([combo : [Axes -> Nat], of : Inputs])
      BY <2>2, StudyAssumption
    <3> QED
      BY <2>1, <3>1, SeqMonotonic
  <2> QED
    BY <2>2, EmptySeq
<1>6. file \in [{"same", "other"} -> Seq(Rows)]
  BY <1>4, <1>5
<1> QED
  BY <1>2, <1>3, <1>5, <1>6 DEF StudyTypeOK

\* The variables of a study keep their types through every run, whatever fails
\* and whatever file is brought in.
THEOREM StudyTypeCorrect == Spec => []StudyTypeOK
<1>1. StudyTypeOK /\ [Next]_vars => StudyTypeOK'
  BY StudyTypeStep
<1> QED
  BY <1>1, StudyTypeStarts, PTL DEF Spec

\* append_sensitivity_row: until the final write, no step takes a whole row out
\* of the CSV or changes one; rows are only added behind them.
THEOREM FlushedRowsRemain == Spec => FlushedRowsStay
<1>1. StudyTypeOK /\ [Next]_vars =>
        [pc # "write" => IsPrefix(Whole(file["same"]), file'["same"])]_file
  <2> SUFFICES ASSUME StudyTypeOK, [Next]_vars, file' # file, pc # "write"
               PROVE  IsPrefix(Whole(file["same"]), file'["same"])
    OBVIOUS
  <2>1. ReadRow
    BY DEF Next, vars, studyVars, Study, Begin, Refused, Load, LoadFails, Start,
       RunSingleCombo, Completes, ReadError, Drained, Kill, Report, ReportFails,
       WriteCsv, WriteBreaks
  <2>2. PICK f \in finished : Takes(f.combo)
    BY <2>1 DEF ReadRow
  <2>3. f.combo \in Combos /\ file \in [{"same", "other"} -> Seq(Rows)]
    BY DEF StudyTypeOK
  <2>4. /\ Row(f.combo, inputs) \in Rows
        /\ \E flush \in Flushed(Row(f.combo, inputs)) :
             flush.error = "none" /\ file' = [file EXCEPT !["same"] = flush.rows]
    BY <2>2, <2>3, TakesTyped
  <2>5. PICK flush \in Flushed(Row(f.combo, inputs)) :
          flush.error = "none" /\ file' = [file EXCEPT !["same"] = flush.rows]
    BY <2>4
  <2>6. IsPrefix(Whole(file["same"]), flush.rows)
    BY <2>3, <2>4, <2>5, FlushedKeeps
  <2>7. file'["same"] = flush.rows
    BY <2>3, <2>5
  <2> QED
    BY <2>6, <2>7
<1>2. StudyTypeOK /\ [Next]_vars => StudyTypeOK'
  BY StudyTypeStep
<1> QED
  BY <1>1, <1>2, StudyTypeStarts, PTL DEF Spec, FlushedRowsStay
-----------------------------------------------------------------------------
(* What a loop that is stopped has lost.                                   *)

InHand == running \cup {f.combo : f \in finished}

\* One worker has one combination in hand; and every combination of the grid is
\* in the queue, in hand or in the file.
PoolInv ==
    /\ script \notin {"orb", "gap", "c4"} => resume = "none"
    /\ workers = 1 => \E c : InHand \subseteq {c}
    /\ (pc = "run" /\ resume = "same" /\ error = "none") =>
         Combos \subseteq Range(todo) \cup InHand \cup CombosOf(file["same"])

LEMMA LoadedIsCovered ==
    ASSUME StudyTypeOK, Load, resume = "same", pc' = "run"
    PROVE  Combos \subseteq (Range(todo) \cup CombosOf(file["same"]))'
<1>0. file["same"] \in Seq(Rows)
  BY DEF StudyTypeOK
<1>1. PICK loaded \in Loads(file["same"]) :
        IF loaded.error = "none"
        THEN todo' = Remaining(loaded.rows) ELSE Ends(loaded.error)
  BY DEF Load, LoadResume
<1>2. loaded.error = "none"
  BY <1>1 DEF Ends, Stops
<1>3. todo' = Remaining(loaded.rows) /\ file' = file
  BY <1>1, <1>2 DEF Load
<1>4. Range(todo') = Combos \ CombosOf(loaded.rows)
  BY <1>3, RemainingIs
<1>5. CombosOf(loaded.rows) = CombosOf(file["same"])
  BY <1>0, <1>2, LoadsKeep
<1> QED
  BY <1>3, <1>4, <1>5

LEMMA StartsOne ==
    ASSUME StudyTypeOK, Start
    PROVE  /\ workers = 1 => InHand' \subseteq {Head(todo)}
           /\ InHand' = InHand \cup {Head(todo)}
           /\ Range(todo) = {Head(todo)} \cup Range(todo')
<1>1. Range(todo) = {Head(todo)} \cup Range(Tail(todo))
  BY RangeTail DEF StudyTypeOK, Start
<1>2. running' = running \cup {Head(todo)} /\ finished' = finished /\ todo' = Tail(todo)
  BY DEF Start
<1>3. workers = 1 => running = {} /\ finished = {}
  <2> SUFFICES ASSUME workers = 1 PROVE running = {} /\ finished = {}
    OBVIOUS
  <2>1. IsFiniteSet(running)
    BY GridCounts, FS_Subset DEF StudyTypeOK
  <2>2. Cardinality(running) < 1 /\ Cardinality(running) \in Nat
    BY <2>1, FS_CardinalityType DEF Start
  <2>3. running = {}
    BY <2>1, <2>2, FS_EmptySet
  <2> QED
    BY <2>3 DEF Start
<1> QED
  BY <1>1, <1>2, <1>3 DEF InHand

LEMMA ReadsOne ==
    ASSUME NEW f \in finished, Read(f)
    PROVE  InHand' \subseteq InHand /\ InHand \subseteq InHand' \cup {f.combo}
BY DEF Read, InHand

LEMMA PoolStep ==
    ASSUME StudyTypeOK, PoolInv, [Next]_vars
    PROVE  PoolInv'
<1>1. CASE UNCHANGED vars
  BY <1>1 DEF PoolInv, vars, studyVars, poolVars, InHand
<1>2. CASE (Walk \/ Backtest) /\ UNCHANGED studyVars
  <2>1. script \notin {"orb", "gap", "c4"}
    BY <1>2 DEF Walk, Backtest
  <2>2. resume = "none"
    BY <2>1 DEF PoolInv
  <2> QED
    BY <1>2, <2>2 DEF PoolInv, studyVars, poolVars, InHand
<1>3. CASE Study
  <2>0. script' = script /\ workers' = workers /\ resume' = resume /\ script \in {"orb", "gap", "c4"}
    BY <1>3 DEF Study, Begin, Refused, Load, LoadFails, Start, RunSingleCombo, Completes,
       ReadRow, Read, ReadError, Drained, Kill, Report, ReportFails, WriteCsv, WriteBreaks,
       command
  <2>1. CASE Begin \/ Refused
    BY <2>0, <2>1 DEF PoolInv, InHand, Begin, Refused, Starts, poolVars
  <2>2. ASSUME NEW code, Ends(code) PROVE PoolInv'
    <3>1. InHand' = {} /\ pc' = "idle"
      BY <2>2 DEF Ends, Stops, InHand
    <3> QED
      BY <2>0, <3>1 DEF PoolInv
  <2>3. CASE Load
    <3>1. CASE pc' = "run"
      <4>1. InHand' = InHand
        BY <2>3, <3>1 DEF Load, LoadResume, Ends, Stops, InHand
      <4>2. resume = "same" => Combos \subseteq (Range(todo) \cup CombosOf(file["same"]))'
        BY <2>3, <3>1, LoadedIsCovered
      <4> QED
        BY <2>0, <4>1, <4>2 DEF PoolInv
    <3>2. CASE pc' # "run"
      <4>1. \E code : Ends(code)
        BY <2>3, <3>2 DEF Load, LoadResume
      <4> QED
        BY <2>2, <4>1
    <3> QED
      BY <3>1, <3>2
  <2>4. CASE LoadFails
    BY <2>2, <2>4 DEF LoadFails
  <2>5. CASE Start
    <3>1. /\ workers = 1 => InHand' \subseteq {Head(todo)}
          /\ InHand' = InHand \cup {Head(todo)}
          /\ Range(todo) = {Head(todo)} \cup Range(todo')
      BY <2>5, StartsOne
    <3>2. pc' = pc /\ error' = error /\ file' = file
      BY <2>5 DEF Start
    <3> QED
      BY <2>0, <3>1, <3>2 DEF PoolInv
  <2>6. CASE RunSingleCombo
    <3>0. PICK c \in running, ok \in BOOLEAN : Completes(c, ok)
      BY <2>6 DEF RunSingleCombo
    <3>1. InHand' = InHand /\ pc' = pc /\ error' = error /\ file' = file /\ todo' = todo
      <4>1. running' = running \ {c} /\ finished' = finished \cup {[combo |-> c, ok |-> ok]}
        BY <3>0 DEF Completes
      <4>2. {f.combo : f \in finished'} = {f.combo : f \in finished} \cup {c}
        <5>1. PICK e : e = [combo |-> c, ok |-> ok]
          OBVIOUS
        <5>2. e.combo = c /\ finished' = finished \cup {e}
          BY <4>1, <5>1
        <5> QED
          BY <5>2
      <4>3. InHand' = InHand
        BY <4>1, <4>2 DEF InHand
      <4> QED
        BY <3>0, <4>3 DEF Completes
    <3> QED
      BY <2>0, <3>1 DEF PoolInv
  <2>7. CASE ReadRow
    <3>1. PICK f \in finished : Read(f) /\ Takes(f.combo)
      BY <2>7 DEF ReadRow
    <3>2. InHand' \subseteq InHand /\ InHand \subseteq InHand' \cup {f.combo}
      BY <3>1, ReadsOne
    <3>3. f.combo \in Combos /\ file \in [{"same", "other"} -> Seq(Rows)]
      BY DEF StudyTypeOK
    <3>4. pc' = pc /\ error = "none"
      BY <3>1 DEF Read
    <3>5. ASSUME resume = "same", error' = "none"
          PROVE  todo' = todo /\ CombosOf(file'["same"]) = CombosOf(file["same"]) \cup {f.combo}
      <4>0. Row(f.combo, inputs) \in Rows /\ Row(f.combo, inputs).combo = f.combo
        BY <3>1, <3>3, TakesTyped
      <4>1. /\ todo' = todo
            /\ \E flush \in Flushed(Row(f.combo, inputs)) :
                 flush.error = "none" /\ file' = [file EXCEPT !["same"] = flush.rows]
        BY <3>1, <3>3, <3>5, TakesTyped
      <4>2. PICK flush \in Flushed(Row(f.combo, inputs)) :
              flush.error = "none" /\ file' = [file EXCEPT !["same"] = flush.rows]
        BY <4>1
      <4>3. CombosOf(flush.rows) = CombosOf(file["same"]) \cup {f.combo}
        BY <3>3, <4>0, <4>2, FlushedKeeps
      <4>4. file'["same"] = flush.rows
        BY <3>3, <4>2
      <4> QED
        BY <4>1, <4>3, <4>4
    <3> QED
      BY <2>0, <3>2, <3>4, <3>5 DEF PoolInv
  <2>8. CASE ReadError
    <3>1. PICK f \in finished, code \in Errors : Read(f) /\ Raises(code)
      BY <2>8 DEF ReadError
    <3>2. InHand' \subseteq InHand /\ error' # "none"
      BY <3>1, ReadsOne DEF Raises, Errors
    <3> QED
      BY <2>0, <3>2 DEF PoolInv
  <2>9. CASE Drained
    BY <2>2, <2>9 DEF Drained
  <2>10. CASE Kill
    BY <2>2, <2>10 DEF Kill
  <2>11. CASE Report
    <3>1. CASE Missing(existing, new)
      BY <2>2, <2>11, <3>1 DEF Report
    <3>2. CASE ~Missing(existing, new)
      <4>1. pc' = "write" /\ UNCHANGED <<running, finished>>
        BY <2>11, <3>2 DEF Report, poolVars
      <4> QED
        BY <2>0, <4>1 DEF PoolInv, InHand
    <3> QED
      BY <3>1, <3>2
  <2>12. CASE ReportFails
    BY <2>2, <2>12 DEF ReportFails
  <2>13. CASE WriteCsv
    BY <2>2, <2>13 DEF WriteCsv
  <2>14. CASE WriteBreaks
    BY <2>2, <2>14 DEF WriteBreaks
  <2> QED
    BY <1>3, <2>1, <2>3, <2>4, <2>5, <2>6, <2>7, <2>8, <2>9, <2>10, <2>11, <2>12,
       <2>13, <2>14 DEF Study
<1> QED
  BY <1>1, <1>2, <1>3 DEF Next

\* run_sensitivity_combos with --resume on its own --output-csv: wherever the
\* loop of one worker stops, what the next run has to measure again is at most
\* the one combination it had in hand.
THEOREM AtMostOneIsLost == Spec => []OneCombinationIsLost
<1>1. Init => PoolInv
  <2> SUFFICES ASSUME Init PROVE PoolInv
    OBVIOUS
  <2>1. InHand = {} /\ pc = "idle" /\ StudyInit
    BY DEF Init, StudyInit, InHand
  <2>2. script \notin {"orb", "gap", "c4"} => resume = "none"
    BY <2>1 DEF StudyInit, NoStudy
  <2> QED
    BY <2>1, <2>2 DEF PoolInv
<1>2. StudyTypeOK /\ PoolInv /\ [Next]_vars => PoolInv'
  BY PoolStep
<1>3. PoolInv => OneCombinationIsLost
  <2> SUFFICES ASSUME PoolInv, pc = "run", resume = "same", workers = 1, error = "none"
               PROVE  Cardinality(Unrecorded) <= 1
    BY DEF OneCombinationIsLost
  <2>1. PICK c : InHand \subseteq {c}
    BY DEF PoolInv
  <2>2. Unrecorded \subseteq {c}
    BY <2>1 DEF PoolInv, Unrecorded
  <2>3. IsFiniteSet({c}) /\ Cardinality({c}) = 1
    BY FS_Singleton
  <2>4. Cardinality(Unrecorded) <= Cardinality({c})
    BY <2>2, <2>3, FS_Subset
  <2> QED
    BY <2>3, <2>4
<1>4. StudyTypeOK /\ [Next]_vars => StudyTypeOK'
  BY StudyTypeStep
<1> QED
  BY <1>1, <1>2, <1>3, <1>4, StudyTypeStarts, PTL DEF Spec
-----------------------------------------------------------------------------
(* What exit 0 says.                                                       *)

\* A CSV with the rows of the whole grid, in its order.
Gridded(rows) ==
    /\ Len(rows) = GridSize
    /\ \A n \in 1..GridSize : rows[n].combo = Combinations[n]

LEMMA GriddedIs ==
    ASSUME NEW rows \in Seq(Rows), Gridded(rows)
    PROVE  /\ CombosOf(rows) = Combos
           /\ \A n, m \in DOMAIN rows : n < m => Before(rows[n].combo, rows[m].combo)
<1>0. /\ Len(rows) = GridSize /\ \A n \in 1..GridSize : rows[n].combo = Combinations[n]
      /\ DOMAIN rows = 1..GridSize
  BY LenProperties DEF Gridded
<1>1. /\ \A n \in 1..GridSize : Combinations[n] \in Combos
      /\ \A i, k \in 1..GridSize : i < k => Before(Combinations[i], Combinations[k])
      /\ \A c \in Combos : \E n \in 1..GridSize : c = Combinations[n]
  BY GridIsEnumerated
<1> HIDE DEF Combinations
<1>2. ASSUME NEW c \in CombosOf(rows) PROVE c \in Combos
  <2>1. PICK row \in Range(rows) : row.combo = c
    BY DEF CombosOf
  <2>2. PICK n \in 1..GridSize : rows[n] = row
    BY <1>0, RangeTyped
  <2> QED
    BY <1>0, <1>1, <2>1, <2>2
<1>3. ASSUME NEW c \in Combos PROVE c \in CombosOf(rows)
  <2>1. PICK n \in 1..GridSize : c = Combinations[n]
    BY <1>1
  <2>2. rows[n].combo = c /\ rows[n] \in Range(rows)
    BY <1>0, <2>1, RangeTyped
  <2> QED
    BY <2>2 DEF CombosOf
<1>4. CombosOf(rows) = Combos
  BY <1>2, <1>3
<1>5. ASSUME NEW n \in DOMAIN rows, NEW m \in DOMAIN rows, n < m
      PROVE  Before(rows[n].combo, rows[m].combo)
  <2>1. n \in 1..GridSize /\ m \in 1..GridSize
    BY <1>0
  <2>2. Before(Combinations[n], Combinations[m])
    BY <1>1, <1>5, <2>1
  <2> QED
    BY <1>0, <2>1, <2>2
<1> QED
  BY <1>4, <1>5

\* Rows of one run are as many as their combinations.
LEMMA RowsCount ==
    ASSUME NEW S \in SUBSET Combos, NEW i
    PROVE  Cardinality({Row(c, i) : c \in S}) = Cardinality(S)
<1> DEFINE T == {Row(c, i) : c \in S}
           f == [c \in S |-> Row(c, i)]
<1>1. IsFiniteSet(S)
  BY GridCounts, FS_Subset
<1>2. \A c, d \in S : Row(c, i) = Row(d, i) => c = d
  BY DEF Row
<1>3. f \in Bijection(S, T)
  <2>1. f \in [S -> T] /\ \A t \in T : \E c \in S : f[c] = t
    OBVIOUS
  <2>2. \A c, d \in S : f[c] = f[d] => c = d
    BY <1>2
  <2> HIDE DEF f, T
  <2> QED
    BY <2>1, <2>2 DEF Bijection, Injection, Surjection, IsInjective
<1> HIDE DEF f, T
<1>4. ExistsBijection(S, T)
  BY <1>3 DEF ExistsBijection
<1>5. Cardinality(S) = Cardinality(T)
  BY <1>1, <1>4, FS_Bijection
<1> QED
  BY <1>5 DEF T

\* One axis changed, to any other of its values, is a distance of one.
LEMMA AdjacentIs ==
    Adjacent = {c \in Combos : Cardinality({a \in Axes : c[a] # Current[a]}) = 1}
<1>0. Current \in Combos
  BY StudyAssumption
<1>1. ASSUME NEW c \in Combos
      PROVE  (c # Current /\ \E a \in Axes : c = [Current EXCEPT ![a] = c[a]])
               <=> Cardinality({a \in Axes : c[a] # Current[a]}) = 1
  <2> DEFINE D == {a \in Axes : c[a] # Current[a]}
  <2>0. c \in [Axes -> Nat \ {0}] /\ Current \in [Axes -> Nat \ {0}]
    BY <1>0, ComboTyped
  <2>1. IsFiniteSet(D)
    <3>1. IsFiniteSet(Axes) /\ D \in SUBSET Axes
      BY SizesTyped, FS_Interval
    <3> HIDE DEF D
    <3> QED
      BY <3>1, FS_Subset
  <2>2. ASSUME c # Current, NEW a \in Axes, c = [Current EXCEPT ![a] = c[a]]
        PROVE  \E x : D = {x}
    <3>1. \A b \in Axes : b # a => c[b] = Current[b]
      BY <2>0, <2>2
    <3>2. c[a] # Current[a]
      BY <2>0, <2>2, <3>1
    <3>3. D = {a}
      BY <3>1, <3>2
    <3> QED
      BY <3>3
  <2>3. ASSUME NEW x, D = {x}
        PROVE  c # Current /\ \E a \in Axes : c = [Current EXCEPT ![a] = c[a]]
    <3>1. x \in Axes /\ c[x] # Current[x]
      BY <2>3
    <3>2. \A b \in Axes : b # x => c[b] = Current[b]
      BY <2>3
    <3>3. c = [Current EXCEPT ![x] = c[x]]
      BY <2>0, <3>1, <3>2
    <3> QED
      BY <3>1, <3>3
  <2>4. Cardinality(D) = 1 <=> \E x : D = {x}
    <3> HIDE DEF D
    <3> QED
      BY <2>1, FS_Singleton
  <2> QED
    BY <2>2, <2>3, <2>4
<1> QED
  BY <1>1 DEF Adjacent
\* The Phase 3 gate on a whole grid of one run is what the metrics decide: it
\* does not matter which run wrote which row.
LEMMA Phase3Is ==
    ASSUME NEW rows \in Seq(Rows), Gridded(rows), NEW i \in Inputs,
           \A row \in Range(rows) : row.of = i
    PROVE  Phase3(rows) = Decided(i)
<1> DEFINE passes(c) == AllGatesPass(Row(c, i))
           near == {c \in Combos : Cardinality({a \in Axes : c[a] # Current[a]}) = 1}
           neighbours == UNION {FindRow(rows, c) : c \in Adjacent}
<1>1. Range(rows) = {Row(c, i) : c \in Combos}
  <2>1. ASSUME NEW row \in Range(rows) PROVE row \in {Row(c, i) : c \in Combos}
    <3>1. row \in Rows /\ row.of = i /\ row.combo \in Combos
      <4>1. row.combo \in CombosOf(rows)
        BY DEF CombosOf
      <4> QED
        BY <4>1, RangeTyped, GriddedIs
    <3>2. row = Row(row.combo, i)
      BY <3>1 DEF Rows, Row
    <3> QED
      BY <3>1, <3>2
  <2>2. ASSUME NEW c \in Combos PROVE Row(c, i) \in Range(rows)
    <3>1. PICK row \in Range(rows) : row.combo = c
      <4>1. c \in CombosOf(rows)
        BY GriddedIs
      <4> QED
        BY <4>1 DEF CombosOf
    <3>2. row \in Rows /\ row.of = i
      BY RangeTyped
    <3>3. row = Row(c, i)
      BY <3>1, <3>2 DEF Rows, Row
    <3> QED
      BY <3>3
  <2> QED
    BY <2>1, <2>2
<1>2. \A c, d : Row(c, i) = Row(d, i) => c = d
  BY DEF Row
<1>3. \A c : Row(c, i).combo = c
  BY DEF Row
<1>4. neighbours = {Row(c, i) : c \in Adjacent}
  <2>1. \A c \in Combos : FindRow(rows, c) = {Row(c, i)}
    BY <1>1, <1>3 DEF FindRow
  <2>2. Adjacent \subseteq Combos
    BY DEF Adjacent
  <2> HIDE DEF near
  <2> QED
    BY <2>1, <2>2
<1>5. \A S \in SUBSET Combos :
        Passing({Row(c, i) : c \in S}) = {Row(c, i) : c \in {d \in S : passes(d)}}
  BY DEF Passing
<1>6. \A S \in SUBSET Combos :
        Cardinality(Passing({Row(c, i) : c \in S})) = Cardinality({c \in S : passes(c)})
  <2> TAKE S \in SUBSET Combos
  <2>1. {c \in S : passes(c)} \in SUBSET Combos
    OBVIOUS
  <2>2. Cardinality({Row(c, i) : c \in {d \in S : passes(d)}}) = Cardinality({d \in S : passes(d)})
    <3> HIDE DEF passes
    <3> QED
      BY <2>1, RowsCount
  <2> QED
    BY <1>5, <2>2
<1>7. Adjacent \in SUBSET Combos /\ Combos \in SUBSET Combos
  BY DEF Adjacent
<1>8. Cardinality(Passing(Range(rows))) = Cardinality({c \in Combos : passes(c)})
  <2> HIDE DEF passes
  <2> QED
    BY <1>1, <1>6, <1>7
<1>9. /\ Cardinality(Passing(neighbours)) = Cardinality({c \in Adjacent : passes(c)})
      /\ Cardinality(neighbours) = Cardinality(Adjacent)
      /\ neighbours # {} <=> Adjacent # {}
  <2> HIDE DEF passes, neighbours
  <2> QED
    BY <1>4, <1>6, <1>7, RowsCount
<1>10. Adjacent = near
  BY AdjacentIs
<1>11. Cardinality(Combos) = GridSize
  BY GridCounts
<1>12. Phase3(rows) =
         IF /\ 2 * Cardinality(Passing(Range(rows))) >= GridSize
            /\ neighbours # {}
            /\ 10 * Cardinality(Passing(neighbours)) >= 7 * Cardinality(neighbours)
         THEN "PASS" ELSE "FAIL"
  BY DEF Phase3
<1>13. Decided(i) =
         IF /\ 2 * Cardinality({c \in Combos : passes(c)}) >= Cardinality(Combos)
            /\ near # {}
            /\ 10 * Cardinality({c \in near : passes(c)}) >= 7 * Cardinality(near)
         THEN "PASS" ELSE "FAIL"
  BY DEF Decided
<1> HIDE DEF passes, near, neighbours
<1> QED
  BY <1>8, <1>9, <1>10, <1>11, <1>12, <1>13

\* From the report on: what is to be written, and what exit 0 has written, is
\* the whole grid with the verdict on it.
WriteInv ==
    script \in {"orb", "gap", "c4"} =>
      /\ pc # "idle" => exit = "none"
      /\ pc = "write" => Gridded(merged) /\ (script = "c4" => verdict = Phase3(merged))
      /\ exit = "0" =>
           Gridded(file["same"]) /\ (script = "c4" => verdict = Phase3(file["same"]))

LEMMA ScriptStays ==
    ASSUME Walk \/ Backtest
    PROVE  script' = script /\ script \notin {"orb", "gap", "c4"}
<1>1. CASE Walk
  BY <1>1 DEF Walk, BeginWalk, ComputeWindow, Aggregate, ComputingFails, WriteWalk, Tells, TellsHalf
<1>2. CASE Backtest
  BY <1>2 DEF Backtest, BeginReport, ReportRefused, NoSymbols, SessionPipeline, DcaPipeline,
     GoldenCrossPipeline, MomentumPipeline, LowVolatilityPipeline, RsiPipeline, Computes,
     ComputingFails, WriteMarkdown, WriteMetricsCsv, WriteTradesCsv, Tells, TellsHalf
<1> QED
  BY <1>1, <1>2

LEMMA WriteStep ==
    ASSUME StudyTypeOK, WriteInv, [Next]_vars
    PROVE  WriteInv'
<1>0. /\ file \in [{"same", "other"} -> Seq(Rows)] /\ resume \in {"none", "same", "other"}
      /\ existing \in Seq(Rows) /\ new \in Seq(Rows)
      /\ error \in Errors \cup {"none"}
  BY DEF StudyTypeOK
<1>1. CASE UNCHANGED vars
  BY <1>1 DEF WriteInv, vars, studyVars
<1>2. CASE Walk \/ Backtest
  BY <1>2, ScriptStays DEF WriteInv
<1>3. CASE Study
  <2>0. script' = script /\ script \in {"orb", "gap", "c4"}
    BY <1>3 DEF Study, Begin, Refused, Load, LoadFails, Start, RunSingleCombo, Completes,
       ReadRow, Read, ReadError, Drained, Kill, Report, ReportFails, WriteCsv, WriteBreaks,
       command
  <2>1. CASE Begin \/ Refused
    BY <2>0, <2>1 DEF WriteInv, Begin, Refused, Starts
  <2>2. ASSUME NEW code \in Errors \cup {"killed"}, Ends(code) PROVE WriteInv'
    BY <2>0, <2>2 DEF WriteInv, Ends, Stops, Errors
  <2>3. ASSUME pc' \in {"load", "run"}, pc # "idle", UNCHANGED exit PROVE WriteInv'
    BY <2>0, <2>3 DEF WriteInv
  <2>4. CASE Load
    <3>1. PICK loaded \in (IF resume = "none" THEN {[rows |-> <<>>, error |-> "none"]}
                           ELSE Loads(file[resume])) :
            IF loaded.error = "none" THEN pc' = "run" /\ exit' = exit ELSE Ends(loaded.error)
      BY <2>4 DEF Load, LoadResume
    <3>2. loaded.error \in Errors \cup {"none"}
      <4>1. CASE resume = "none"
        BY <3>1, <4>1
      <4>2. CASE resume # "none"
        <5>1. file[resume] \in Seq(Rows) /\ loaded \in Loads(file[resume])
          BY <1>0, <3>1, <4>2
        <5> QED
          BY <5>1, LoadsKeep
      <4> QED
        BY <4>1, <4>2
    <3>3. pc # "idle"
      BY <2>4 DEF Load
    <3> QED
      BY <2>2, <2>3, <3>1, <3>2, <3>3
  <2>5. CASE LoadFails
    BY <2>2, <2>5 DEF LoadFails
  <2>6. CASE Start \/ RunSingleCombo \/ ReadRow \/ ReadError
    <3>1. pc = "run" /\ pc' = pc /\ exit' = exit
      BY <2>6 DEF Start, RunSingleCombo, Completes, ReadRow, ReadError, Read
    <3> QED
      BY <2>3, <3>1
  <2>7. CASE Drained
    <3>1. Ends(error) /\ error \in Errors
      BY <1>0, <2>7 DEF Drained
    <3> QED
      BY <2>2, <3>1
  <2>8. CASE Kill
    BY <2>2, <2>8 DEF Kill
  <2>9. CASE Report
    <3>1. CASE Missing(existing, new)
      <4>1. Ends("2") /\ "2" \in Errors
        BY <2>9, <3>1 DEF Report, Errors
      <4> QED
        BY <2>2, <4>1
    <3>2. CASE ~Missing(existing, new)
      <4>1. /\ pc' = "write" /\ exit' = exit /\ pc = "run"
            /\ merged' = Merged(existing, new)
            /\ script = "c4" => verdict' = Phase3(merged')
        BY <2>9, <3>2 DEF Report, AllRead
      <4>2. Gridded(Merged(existing, new))
        BY <1>0, <3>2, MergedIs DEF Gridded
      <4>3. exit = "none"
        BY <2>0, <4>1 DEF WriteInv
      <4>4. Gridded(merged')
        BY <4>1, <4>2
      <4> QED
        BY <2>0, <4>1, <4>3, <4>4 DEF WriteInv
    <3> QED
      BY <3>1, <3>2
  <2>10. CASE ReportFails
    <3>1. Ends("3") /\ "3" \in Errors
      BY <2>10 DEF ReportFails, Errors
    <3> QED
      BY <2>2, <3>1
  <2>11. CASE WriteCsv
    <3>1. /\ pc = "write" /\ pc' = "idle" /\ verdict' = verdict
          /\ file' = [file EXCEPT !["same"] = merged]
      BY <2>11 DEF WriteCsv, Ends, Stops
    <3>2. file'["same"] = merged
      BY <1>0, <3>1
    <3>3. Gridded(merged) /\ (script = "c4" => verdict = Phase3(merged))
      BY <2>0, <3>1 DEF WriteInv
    <3>4. Gridded(file'["same"]) /\ (script = "c4" => verdict = Phase3(file'["same"]))
      BY <3>2, <3>3
    <3> QED
      BY <2>0, <3>1, <3>4 DEF WriteInv
  <2>12. CASE WriteBreaks
    <3>1. PICK code \in {"3", "killed"} : Ends(code)
      BY <2>12 DEF WriteBreaks
    <3> QED
      BY <2>2, <3>1 DEF Errors
  <2> QED
    BY <1>3, <2>1, <2>4, <2>5, <2>6, <2>7, <2>8, <2>9, <2>10, <2>11, <2>12 DEF Study
<1> QED
  BY <1>1, <1>2, <1>3 DEF Next

\* The studies with --resume: however often a run failed, was killed or was
\* given again, with whatever file of an earlier study, exit 0 has written every
\* combination of the grid once and in its order, and where every row was
\* measured on the inputs of the last run, the Phase 3 verdict is the one that
\* an uninterrupted run takes from the metrics.
THEOREM ResumeUninterrupted == Spec => []ResumeIsUninterrupted
<1>1. Init => WriteInv
  <2> SUFFICES ASSUME Init PROVE WriteInv
    OBVIOUS
  <2>1. pc = "idle" /\ exit = "none"
    BY DEF Init
  <2> QED
    BY <2>1 DEF WriteInv
<1>2. StudyTypeOK /\ WriteInv /\ [Next]_vars => WriteInv'
  BY WriteStep
<1>3. StudyTypeOK /\ WriteInv => ResumeIsUninterrupted
  <2> SUFFICES ASSUME StudyTypeOK, WriteInv, script \in {"orb", "gap", "c4"}, exit = "0",
                      NEW rows, rows = file["same"]
               PROVE  /\ CombosOf(rows) = Combos
                      /\ \A n, m \in DOMAIN rows : n < m => Before(rows[n].combo, rows[m].combo)
                      /\ (script = "c4" /\ \A row \in Range(rows) : row.of = inputs)
                           => verdict = Decided(inputs)
    BY DEF ResumeIsUninterrupted
  <2>1. rows \in Seq(Rows) /\ inputs \in Inputs
    BY DEF StudyTypeOK
  <2>2. Gridded(rows) /\ (script = "c4" => verdict = Phase3(rows))
    BY DEF WriteInv
  <2>3. /\ CombosOf(rows) = Combos
        /\ \A n, m \in DOMAIN rows : n < m => Before(rows[n].combo, rows[m].combo)
    BY <2>1, <2>2, GriddedIs
  <2>4. (script = "c4" /\ \A row \in Range(rows) : row.of = inputs) => verdict = Decided(inputs)
    BY <2>1, <2>2, Phase3Is
  <2> QED
    BY <2>3, <2>4
<1>4. StudyTypeOK /\ [Next]_vars => StudyTypeOK'
  BY StudyTypeStep
<1> QED
  BY <1>1, <1>2, <1>3, <1>4, StudyTypeStarts, PTL DEF Spec
-----------------------------------------------------------------------------
(* The calendar of the walk-forward.                                       *)

LEMMA MonthsAre ==
    /\ Len(MonthDays) \in Nat \ {0} /\ Months = 1..Len(MonthDays) /\ 1 \in Months
    /\ \A m \in Months : m \in Nat \ {0} /\ MonthDays[m] \in Nat \ {0}
BY WalkForwardAssumption DEF Months

FirstsOf(f) == f = [m \in Months |-> IF m = 1 THEN 1 ELSE f[m - 1] + MonthDays[m - 1]]

Firsts == CHOOSE f : FirstsOf(f)

LEMMA FirstsChosen == FirstDay = [m \in Months |-> Firsts[m]]
BY Zenon DEF FirstDay, Firsts, FirstsOf

LEMMA FirstsExist == FirstsOf(Firsts)
<1> DEFINE Step(g, m) == IF m = 1 THEN 1 ELSE g[m - 1] + MonthDays[m - 1]
           UpTo(k) == \E g : \A m \in Months : m < k => g[m] = Step(g, m)
           P == {k \in Nat : UpTo(k)}
<1>1. UpTo(0)
  BY MonthsAre
<1>2. ASSUME NEW k \in Nat, UpTo(k) PROVE UpTo(k + 1)
  <2>1. PICK g : \A m \in Months : m < k => g[m] = Step(g, m)
    BY <1>2
  <2> HIDE DEF Step
  <2> DEFINE h == [m \in Months |-> Step(g, m)]
  <2>2. \A m \in Months : m < k => h[m] = g[m]
    BY <2>1
  <2>3. ASSUME NEW m \in Months, m < k + 1 PROVE h[m] = Step(h, m)
    <3>1. h[m] = Step(g, m)
      OBVIOUS
    <3>2. CASE m = 1
      BY <3>1, <3>2 DEF Step
    <3>3. CASE m # 1
      <4>1. m - 1 \in Months /\ m - 1 < k
        BY <2>3, <3>3, MonthsAre
      <4>2. h[m - 1] = g[m - 1]
        BY <2>2, <4>1
      <4> HIDE DEF h
      <4> QED
        BY <3>1, <3>3, <4>2 DEF Step
    <3> QED
      BY <3>2, <3>3
  <2> HIDE DEF h
  <2> QED
    BY <2>3
<1> HIDE DEF UpTo
<1>3. P = Nat
  <2>1. P \in SUBSET Nat /\ 0 \in P /\ \A n \in P : n + 1 \in P
    BY <1>1, <1>2
  <2> HIDE DEF P
  <2> QED
    BY <2>1, Upwards
<1>4. UpTo(Len(MonthDays) + 1)
  BY <1>3, MonthsAre
<1>5. PICK g : \A m \in Months : m < Len(MonthDays) + 1 => g[m] = Step(g, m)
  BY <1>4 DEF UpTo
<1> HIDE DEF Step
<1>6. \A m \in Months : g[m] = Step(g, m)
  BY <1>5, MonthsAre
<1> DEFINE f == [m \in Months |-> g[m]]
<1>7. ASSUME NEW m \in Months PROVE f[m] = Step(f, m)
  <2>1. m # 1 => f[m - 1] = g[m - 1]
    BY MonthsAre
  <2>2. f[m] = Step(g, m)
    BY <1>6
  <2> HIDE DEF f
  <2> QED
    BY <2>1, <2>2 DEF Step
<1>8. f = [m \in Months |-> Step(f, m)]
  <2>1. f = [m \in Months |-> f[m]]
    OBVIOUS
  <2> HIDE DEF f
  <2> QED
    BY <1>7, <2>1
<1> HIDE DEF f
<1>9. FirstsOf(f)
  BY <1>8 DEF FirstsOf, Step
<1> QED
  BY <1>9 DEF Firsts

LEMMA FirstDayIs ==
    /\ FirstDay[1] = 1
    /\ \A m \in Months : m # 1 => FirstDay[m] = FirstDay[m - 1] + MonthDays[m - 1]
<1>1. Firsts = [m \in Months |-> IF m = 1 THEN 1 ELSE Firsts[m - 1] + MonthDays[m - 1]]
  BY FirstsExist DEF FirstsOf
<1> HIDE DEF FirstDay
<1>2. \A m \in Months : FirstDay[m] = Firsts[m]
  BY FirstsChosen
<1>3. \A m \in Months : Firsts[m] = IF m = 1 THEN 1 ELSE Firsts[m - 1] + MonthDays[m - 1]
  BY <1>1
<1>4. \A m \in Months : m # 1 => m - 1 \in Months
  BY MonthsAre
<1> QED
  BY <1>2, <1>3, <1>4, MonthsAre

\* A month begins behind all days of those before it.
LEMMA MonthsGrow ==
    /\ \A m \in Months : FirstDay[m] \in Nat \ {0}
    /\ \A k, m \in Months : k < m => FirstDay[k] + MonthDays[k] <= FirstDay[m]
<1> DEFINE Good(m) == /\ FirstDay[m] \in Nat \ {0}
                      /\ \A k \in Months : k < m => FirstDay[k] + MonthDays[k] <= FirstDay[m]
           P == {n \in Nat : n + 1 \in Months => \A m \in 1..(n + 1) : Good(m)}
<1>1. 0 \in P
  <2>1. Good(1)
    BY FirstDayIs, MonthsAre
  <2> HIDE DEF Good
  <2> QED
    BY <2>1
<1>2. ASSUME NEW n \in P PROVE n + 1 \in P
  <2> SUFFICES ASSUME (n + 1) + 1 \in Months PROVE \A m \in 1..((n + 1) + 1) : Good(m)
    OBVIOUS
  <2>0. n \in Nat /\ n + 1 \in Months /\ (n + 1) + 1 # 1 /\ ((n + 1) + 1) - 1 = n + 1
    BY MonthsAre
  <2>1. \A m \in 1..(n + 1) : Good(m)
    BY <2>0
  <2>2. FirstDay[(n + 1) + 1] = FirstDay[n + 1] + MonthDays[n + 1]
    BY <2>0, FirstDayIs
  <2>3. /\ FirstDay[n + 1] \in Nat \ {0} /\ MonthDays[n + 1] \in Nat \ {0}
        /\ \A k \in Months : k < n + 1 => FirstDay[k] + MonthDays[k] <= FirstDay[n + 1]
    BY <2>0, <2>1, MonthsAre
  <2>4. FirstDay[(n + 1) + 1] \in Nat \ {0}
    BY <2>2, <2>3
  <2>5. ASSUME NEW k \in Months, k < (n + 1) + 1
        PROVE  FirstDay[k] + MonthDays[k] <= FirstDay[(n + 1) + 1]
    <3>1. CASE k = n + 1
      BY <2>2, <2>3, <3>1
    <3>2. CASE k # n + 1
      <4>1. k \in 1..(n + 1) /\ k < n + 1
        BY <2>0, <2>5, <3>2, MonthsAre
      <4>2. FirstDay[k] \in Nat /\ MonthDays[k] \in Nat
        BY <2>1, <4>1, MonthsAre
      <4> QED
        BY <2>2, <2>3, <4>1, <4>2
    <3> QED
      BY <3>1, <3>2
  <2>6. Good((n + 1) + 1)
    BY <2>4, <2>5
  <2> HIDE DEF Good
  <2> QED
    BY <2>0, <2>1, <2>6
<1> HIDE DEF Good
<1>3. P = Nat
  <2>1. P \in SUBSET Nat /\ 0 \in P /\ \A n \in P : n + 1 \in P
    BY <1>1, <1>2
  <2> HIDE DEF P
  <2> QED
    BY <2>1, Upwards
<1>4. \A m \in Months : Good(m)
  <2> TAKE m \in Months
  <2>1. m - 1 \in Nat /\ (m - 1) + 1 = m /\ m \in 1..m
    BY MonthsAre
  <2>2. m - 1 \in P
    BY <1>3, <2>1
  <2> QED
    BY <2>1, <2>2
<1> QED
  BY <1>4 DEF Good
LEMMA MinOfTwo ==
    ASSUME NEW a \in Int, NEW b \in Int
    PROVE  Min({a, b}) = IF a <= b THEN a ELSE b
<1>1. Min({a, b}) = CHOOSE x \in {a, b} : \A y \in {a, b} : x <= y
  BY DEF Min
<1> DEFINE m == IF a <= b THEN a ELSE b
<1>2. m \in {a, b} /\ \A y \in {a, b} : m <= y
  OBVIOUS
<1>3. \A x \in {a, b} : (\A y \in {a, b} : x <= y) => x = m
  OBVIOUS
<1> HIDE DEF m
<1> QED
  BY <1>1, <1>2, <1>3 DEF m

\* The month and the day of a date.
LEMMA MonthInIs ==
    ASSUME NEW date \in Nat \ {0}
    PROVE  /\ MonthIn(date) \in Months /\ FirstDay[MonthIn(date)] <= date
           /\ \A m \in Months : FirstDay[m] <= date => m <= MonthIn(date)
           /\ DayIn(date) \in Nat \ {0}
           /\ date = Date(MonthIn(date), DayIn(date))
<1> DEFINE S == {m \in Months : FirstDay[m] <= date}
<1>1. S \in SUBSET Nat /\ S # {} /\ \A m \in S : m <= Len(MonthDays)
  <2>1. 1 \in S
    BY FirstDayIs, MonthsAre
  <2> QED
    BY <2>1, MonthsAre
<1>2. Max(S) \in S /\ \A m \in S : m <= Max(S)
  <2> HIDE DEF S
  <2> QED
    BY <1>1, GreatestOf, MonthsAre
<1>3. MonthIn(date) = Max(S)
  BY DEF MonthIn
<1>4. /\ MonthIn(date) \in Months /\ FirstDay[MonthIn(date)] <= date
      /\ \A m \in Months : FirstDay[m] <= date => m <= MonthIn(date)
  BY <1>2, <1>3
<1>5. FirstDay[MonthIn(date)] \in Nat \ {0}
  BY <1>4, MonthsGrow
<1> QED
  BY <1>4, <1>5 DEF DayIn, Date

LEMMA MonthInGrows ==
    ASSUME NEW a \in Nat \ {0}, NEW b \in Nat \ {0}, a <= b
    PROVE  MonthIn(a) <= MonthIn(b)
<1>1. MonthIn(a) \in Months /\ FirstDay[MonthIn(a)] <= a
  BY MonthInIs
<1>2. FirstDay[MonthIn(a)] \in Nat
  BY <1>1, MonthsGrow
<1>3. FirstDay[MonthIn(a)] <= b
  BY <1>1, <1>2
<1> QED
  BY <1>1, <1>3, MonthInIs

\* A date before the last month lies within its month.
LEMMA DayInMonth ==
    ASSUME NEW date \in Nat \ {0}, MonthIn(date) < Len(MonthDays)
    PROVE  DayIn(date) <= MonthDays[MonthIn(date)]
<1>1. /\ MonthIn(date) \in Months /\ FirstDay[MonthIn(date)] <= date
      /\ \A m \in Months : FirstDay[m] <= date => m <= MonthIn(date)
  BY MonthInIs
<1> DEFINE m == MonthIn(date)
<1>2. m + 1 \in Months /\ m + 1 # 1 /\ (m + 1) - 1 = m /\ m \in Nat
  BY <1>1, MonthsAre
<1>3. FirstDay[m + 1] = FirstDay[m] + MonthDays[m]
  BY <1>2, FirstDayIs
<1>4. FirstDay[m] \in Nat /\ MonthDays[m] \in Nat /\ FirstDay[m + 1] \in Nat
  BY <1>1, <1>2, MonthsAre, MonthsGrow
<1>5. ~(FirstDay[m + 1] <= date)
  BY <1>1, <1>2
<1>6. DayIn(date) = date - FirstDay[m] + 1
  BY DEF DayIn
<1> HIDE DEF m
<1>7. DayIn(date) <= MonthDays[m]
  BY <1>3, <1>4, <1>5, <1>6
<1> QED
  BY <1>7 DEF m

LEMMA DateIs ==
    ASSUME NEW m \in Months, NEW d \in 1..MonthDays[m]
    PROVE  /\ Date(m, d) \in Nat \ {0} /\ MonthIn(Date(m, d)) = m /\ DayIn(Date(m, d)) = d
<1>0. /\ FirstDay[m] \in Nat \ {0} /\ MonthDays[m] \in Nat /\ m \in Nat /\ d \in Nat
      /\ 1 <= d /\ d <= MonthDays[m]
  BY MonthsAre, MonthsGrow
<1> DEFINE date == Date(m, d)
<1>1. date = FirstDay[m] + d - 1 /\ date \in Nat \ {0}
  BY <1>0 DEF Date
<1> HIDE DEF date
<1>2. /\ MonthIn(date) \in Months /\ FirstDay[MonthIn(date)] <= date /\ m <= MonthIn(date)
  <2>1. FirstDay[m] <= date
    BY <1>0, <1>1
  <2> QED
    BY <1>1, <2>1, MonthInIs
<1>3. ~(m < MonthIn(date))
  <2> SUFFICES ASSUME m < MonthIn(date) PROVE FALSE
    OBVIOUS
  <2>1. FirstDay[m] + MonthDays[m] <= FirstDay[MonthIn(date)]
    BY <1>2, MonthsGrow
  <2>2. FirstDay[MonthIn(date)] \in Nat
    BY <1>2, MonthsGrow
  <2> QED
    BY <1>0, <1>1, <1>2, <2>1, <2>2
<1>4. MonthIn(date) = m
  BY <1>0, <1>2, <1>3, MonthsAre
<1>5. DayIn(date) = d
  BY <1>0, <1>1, <1>4 DEF DayIn
<1> QED
  BY <1>1, <1>4, <1>5 DEF date

LEMMA DatesGrow ==
    ASSUME NEW k \in Months, NEW m \in Months, k < m,
           NEW c \in 1..MonthDays[k], NEW d \in 1..MonthDays[m]
    PROVE  Date(k, c) < Date(m, d)
<1>1. FirstDay[k] + MonthDays[k] <= FirstDay[m]
  BY MonthsGrow
<1>2. /\ FirstDay[k] \in Nat /\ FirstDay[m] \in Nat /\ MonthDays[k] \in Nat /\ MonthDays[m] \in Nat
      /\ c \in Nat /\ d \in Nat /\ c <= MonthDays[k] /\ 1 <= d
  BY MonthsAre, MonthsGrow
<1>3. Date(k, c) = FirstDay[k] + c - 1 /\ Date(m, d) = FirstDay[m] + d - 1
  BY DEF Date
<1> QED
  BY <1>1, <1>2, <1>3

\* _add_months: the same day n months on, or the last one of its month.
LEMMA AddMonthsIs ==
    ASSUME NEW date \in Nat \ {0}, NEW n \in Nat, MonthIn(date) + n \in Months
    PROVE  \E d \in 1..MonthDays[MonthIn(date) + n] :
             /\ AddMonths(date, n) = Date(MonthIn(date) + n, d)
             /\ d = Min({DayIn(date), MonthDays[MonthIn(date) + n]})
             /\ d = IF DayIn(date) <= MonthDays[MonthIn(date) + n] THEN DayIn(date)
                    ELSE MonthDays[MonthIn(date) + n]
             /\ AddMonths(date, n) \in Nat \ {0}
             /\ MonthIn(AddMonths(date, n)) = MonthIn(date) + n
             /\ DayIn(AddMonths(date, n)) = d
<1> DEFINE m == MonthIn(date) + n
           d == Min({DayIn(date), MonthDays[m]})
<1>1. DayIn(date) \in Nat \ {0} /\ m \in Months /\ MonthDays[m] \in Nat \ {0}
  BY MonthInIs, MonthsAre
<1>2. AddMonths(date, n) = Date(m, d)
  BY DEF AddMonths
<1> HIDE DEF m
<1>3. d = IF DayIn(date) <= MonthDays[m] THEN DayIn(date) ELSE MonthDays[m]
  BY <1>1, MinOfTwo
<1>4. d \in 1..MonthDays[m]
  BY <1>1, <1>3
<1> HIDE DEF d
<1>5. /\ Date(m, d) \in Nat \ {0} /\ MonthIn(Date(m, d)) = m /\ DayIn(Date(m, d)) = d
  BY <1>1, <1>4, DateIs
<1> QED
  BY <1>2, <1>3, <1>4, <1>5 DEF m, d
-----------------------------------------------------------------------------
(* The windows of a span.                                                  *)

TrainMonth(s, i) == MonthIn(s.from) + i * s.step
TestMonth(s, i) == TrainMonth(s, i) + s.train
EndMonth(s, i) == TestMonth(s, i) + s.test

LEMMA SpanIs ==
    ASSUME NEW s \in Spans, Rolls(s)
    PROVE  /\ s.from \in Nat \ {0} /\ s.to \in Nat \ {0} /\ s.from <= s.to
           /\ s.train \in Nat \ {0} /\ s.test \in Nat \ {0} /\ s.step \in Nat \ {0}
           /\ MonthIn(s.to + 1) \in Nat
           /\ MonthIn(s.to + 1) + s.train + s.test + s.step <= Len(MonthDays)
           /\ MonthIn(s.from) \in Months /\ MonthIn(s.from) <= MonthIn(s.to + 1)
           /\ DayIn(s.from) \in Nat \ {0} /\ DayIn(s.from) <= MonthDays[MonthIn(s.from)]
           /\ s.from = Date(MonthIn(s.from), DayIn(s.from))
<1>1. /\ s.from \in Nat \ {0} /\ s.to \in Nat /\ s.train \in Nat /\ s.test \in Nat
      /\ s.step \in Nat
  BY WalkForwardAssumption
<1>2. s.from <= s.to /\ s.train > 0 /\ s.test > 0 /\ s.step > 0
  BY DEF Rolls
<1>3. s.to + 1 \in Nat \ {0} /\ s.from <= s.to + 1
  BY <1>1, <1>2
<1>4. MonthIn(s.to + 1) + s.train + s.test + s.step <= Len(MonthDays)
  BY <1>2, CalendarAssumption
<1>5. MonthIn(s.from) \in Months /\ MonthIn(s.to + 1) \in Months /\ DayIn(s.from) \in Nat \ {0}
      /\ s.from = Date(MonthIn(s.from), DayIn(s.from))
  BY <1>1, <1>3, MonthInIs
<1>6. MonthIn(s.from) <= MonthIn(s.to + 1)
  BY <1>1, <1>3, MonthInGrows
<1>7. MonthIn(s.from) \in Nat /\ MonthIn(s.to + 1) \in Nat /\ Len(MonthDays) \in Nat
  BY <1>5, MonthsAre
<1>8. MonthIn(s.from) < Len(MonthDays)
  BY <1>1, <1>2, <1>4, <1>6, <1>7
<1>9. DayIn(s.from) <= MonthDays[MonthIn(s.from)]
  BY <1>1, <1>8, DayInMonth
<1>10. s.to \in Nat \ {0} /\ s.train \in Nat \ {0} /\ s.test \in Nat \ {0} /\ s.step \in Nat \ {0}
  BY <1>1, <1>2
<1> QED
  BY <1>1, <1>2, <1>4, <1>5, <1>6, <1>7, <1>9, <1>10

\* The months of the windows: each is a step behind the one before it.
LEMMA WindowMonths ==
    ASSUME NEW s \in Spans, Rolls(s), NEW i \in Nat
    PROVE  /\ TrainMonth(s, i) \in Nat \ {0} /\ TestMonth(s, i) \in Nat \ {0}
           /\ EndMonth(s, i) \in Nat \ {0}
           /\ TrainMonth(s, 0) = MonthIn(s.from)
           /\ TestMonth(s, i) = TrainMonth(s, i) + s.train
           /\ EndMonth(s, i) = TestMonth(s, i) + s.test
           /\ TrainMonth(s, i + 1) = TrainMonth(s, i) + s.step
           /\ TestMonth(s, i + 1) = TestMonth(s, i) + s.step
           /\ EndMonth(s, i + 1) = EndMonth(s, i) + s.step
           /\ i > 0 => TrainMonth(s, i) > MonthIn(s.from)
<1> DEFINE p == i * s.step
           m == MonthIn(s.from)
<1>1. s.step \in Nat \ {0} /\ s.train \in Nat \ {0} /\ s.test \in Nat \ {0} /\ m \in Nat \ {0}
  BY SpanIs, MonthsAre
<1>2. p \in Nat /\ (i + 1) * s.step = p + s.step /\ 0 * s.step = 0 /\ (i > 0 => p > 0)
  BY <1>1
<1>3. /\ TrainMonth(s, i) = m + p /\ TrainMonth(s, i + 1) = m + (i + 1) * s.step
      /\ TrainMonth(s, 0) = m + 0 * s.step
  BY DEF TrainMonth
<1> HIDE DEF p, m
<1>4. /\ TrainMonth(s, i) = m + p /\ TrainMonth(s, i + 1) = m + p + s.step
      /\ TrainMonth(s, 0) = m
  BY <1>1, <1>2, <1>3
<1>5. /\ TestMonth(s, i) = TrainMonth(s, i) + s.train
      /\ EndMonth(s, i) = TestMonth(s, i) + s.test
      /\ TestMonth(s, i + 1) = TrainMonth(s, i + 1) + s.train
      /\ EndMonth(s, i + 1) = TestMonth(s, i + 1) + s.test
  BY DEF TestMonth, EndMonth
<1>6. m = MonthIn(s.from)
  BY DEF m
<1>7. s.train \in Nat /\ s.test \in Nat /\ s.step \in Nat /\ m > 0 /\ m \in Nat
  BY <1>1
<1> QED
  BY <1>1, <1>2, <1>4, <1>5, <1>6, <1>7

LEMMA MonthsOfWindow ==
    ASSUME NEW s \in Spans, Rolls(s), NEW i \in Nat, EndMonth(s, i) <= Len(MonthDays)
    PROVE  TrainMonth(s, i) \in Months /\ TestMonth(s, i) \in Months /\ EndMonth(s, i) \in Months
<1>1. /\ TrainMonth(s, i) \in Nat \ {0} /\ TestMonth(s, i) \in Nat \ {0}
      /\ EndMonth(s, i) \in Nat \ {0}
      /\ TestMonth(s, i) = TrainMonth(s, i) + s.train
      /\ EndMonth(s, i) = TestMonth(s, i) + s.test
  BY WindowMonths
<1>2. s.train \in Nat /\ s.test \in Nat
  BY SpanIs
<1> QED
  BY SMTT(30), <1>1, <1>2, MonthsAre

\* One window: its periods begin in their months, on the day of the span or
\* earlier in the month.
LEMMA WindowIs ==
    ASSUME NEW s \in Spans, Rolls(s), NEW i \in Nat, EndMonth(s, i) <= Len(MonthDays)
    PROVE  \E c \in 1..MonthDays[TrainMonth(s, i)], d \in 1..MonthDays[TestMonth(s, i)],
              e \in 1..MonthDays[EndMonth(s, i)] :
             /\ Window(s, i) = [trainFrom |-> Date(TrainMonth(s, i), c),
                                trainTo |-> Date(TestMonth(s, i), d) - 1,
                                testFrom |-> Date(TestMonth(s, i), d),
                                testTo |-> Date(EndMonth(s, i), e) - 1]
             /\ c = Min({DayIn(s.from), MonthDays[TrainMonth(s, i)]})
             /\ DayIn(s.from) <= MonthDays[TrainMonth(s, i)] => c = DayIn(s.from)
             /\ (\A m \in Months : DayIn(s.from) <= MonthDays[m]) =>
                  d = DayIn(s.from) /\ e = DayIn(s.from)
<1> DEFINE D == DayIn(s.from)
           a == TrainMonth(s, i)
           b == TestMonth(s, i)
           z == EndMonth(s, i)
           trainFrom == AddMonths(s.from, i * s.step)
           testFrom == AddMonths(trainFrom, s.train)
           after == AddMonths(testFrom, s.test)
<1>0. /\ s.from \in Nat \ {0} /\ s.train \in Nat /\ s.test \in Nat /\ s.step \in Nat
      /\ i * s.step \in Nat
  BY SpanIs
<1>1. a \in Months /\ b \in Months /\ z \in Months
  BY MonthsOfWindow
<1>2. /\ MonthIn(s.from) + i * s.step = a /\ a + s.train = b /\ b + s.test = z
  BY DEF TrainMonth, TestMonth, EndMonth
<1> HIDE DEF a, b, z
<1>3. PICK c \in 1..MonthDays[a] :
        /\ trainFrom = Date(a, c) /\ c = Min({D, MonthDays[a]})
        /\ c = IF D <= MonthDays[a] THEN D ELSE MonthDays[a]
        /\ trainFrom \in Nat \ {0} /\ MonthIn(trainFrom) = a /\ DayIn(trainFrom) = c
  BY <1>0, <1>1, <1>2, AddMonthsIs
<1> HIDE DEF trainFrom
<1>4. PICK d \in 1..MonthDays[b] :
        /\ testFrom = Date(b, d) /\ d = IF c <= MonthDays[b] THEN c ELSE MonthDays[b]
        /\ testFrom \in Nat \ {0} /\ MonthIn(testFrom) = b /\ DayIn(testFrom) = d
  <2>1. MonthIn(trainFrom) + s.train = b /\ DayIn(trainFrom) = c /\ trainFrom \in Nat \ {0}
    BY <1>2, <1>3
  <2>2. \E d \in 1..MonthDays[MonthIn(trainFrom) + s.train] :
          /\ testFrom = Date(MonthIn(trainFrom) + s.train, d)
          /\ d = IF DayIn(trainFrom) <= MonthDays[MonthIn(trainFrom) + s.train]
                 THEN DayIn(trainFrom) ELSE MonthDays[MonthIn(trainFrom) + s.train]
          /\ testFrom \in Nat \ {0} /\ MonthIn(testFrom) = MonthIn(trainFrom) + s.train
          /\ DayIn(testFrom) = d
    BY <1>0, <1>1, <2>1, AddMonthsIs
  <2> QED
    BY <2>1, <2>2
<1> HIDE DEF testFrom
<1>5. PICK e \in 1..MonthDays[z] :
        after = Date(z, e) /\ e = IF d <= MonthDays[z] THEN d ELSE MonthDays[z]
  <2>1. MonthIn(testFrom) + s.test = z /\ DayIn(testFrom) = d /\ testFrom \in Nat \ {0}
    BY <1>2, <1>4
  <2>2. \E e \in 1..MonthDays[MonthIn(testFrom) + s.test] :
          /\ after = Date(MonthIn(testFrom) + s.test, e)
          /\ e = IF DayIn(testFrom) <= MonthDays[MonthIn(testFrom) + s.test]
                 THEN DayIn(testFrom) ELSE MonthDays[MonthIn(testFrom) + s.test]
    BY <1>0, <1>1, <2>1, AddMonthsIs
  <2> QED
    BY <2>1, <2>2
<1>6. Window(s, i) = [trainFrom |-> trainFrom, trainTo |-> testFrom - 1,
                      testFrom |-> testFrom, testTo |-> after - 1]
  BY DEF Window, trainFrom, testFrom, after
<1> HIDE DEF after
<1>7. (\A m \in Months : D <= MonthDays[m]) => d = D /\ e = D
  BY <1>1, <1>3, <1>4, <1>5
<1>8. Window(s, i) = [trainFrom |-> Date(a, c), trainTo |-> Date(b, d) - 1,
                      testFrom |-> Date(b, d), testTo |-> Date(z, e) - 1]
  BY <1>3, <1>4, <1>5, <1>6
<1> QED
  BY <1>3, <1>7, <1>8 DEF a, b, z

\* A window that fits ends in a month of the span, so that the next one is
\* still in the calendar.
LEMMA FitsBound ==
    ASSUME NEW s \in Spans, Rolls(s), NEW i \in Nat, EndMonth(s, i) <= Len(MonthDays),
           Window(s, i).testTo <= s.to
    PROVE  EndMonth(s, i) <= MonthIn(s.to + 1) /\ EndMonth(s, i + 1) <= Len(MonthDays)
<1>0. /\ s.to \in Nat /\ s.to + 1 \in Nat \ {0} /\ s.train \in Nat /\ s.test \in Nat /\ s.step \in Nat
      /\ MonthIn(s.to + 1) \in Nat
      /\ MonthIn(s.to + 1) + s.train + s.test + s.step <= Len(MonthDays)
  <2>1. /\ s.to \in Nat \ {0} /\ s.train \in Nat \ {0} /\ s.test \in Nat \ {0}
        /\ s.step \in Nat \ {0} /\ MonthIn(s.to + 1) \in Nat
        /\ MonthIn(s.to + 1) + s.train + s.test + s.step <= Len(MonthDays)
    BY SpanIs
  <2> QED
    BY <2>1
<1>1. EndMonth(s, i) \in Months
  BY MonthsOfWindow
<1>2. PICK e \in 1..MonthDays[EndMonth(s, i)] : Window(s, i).testTo = Date(EndMonth(s, i), e) - 1
  <2>1. PICK c \in 1..MonthDays[TrainMonth(s, i)], d \in 1..MonthDays[TestMonth(s, i)],
            e \in 1..MonthDays[EndMonth(s, i)] :
          Window(s, i) = [trainFrom |-> Date(TrainMonth(s, i), c),
                          trainTo |-> Date(TestMonth(s, i), d) - 1,
                          testFrom |-> Date(TestMonth(s, i), d),
                          testTo |-> Date(EndMonth(s, i), e) - 1]
    BY WindowIs
  <2> QED
    BY <2>1
<1>3. /\ Date(EndMonth(s, i), e) \in Nat \ {0}
      /\ MonthIn(Date(EndMonth(s, i), e)) = EndMonth(s, i)
  BY <1>1, DateIs
<1>4. Date(EndMonth(s, i), e) <= s.to + 1
  BY SMTT(30), <1>0, <1>2, <1>3
<1>5. EndMonth(s, i) <= MonthIn(s.to + 1)
  BY <1>0, <1>3, <1>4, MonthInGrows
<1>6. EndMonth(s, i + 1) = EndMonth(s, i) + s.step /\ EndMonth(s, i) \in Nat
  BY WindowMonths
<1> QED
  BY <1>0, <1>5, <1>6, MonthsAre
LEMMA ManyMonths ==
    ASSUME NEW s \in Spans, Rolls(s), NEW i \in Nat
    PROVE  i <= EndMonth(s, i)
<1> DEFINE P == {n \in Nat : n <= EndMonth(s, n)}
<1>1. 0 \in P
  BY WindowMonths
<1>2. ASSUME NEW n \in P PROVE n + 1 \in P
  <2>1. /\ n \in Nat /\ EndMonth(s, n) \in Nat /\ s.step \in Nat \ {0} /\ n <= EndMonth(s, n)
        /\ EndMonth(s, n + 1) = EndMonth(s, n) + s.step
    BY SpanIs, WindowMonths
  <2> QED
    BY <2>1
<1>3. P = Nat
  <2>1. P \in SUBSET Nat
    OBVIOUS
  <2> HIDE DEF P
  <2> QED
    BY <1>1, <1>2, <2>1, Upwards
<1> QED
  BY <1>3

\* generate_windows comes to an end, and to no window beyond the calendar.
LEMMA FirstUnfit ==
    ASSUME NEW s \in Spans, Rolls(s)
    PROVE  /\ \E n \in 0..Len(MonthDays) :
                Window(s, n).testTo > s.to /\ \A k \in 0..(n - 1) : Window(s, k).testTo <= s.to
           /\ \A n \in Nat : (\A k \in 0..(n - 1) : Window(s, k).testTo <= s.to) =>
                \A k \in 0..n : EndMonth(s, k) <= Len(MonthDays)
<1> DEFINE Fits(k) == Window(s, k).testTo <= s.to
           P == {n \in Nat : (\A k \in Nat : k < n => Fits(k)) => EndMonth(s, n) <= Len(MonthDays)}
<1>0. /\ s.to \in Nat /\ s.train \in Nat \ {0} /\ s.test \in Nat \ {0} /\ s.step \in Nat \ {0}
      /\ MonthIn(s.to + 1) \in Nat /\ Len(MonthDays) \in Nat
      /\ MonthIn(s.to + 1) + s.train + s.test + s.step <= Len(MonthDays)
      /\ MonthIn(s.from) \in Nat /\ MonthIn(s.from) <= MonthIn(s.to + 1)
  BY SpanIs, MonthsAre
<1>1. EndMonth(s, 0) <= Len(MonthDays)
  <2>1. EndMonth(s, 0) = MonthIn(s.from) + s.train + s.test
    BY WindowMonths
  <2> QED
    BY <1>0, <2>1
<1>2. \A n \in Nat : (\A k \in Nat : k < n => Fits(k)) => EndMonth(s, n) <= Len(MonthDays)
  <2>1. 0 \in P
    BY <1>1
  <2>2. ASSUME NEW n \in P PROVE n + 1 \in P
    <3> SUFFICES ASSUME \A k \in Nat : k < n + 1 => Fits(k)
                 PROVE  EndMonth(s, n + 1) <= Len(MonthDays)
      OBVIOUS
    <3>1. n \in Nat /\ Fits(n) /\ \A k \in Nat : k < n => Fits(k)
      OBVIOUS
    <3>2. EndMonth(s, n) <= Len(MonthDays)
      BY <3>1
    <3> QED
      BY <3>1, <3>2, FitsBound
  <2>3. P = Nat
    <3>1. P \in SUBSET Nat
      OBVIOUS
    <3> HIDE DEF P
    <3> QED
      BY <2>1, <2>2, <3>1, Upwards
  <2> QED
    BY <2>3
<1>3. \E n \in Nat : ~Fits(n)
  <2> SUFFICES ASSUME \A n \in Nat : Fits(n) PROVE FALSE
    OBVIOUS
  <2> DEFINE L == Len(MonthDays)
  <2>1. EndMonth(s, L) <= L
    BY <1>0, <1>2
  <2>2. EndMonth(s, L) <= MonthIn(s.to + 1)
    BY <1>0, <2>1, FitsBound
  <2>3. L <= EndMonth(s, L) /\ EndMonth(s, L) \in Nat
    BY <1>0, ManyMonths, WindowMonths
  <2> HIDE DEF L
  <2>4. L \in Nat /\ MonthIn(s.to + 1) + s.train + s.test + s.step <= L
    BY <1>0 DEF L
  <2>5. MonthIn(s.to + 1) + s.train + s.test + s.step <= MonthIn(s.to + 1)
    <3>1. \A e, m, l, x \in Nat : m + x <= l /\ l <= e /\ e <= m => m + x <= m
      OBVIOUS
    <3>2. /\ MonthIn(s.to + 1) + (s.train + s.test + s.step) <= L
          /\ s.train + s.test + s.step \in Nat
      <4>1. \A m, x, y, z \in Nat : x + y + z \in Nat /\ m + x + y + z = m + (x + y + z)
        BY SMTT(30)
      <4> QED
        BY SMTT(30), <1>0, <2>4, <4>1
    <3>3. MonthIn(s.to + 1) + (s.train + s.test + s.step) <= MonthIn(s.to + 1)
      BY <1>0, <2>2, <2>3, <2>4, <3>1, <3>2
    <3> QED
      BY <1>0, <3>3
  <2> QED
    BY SMTT(30), <1>0, <2>5
<1>4. \E n \in Nat : ~Fits(n) /\ \A k \in Nat : k < n => Fits(k)
  <2> DEFINE U == {n \in Nat : ~Fits(n)}
  <2>1. U \in SUBSET Nat /\ U # {}
    BY <1>3
  <2>2. \E m \in U : \A n \in U : m <= n
    <3> HIDE DEF U
    <3> QED
      BY <2>1, LeastOf
  <2>3. PICK m \in U : \A n \in U : m <= n
    BY <2>2
  <2>4. \A k \in Nat : k < m => Fits(k)
    BY <2>3
  <2> QED
    BY <2>3, <2>4
<1>5. PICK n \in Nat : ~Fits(n) /\ \A k \in Nat : k < n => Fits(k)
  BY <1>4
<1>6. EndMonth(s, n) <= Len(MonthDays) /\ n <= EndMonth(s, n) /\ EndMonth(s, n) \in Nat
  BY <1>2, <1>5, ManyMonths, WindowMonths
<1>7. Window(s, n).testTo \in Int
  <2>0. n \in Nat /\ EndMonth(s, n) <= Len(MonthDays)
    BY <1>6
  <2> HIDE DEF P, Fits
  <2>1. PICK c \in 1..MonthDays[TrainMonth(s, n)], d \in 1..MonthDays[TestMonth(s, n)],
             e \in 1..MonthDays[EndMonth(s, n)] :
          Window(s, n) = [trainFrom |-> Date(TrainMonth(s, n), c),
                          trainTo |-> Date(TestMonth(s, n), d) - 1,
                          testFrom |-> Date(TestMonth(s, n), d),
                          testTo |-> Date(EndMonth(s, n), e) - 1]
    BY <2>0, WindowIs
  <2>2. EndMonth(s, n) \in Months
    BY <1>6, MonthsOfWindow
  <2>3. Date(EndMonth(s, n), e) \in Nat
    BY <2>2, DateIs
  <2> QED
    BY <2>1, <2>3
<1>8. n \in 0..Len(MonthDays) /\ Window(s, n).testTo > s.to
  BY <1>0, <1>5, <1>6, <1>7
<1>9. \A k \in 0..(n - 1) : Fits(k)
  BY <1>5
<1>10. ASSUME NEW m \in Nat, \A k \in 0..(m - 1) : Fits(k), NEW k \in 0..m
       PROVE  EndMonth(s, k) <= Len(MonthDays)
  <2>1. k \in Nat /\ \A j \in Nat : j < k => j \in 0..(m - 1)
    OBVIOUS
  <2>2. \A j \in Nat : j < k => Fits(j)
    BY <1>10, <2>1
  <2> HIDE DEF Fits
  <2> QED
    BY <1>2, <2>1, <2>2
<1> QED
  BY <1>8, <1>9, <1>10

LEMMA GeneratedIs ==
    ASSUME NEW s \in Spans, Rolls(s)
    PROVE  \E n \in Nat :
             /\ GenerateWindows(s) = [i \in 1..n |-> Window(s, i - 1)]
             /\ \A k \in 0..(n - 1) : /\ Window(s, k).testTo <= s.to
                                      /\ EndMonth(s, k) <= Len(MonthDays)
<1> DEFINE Good(i) == Window(s, i).testTo > s.to /\ \A k \in 0..(i - 1) : Window(s, k).testTo <= s.to
           n == CHOOSE i \in 0..Len(MonthDays) : Good(i)
<1>1. n \in 0..Len(MonthDays) /\ Good(n)
  <2>1. \E i \in 0..Len(MonthDays) : Good(i)
    BY FirstUnfit
  <2> HIDE DEF Good
  <2> QED
    BY <2>1
<1>2. GenerateWindows(s) = [i \in 1..n |-> Window(s, i - 1)]
  BY DEF GenerateWindows
<1> HIDE DEF n
<1>3. n \in Nat /\ \A k \in 0..(n - 1) : Window(s, k).testTo <= s.to
  BY <1>1
<1>4. \A k \in 0..n : EndMonth(s, k) <= Len(MonthDays)
  BY <1>3, FirstUnfit
<1>5. \A k \in 0..(n - 1) : k \in 0..n
  BY <1>3
<1> QED
  BY <1>2, <1>3, <1>4, <1>5
\* What WindowsRoll says of a list that generate_windows has made.
LEMMA RolledWindows ==
    ASSUME NEW s \in Spans, Rolls(s), NEW ws, ws = GenerateWindows(s), ws # <<>>
    PROVE  /\ Accepted(ws)
           /\ \A i \in DOMAIN ws :
                /\ s.from <= ws[i].trainFrom /\ ws[i].testTo <= s.to
                /\ DayIn(ws[i].trainFrom) =
                     Min({DayIn(s.from), MonthDays[MonthIn(ws[i].trainFrom)]})
           /\ (s.step = s.test /\ \A m \in Months : DayIn(s.from) <= MonthDays[m])
                => \A i \in 2..Len(ws) : ws[i].testFrom = ws[i - 1].testTo + 1
<1>1. PICK n \in Nat :
        /\ ws = [i \in 1..n |-> Window(s, i - 1)]
        /\ \A k \in 0..(n - 1) : Window(s, k).testTo <= s.to /\ EndMonth(s, k) <= Len(MonthDays)
  BY GeneratedIs
<1>2. /\ DOMAIN ws = 1..n /\ Len(ws) = n
      /\ \A i \in 1..n : i - 1 \in 0..(n - 1) /\ i - 1 \in Nat /\ ws[i] = Window(s, i - 1)
  BY <1>1
<1>3. ASSUME NEW i \in 1..n
      PROVE  /\ s.from <= ws[i].trainFrom /\ ws[i].testTo <= s.to
             /\ DayIn(ws[i].trainFrom) =
                  Min({DayIn(s.from), MonthDays[MonthIn(ws[i].trainFrom)]})
  <2> DEFINE k == i - 1
             a == TrainMonth(s, k)
  <2>0. k \in Nat /\ ws[i] = Window(s, k) /\ EndMonth(s, k) <= Len(MonthDays)
        /\ Window(s, k).testTo <= s.to
    BY <1>1, <1>2
  <2> HIDE DEF k
  <2>1. PICK c \in 1..MonthDays[a], d \in 1..MonthDays[TestMonth(s, k)],
             e \in 1..MonthDays[EndMonth(s, k)] :
          /\ Window(s, k) = [trainFrom |-> Date(a, c),
                             trainTo |-> Date(TestMonth(s, k), d) - 1,
                             testFrom |-> Date(TestMonth(s, k), d),
                             testTo |-> Date(EndMonth(s, k), e) - 1]
          /\ c = Min({DayIn(s.from), MonthDays[a]})
          /\ DayIn(s.from) <= MonthDays[a] => c = DayIn(s.from)
    BY ZenonT(40), <2>0, WindowIs
  <2>2. ws[i].trainFrom = Date(a, c)
    BY <2>0, <2>1
  <2>3. a \in Months
    BY <2>0, MonthsOfWindow
  <2>4. Date(a, c) \in Nat /\ MonthIn(Date(a, c)) = a /\ DayIn(Date(a, c)) = c
    BY <2>3, DateIs
  <2>5. /\ s.from \in Nat /\ s.from = Date(MonthIn(s.from), DayIn(s.from))
        /\ MonthIn(s.from) \in Months /\ DayIn(s.from) \in 1..MonthDays[MonthIn(s.from)]
    BY SpanIs, MonthsAre
  <2>6. s.from <= Date(a, c)
    <3>1. CASE k = 0
      <4>1. a = MonthIn(s.from)
        BY <3>1, WindowMonths
      <4>2. c = DayIn(s.from)
        BY <2>1, <2>5, <4>1
      <4> QED
        BY <2>4, <2>5, <4>1, <4>2
    <3>2. CASE k > 0
      <4>1. MonthIn(s.from) < a
        BY <2>0, <3>2, WindowMonths, MonthsAre, <2>5, <2>3
      <4>2. Date(MonthIn(s.from), DayIn(s.from)) < Date(a, c)
        BY <2>3, <2>5, <4>1, DatesGrow
      <4> QED
        BY <2>4, <2>5, <4>2
    <3> QED
      BY <2>0, <3>1, <3>2
  <2> HIDE DEF a
  <2> QED
    BY <2>0, <2>1, <2>2, <2>4, <2>6
<1>4. ASSUME NEW i \in 2..n
      PROVE  /\ ws[i - 1].testFrom < ws[i].testFrom
             /\ (s.step = s.test /\ \A m \in Months : DayIn(s.from) <= MonthDays[m])
                  => ws[i].testFrom = ws[i - 1].testTo + 1
  <2> DEFINE k == i - 2
  <2>0. /\ k \in Nat /\ k \in 0..(n - 1) /\ k + 1 \in 0..(n - 1) /\ i - 1 \in 1..n /\ i \in 1..n
        /\ (i - 1) - 1 = k /\ i - 1 = k + 1
    OBVIOUS
  <2>1. /\ ws[i - 1] = Window(s, k) /\ ws[i] = Window(s, k + 1)
        /\ EndMonth(s, k) <= Len(MonthDays) /\ EndMonth(s, k + 1) <= Len(MonthDays)
    BY <1>1, <1>2, <2>0
  <2> HIDE DEF k
  <2>2. PICK c \in 1..MonthDays[TrainMonth(s, k)], d \in 1..MonthDays[TestMonth(s, k)],
             e \in 1..MonthDays[EndMonth(s, k)] :
          /\ Window(s, k) = [trainFrom |-> Date(TrainMonth(s, k), c),
                             trainTo |-> Date(TestMonth(s, k), d) - 1,
                             testFrom |-> Date(TestMonth(s, k), d),
                             testTo |-> Date(EndMonth(s, k), e) - 1]
          /\ (\A m \in Months : DayIn(s.from) <= MonthDays[m]) =>
               d = DayIn(s.from) /\ e = DayIn(s.from)
    <3>1. k \in Nat /\ EndMonth(s, k) <= Len(MonthDays)
      BY <2>0, <2>1
    <3> QED
      BY ZenonT(40), <3>1, WindowIs
  <2>3. k + 1 \in Nat
    BY <2>0
  <2>4. PICK c2 \in 1..MonthDays[TrainMonth(s, k + 1)], d2 \in 1..MonthDays[TestMonth(s, k + 1)],
             e2 \in 1..MonthDays[EndMonth(s, k + 1)] :
          /\ Window(s, k + 1) = [trainFrom |-> Date(TrainMonth(s, k + 1), c2),
                                 trainTo |-> Date(TestMonth(s, k + 1), d2) - 1,
                                 testFrom |-> Date(TestMonth(s, k + 1), d2),
                                 testTo |-> Date(EndMonth(s, k + 1), e2) - 1]
          /\ (\A m \in Months : DayIn(s.from) <= MonthDays[m]) =>
               d2 = DayIn(s.from) /\ e2 = DayIn(s.from)
    BY ZenonT(40), <2>1, <2>3, WindowIs
  <2>5. /\ TestMonth(s, k + 1) = TestMonth(s, k) + s.step
        /\ EndMonth(s, k) = TestMonth(s, k) + s.test
        /\ s.step \in Nat \ {0} /\ TestMonth(s, k) \in Nat
    BY <2>0, SpanIs, WindowMonths
  <2>6. TestMonth(s, k) \in Months /\ EndMonth(s, k) \in Months /\ TestMonth(s, k + 1) \in Months
    BY <2>0, <2>1, <2>3, MonthsOfWindow
  <2>7. ws[i - 1].testFrom < ws[i].testFrom
    <3>1. Date(TestMonth(s, k), d) < Date(TestMonth(s, k + 1), d2)
      BY <2>5, <2>6, DatesGrow
    <3> QED
      BY <2>1, <2>2, <2>4, <3>1
  <2>8. ASSUME s.step = s.test, \A m \in Months : DayIn(s.from) <= MonthDays[m]
        PROVE  ws[i].testFrom = ws[i - 1].testTo + 1
    <3>1. d2 = DayIn(s.from) /\ e = DayIn(s.from)
      BY <2>2, <2>4, <2>8
    <3>2. TestMonth(s, k + 1) = EndMonth(s, k)
      BY <2>5, <2>8
    <3>3. /\ ws[i].testFrom = Date(TestMonth(s, k + 1), d2)
          /\ ws[i - 1].testTo = Date(EndMonth(s, k), e) - 1
      BY <2>1, <2>2, <2>4
    <3>4. Date(EndMonth(s, k), e) \in Nat
      BY <2>6, DateIs
    <3> QED
      BY <3>1, <3>2, <3>3, <3>4
  <2> QED
    BY <2>7, <2>8
<1>5. Accepted(ws)
  BY <1>2, <1>4 DEF Accepted
<1>6. \A i \in 2..Len(ws) : i \in 2..n
  BY <1>2
<1>7. \A i \in DOMAIN ws : i \in 1..n
  BY <1>2
<1> QED
  BY <1>3, <1>4, <1>5, <1>6, <1>7

\* The windows of a run are those that generate_windows made of its span.
WalkInv == windows # <<>> => span \in Spans /\ Rolls(span) /\ windows = GenerateWindows(span)

LEMMA WalkStep == ASSUME WalkInv, [Next]_vars PROVE WalkInv'
<1>1. CASE UNCHANGED walkVars
  BY <1>1 DEF WalkInv, walkVars
<1>2. ASSUME Forgets PROVE WalkInv'
  BY <1>2 DEF WalkInv, Forgets
<1>3. CASE BeginWalk
  <2>1. PICK s \in Spans :
          LET ws == IF Rolls(s) THEN GenerateWindows(s) ELSE <<>> IN
          IF ws # <<>> /\ \A i \in DOMAIN ws : Wellformed(ws[i])
          THEN span' = s /\ windows' = ws ELSE WalkStops("2")
    BY <1>3 DEF BeginWalk
  <2>2. CASE ~Rolls(s)
    BY <1>2, <2>1, <2>2 DEF WalkStops
  <2>3. CASE Rolls(s)
    <3>1. \/ span' = s /\ windows' = GenerateWindows(s)
          \/ WalkStops("2")
      BY <2>1, <2>3
    <3>2. CASE span' = s /\ windows' = GenerateWindows(s)
      BY <2>3, <3>2 DEF WalkInv
    <3>3. CASE WalkStops("2")
      BY <1>2, <3>3 DEF WalkStops
    <3> QED
      BY <3>1, <3>2, <3>3
  <2> QED
    BY <2>2, <2>3
<1>4. ASSUME span' = span, windows' = windows PROVE WalkInv'
  BY <1>4 DEF WalkInv
<1>5. CASE ComputeWindow \/ Aggregate
  BY <1>4, <1>5 DEF ComputeWindow, Aggregate
<1>6. CASE WriteWalk
  BY <1>1, <1>2, <1>6 DEF WriteWalk, WalkStops
<1>7. CASE Walk
  BY <1>2, <1>3, <1>5, <1>6, <1>7 DEF Walk
<1>8. CASE UNCHANGED vars
  BY <1>1, <1>8 DEF vars
<1> QED
  BY <1>1, <1>7, <1>8 DEF Next

\* generate_windows on every calendar: the windows lie in the span, follow each
\* other in the order the library asks for, begin on the day of the span where
\* the month has it, and with a step of the test period test every day once.
THEOREM WindowsAlwaysRoll == Spec => []WindowsRoll
<1>1. Init => WalkInv
  BY DEF Init, WalkInit, WalkInv
<1>2. WalkInv /\ [Next]_vars => WalkInv'
  BY WalkStep
<1>3. WalkInv => WindowsRoll
  <2> SUFFICES ASSUME WalkInv, windows # <<>>, NEW s, NEW ws, s = span, ws = windows
               PROVE  /\ Accepted(ws)
                      /\ \A i \in DOMAIN ws :
                           /\ s.from <= ws[i].trainFrom /\ ws[i].testTo <= s.to
                           /\ DayIn(ws[i].trainFrom) =
                                Min({DayIn(s.from), MonthDays[MonthIn(ws[i].trainFrom)]})
                      /\ (s.step = s.test /\ \A m \in Months : DayIn(s.from) <= MonthDays[m])
                           => \A i \in 2..Len(ws) : ws[i].testFrom = ws[i - 1].testTo + 1
    BY DEF WindowsRoll
  <2>1. s \in Spans /\ Rolls(s) /\ ws = GenerateWindows(s) /\ ws # <<>>
    BY DEF WalkInv
  <2> QED
    BY <2>1, RolledWindows
<1> QED
  BY <1>1, <1>2, <1>3, PTL DEF Spec
-----------------------------------------------------------------------------
(* The types of the other scripts, and of what all of them share.          *)

Scripts == {"orb", "gap", "c4", "walk_forward", "backtest"}
Places == {"idle", "load", "run", "write", "compute"} \cup ReportFiles
Codes == Errors \cup {"none", "0", "killed"}

ProcessTypeOK ==
    /\ script \in Scripts /\ pc \in Places /\ exit \in Codes
    /\ runs \in 0..MaxRuns /\ faults \in 0..MaxFaults
    /\ told \in [ReportFiles -> 0..MaxRuns]

\* What a run may do to them, in one place.
LEMMA ProcessParts ==
    ASSUME ProcessTypeOK
    PROVE  /\ UNCHANGED faults \/ Fault => faults' \in 0..MaxFaults
           /\ UNCHANGED runs \/ Starts => runs' \in 0..MaxRuns
           /\ UNCHANGED told => told' \in [ReportFiles -> 0..MaxRuns]
           /\ UNCHANGED script => script' \in Scripts
           /\ UNCHANGED pc => pc' \in Places
           /\ UNCHANGED exit => exit' \in Codes
           /\ \A code \in Codes : Stops(code) => pc' \in Places /\ exit' \in Codes
<1>0. MaxRuns \in Nat /\ MaxFaults \in Nat
  BY ProcessAssumption
<1>1. UNCHANGED faults \/ Fault => faults' \in 0..MaxFaults
  BY <1>0 DEF ProcessTypeOK, Fault
<1>2. UNCHANGED runs \/ Starts => runs' \in 0..MaxRuns
  BY <1>0 DEF ProcessTypeOK, Starts
<1> QED
  BY <1>1, <1>2 DEF ProcessTypeOK, Stops, Places

\* A file of the report that is written, or half written.
LEMMA TellsTyped ==
    ASSUME ProcessTypeOK
    PROVE  /\ \A f \in ReportFiles : Tells(f) => told' \in [ReportFiles -> 0..MaxRuns]
           /\ TellsHalf => told' \in [ReportFiles -> 0..MaxRuns]
<1>0. /\ told \in [ReportFiles -> 0..MaxRuns] /\ runs \in 0..MaxRuns /\ 0 \in 0..MaxRuns
  BY ProcessAssumption DEF ProcessTypeOK
<1>1. ASSUME NEW f \in ReportFiles, NEW n \in 0..MaxRuns
      PROVE  [told EXCEPT ![f] = n] \in [ReportFiles -> 0..MaxRuns]
  BY <1>0
<1> QED
  BY <1>0, <1>1 DEF Tells, TellsHalf

LEMMA ProcessOfStudy ==
    ASSUME ProcessTypeOK, StudyTypeOK, Study
    PROVE  ProcessTypeOK'
<1>0. Errors \subseteq Codes /\ {"none", "0", "killed", "2", "3"} \subseteq Codes
      /\ {"idle", "load", "run", "write"} \subseteq Places
  BY DEF Codes, Errors, Places
<1>1. ASSUME NEW code \in Codes, Ends(code) PROVE pc' \in Places /\ exit' \in Codes
  BY <1>1, ProcessParts DEF Ends
<1>2. UNCHANGED <<script, told>>
  BY DEF Study, Begin, Refused, Load, LoadFails, Start, RunSingleCombo, Completes, ReadRow,
     ReadError, Read, Drained, Kill, Report, ReportFails, WriteCsv, WriteBreaks, command
<1>3. runs' \in 0..MaxRuns
  BY ProcessParts
  DEF Study, Begin, Refused, Load, LoadFails, Start, RunSingleCombo, Completes, ReadRow,
     ReadError, Read, Drained, Kill, Report, ReportFails, WriteCsv, WriteBreaks
<1>4. faults' \in 0..MaxFaults
  BY ProcessParts
  DEF Study, Begin, Refused, Load, LoadFails, Start, RunSingleCombo, Completes, ReadRow,
     ReadError, Read, Drained, Kill, Report, ReportFails, WriteCsv, WriteBreaks
<1>5. pc' \in Places /\ exit' \in Codes
  <2>1. CASE Begin \/ Refused
    BY <2>1, <1>0, ProcessParts DEF Begin, Refused
  <2>2. CASE Load
    <3>1. PICK loaded \in (IF resume = "none" THEN {[rows |-> <<>>, error |-> "none"]}
                           ELSE Loads(file[resume])) :
            IF loaded.error = "none" THEN pc' = "run" /\ UNCHANGED exit ELSE Ends(loaded.error)
      BY <2>2 DEF Load, LoadResume
    <3>2. loaded.error \in Errors \cup {"none"}
      <4>1. CASE resume = "none"
        BY <3>1, <4>1
      <4>2. CASE resume # "none"
        <5>1. loaded \in Loads(file[resume]) /\ file[resume] \in Seq(Rows)
          BY <3>1, <4>2 DEF StudyTypeOK
        <5> QED
          BY <5>1, LoadsKeep
      <4> QED
        BY <4>1, <4>2
    <3> QED
      BY <1>0, <1>1, <3>1, <3>2, ProcessParts
  <2>3. CASE LoadFails \/ Kill
    BY <2>3, <1>0, <1>1 DEF LoadFails, Kill
  <2>4. CASE Start \/ RunSingleCombo \/ ReadRow \/ ReadError
    BY <2>4, ProcessParts DEF Start, RunSingleCombo, Completes, ReadRow, ReadError, Read
  <2>5. CASE Drained
    <3>1. error \in Codes /\ Ends(error)
      BY <2>5, <1>0 DEF Drained, StudyTypeOK
    <3> QED
      BY <1>1, <3>1
  <2>6. CASE Report
    <3>1. Ends("2") \/ (pc' = "write" /\ UNCHANGED exit)
      BY <2>6 DEF Report
    <3> QED
      BY <1>0, <1>1, <3>1, ProcessParts
  <2>7. CASE ReportFails \/ WriteCsv
    BY <2>7, <1>0, <1>1 DEF ReportFails, WriteCsv
  <2>8. CASE WriteBreaks
    <3>1. \E code \in {"3", "killed"} : Ends(code)
      BY <2>8 DEF WriteBreaks
    <3> QED
      BY <1>0, <1>1, <3>1
  <2> QED
    BY <2>1, <2>2, <2>3, <2>4, <2>5, <2>6, <2>7, <2>8 DEF Study
<1>6. script' \in Scripts /\ told' \in [ReportFiles -> 0..MaxRuns]
  BY <1>2, ProcessParts
<1> QED
  BY <1>3, <1>4, <1>5, <1>6 DEF ProcessTypeOK

\* The reports of the other two: they compute, then write one file after the
\* other.
LEMMA ProcessOfReports ==
    ASSUME ProcessTypeOK, Walk \/ Backtest
    PROVE  ProcessTypeOK'
<1>0. Errors \subseteq Codes /\ {"none", "0", "killed", "2", "3"} \subseteq Codes
      /\ {"idle", "compute", "markdown", "csv", "trades"} \subseteq Places
      /\ {"markdown", "csv", "trades"} \subseteq ReportFiles
  BY DEF Codes, Errors, Places, ReportFiles
<1>1. ASSUME pc' \in Places, exit' \in Codes, UNCHANGED script,
             UNCHANGED runs \/ Starts, UNCHANGED faults \/ Fault,
             told' \in [ReportFiles -> 0..MaxRuns]
      PROVE  ProcessTypeOK'
  BY <1>1, ProcessParts DEF ProcessTypeOK
<1>2. CASE BeginWalk \/ BeginReport \/ ReportRefused
  <2>1. pc' \in Places /\ exit' \in Codes
    <3>1. CASE BeginWalk
      <4>1. (pc' = "compute" /\ exit' = "none") \/ Stops("2")
        BY <3>1 DEF BeginWalk, WalkStops
      <4> QED
        BY <1>0, <4>1, ProcessParts
    <3>2. CASE BeginReport \/ ReportRefused
      BY <3>2, <1>0, ProcessParts DEF BeginReport, ReportRefused
    <3> QED
      BY <1>2, <3>1, <3>2
  <2>2. Starts /\ UNCHANGED <<script, faults, told>>
    BY <1>2 DEF BeginWalk, BeginReport, ReportRefused
  <2> QED
    BY <1>1, <2>1, <2>2, ProcessParts
<1>3. CASE ComputingFails
  BY <1>0, <1>1, <1>3, ProcessParts DEF ComputingFails
<1>4. CASE TellsHalf
  <2>1. \E code \in {"3", "killed"} : Stops(code)
    BY <1>4 DEF TellsHalf
  <2>2. pc' \in Places /\ exit' \in Codes
    BY <1>0, <2>1, ProcessParts
  <2>3. UNCHANGED <<script, runs>> /\ Fault
    BY <1>4 DEF TellsHalf
  <2> QED
    BY <1>1, <1>4, <2>2, <2>3, TellsTyped
<1>5. CASE ComputeWindow \/ Aggregate
  BY <1>0, <1>1, <1>5, ProcessParts DEF ComputeWindow, Aggregate
<1>6. CASE WriteWalk \/ WriteMarkdown \/ WriteMetricsCsv \/ WriteTradesCsv
  <2>1. pc' \in Places /\ exit' \in Codes
    BY <1>0, <1>6, ProcessParts
    DEF WriteWalk, WalkStops, WriteMarkdown, WriteMetricsCsv, WriteTradesCsv
  <2>2. PICK f \in ReportFiles : Tells(f)
    BY <1>0, <1>6 DEF WriteWalk, WriteMarkdown, WriteMetricsCsv, WriteTradesCsv
  <2>3. UNCHANGED <<script, runs, faults>> /\ told' \in [ReportFiles -> 0..MaxRuns]
    BY <2>2, TellsTyped DEF Tells
  <2> QED
    BY <1>1, <2>1, <2>3
<1>7. CASE NoSymbols
  BY <1>0, <1>1, <1>7, ProcessParts DEF NoSymbols
<1>8. ASSUME NEW n, NEW r, Computes(n, r) PROVE ProcessTypeOK'
  BY <1>0, <1>1, <1>8, ProcessParts DEF Computes
<1>9. CASE \/ SessionPipeline \/ DcaPipeline \/ GoldenCrossPipeline
           \/ MomentumPipeline \/ LowVolatilityPipeline \/ RsiPipeline
  BY <1>8, <1>9 DEF SessionPipeline, DcaPipeline, GoldenCrossPipeline, MomentumPipeline,
     LowVolatilityPipeline, RsiPipeline
<1> QED
  BY <1>2, <1>3, <1>4, <1>5, <1>6, <1>7, <1>9 DEF Walk, Backtest

\* A window is four days.
LEMMA GeneratedTyped ==
    ASSUME NEW s \in Spans, Rolls(s)
    PROVE  GenerateWindows(s) \in
             Seq([trainFrom : Nat, trainTo : Nat, testFrom : Nat, testTo : Nat])
<1>1. PICK n \in Nat :
        /\ GenerateWindows(s) = [i \in 1..n |-> Window(s, i - 1)]
        /\ \A k \in 0..(n - 1) : Window(s, k).testTo <= s.to /\ EndMonth(s, k) <= Len(MonthDays)
  BY GeneratedIs
<1>2. ASSUME NEW i \in 1..n
      PROVE  Window(s, i - 1) \in
               [trainFrom : Nat, trainTo : Nat, testFrom : Nat, testTo : Nat]
  <2>1. PICK k \in 0..(n - 1) : k = i - 1
    OBVIOUS
  <2>2. k \in Nat /\ EndMonth(s, k) <= Len(MonthDays)
    BY <1>1, <2>1
  <2>3. PICK c \in 1..MonthDays[TrainMonth(s, k)], d \in 1..MonthDays[TestMonth(s, k)],
             e \in 1..MonthDays[EndMonth(s, k)] :
          Window(s, k) = [trainFrom |-> Date(TrainMonth(s, k), c),
                          trainTo |-> Date(TestMonth(s, k), d) - 1,
                          testFrom |-> Date(TestMonth(s, k), d),
                          testTo |-> Date(EndMonth(s, k), e) - 1]
    BY ZenonT(40), <2>2, WindowIs
  <2>4. TrainMonth(s, k) \in Months /\ TestMonth(s, k) \in Months /\ EndMonth(s, k) \in Months
    BY <2>2, MonthsOfWindow
  <2>5. /\ Date(TrainMonth(s, k), c) \in Nat \ {0} /\ Date(TestMonth(s, k), d) \in Nat \ {0}
        /\ Date(EndMonth(s, k), e) \in Nat \ {0}
    BY <2>4, DateIs
  <2>6. \A x \in Nat \ {0} : x \in Nat /\ x - 1 \in Nat
    OBVIOUS
  <2>7. Window(s, k) \in [trainFrom : Nat, trainTo : Nat, testFrom : Nat, testTo : Nat]
    BY <2>3, <2>5, <2>6
  <2> QED
    BY <2>1, <2>7
<1> QED
  BY <1>1, <1>2 DEF Seq

\* Between two runs, and in the other scripts, there is no window.
NoWindow == (pc = "idle" \/ script # "walk_forward") => windows = <<>>

LEMMA WalkTypeStep ==
    ASSUME WalkTypeOK, NoWindow, [Next]_vars
    PROVE  WalkTypeOK' /\ NoWindow'
<1> DEFINE Four == [trainFrom : Nat, trainTo : Nat, testFrom : Nat, testTo : Nat]
<1>0. /\ span \in Spans \cup {NoSpan} /\ windows \in Seq(Four) /\ <<>> \in Seq(Four)
      /\ results \in [n : 0..Len(windows), train : Int, test : Int]
      /\ passed \in 0..results.n /\ isPass \in BOOLEAN
      /\ Len(windows) \in Nat
  BY EmptySeq, LenProperties DEF WalkTypeOK
<1>1. CASE windows = <<>> /\ UNCHANGED walkVars
  BY <1>0, <1>1 DEF WalkTypeOK, NoWindow, walkVars
<1>2. ASSUME Forgets PROVE WalkTypeOK' /\ NoWindow'
  <2>1. /\ span' = NoSpan /\ windows' = <<>> /\ results' = Nothing /\ passed' = 0
        /\ isPass' = FALSE
    BY <1>2 DEF Forgets
  <2>2. Len(<<>>) = 0
    BY EmptySeq
  <2>3. Nothing \in [n : 0..0, train : Int, test : Int] /\ Nothing.n = 0
    BY DEF Nothing
  <2>4. results' \in [n : 0..Len(windows'), train : Int, test : Int] /\ results'.n = 0
    BY <2>1, <2>2, <2>3
  <2>5. windows' \in Seq(Four)
    BY <1>0, <2>1
  <2>6. passed' \in 0..results'.n
    BY <2>1, <2>4
  <2> QED
    BY <2>1, <2>4, <2>5, <2>6 DEF WalkTypeOK, NoWindow
<1>9. ASSUME Walk PROVE script' = "walk_forward"
  BY <1>9, ScriptStays DEF Walk
<1>3. CASE Walk /\ BeginWalk
  <2>1. PICK s \in Spans :
          LET ws == IF Rolls(s) THEN GenerateWindows(s) ELSE <<>> IN
          IF ws # <<>> /\ \A i \in DOMAIN ws : Wellformed(ws[i])
          THEN span' = s /\ windows' = ws /\ pc' = "compute" /\ UNCHANGED <<results, passed, isPass>>
          ELSE WalkStops("2")
    BY <1>3 DEF BeginWalk
  <2>2. CASE WalkStops("2")
    BY <1>2, <2>2 DEF WalkStops
  <2>3. CASE ~WalkStops("2")
    <3>1. /\ Rolls(s) /\ span' = s /\ windows' = GenerateWindows(s) /\ pc' = "compute"
          /\ UNCHANGED <<results, passed, isPass>>
      BY <2>1, <2>3
    <3>2. windows' \in Seq(Four) /\ Len(windows') \in Nat
      BY <3>1, GeneratedTyped, LenProperties
    <3>3. windows = <<>> /\ Len(<<>>) = 0
      BY <1>3, EmptySeq DEF BeginWalk, Starts, NoWindow
    <3>4. results' \in [n : 0..Len(windows'), train : Int, test : Int]
      BY <1>0, <3>1, <3>2, <3>3
    <3>5. pc' # "idle" /\ script' = "walk_forward"
      BY <3>1, <1>9, <1>3
    <3> QED
      BY <1>0, <3>1, <3>2, <3>4, <3>5 DEF WalkTypeOK, NoWindow
  <2> QED
    BY <2>2, <2>3
<1>4. CASE Walk /\ ComputeWindow
  <2>1. PICK train \in Returns, test \in Returns :
          /\ results.n < Len(windows)
          /\ results' = [n |-> results.n + 1, train |-> results.train + train,
                         test |-> results.test + test]
          /\ passed' \in {passed, passed + 1}
          /\ pc = "compute" /\ UNCHANGED <<pc, span, windows, isPass>>
    BY <1>4 DEF ComputeWindow
  <2>2. train \in Int /\ test \in Int
    BY WalkForwardAssumption
  <2>3. results' \in [n : 0..Len(windows), train : Int, test : Int]
        /\ results'.n = results.n + 1
    <3>1. /\ results.n \in 0..Len(windows) /\ Len(windows) \in Nat
          /\ results.train \in Int /\ results.test \in Int
      BY <1>0
    <3>2. results.n + 1 \in 0..Len(windows)
      BY <2>1, <3>1
    <3>3. results.train + train \in Int /\ results.test + test \in Int
      BY <2>2, <3>1
    <3> QED
      BY <2>1, <3>2, <3>3
  <2>4. passed' \in 0..results'.n
    <3>1. passed \in 0..results.n /\ results.n \in Nat
      BY <1>0
    <3>2. \A p, m \in Nat : p <= m => p + 1 <= m + 1 /\ p <= m + 1
      OBVIOUS
    <3> QED
      BY <2>1, <2>3, <3>1, <3>2
  <2> QED
    BY <1>0, <1>4, <1>9, <2>1, <2>3, <2>4 DEF WalkTypeOK, NoWindow
<1>5. CASE Walk /\ Aggregate
  BY <1>0, <1>5, <1>9 DEF WalkTypeOK, NoWindow, Aggregate, DegradationWithin
<1>6. CASE Walk /\ WriteWalk
  <2>1. \/ pc' = "csv" /\ UNCHANGED walkVars
        \/ WalkStops("0")
    BY <1>6 DEF WriteWalk
  <2>2. CASE WalkStops("0")
    BY <1>2, <2>2 DEF WalkStops
  <2>3. CASE pc' = "csv" /\ UNCHANGED walkVars
    BY <1>0, <1>6, <1>9, <2>3 DEF WalkTypeOK, NoWindow, walkVars
  <2> QED
    BY <2>1, <2>2, <2>3
<1>7. CASE Walk
  BY <1>2, <1>3, <1>4, <1>5, <1>6, <1>7 DEF Walk
<1>8. CASE UNCHANGED vars
  <2>1. UNCHANGED walkVars /\ UNCHANGED <<pc, script>>
    BY <1>8 DEF vars
  <2> QED
    BY <1>0, <2>1 DEF WalkTypeOK, walkVars, NoWindow
<1>10. CASE UNCHANGED walkVars /\ (Study \/ Backtest)
  <2>1. script # "walk_forward"
    BY <1>10 DEF Study, Backtest
  <2>2. windows = <<>>
    BY <2>1 DEF NoWindow
  <2> QED
    BY <1>1, <1>10, <2>2
<1> QED
  BY <1>7, <1>8, <1>10 DEF Next

LEMMA ReportTypeStep ==
    ASSUME ReportTypeOK, [Next]_vars
    PROVE  ReportTypeOK'
<1> DEFINE Labels == [failed : SUBSET {"mdd", "sharpe"},
                      caveats : SUBSET {"sample", "single", "alpha"}]
<1>0. /\ strategy \in Strategies /\ symbols \in SymbolCounts \cup {0, 1}
      /\ result \in Results \cup {NoResult} /\ label \in Labels
  BY DEF ReportTypeOK
<1>1. CASE UNCHANGED reportVars
  BY <1>0, <1>1 DEF ReportTypeOK, reportVars
<1>2. CASE BeginReport
  <2>1. NoLabel \in Labels
    BY DEF NoLabel
  <2> QED
    BY <1>2, <2>1 DEF ReportTypeOK, BeginReport
<1>3. ASSUME NEW r, NEW open \in SUBSET {"alpha"} PROVE Gates(r, open) \in Labels
  BY <1>3 DEF Gates, Short
<1>4. ASSUME NEW r, NEW n PROVE SessionLabel(r, n) \in Labels
  BY DEF SessionLabel, Short
<1>5. ASSUME NEW n \in SymbolCounts \cup {1}, NEW r \in Results, Computes(n, r), label' \in Labels
      PROVE  ReportTypeOK'
  BY <1>0, <1>5 DEF ReportTypeOK, Computes
<1>6. CASE SessionPipeline
  BY <1>4, <1>5, <1>6 DEF SessionPipeline, Resolved
<1>7. CASE DcaPipeline \/ GoldenCrossPipeline
  BY <1>3, <1>5, <1>7 DEF DcaPipeline, GoldenCrossPipeline, DcaLabel, GoldenCrossLabel
<1>8. CASE MomentumPipeline \/ LowVolatilityPipeline \/ RsiPipeline
  BY <1>3, <1>5, <1>8 DEF MomentumPipeline, LowVolatilityPipeline, RsiPipeline, Resolved,
     MomentumLabel, LowVolatilityLabel, RsiLabel
<1>9. CASE ReportRefused \/ NoSymbols
  BY <1>1, <1>9 DEF ReportRefused, NoSymbols
<1>10. CASE Backtest
  BY <1>1, <1>2, <1>6, <1>7, <1>8, <1>9, <1>10 DEF Backtest
<1> QED
  BY <1>1, <1>10 DEF Next, vars

\* Every variable of the command lines keeps its type: runs and failures within
\* their bounds, exit codes that main() knows, files of a report of a run that
\* there was, windows of days, verdicts of gates.
THEOREM StudiesTypeCorrect == Spec => []TypeOK
<1> DEFINE Inv == ProcessTypeOK /\ StudyTypeOK /\ WalkTypeOK /\ NoWindow /\ ReportTypeOK
<1>1. Init => Inv
  <2> SUFFICES ASSUME Init PROVE Inv
    OBVIOUS
  <2>1. ProcessTypeOK
    <3>1. 0 \in 0..MaxRuns /\ 0 \in 0..MaxFaults
      BY ProcessAssumption
    <3> QED
      BY <3>1 DEF Init, ProcessTypeOK, Scripts, Places, Codes
  <2>2. StudyTypeOK
    BY StudyTypeStarts
  <2>3. WalkTypeOK /\ NoWindow
    <3>1. <<>> \in Seq([trainFrom : Nat, trainTo : Nat, testFrom : Nat, testTo : Nat])
          /\ Len(<<>>) = 0
      BY EmptySeq
    <3>2. Nothing \in [n : 0..0, train : Int, test : Int] /\ Nothing.n = 0
      BY DEF Nothing
    <3> QED
      BY <3>1, <3>2 DEF Init, WalkInit, WalkTypeOK, NoWindow
  <2>4. ReportTypeOK
    BY DEF Init, ReportInit, ReportTypeOK, NoLabel, Strategies
  <2> QED
    BY <2>1, <2>2, <2>3, <2>4
<1>2. Inv /\ [Next]_vars => Inv'
  <2> SUFFICES ASSUME Inv, [Next]_vars PROVE Inv'
    OBVIOUS
  <2>1. ProcessTypeOK'
    <3>1. CASE UNCHANGED vars
      BY <3>1 DEF vars, ProcessTypeOK
    <3>2. CASE Next
      BY <3>2, ProcessOfStudy, ProcessOfReports DEF Next
    <3> QED
      BY <3>1, <3>2
  <2> QED
    BY <2>1, StudyTypeStep, WalkTypeStep, ReportTypeStep
<1>3. Inv => TypeOK
  BY DEF ProcessTypeOK, Scripts, Places, Codes, TypeOK
<1> QED
  BY <1>1, <1>2, <1>3, PTL DEF Spec

=============================================================================
