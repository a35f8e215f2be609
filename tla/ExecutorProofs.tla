--------------------------- MODULE ExecutorProofs ---------------------------
(***************************************************************************)
(* What holds of the Executor for every universe, account, ledger snapshot *)
(* and combination of faults: it keeps its lots equal to the positions of  *)
(* the RiskManager, uses the RiskManager as that expects (a refinement of  *)
(* RiskManager!Spec) and buys only when nothing forbids it.  Where the     *)
(* broker answers, no position exceeds what the account holds.             *)
(***************************************************************************)
EXTENDS Executor, FiniteSetTheorems, TLAPS

-----------------------------------------------------------------------------
(* Which actions touch which part of the state.                            *)

\* The actions that end a submission or a poll.
Resolving == PollGone \/ Cancel \/ CancelFails

\* Only a session start and a fill touch the RiskManager.
LEMMA RiskFrame ==
    ASSUME [Next]_vars
    PROVE  UNCHANGED riskVars \/ Start \/ Restore \/ Resolving
<1>1. CASE Session
  BY <1>1 DEF Session, CloseMarket, EodSignal, Closing
<1>2. CASE Step \/ ForceCloseAll
  BY <1>2 DEF Step, ForceCloseAll
<1>3. CASE Handle \/ Submit
  BY <1>3 DEF Handle, SkipEntry, EvaluateEntry, HandleExit, UnknownExit, Submit,
     SubmitAccepted, SubmitRefused, SubmitLost
<1>4. CASE Environment
  BY <1>4 DEF Environment, Tick, Fill, Settle, Drop, Broker
<1>5. CASE ResolveFill
  BY <1>5 DEF ResolveFill, PollAgain, PollTimeout, Resolving
<1>6. CASE Reconcile \/ NextSymbol \/ ProcessBar \/ RefuseBar \/ OnTime \/ SignalsDone \/ ReadFails
  BY <1>6 DEF Reconcile, NextSymbol, ProcessBar, RefuseBar, OnTime, SignalsDone,
     ReadFails
<1>7. CASE UNCHANGED vars
  BY <1>7 DEF vars
<1> QED
  BY <1>1, <1>2, <1>3, <1>4, <1>5, <1>6, <1>7 DEF Next, Sweep

\* What counts as filled, and the halt flag, when an order is resolved.
Counted == IF pc = "poll" THEN order.qty ELSE order.filled

\* A resolved order was sent; the strategy, the clock and the account stay.
LEMMA Resolution ==
    ASSUME Resolving
    PROVE  /\ Sent
           /\ \E h \in {halt, TRUE} : Resolve(Counted, h)
           /\ UNCHANGED <<strategyVars, clockVars, holdings,
                          lastReconcile, lastSeen, queue>>
<1>1. CASE PollGone
  BY <1>1 DEF PollGone, Sent, Counted, marketVars
<1>2. CASE Cancel
  BY <1>2 DEF Cancel, Sent, Counted
<1>3. CASE CancelFails
  BY <1>3 DEF CancelFails, Sent, Counted
<1> QED
  BY <1>1, <1>2, <1>3 DEF Resolving

-----------------------------------------------------------------------------
(* Types.                                                                  *)

\* The symbols the daily bars came to are symbols of the account.
LEMMA PrefixTyped ==
    ASSUME NEW n \in 0..Len(Universe)
    PROVE  {Universe[i] : i \in 1..n} \subseteq Symbols
<1>1. ASSUME NEW i \in 1..n PROVE Universe[i] \in Symbols
  <2>1. Len(Universe) \in Nat
    BY ExecutorAssumption
  <2>2. i \in 1..Len(Universe)
    BY <2>1
  <2> QED
    BY <2>2, ExecutorAssumption
<1> QED
  BY <1>1

\* The signals of a set of symbols are a sequence of signals.
LEMMA SignalsTyped ==
    ASSUME NEW long, NEW S \in SUBSET Symbols, NEW q \in SignalsOf(long, S)
    PROVE  q \in Seq(SignalType)
<1>1. IsFiniteSet(S)
  BY RiskManagerAssumption, FS_Subset
<1>2. Cardinality(S) \in Nat
  BY <1>1, FS_CardinalityType
<1>3. PICK k \in [1..Cardinality(S) -> 1..Len(Universe)] :
         q = [i \in 1..Cardinality(S) |-> SignalOf(long, Universe[k[i]])]
  BY DEF SignalsOf, SweepOrders
<1>4. \A s \in Symbols : SignalOf(long, s) \in SignalType
  BY DEF SignalOf, Signal, SignalType
<1>5. \A i \in 1..Cardinality(S) : Universe[k[i]] \in Symbols
  BY <1>3, ExecutorAssumption
<1> QED
  BY <1>2, <1>3, <1>4, <1>5

\* A quantity that was approved is a positive number of shares.
LEMMA ApprovedQtyPositive ==
    ASSUME RM!TypeOK, NEW s \in Symbols, NEW price \in Prices, NEW cash \in CashLevels,
           RM!Approves(s, price, cash)
    PROVE  RM!EntryQty(price) \in Nat \ {0}
<1>1. price \in Nat \ {0}
  BY RiskManagerAssumption
<1>2. startingCapital * PositionPct \in Nat
  BY RiskManagerAssumption DEF RM!TypeOK
<1>3. RM!TargetNotional \in Nat
  BY <1>2 DEF RM!TargetNotional
<1>4. RM!EntryQty(price) \in Nat
  BY <1>1, <1>3 DEF RM!EntryQty
<1>5. RM!EntryQty(price) * price >= MinNotional
  BY DEF RM!Approves
<1> QED
  BY <1>1, <1>4, <1>5, RiskManagerAssumption

\* The RiskManager's part of the type invariant is preserved.
LEMMA RiskTypeStep ==
    ASSUME TypeOK, [Next]_vars
    PROVE  RM!TypeOK'
<1> USE RiskManagerAssumption
<1>1. UNCHANGED riskVars => RM!TypeOK'
  <2> SUFFICES ASSUME UNCHANGED riskVars PROVE RM!TypeOK'
    OBVIOUS
  <2>1. haltLogged' \in BOOLEAN
    BY DEF riskVars, TypeOK, RM!TypeOK
  <2> QED
    BY <2>1 DEF riskVars, TypeOK, RM!TypeOK
<1>2. CASE Start
  <2>1. PICK date \in Dates, capital \in Capitals : RM!StartSession(date, capital)
    BY <1>2 DEF Start, StartSession
  <2>2. date \in Nat \ {0} /\ capital \in Nat \ {0}
    BY <2>1 DEF RM!StartSession
  <2>3. haltLogged' \in BOOLEAN
    BY <2>1 DEF RM!StartSession
  <2>4. positions' \in [Symbols -> Nat]
    BY <2>1 DEF RM!StartSession, RM!NoPositions
  <2> QED
    BY <2>1, <2>2, <2>3, <2>4 DEF RM!StartSession, RM!TypeOK
<1>3. CASE Restore
  <2>1. PICK date \in Dates, capital \in Capitals, snapshot \in RM!Snapshots,
             entries \in 0..DailyMaxEntries, pnl \in Pnls :
             RM!RestoreSession(date, capital, snapshot, entries, pnl)
    BY <1>3 DEF Restore, RestoreSession
  <2>2. haltLogged' \in BOOLEAN
    BY <2>1 DEF RM!RestoreSession
  <2>3. positions' \in [Symbols -> Nat]
    BY <2>1 DEF RM!RestoreSession, RM!Snapshots
  <2> QED
    BY <2>1, <2>2, <2>3 DEF RM!RestoreSession, RM!TypeOK
<1>4. CASE Resolving
  <2>1. PICK h \in {halt, TRUE} : Resolve(Counted, h)
    BY <1>4, Resolution
  <2>2. Counted \in Nat /\ Current \in SignalType
    BY <1>4, Resolution DEF Counted, TypeOK, SweepType, LocalsType, Current, Sent, Trading
  <2>3. CASE UNCHANGED riskVars
    BY <1>1, <2>3
  <2>4. CASE EntryFilled(Current.sym, Counted)
    BY <2>2, <2>4 DEF EntryFilled, RM!RecordEntry, RM!TypeOK, TypeOK, SignalType
  <2>5. CASE ExitFilled(Current.sym)
    <3>1. PICK pnl \in Pnls : RM!RecordExit(Current.sym, pnl)
      BY <2>5 DEF ExitFilled
    <3>2. haltLogged' \in BOOLEAN
      BY <3>1 DEF RM!RecordExit
    <3> QED
      BY <2>2, <3>1, <3>2 DEF RM!RecordExit, RM!TypeOK, TypeOK, SignalType
  <2> QED
    BY <2>1, <2>3, <2>4, <2>5 DEF Resolve
<1> QED
  BY <1>1, <1>2, <1>3, <1>4, RiskFrame

\* The empty sequence is a sequence of anything.
LEMMA EmptyTyped == \A T : <<>> \in Seq(T)
  OBVIOUS

execVars == <<lots, guarded, halt, lastReconcile, lastSeen, queue, events>>

\* Which actions touch the Executor's own records.
LEMMA ExecutorFrame ==
    ASSUME [Next]_vars
    PROVE  UNCHANGED execVars \/ Start \/ Restore \/ EodSignal \/ Step \/ ForceCloseAll
           \/ Reconcile \/ ProcessBar \/ Resolving
<1> USE DEF execVars, ledgerVars
<1>1. CASE Session
  BY <1>1 DEF Session, CloseMarket, Closing
<1>2. CASE Handle \/ Submit
  BY <1>2 DEF Handle, SkipEntry, EvaluateEntry, HandleExit, UnknownExit, Submit,
     SubmitAccepted, SubmitRefused, SubmitLost
<1>3. CASE Environment
  BY <1>3 DEF Environment, Tick, Fill, Settle, Drop, Broker
<1>4. CASE ResolveFill
  BY <1>4 DEF ResolveFill, PollAgain, PollTimeout, Resolving
<1>5. CASE NextSymbol \/ RefuseBar \/ OnTime \/ SignalsDone \/ ReadFails
  BY <1>5 DEF NextSymbol, RefuseBar, OnTime, SignalsDone, ReadFails
<1>6. CASE UNCHANGED vars
  BY <1>6 DEF vars
<1> QED
  BY <1>1, <1>2, <1>3, <1>4, <1>5, <1>6 DEF Next, Sweep

\* A resolved order has a signal, a quantity and a symbol.
LEMMA OrderTyped ==
    ASSUME TypeOK, Trading
    PROVE  /\ Current \in SignalType /\ Current.sym \in Symbols
           /\ Counted \in Nat /\ order.qty \in Nat \ {0}
<1>1. batch # <<>> /\ batch \in Seq(SignalType) /\ order \in LocalsType /\ order.qty > 0
  BY DEF TypeOK, SweepType
<1>2. Current \in SignalType
  BY <1>1 DEF Current
<1>3. Current.sym \in Symbols
  BY <1>2 DEF SignalType
<1>4. order.qty \in Nat /\ order.filled \in Nat
  BY <1>1 DEF LocalsType
<1> QED
  BY <1>1, <1>2, <1>3, <1>4 DEF Counted

\* The Executor's part of the type invariant is preserved.
LEMMA ExecutorTypeStep ==
    ASSUME TypeOK, [Next]_vars
    PROVE  ExecutorType'
<1> USE DEF TypeOK, ExecutorType
<1>1. CASE UNCHANGED execVars
  <2>1. halt' \in BOOLEAN
    BY <1>1 DEF execVars
  <2> QED
    BY <1>1, <2>1 DEF execVars
<1>2. CASE Start
  <2>1. PICK date \in Dates, capital \in Capitals : StartSession(date, capital)
    BY <1>2 DEF Start
  <2>2. lots' \in [Symbols -> Nat] /\ lastSeen' \in [Symbols -> Nat]
    BY <2>1 DEF StartSession, NoLots, NoBars
  <2>3. halt' \in BOOLEAN
    BY <2>1 DEF StartSession
  <2> QED
    BY <2>1, <2>2, <2>3 DEF StartSession
<1>3. CASE Restore
  <2>1. PICK date \in Dates, capital \in Capitals, snapshot \in RM!Snapshots,
             entries \in 0..DailyMaxEntries, pnl \in Pnls, closed \in SUBSET Symbols :
             RestoreSession(date, capital, snapshot, entries, pnl, closed)
    BY <1>3 DEF Restore
  <2>2. snapshot \in [Symbols -> Nat]
    BY RiskManagerAssumption DEF RM!Snapshots
  <2> QED
    BY <2>1, <2>2 DEF RestoreSession, NoBars
<1>4. CASE EodSignal
  <2>1. queue' \in Seq(SignalType)
    <3>1. PICK n \in 0..Len(Universe) :
             \E fetched \in SUBSET {Universe[i] : i \in 1..n} : \E S \in SUBSET fetched :
                queue' \in {queue \o new : new \in SignalsOf(believed, S)} \/ queue' = queue
      BY <1>4 DEF EodSignal
    <3>2. PICK S \in SUBSET {Universe[i] : i \in 1..n} :
             queue' \in {queue \o new : new \in SignalsOf(believed, S)} \/ queue' = queue
      BY <3>1
    <3>3. S \in SUBSET Symbols
      BY <3>2, PrefixTyped
    <3>4. CASE queue' = queue
      BY <3>4
    <3>5. CASE queue' \in {queue \o new : new \in SignalsOf(believed, S)}
      <4>1. PICK new \in SignalsOf(believed, S) : queue' = queue \o new
        BY <3>5
      <4>2. new \in Seq(SignalType)
        BY <3>3, SignalsTyped
      <4> QED
        BY <4>1, <4>2
    <3> QED
      BY <3>2, <3>4, <3>5
  <2>2. UNCHANGED <<ledgerVars, halt, lastReconcile, lastSeen>>
    BY <1>4 DEF EodSignal, Closing
  <2>3. halt' \in BOOLEAN
    BY <2>2
  <2> QED
    BY <2>1, <2>2, <2>3 DEF ledgerVars
<1>5. CASE Step \/ ForceCloseAll
  <2>1. halt' \in BOOLEAN
    BY <1>5 DEF Step, ForceCloseAll
  <2>2. events' = <<>> /\ queue' \in {queue, <<>>}
    BY <1>5 DEF Step, ForceCloseAll
  <2>4. <<>> \in Seq(SignalType) /\ <<>> \in Seq(EventType)
    BY EmptyTyped
  <2>5. queue' \in Seq(SignalType)
    BY <2>2, <2>4
  <2>3. events' \in Seq(EventType)
    BY <2>2, <2>4
  <2> QED
    BY <1>5, <2>1, <2>3, <2>5 DEF Step, ForceCloseAll
<1>6. CASE Reconcile
  <2>1. halt' \in BOOLEAN
    BY <1>6 DEF Reconcile, Mismatch
  <2> QED
    BY <1>6, <2>1 DEF Reconcile, ledgerVars
<1>7. CASE ProcessBar
  <2>1. halt' \in BOOLEAN
    BY <1>7 DEF ProcessBar
  <2>2. lastSeen' \in [Symbols -> Nat]
    <3>1. PICK t \in list : lastSeen' = [lastSeen EXCEPT ![Universe[at]] = t]
      BY <1>7 DEF ProcessBar
    <3>2. t \in Nat
      BY DEF SweepType
    <3> QED
      BY <3>1, <3>2
  <2> QED
    BY <1>7, <2>1, <2>2 DEF ProcessBar, ledgerVars
<1>8. CASE Resolving
  <2>1. PICK h \in {halt, TRUE} : Resolve(Counted, h)
    BY <1>8, Resolution
  <2>2. /\ Current \in SignalType /\ Current.sym \in Symbols
        /\ Counted \in Nat /\ order.qty \in Nat \ {0}
    BY <1>8, Resolution, OrderTyped DEF Sent, Trading
  <2>3. UNCHANGED <<lastReconcile, lastSeen, queue>>
    BY <1>8, Resolution
  <2>4. halt' \in BOOLEAN
    BY <2>1 DEF Resolve
  <2>5. CASE EntryFilled(Current.sym, Counted)
    <3>1. [side |-> "buy", sym |-> Current.sym, qty |-> Counted] \in EventType
      BY <2>2, <2>5 DEF EntryFilled, RM!RecordEntry, EventType
    <3> QED
      BY <2>2, <2>3, <2>4, <2>5, <3>1 DEF EntryFilled
  <2>6. CASE ExitFilled(Current.sym)
    <3>1. [side |-> "sell", sym |-> Current.sym, qty |-> order.qty] \in EventType
      BY <2>2 DEF EventType
    <3> QED
      BY <2>2, <2>3, <2>4, <2>6, <3>1 DEF ExitFilled
  <2>7. CASE UNCHANGED ledgerVars
    BY <2>3, <2>4, <2>7 DEF ledgerVars
  <2> QED
    BY <2>1, <2>5, <2>6, <2>7 DEF Resolve
<1> QED
  BY <1>1, <1>2, <1>3, <1>4, <1>5, <1>6, <1>7, <1>8, ExecutorFrame

-----------------------------------------------------------------------------

\* What touches the sweep in progress.
LEMMA SweepFrame ==
    ASSUME [Next]_vars
    PROVE  UNCHANGED sweepVars \/ Step \/ ForceCloseAll \/ Sweep
<1>1. CASE Session
  BY <1>1 DEF Session, Start, Restore, Opening, CloseMarket, EodSignal, Closing
<1>2. CASE Environment
  BY <1>2 DEF Environment, Tick, Fill, Settle, Drop, Broker
<1>3. CASE UNCHANGED vars
  BY <1>3 DEF vars
<1> QED
  BY <1>1, <1>2, <1>3 DEF Next

\* The cleared locals have their type.
LEMMA NoLocalsTyped == NoLocals \in LocalsType
  BY DEF NoLocals, LocalsType

\* The signal whose turn it is.
LEMMA HeadTyped ==
    ASSUME TypeOK, batch # <<>>
    PROVE  Head(batch) \in SignalType /\ Head(batch).sym \in Symbols
<1>1. Head(batch) \in SignalType
  BY DEF TypeOK, SweepType
<1> QED
  BY <1>1 DEF SignalType

\* A sweep that is over has no order and no signals.
LEMMA LeaveTyped ==
    ASSUME NEW outcome \in {"returned", "raised"}, Leave(outcome)
    PROVE  SweepType'
<1>1. Len(Universe) \in Nat
  BY ExecutorAssumption
<1>2. <<>> \in Seq(SignalType)
  BY EmptyTyped
<1> QED
  BY <1>1, <1>2, NoLocalsTyped DEF Leave, SweepType, Trading, Sent

\* Going on to the next signal.
LEMMA NextSignalTyped ==
    ASSUME TypeOK, batch # <<>>, NextSignal
    PROVE  SweepType'
<1>1. Tail(batch) \in Seq(SignalType)
  BY DEF TypeOK, SweepType
<1> QED
  BY <1>1, NoLocalsTyped DEF NextSignal, TypeOK, SweepType, Trading, Sent

\* The list of bars is a set of minutes.
LEMMA MinuteBarsTyped ==
    ASSUME TypeOK, NEW i \in Nat \ {0}
    PROVE  MinuteBars(i) \subseteq Nat
<1>1. CASE i <= Len(Universe) /\ Universe[i] \in subs
  <2>1. since[Universe[i]] \in Nat /\ clock \in Nat
    BY <1>1 DEF TypeOK, WorldType
  <2> QED
    BY <1>1, <2>1 DEF MinuteBars
<1> QED
  BY <1>1 DEF MinuteBars

\* Trying again or giving up.
LEMMA RetryTyped ==
    ASSUME TypeOK, pc = "submit", RetryOrRaise
    PROVE  SweepType'
<1>1. CASE Raise
  BY <1>1, LeaveTyped DEF Raise
<1>2. CASE /\ order' = [order EXCEPT !.tries = @ + 1]
           /\ UNCHANGED <<pc, mode, phase, at, list, batch>>
  <2>1. order' \in LocalsType /\ order'.qty = order.qty
    BY <1>2 DEF TypeOK, SweepType, LocalsType
  <2> QED
    BY <1>2, <2>1 DEF TypeOK, SweepType, Trading, Sent
<1> QED
  BY <1>1, <1>2 DEF RetryOrRaise

\* A resolved order leads to the next signal or out of the sweep.
LEMMA ResolveTyped ==
    ASSUME TypeOK, Resolving
    PROVE  SweepType'
<1>1. PICK h \in {halt, TRUE} : Resolve(Counted, h)
  BY Resolution
<1>2. batch # <<>>
  BY Resolution DEF Sent, Trading, TypeOK, SweepType
<1>3. NextSignal \/ Raise
  BY <1>1 DEF Resolve, EntryFilled, ExitFilled
<1> QED
  BY <1>2, <1>3, NextSignalTyped, LeaveTyped DEF Raise

\* The sweep's part of the type invariant is preserved.
LEMMA SweepTypeStep ==
    ASSUME TypeOK, [Next]_vars
    PROVE  SweepType'
<1> USE DEF TypeOK
<1>1. CASE UNCHANGED sweepVars
  BY <1>1 DEF sweepVars, SweepType, Trading, Sent
<1>2. CASE Step
  BY <1>2 DEF Step, SweepType, Trading, Sent, ExecutorType
<1>3. CASE ForceCloseAll
  BY <1>3 DEF ForceCloseAll, SweepType, Trading, Sent
<1>17. CASE Reconcile
  <2>1. at \in Nat \ {0}
    BY ExecutorAssumption DEF SweepType
  <2>2. list' \subseteq Nat
    BY <1>17, <2>1, MinuteBarsTyped DEF Reconcile, SweepType
  <2> QED
    BY <1>17, <2>2 DEF Reconcile, SweepType, Trading, Sent
<1>4. CASE NextSymbol
  <2>1. Len(Universe) \in Nat
    BY ExecutorAssumption
  <2>2. at' \in 1..(Len(Universe) + 1) /\ at + 1 \in Nat \ {0}
    BY <1>4, <2>1 DEF NextSymbol, SweepType
  <2>3. list' \subseteq Nat
    BY <1>4, <2>2, MinuteBarsTyped DEF NextSymbol
  <2> QED
    BY <1>4, <2>2, <2>3 DEF NextSymbol, SweepType, Trading, Sent
<1>5. CASE ProcessBar
  <2>1. Universe[at] \in Symbols
    BY <1>5, ExecutorAssumption DEF ProcessBar, NextBar, SweepType
  <2>2. batch' \in Seq(SignalType)
    <3>1. CASE batch' = <<Signal("sell", Universe[at])>>
      BY <2>1, <3>1 DEF Signal, SignalType
    <3>2. CASE \E t \in list : OnBar(Universe[at], t)
      <4>1. PICK t \in list : OnBar(Universe[at], t)
        BY <3>2
      <4>2. PICK S \in SUBSET {Universe[at]} :
                batch' \in SignalsOf(believed \ Forgotten(Universe[at], t), S)
        BY <4>1 DEF OnBar
      <4> QED
        BY <2>1, <4>2, SignalsTyped
    <3> QED
      BY <1>5, <3>1, <3>2 DEF ProcessBar
  <2>3. list' \subseteq Nat
    BY <1>5 DEF ProcessBar, SweepType
  <2> QED
    BY <1>5, <2>2, <2>3 DEF ProcessBar, SweepType, Trading, Sent
<1>6. CASE OnTime
  <2>1. batch' \in Seq(SignalType)
    <3>1. PICK S \in {{}, believed} : batch' \in SignalsOf(believed, S)
      BY <1>6 DEF OnTime
    <3>2. S \in SUBSET Symbols
      BY DEF WorldType
    <3> QED
      BY <3>1, <3>2, SignalsTyped
  <2> QED
    BY <1>6, <2>1 DEF OnTime, SweepType, Trading, Sent
<1>7. CASE SignalsDone
  BY <1>7, LeaveTyped DEF SignalsDone, SweepType, Trading, Sent
<1>8. CASE ReadFails \/ UnknownExit \/ RefuseBar
  BY <1>8, LeaveTyped DEF ReadFails, UnknownExit, RefuseBar, Raise
<1>9. CASE SkipEntry
  BY <1>9, NextSignalTyped DEF SkipEntry, Turn
<1>10. CASE EvaluateEntry
  <2>0. batch # <<>>
    BY <1>10 DEF EvaluateEntry, Turn
  <2>1. Head(batch).sym \in Symbols
    BY <2>0, HeadTyped
  <2>2. PICK price \in Prices, cash \in CashLevels :
             \/ /\ RM!Approves(Head(batch).sym, price, cash)
                /\ order' = [NoLocals EXCEPT !.qty = RM!EntryQty(price)]
                /\ pc' = "submit"
                /\ UNCHANGED <<mode, phase, at, list, batch>>
             \/ NextSignal
    BY <1>10 DEF EvaluateEntry
  <2>3. CASE NextSignal
    BY <2>0, <2>3, NextSignalTyped
  <2>4. CASE ~NextSignal
    <3>1. RM!EntryQty(price) \in Nat \ {0}
      BY <2>1, <2>2, <2>4, ApprovedQtyPositive
    <3>2. order' \in LocalsType /\ order'.qty > 0
      BY <2>2, <2>4, <3>1 DEF NoLocals, LocalsType
    <3> QED
      BY <2>0, <2>2, <2>4, <3>2 DEF SweepType, Trading, Sent
  <2> QED
    BY <2>3, <2>4
<1>11. CASE HandleExit
  <2>0. batch # <<>>
    BY <1>11 DEF HandleExit, Turn
  <2>1. Head(batch).sym \in Symbols
    BY <2>0, HeadTyped
  <2>2. ExitQty(Head(batch).sym) \in Nat \ {0}
    BY <1>11, <2>1 DEF HandleExit, ExitQty, ExecutorType, RM!TypeOK
  <2>3. order' \in LocalsType /\ order'.qty > 0
    BY <1>11, <2>2 DEF HandleExit, NoLocals, LocalsType
  <2> QED
    BY <1>11, <2>0, <2>3 DEF HandleExit, SweepType, Trading, Sent
<1>12. CASE SubmitAccepted
  <2>1. PICK id \in Free : order' = [order EXCEPT !.id = id]
    BY <1>12 DEF SubmitAccepted
  <2>2. id \in Tickets
    BY DEF Free
  <2>3. order' \in LocalsType /\ order'.qty = order.qty /\ order'.id = id
    BY <2>1, <2>2 DEF SweepType, LocalsType
  <2> QED
    BY <1>12, <2>2, <2>3 DEF SubmitAccepted, SweepType, Trading, Sent
<1>13. CASE SubmitRefused \/ SubmitLost
  BY <1>13, RetryTyped DEF SubmitRefused, SubmitLost
<1>14. CASE PollAgain
  <2>1. order' \in LocalsType /\ order'.qty = order.qty /\ order'.id = order.id
    BY <1>14 DEF PollAgain, SweepType, LocalsType
  <2> QED
    BY <1>14, <2>1 DEF PollAgain, SweepType, Trading, Sent
<1>15. CASE PollTimeout
  <2>1. book[order.id].filled \in Nat
    BY <1>15 DEF PollTimeout, Live, WorldType, OrderType, NoOrder
  <2>2. order' \in LocalsType /\ order'.qty = order.qty /\ order'.id = order.id
    BY <1>15, <2>1 DEF PollTimeout, SweepType, LocalsType
  <2> QED
    BY <1>15, <2>2 DEF PollTimeout, SweepType, Trading, Sent
<1>16. CASE Resolving
  BY <1>16, ResolveTyped
<1> QED
  BY <1>1, <1>2, <1>3, <1>4, <1>5, <1>6, <1>7, <1>8, <1>9, <1>10, <1>11, <1>12,
     <1>13, <1>14, <1>15, <1>16, <1>17, SweepFrame
  DEF Sweep, Handle, Submit, ResolveFill, Resolving

-----------------------------------------------------------------------------
(* The broker's book.                                                      *)

Removal == \E id \in Tickets : book' = [book EXCEPT ![id] = NoOrder]
Placing == /\ pc = "submit" /\ Acceptable
           /\ \E id \in Free : book' = Placed(id, Current, order.qty)
Clearing == book' = [id \in Tickets |-> NoOrder]

\* What happens to the book and the account.
LEMMA BookFrame ==
    ASSUME TypeOK, [Next]_vars
    PROVE  \/ Fill
           \/ UNCHANGED holdings /\ (UNCHANGED book \/ Removal \/ Placing \/ Clearing)
<1> USE DEF marketVars, clockVars
<1>1. CASE Session
  BY <1>1 DEF Session, Start, Restore, Opening, CloseMarket, EodSignal, Closing, Clearing
<1>2. CASE Step \/ ForceCloseAll
  BY <1>2 DEF Step, ForceCloseAll
<1>3. CASE Handle
  BY <1>3 DEF Handle, SkipEntry, EvaluateEntry, HandleExit, UnknownExit
<1>4. CASE Submit
  BY <1>4 DEF Submit, SubmitAccepted, SubmitRefused, SubmitLost, Placing
<1>5. CASE Tick
  BY <1>5 DEF Tick
<1>6. CASE Settle \/ Drop
  <2>1. PICK id \in Live : Broker(book[id].sym, holdings[book[id].sym], id, NoOrder)
    BY <1>6 DEF Settle, Drop
  <2>2. holdings' = holdings
    BY <2>1 DEF Broker, TypeOK, WorldType
  <2>3. Removal
    BY <2>1 DEF Broker, Removal, Live
  <2> QED
    BY <2>2, <2>3
<1>7. CASE ResolveFill
  <2>1. Sent => order.id \in Tickets
    BY DEF TypeOK, SweepType
  <2> QED
    BY <1>7, <2>1 DEF ResolveFill, PollGone, PollAgain, PollTimeout, Cancel, CancelFails,
       Sent, Removal
<1>8. CASE Reconcile \/ NextSymbol \/ ProcessBar \/ RefuseBar \/ OnTime \/ SignalsDone \/ ReadFails
  BY <1>8 DEF Reconcile, NextSymbol, ProcessBar, RefuseBar, OnTime, SignalsDone,
     ReadFails
<1>9. CASE UNCHANGED vars
  BY <1>9 DEF vars
<1> QED
  BY <1>1, <1>2, <1>3, <1>4, <1>5, <1>6, <1>7, <1>8, <1>9 DEF Next, Sweep, Environment

\* An order the broker has is an order.
LEMMA LiveTyped ==
    ASSUME WorldType, NEW id \in Live
    PROVE  /\ id \in Tickets /\ book[id] \in OrderType
           /\ book[id].sym \in Symbols /\ book[id].side \in {"buy", "sell"}
           /\ book[id].qty \in Nat \ {0} /\ book[id].filled \in Nat
<1>1. id \in Tickets /\ book[id].side # "none"
  BY DEF Live
<1>2. book[id] \in OrderType
  BY <1>1 DEF WorldType, NoOrder
<1> QED
  BY <1>1, <1>2 DEF OrderType

\* An order that is placed has its type and nothing of it is filled.
LEMMA PlacingTyped ==
    ASSUME TypeOK, NEW id \in Free, pc = "submit"
    PROVE  /\ Placed(id, Current, order.qty)[id] \in OrderType
           /\ Placed(id, Current, order.qty)[id] =
                 [sym |-> Current.sym, side |-> Current.side, qty |-> order.qty, filled |-> 0]
           /\ \A i \in Tickets \ {id} : Placed(id, Current, order.qty)[i] = book[i]
           /\ Placed(id, Current, order.qty) \in [Tickets -> OrderType \union {NoOrder}]
<1>1. Current \in SignalType /\ Current.sym \in Symbols /\ order.qty \in Nat \ {0}
  BY OrderTyped DEF Trading
<1>2. Current.side \in {"buy", "sell"}
  BY <1>1 DEF SignalType
<1>3. [sym |-> Current.sym, side |-> Current.side, qty |-> order.qty, filled |-> 0]
        \in OrderType
  BY <1>1, <1>2 DEF OrderType
<1>4. id \in Tickets /\ book \in [Tickets -> OrderType \union {NoOrder}]
  BY DEF Free, TypeOK, WorldType
<1> QED
  BY <1>3, <1>4 DEF Placed

\* What one more share does to the account and to the book.
LEMMA FillEffect ==
    ASSUME TypeOK, BookIsCovered, NEW id \in Live,
           book[id].filled < book[id].qty,
           holdings' = [holdings EXCEPT ![book[id].sym] =
               holdings[book[id].sym] + (IF book[id].side = "buy" THEN 1 ELSE -1)],
           book' = [book EXCEPT ![id] = [book[id] EXCEPT !.filled = @ + 1]]
    PROVE  /\ holdings' \in [Symbols -> Nat]
           /\ book' \in [Tickets -> OrderType \union {NoOrder}]
           /\ BookIsCovered'
<1> DEFINE o == book[id]
<1>1. /\ id \in Tickets /\ o \in OrderType /\ o.sym \in Symbols
      /\ o.side \in {"buy", "sell"} /\ o.qty \in Nat \ {0} /\ o.filled \in Nat
  BY LiveTyped DEF TypeOK
<1>2. holdings \in [Symbols -> Nat] /\ book \in [Tickets -> OrderType \union {NoOrder}]
  BY DEF TypeOK, WorldType
<1>3. o.side = "sell" => o.qty - o.filled <= holdings[o.sym]
  BY DEF BookIsCovered
<1>4. holdings' \in [Symbols -> Nat]
  <2>1. CASE o.side = "buy"
    BY <1>1, <1>2, <2>1
  <2>2. CASE o.side = "sell"
    <3>1. holdings[o.sym] - 1 \in Nat
      BY <1>1, <1>2, <1>3, <2>2
    <3> QED
      BY <1>2, <2>2, <3>1
  <2> QED
    BY <1>1, <2>1, <2>2
<1>5. /\ book'[id].filled = o.filled + 1 /\ book'[id].qty = o.qty
      /\ book'[id].sym = o.sym /\ book'[id].side = o.side
      /\ book'[id] \in OrderType
  BY <1>1, <1>2 DEF OrderType
<1>6. \A j \in Tickets \ {id} : book'[j] = book[j]
  BY <1>2
<1>7. book' \in [Tickets -> OrderType \union {NoOrder}]
  BY <1>1, <1>2, <1>5
<1>8. Live' = Live
  BY <1>1, <1>5, <1>6 DEF Live
<1>9. \A j \in Live : /\ j \in Tickets /\ book[j].filled \in Nat /\ book[j].qty \in Nat
                      /\ book[j].sym \in Symbols
  BY LiveTyped DEF TypeOK
<1>10. \A j \in Live' : book'[j].filled <= book'[j].qty
  BY <1>1, <1>5, <1>6, <1>8, <1>9 DEF BookIsCovered
<1>11. \A j \in Live' : book'[j].side = "sell" =>
           book'[j].qty - book'[j].filled <= holdings'[book'[j].sym]
  <2> SUFFICES ASSUME NEW j \in Live, book'[j].side = "sell"
               PROVE  book'[j].qty - book'[j].filled <= holdings'[book'[j].sym]
    BY <1>8
  <2>1. CASE j = id
    <3>1. holdings'[o.sym] = holdings[o.sym] - 1
      BY <1>1, <1>2, <1>5, <2>1
    <3>2. holdings[o.sym] \in Nat
      BY <1>1, <1>2
    <3> QED
      BY <1>1, <1>3, <1>5, <2>1, <3>1, <3>2
  <2>2. CASE j # id /\ o.side = "sell" /\ book[j].sym = o.sym
    <3>1. book'[j] = book[j]
      BY <1>6, <1>9, <2>2
    <3>2. book[j].filled = book[j].qty
      BY <1>1, <2>2, <3>1 DEF BookIsCovered
    <3>3. holdings'[o.sym] \in Nat
      BY <1>1, <1>4
    <3> QED
      BY <1>9, <2>2, <3>1, <3>2, <3>3
  <2>3. CASE j # id /\ ~(o.side = "sell" /\ book[j].sym = o.sym)
    <3>1. book'[j] = book[j]
      BY <1>6, <1>9, <2>3
    <3>2. book[j].qty - book[j].filled <= holdings[book[j].sym]
      BY <3>1 DEF BookIsCovered
    <3>3. holdings[book[j].sym] \in Nat
      BY <1>2, <1>9
    <3>4. holdings'[book[j].sym] \in {holdings[book[j].sym], holdings[book[j].sym] + 1}
      BY <1>1, <1>2, <1>9, <2>3
    <3> QED
      BY <1>9, <3>1, <3>2, <3>3, <3>4
  <2> QED
    BY <2>1, <2>2, <2>3
<1>12. \A i, j \in Live' :
           (i # j /\ book'[i].side = "sell" /\ book'[j].side = "sell"
                 /\ book'[i].sym = book'[j].sym)
               => book'[i].filled = book'[i].qty \/ book'[j].filled = book'[j].qty
  <2> SUFFICES ASSUME NEW i \in Live, NEW j \in Live, i # j,
                      book'[i].side = "sell", book'[j].side = "sell",
                      book'[i].sym = book'[j].sym
               PROVE  book'[i].filled = book'[i].qty \/ book'[j].filled = book'[j].qty
    BY <1>8
  <2>1. /\ book[i].side = "sell" /\ book[j].side = "sell" /\ book[i].sym = book[j].sym
        /\ book'[i].qty = book[i].qty /\ book'[j].qty = book[j].qty
        /\ i # id => book'[i].filled = book[i].filled
        /\ j # id => book'[j].filled = book[j].filled
    BY <1>5, <1>6, <1>9
  <2>2. book[i].filled = book[i].qty \/ book[j].filled = book[j].qty
    BY <2>1 DEF BookIsCovered
  <2>3. o.filled # o.qty
    BY <1>1
  <2> QED
    BY <2>1, <2>2, <2>3
<1> QED
  BY <1>4, <1>7, <1>10, <1>11, <1>12 DEF BookIsCovered

\* The broker never sells what the account does not hold.
LEMMA BookStep ==
    ASSUME TypeOK, BookIsCovered, [Next]_vars
    PROVE  /\ holdings' \in [Symbols -> Nat]
           /\ book' \in [Tickets -> OrderType \union {NoOrder}]
           /\ BookIsCovered'
<1>0. holdings \in [Symbols -> Nat] /\ book \in [Tickets -> OrderType \union {NoOrder}]
  BY DEF TypeOK, WorldType
<1>1. CASE Fill
  <2>1. PICK id \in Live :
           LET o == book[id]
               delta == IF o.side = "buy" THEN 1 ELSE -1
           IN  /\ o.filled < o.qty
               /\ Broker(o.sym, holdings[o.sym] + delta, id, [o EXCEPT !.filled = @ + 1])
    BY <1>1 DEF Fill
  <2>2. book[id].filled < book[id].qty
    BY <2>1
  <2>3. holdings' = [holdings EXCEPT ![book[id].sym] =
            holdings[book[id].sym] + (IF book[id].side = "buy" THEN 1 ELSE -1)]
    BY <2>1 DEF Broker
  <2>4. book' = [book EXCEPT ![id] = [book[id] EXCEPT !.filled = @ + 1]]
    BY <2>1 DEF Broker
  <2> QED
    BY <2>2, <2>3, <2>4, FillEffect
<1>2. CASE UNCHANGED holdings /\ UNCHANGED book
  BY <1>0, <1>2 DEF BookIsCovered, Live
<1>3. CASE UNCHANGED holdings /\ Removal
  <2>1. PICK id \in Tickets : book' = [book EXCEPT ![id] = NoOrder]
    BY <1>3 DEF Removal
  <2>2. Live' \subseteq Live /\ \A j \in Live' : book'[j] = book[j]
    BY <1>0, <2>1 DEF Live, NoOrder
  <2> QED
    BY <1>0, <1>3, <2>1, <2>2 DEF BookIsCovered
<1>4. CASE UNCHANGED holdings /\ Clearing
  BY <1>0, <1>4 DEF Clearing, BookIsCovered, Live, NoOrder
<1>5. CASE UNCHANGED holdings /\ Placing
  <2>1. PICK id \in Free : book' = Placed(id, Current, order.qty)
    BY <1>5 DEF Placing
  <2>2. id \in Tickets /\ id \notin Live
    BY DEF Free
  <2>3. book'[id] = [sym |-> Current.sym, side |-> Current.side,
                     qty |-> order.qty, filled |-> 0]
    BY <1>5, <2>1, PlacingTyped DEF Placing
  <2>4. \A j \in Tickets \ {id} : book'[j] = book[j]
    BY <1>5, <2>1, PlacingTyped DEF Placing
  <2>5. book' \in [Tickets -> OrderType \union {NoOrder}]
    BY <1>5, <2>1, PlacingTyped DEF Placing
  <2>6. Live' \subseteq Live \union {id} /\ \A j \in Live : j \in Tickets \ {id}
    BY <2>2, <2>4 DEF Live
  <2>7. order.qty \in Nat \ {0} /\ Current.sym \in Symbols
    BY <1>5, OrderTyped DEF Placing, Trading
  <2>8. Current.side = "sell" =>
            /\ holdings[Current.sym] >= order.qty
            /\ \A j \in LiveSells(Current.sym) : book[j].filled = book[j].qty
    BY <1>5 DEF Placing, Acceptable, Covered
  <2>9. \A j \in Live' : book'[j].filled <= book'[j].qty
    BY <2>3, <2>4, <2>6, <2>7 DEF BookIsCovered
  <2>10. \A j \in Live' : book'[j].side = "sell" =>
             book'[j].qty - book'[j].filled <= holdings'[book'[j].sym]
    <3>1. holdings[Current.sym] \in Nat
      BY <1>0, <2>7
    <3> QED
      BY <1>5, <2>3, <2>4, <2>6, <2>7, <2>8, <3>1 DEF BookIsCovered
  <2>11. \A i, j \in Live' :
             (i # j /\ book'[i].side = "sell" /\ book'[j].side = "sell"
                   /\ book'[i].sym = book'[j].sym)
                 => book'[i].filled = book'[i].qty \/ book'[j].filled = book'[j].qty
    <3>1. \A j \in Live : (Current.side = "sell" /\ book[j].side = "sell"
                              /\ book[j].sym = Current.sym)
                            => book[j].filled = book[j].qty
      BY <2>8 DEF LiveSells
    <3> QED
      BY <2>3, <2>4, <2>6, <3>1 DEF BookIsCovered
  <2> QED
    BY <1>0, <1>5, <2>5, <2>9, <2>10, <2>11 DEF BookIsCovered
<1> QED
  BY <1>1, <1>2, <1>3, <1>4, <1>5, BookFrame

-----------------------------------------------------------------------------
(* The strategy and the bar source.                                        *)

\* What touches the strategy, the subscriptions and the clock.
LEMMA StrategyFrame ==
    ASSUME [Next]_vars
    PROVE  UNCHANGED <<strategyVars, feedVars, clockVars>> \/ Start \/ Restore
           \/ CloseMarket \/ EodSignal \/ ProcessBar \/ OnTime \/ Resolving \/ Tick
<1> USE DEF marketVars
<1>1. CASE Step \/ ForceCloseAll
  BY <1>1 DEF Step, ForceCloseAll
<1>2. CASE Handle \/ Submit
  BY <1>2 DEF Handle, SkipEntry, EvaluateEntry, HandleExit, UnknownExit, Submit,
     SubmitAccepted, SubmitRefused, SubmitLost
<1>3. CASE Fill \/ Settle \/ Drop
  BY <1>3 DEF Fill, Settle, Drop, Broker
<1>4. CASE ResolveFill
  BY <1>4 DEF ResolveFill, PollAgain, PollTimeout, Resolving
<1>5. CASE Reconcile \/ NextSymbol \/ RefuseBar \/ SignalsDone \/ ReadFails
  BY <1>5 DEF Reconcile, NextSymbol, RefuseBar, SignalsDone, ReadFails
<1>6. CASE UNCHANGED vars
  BY <1>6 DEF vars
<1> QED
  BY <1>1, <1>2, <1>3, <1>4, <1>5, <1>6 DEF Next, Sweep, Session, Environment

\* The parts of WorldType that are not the broker's.
StrategyType ==
    /\ believed \subseteq Symbols /\ done \subseteq Symbols
    /\ dated \subseteq Symbols /\ fed \in [Symbols -> Nat]
FeedType == subs \subseteq Symbols /\ since \in [Symbols -> Nat]
ClockType == clock \in Nat /\ opened \in Nat /\ open \in BOOLEAN

\* A new subscription begins now.
LEMMA SubscribeTyped ==
    ASSUME TypeOK, NEW S \in SUBSET Symbols, Subscribe(S)
    PROVE  FeedType'
  BY DEF TypeOK, WorldType, Subscribe, FeedType

\* A resolved order adds its symbol to the subscriptions or takes it away.
LEMMA ResolvedFeed ==
    ASSUME TypeOK, Resolving
    PROVE  FeedType'
<1>1. PICK h \in {halt, TRUE} : Resolve(Counted, h)
  BY Resolution
<1>2. Current.sym \in Symbols
  BY Resolution, OrderTyped DEF Sent, Trading
<1>3. CASE UNCHANGED feedVars
  BY <1>3 DEF feedVars, TypeOK, WorldType, FeedType
<1>4. CASE Subscribe({Current.sym})
  BY <1>2, <1>4, SubscribeTyped
<1>5. CASE Unsubscribe(Current.sym)
  BY <1>5 DEF Unsubscribe, TypeOK, WorldType, FeedType
<1> QED
  BY <1>1, <1>3, <1>4, <1>5 DEF Resolve, EntryFilled, ExitFilled

\* The strategy's reaction keeps to the symbols.
LEMMA ReactTyped ==
    ASSUME NEW S \in SUBSET Symbols, NEW long \in SUBSET Symbols,
           NEW left \in SUBSET Symbols, React(S, long, left)
    PROVE  believed' \subseteq Symbols /\ done' \subseteq Symbols
  BY DEF React

\* The clock keeps its type.
LEMMA ClockTypeStep ==
    ASSUME TypeOK, [Next]_vars
    PROVE  ClockType'
<1> USE DEF TypeOK, WorldType, ClockType
<1>1. CASE Start \/ Restore
  <2>1. open' = TRUE /\ opened' = clock /\ clock' = clock
    BY <1>1 DEF Start, Restore, Opening
  <2> QED
    BY <2>1
<1>2. CASE CloseMarket \/ EodSignal
  <2>1. open' = FALSE /\ opened' = opened /\ clock' = clock
    BY <1>2 DEF CloseMarket, EodSignal, Closing
  <2> QED
    BY <2>1
<1>3. CASE Tick
  <2>1. open' = open /\ opened' = opened /\ clock' = clock + 1
    BY <1>3 DEF Tick
  <2> QED
    BY <2>1
<1>4. CASE UNCHANGED clockVars
  <2>1. open' = open /\ opened' = opened /\ clock' = clock
    BY <1>4 DEF clockVars
  <2> QED
    BY <2>1
<1>5. CASE ProcessBar \/ OnTime \/ Resolving
  BY <1>4, <1>5, Resolution DEF ProcessBar, OnTime, marketVars
<1> QED
  BY <1>1, <1>2, <1>3, <1>4, <1>5, StrategyFrame

\* The subscriptions keep their type.
LEMMA FeedTypeStep ==
    ASSUME TypeOK, [Next]_vars
    PROVE  FeedType'
<1>1. CASE UNCHANGED feedVars
  BY <1>1 DEF feedVars, TypeOK, WorldType, FeedType
<1>2. CASE Restore
  <2>1. PICK snapshot \in RM!Snapshots : Subscribe(RM!HeldIn(snapshot))
    BY <1>2 DEF Restore, RestoreSession
  <2>2. RM!HeldIn(snapshot) \subseteq Symbols
    BY DEF RM!HeldIn
  <2> QED
    BY <2>1, <2>2, SubscribeTyped
<1>3. CASE Resolving
  BY <1>3, ResolvedFeed
<1>4. CASE Start \/ CloseMarket \/ EodSignal \/ ProcessBar \/ OnTime \/ Tick
  BY <1>1, <1>4 DEF Start, StartSession, CloseMarket, EodSignal, Closing, ProcessBar, OnTime,
     Tick, feedVars
<1> QED
  BY <1>1, <1>2, <1>3, <1>4, StrategyFrame

\* The strategy's state keeps its type.
LEMMA StrategyTypeStep ==
    ASSUME TypeOK, [Next]_vars
    PROVE  StrategyType'
<1> USE DEF TypeOK, WorldType, StrategyType
<1>1. CASE UNCHANGED strategyVars
  BY <1>1 DEF strategyVars
<1>2. CASE Start
  BY <1>2 DEF Start, Opening
<1>3. CASE Restore
  <2>1. PICK date \in Dates, capital \in Capitals, snapshot \in RM!Snapshots,
             entries \in 0..DailyMaxEntries, pnl \in Pnls, closed \in SUBSET Symbols :
             RestoreSession(date, capital, snapshot, entries, pnl, closed)
    BY <1>3 DEF Restore
  <2>2. RM!HeldIn(snapshot) \subseteq Symbols
    BY DEF RM!HeldIn
  <2>3. fed' = fed
    BY <1>3 DEF Restore, Opening
  <2> QED
    BY <2>1, <2>2, <2>3 DEF RestoreSession
<1>4. CASE CloseMarket
  BY <1>4 DEF CloseMarket, Closing
<1>5. CASE EodSignal
  <2>1. PICK n \in 0..Len(Universe) :
           \E fetched \in SUBSET {Universe[i] : i \in 1..n} : \E S \in SUBSET fetched :
              /\ React(S, believed, done)
              /\ fed' = [s \in Symbols |-> IF s \in fetched THEN Stamp0900 ELSE fed[s]]
    BY <1>5 DEF EodSignal
  <2>2. PICK fetched \in SUBSET {Universe[i] : i \in 1..n} : \E S \in SUBSET fetched :
           /\ React(S, believed, done)
           /\ fed' = [s \in Symbols |-> IF s \in fetched THEN Stamp0900 ELSE fed[s]]
    BY <2>1
  <2>3. PICK S \in SUBSET fetched : React(S, believed, done)
    BY <2>2
  <2>6. {Universe[i] : i \in 1..n} \subseteq Symbols
    BY PrefixTyped
  <2>4. S \subseteq Symbols
    BY <2>6
  <2>5. fed' \in [Symbols -> Nat]
    BY <2>2 DEF Stamp0900
  <2> QED
    BY <1>5, <2>3, <2>4, <2>5, ReactTyped DEF EodSignal, Closing
<1>6. CASE ProcessBar
  <2>1. Universe[at] \in Symbols
    BY <1>6, ExecutorAssumption DEF ProcessBar, NextBar, SweepType
  <2>2. CASE \E t \in list : OnBar(Universe[at], t)
    <3>1. PICK t \in list : OnBar(Universe[at], t)
      BY <2>2
    <3>2. PICK S \in SUBSET {Universe[at]} :
              React(S, believed \ Forgotten(Universe[at], t), done \ Forgotten(Universe[at], t))
      BY <3>1 DEF OnBar
    <3>3. t \in Nat
      BY DEF SweepType
    <3>4. Forgotten(Universe[at], t) \subseteq Symbols
      BY <2>1 DEF Forgotten
    <3>5. believed' \subseteq Symbols /\ done' \subseteq Symbols
      BY <2>1, <3>2, ReactTyped
    <3> QED
      BY <2>1, <3>1, <3>3, <3>4, <3>5 DEF OnBar
  <2> QED
    BY <1>1, <1>6, <2>2 DEF ProcessBar
<1>7. CASE OnTime
  <2>1. PICK S \in {{}, believed} : React(S, believed, done)
    BY <1>7 DEF OnTime
  <2> QED
    BY <1>7, <2>1, ReactTyped DEF OnTime
<1>8. CASE Resolving \/ Tick
  BY <1>1, <1>8, Resolution DEF Tick
<1> QED
  BY <1>1, <1>2, <1>3, <1>4, <1>5, <1>6, <1>7, <1>8, StrategyFrame

-----------------------------------------------------------------------------

\* The first state has its types, and the broker has no orders.
LEMMA InitTyped == Init => TypeOK /\ BookIsCovered
<1> SUFFICES ASSUME Init PROVE TypeOK /\ BookIsCovered
  OBVIOUS
<1>1. haltLogged \in BOOLEAN
  BY DEF Init, RM!Init
<1>2. RM!TypeOK
  BY <1>1 DEF Init, RM!Init, RM!NoPositions, RM!TypeOK
<1>3. halt \in BOOLEAN /\ open \in BOOLEAN
  BY DEF Init
<1>4. <<>> \in Seq(SignalType) /\ <<>> \in Seq(EventType)
  BY EmptyTyped
<1>5. ExecutorType
  BY <1>3, <1>4 DEF Init, ExecutorType, NoLots, NoBars
<1>6. Len(Universe) \in Nat
  BY ExecutorAssumption
<1>7. SweepType
  BY <1>4, <1>6, NoLocalsTyped DEF Init, SweepType, Trading, Sent
<1>8. WorldType
  BY <1>3, ExecutorAssumption DEF Init, WorldType, NoBars
<1>9. BookIsCovered
  BY DEF Init, BookIsCovered, Live, NoOrder
<1> QED
  BY <1>2, <1>5, <1>7, <1>8, <1>9 DEF TypeOK

\* The type invariant and the covered book are inductive together.
LEMMA TypeStep == TypeOK /\ BookIsCovered /\ [Next]_vars => TypeOK' /\ BookIsCovered'
<1> SUFFICES ASSUME TypeOK, BookIsCovered, [Next]_vars
             PROVE  TypeOK' /\ BookIsCovered'
  OBVIOUS
<1>1. RM!TypeOK'
  BY RiskTypeStep
<1>2. ExecutorType'
  BY ExecutorTypeStep
<1>3. SweepType'
  BY SweepTypeStep
<1>4. WorldType'
  BY StrategyTypeStep, FeedTypeStep, ClockTypeStep, BookStep
  DEF WorldType, StrategyType, FeedType, ClockType
<1> QED
  BY <1>1, <1>2, <1>3, <1>4, BookStep DEF TypeOK

\* The types hold, whatever the broker and the strategy do; the account is
\* never overdrawn, because at most one sale of a symbol is open at a time.
THEOREM ExecutorTypeCorrect == Spec => [](TypeOK /\ BookIsCovered)
  BY InitTyped, TypeStep, PTL DEF Spec

-----------------------------------------------------------------------------
(* Lots, positions and subscriptions.                                      *)

\* The lots move with the positions.
LEMMA LotsStep ==
    ASSUME TypeOK, LotsArePositions, [Next]_vars
    PROVE  LotsArePositions'
<1> USE DEF LotsArePositions
<1>1. CASE Start
  BY <1>1 DEF Start, StartSession, RM!StartSession, NoLots, RM!NoPositions
<1>2. CASE Restore
  BY <1>2 DEF Restore, RestoreSession, RM!RestoreSession
<1>3. CASE Resolving
  <2>1. PICK h \in {halt, TRUE} : Resolve(Counted, h)
    BY <1>3, Resolution
  <2> QED
    BY <2>1 DEF Resolve, EntryFilled, ExitFilled, RM!RecordEntry, RM!RecordExit,
       riskVars, ledgerVars
<1>4. CASE UNCHANGED riskVars /\ ~Start /\ ~Restore /\ ~Resolving
  BY <1>4, ExecutorFrame DEF riskVars, execVars, EodSignal, Closing, Step, ForceCloseAll,
     Reconcile, ProcessBar, ledgerVars
<1> QED
  BY <1>1, <1>2, <1>3, <1>4, RiskFrame

\* A subscription ends with the position, never before it.
LEMMA WatchedStep ==
    ASSUME TypeOK, HeldIsWatched, [Next]_vars
    PROVE  HeldIsWatched'
<1> USE DEF HeldIsWatched, RM!Held, RM!HeldIn
<1>1. CASE Start
  BY <1>1 DEF Start, StartSession, RM!StartSession, RM!NoPositions, feedVars
<1>2. CASE Restore
  BY <1>2 DEF Restore, RestoreSession, RM!RestoreSession, Subscribe
<1>3. CASE Resolving
  <2>1. PICK h \in {halt, TRUE} : Resolve(Counted, h)
    BY <1>3, Resolution
  <2>2. Current.sym \in Symbols /\ positions \in [Symbols -> Nat]
    BY <1>3, Resolution, OrderTyped DEF Sent, Trading, TypeOK, RM!TypeOK
  <2> QED
    BY <2>1, <2>2 DEF Resolve, EntryFilled, ExitFilled, RM!RecordEntry, RM!RecordExit,
       riskVars, feedVars, Subscribe, Unsubscribe
<1>4. CASE UNCHANGED riskVars /\ ~Start /\ ~Restore /\ ~Resolving
  BY <1>4, StrategyFrame DEF riskVars, feedVars, CloseMarket, EodSignal, Closing, ProcessBar,
     OnTime, Tick
<1> QED
  BY <1>1, <1>2, <1>3, <1>4, RiskFrame

-----------------------------------------------------------------------------
(* The order in progress.                                                  *)

\* How a state with an order in progress comes about.
LEMMA TradingFrame ==
    ASSUME [Next]_vars, Trading'
    PROVE  \/ EvaluateEntry \/ HandleExit \/ SubmitAccepted \/ PollAgain \/ PollTimeout
           \/ /\ pc = "submit" /\ order' = [order EXCEPT !.tries = @ + 1]
              /\ UNCHANGED <<riskVars, pc, phase, batch, halt, lastReconcile>>
           \/ /\ Fill \/ Settle \/ Drop
              /\ UNCHANGED <<riskVars, sweepVars, halt, lastReconcile>>
           \/ UNCHANGED <<riskVars, sweepVars, halt, lastReconcile, book>>
<1> USE DEF Trading
<1>1. CASE Session
  BY <1>1 DEF Session, Start, Restore, Opening, CloseMarket, EodSignal, Closing,
     Resting, sweepVars
<1>2. CASE Step \/ ForceCloseAll
  BY <1>2 DEF Step, ForceCloseAll
<1>3. CASE SkipEntry \/ UnknownExit
  BY <1>3 DEF SkipEntry, UnknownExit, NextSignal, Raise, Leave
<1>4. CASE SubmitRefused \/ SubmitLost
  BY <1>4 DEF SubmitRefused, SubmitLost, RetryOrRaise, Raise, Leave
<1>5. CASE Tick
  BY <1>5 DEF Tick
<1>6. CASE Fill \/ Settle \/ Drop
  BY <1>6 DEF Fill, Settle, Drop, Broker
<1>7. CASE PollGone \/ Cancel \/ CancelFails
  BY <1>7 DEF PollGone, Cancel, CancelFails, Resolve, EntryFilled, ExitFilled,
     NextSignal, Raise, Leave
<1>8. CASE Reconcile \/ NextSymbol \/ ProcessBar \/ RefuseBar \/ OnTime \/ SignalsDone \/ ReadFails
  BY <1>8 DEF Reconcile, NextSymbol, ProcessBar, RefuseBar, OnTime, SignalsDone,
     ReadFails, Raise, Leave
<1>9. CASE UNCHANGED vars
  BY <1>9 DEF vars, marketVars
<1> QED
  BY <1>1, <1>2, <1>3, <1>4, <1>5, <1>6, <1>7, <1>8, <1>9
  DEF Next, Sweep, Handle, Submit, ResolveFill, Environment

\* What was approved about a purchase.
BuyDecided ==
    /\ ~halt
    /\ \E price \in Prices, cash \in CashLevels :
          RM!Approves(Current.sym, price, cash) /\ order.qty = RM!EntryQty(price)

\* As long as the manager, the signal and the quantity stay, so does the decision.
LEMMA DecisionKept ==
    ASSUME UNCHANGED <<riskVars, batch, halt>>, order'.qty = order.qty, BuyDecided
    PROVE  BuyDecided'
<1>1. UNCHANGED <<sessionDate, startingCapital, dailyPnl, entriesToday, positions>>
  BY DEF riskVars
<1>2. Current' = Current
  BY DEF Current
<1>3. \A price \in Prices : RM!EntryQty(price)' = RM!EntryQty(price)
  BY <1>1 DEF RM!EntryQty, RM!TargetNotional
<1>4. \A price \in Prices, cash \in CashLevels :
          RM!Approves(Current.sym, price, cash)' = RM!Approves(Current.sym, price, cash)
  <2>1. RM!IsHalted' = RM!IsHalted
    BY <1>1 DEF RM!IsHalted, RM!HaltThreshold, RM!ThresholdFor
  <2>2. RM!Held' = RM!Held
    BY <1>1 DEF RM!Held, RM!HeldIn
  <2>3. TAKE price \in Prices, cash \in CashLevels
  <2>4. RM!EntryQty(price)' = RM!EntryQty(price)
    BY <1>3
  <2> QED
    BY <1>1, <1>2, <2>1, <2>2, <2>4 DEF RM!Approves
<1> QED
  BY <1>1, <1>2, <1>3, <1>4 DEF BuyDecided

\* What was decided about the order in progress stays decided.
LEMMA DecisionStep ==
    ASSUME TypeOK, BookIsCovered, LotsArePositions, OrderIsDecided, [Next]_vars
    PROVE  OrderIsDecided'
<1> SUFFICES ASSUME Trading'
             PROVE  /\ Current'.side = "buy" => BuyDecided'
                    /\ Current'.side = "sell" => order'.qty = positions'[Current'.sym]
                    /\ (pc' = "poll" /\ order'.id \in Live')
                          => book'[order'.id].qty = order'.qty
                    /\ pc' = "cancel" => order'.filled <= order'.qty
  BY DEF OrderIsDecided, BuyDecided, Trading
<1>0. order \in LocalsType /\ book \in [Tickets -> OrderType \union {NoOrder}]
  BY DEF TypeOK, SweepType, WorldType
<1>1. CASE EvaluateEntry
  <2>1. batch # <<>> /\ Current.side = "buy" /\ ~IsHalted
        /\ UNCHANGED <<riskVars, halt>>
    BY <1>1 DEF EvaluateEntry, Turn, Current
  <2>2. PICK price \in Prices, cash \in CashLevels :
            /\ RM!Approves(Head(batch).sym, price, cash)
            /\ order' = [NoLocals EXCEPT !.qty = RM!EntryQty(price)]
            /\ pc' = "submit" /\ batch' = batch
    BY <1>1 DEF EvaluateEntry, NextSignal, Trading
  <2>3. order'.qty = RM!EntryQty(price)
    BY <2>2 DEF NoLocals
  <2>4. UNCHANGED <<sessionDate, startingCapital, dailyPnl, entriesToday, positions>>
    BY <2>1 DEF riskVars
  <2>5. RM!IsHalted' = RM!IsHalted
    BY <2>4 DEF RM!IsHalted, RM!HaltThreshold, RM!ThresholdFor
  <2>6. RM!Held' = RM!Held
    BY <2>4 DEF RM!Held, RM!HeldIn
  <2>7. RM!EntryQty(price)' = RM!EntryQty(price)
    BY <2>4 DEF RM!EntryQty, RM!TargetNotional
  <2>8. RM!Approves(Current.sym, price, cash)'
    BY <2>2, <2>4, <2>5, <2>6, <2>7 DEF RM!Approves, Current
  <2>9. ~halt'
    BY <2>1 DEF IsHalted
  <2> QED
    BY <2>1, <2>2, <2>3, <2>7, <2>8, <2>9 DEF BuyDecided, Current
<1>2. CASE HandleExit
  <2>1. batch # <<>> /\ Current.side = "sell" /\ Current.sym \in Symbols
    BY <1>2, HeadTyped DEF HandleExit, Turn, Current
  <2>2. order'.qty = ExitQty(Current.sym)
    BY <1>2 DEF HandleExit, NoLocals, Current
  <2>3. ExitQty(Current.sym) = positions[Current.sym]
    BY <2>1 DEF ExitQty, LotsArePositions
  <2> QED
    BY <1>2, <2>1, <2>2, <2>3 DEF HandleExit, riskVars, Current
<1>3. CASE SubmitAccepted
  <2>1. PICK id \in Free : /\ book' = Placed(id, Current, order.qty)
                           /\ order' = [order EXCEPT !.id = id]
    BY <1>3 DEF SubmitAccepted
  <2>2. order'.qty = order.qty /\ order'.id = id
    BY <1>0, <2>1 DEF LocalsType
  <2>3. book'[id].qty = order.qty
    BY <1>3, <2>1, PlacingTyped DEF SubmitAccepted
  <2>4. UNCHANGED <<riskVars, batch, halt>> /\ pc' = "poll" /\ pc = "submit"
    BY <1>3 DEF SubmitAccepted
  <2>5. Current' = Current /\ positions' = positions
    BY <2>4 DEF Current, riskVars
  <2>6. Current.side = "buy" => BuyDecided'
    BY <2>2, <2>4, DecisionKept DEF OrderIsDecided, BuyDecided, Trading
  <2> QED
    BY <2>2, <2>3, <2>4, <2>5, <2>6 DEF OrderIsDecided, Trading
<1>4. CASE PollAgain
  <2>1. order'.qty = order.qty /\ order'.id = order.id
    BY <1>0, <1>4 DEF PollAgain, LocalsType
  <2>2. UNCHANGED <<riskVars, batch, halt, pc, book>> /\ pc = "poll"
    BY <1>4 DEF PollAgain, marketVars
  <2>3. Current' = Current /\ positions' = positions
    BY <2>2 DEF Current, riskVars
  <2>4. Current.side = "buy" => BuyDecided'
    BY <2>1, <2>2, DecisionKept DEF OrderIsDecided, BuyDecided, Trading
  <2>5. Live' = Live
    BY <2>2 DEF Live
  <2> QED
    BY <2>1, <2>2, <2>3, <2>4, <2>5 DEF OrderIsDecided, Trading
<1>5. CASE PollTimeout
  <2>1. order'.qty = order.qty /\ order'.filled = book[order.id].filled
    BY <1>0, <1>5 DEF PollTimeout, LocalsType
  <2>2. UNCHANGED <<riskVars, batch, halt>> /\ pc = "poll" /\ pc' = "cancel"
        /\ order.id \in Live
    BY <1>5 DEF PollTimeout
  <2>3. Current' = Current /\ positions' = positions
    BY <2>2 DEF Current, riskVars
  <2>4. Current.side = "buy" => BuyDecided'
    BY <2>1, <2>2, DecisionKept DEF OrderIsDecided, BuyDecided, Trading
  <2>5. book[order.id].filled <= order.qty
    BY <2>2 DEF OrderIsDecided, BookIsCovered
  <2> QED
    BY <2>1, <2>2, <2>3, <2>4, <2>5 DEF OrderIsDecided, Trading
<1>6. CASE /\ pc = "submit" /\ order' = [order EXCEPT !.tries = @ + 1]
           /\ UNCHANGED <<riskVars, pc, phase, batch, halt, lastReconcile>>
  <2>1. order'.qty = order.qty
    BY <1>0, <1>6 DEF LocalsType
  <2>2. Current' = Current /\ positions' = positions
    BY <1>6 DEF Current, riskVars
  <2>3. Current.side = "buy" => BuyDecided'
    BY <1>6, <2>1, DecisionKept DEF OrderIsDecided, BuyDecided, Trading
  <2> QED
    BY <1>6, <2>1, <2>2, <2>3 DEF OrderIsDecided, Trading
<1>7. CASE UNCHANGED <<riskVars, sweepVars, halt, lastReconcile>>
           /\ \A id \in Live' : id \in Live /\ book'[id].qty = book[id].qty
  <2>1. UNCHANGED <<pc, batch, order, positions>> /\ Current' = Current
    BY <1>7 DEF sweepVars, riskVars, Current
  <2>2. (Trading /\ Current.side = "buy") => BuyDecided'
    BY <1>7, <2>1, DecisionKept DEF OrderIsDecided, BuyDecided
  <2> QED
    BY <1>7, <2>1, <2>2 DEF OrderIsDecided, Trading
<1>8. ASSUME Fill \/ Settle \/ Drop
      PROVE  \A id \in Live' : id \in Live /\ book'[id].qty = book[id].qty
  <2>1. CASE Fill
    <3>1. PICK id \in Live :
             book' = [book EXCEPT ![id] = [book[id] EXCEPT !.filled = @ + 1]]
      BY <2>1 DEF Fill, Broker
    <3>2. id \in Tickets /\ book[id] \in OrderType
      BY LiveTyped DEF TypeOK
    <3>3. book'[id].qty = book[id].qty /\ \A j \in Tickets \ {id} : book'[j] = book[j]
      BY <1>0, <3>1, <3>2 DEF OrderType
    <3> QED
      BY <3>2, <3>3 DEF Live
  <2>2. CASE Settle \/ Drop
    <3>1. PICK id \in Live : book' = [book EXCEPT ![id] = NoOrder]
      BY <2>2 DEF Settle, Drop, Broker
    <3> QED
      BY <1>0, <3>1 DEF Live, NoOrder
  <2> QED
    BY <1>8, <2>1, <2>2
<1>9. UNCHANGED book => \A id \in Live' : id \in Live /\ book'[id].qty = book[id].qty
  BY DEF Live
<1> QED
  BY <1>1, <1>2, <1>3, <1>4, <1>5, <1>6, <1>7, <1>8, <1>9, TradingFrame

-----------------------------------------------------------------------------

\* The order of flush, reconcile and trading is preserved.
LEMMA ReconciledStep ==
    ASSUME ReconciledFirst, [Next]_vars
    PROVE  ReconciledFirst'
<1> USE DEF ReconciledFirst, Resting, Trading
<1>1. CASE UNCHANGED <<pc, phase, halt, lastReconcile>>
  BY <1>1
<1>2. CASE Start \/ Restore
  BY <1>2 DEF Start, Restore, Opening, StartSession, RestoreSession, sweepVars
<1>3. CASE CloseMarket \/ EodSignal \/ Environment
  BY <1>3 DEF CloseMarket, EodSignal, Closing, Environment, Tick, Fill, Settle, Drop,
     Broker, sweepVars
<1>4. CASE Step \/ ForceCloseAll \/ Reconcile
  BY <1>4 DEF Step, ForceCloseAll, Reconcile
<1>5. CASE NextSymbol \/ ProcessBar \/ OnTime
  BY <1>5 DEF NextSymbol, ProcessBar, NextBar, OnTime
<1>6. CASE SignalsDone \/ ReadFails \/ RefuseBar
  BY <1>6 DEF SignalsDone, ReadFails, RefuseBar, Raise, Leave
<1>7. CASE Handle
  BY <1>7 DEF Handle, SkipEntry, EvaluateEntry, HandleExit, UnknownExit, Turn,
     NextSignal, Raise, Leave
<1>8. CASE Submit
  BY <1>8 DEF Submit, SubmitAccepted, SubmitRefused, SubmitLost, RetryOrRaise, Raise, Leave
<1>9. CASE PollAgain \/ PollTimeout
  BY <1>9 DEF PollAgain, PollTimeout
<1>10. CASE Resolving
  <2>1. PICK h \in {halt, TRUE} : Resolve(Counted, h)
    BY <1>10, Resolution
  <2>2. NextSignal \/ Raise
    BY <2>1 DEF Resolve, EntryFilled, ExitFilled
  <2>3. halt => halt'
    BY <2>1 DEF Resolve
  <2> QED
    BY <1>10, <2>2, <2>3, Resolution DEF NextSignal, Raise, Leave, Sent
<1>11. CASE UNCHANGED vars
  BY <1>11 DEF vars, sweepVars
<1> QED
  BY <1>1, <1>2, <1>3, <1>4, <1>5, <1>6, <1>7, <1>8, <1>9, <1>10, <1>11
  DEF Next, Session, Sweep, ResolveFill, Resolving

-----------------------------------------------------------------------------
(* The account and the positions.                                          *)

\* The broker answers the reads and forgets no order: what a submission placed
\* is known, and only a filled order leaves the list.  An attempt may still be
\* refused, a cancellation may fail, a fill may come at any time.
BrokerAnswers == Faults \cap {"read", "lost", "drop"} = {}

\* What the order in progress has traded so far.
FilledNow == IF order.id \in Live THEN book[order.id].filled ELSE order.qty

\* Outside the hours the book is empty, and without a halt it has no order but
\* the one in progress.
OrderIsAlone ==
    /\ ~open => Resting /\ Live = {}
    /\ ~halt => Live \subseteq (IF Sent THEN {order.id} ELSE {})

\* The book has the order in progress as it was sent; what the last answer said
\* of it is not more than what is filled; what it bought is in the account.
OrderIsKnown ==
    /\ (Sent /\ order.id \in Live) =>
          /\ book[order.id].sym = Current.sym /\ book[order.id].side = Current.side
          /\ book[order.id].qty = order.qty
    /\ pc = "cancel" => order.filled <= FilledNow
    /\ (Sent /\ Current.side = "buy") => holdings[Current.sym] >= FilledNow

HeldInv == OrderIsAlone /\ OrderIsKnown /\ NoPhantomLong

LEMMA SoldIsFilled ==
    \A s \in Symbols :
        SoldNow(s) = IF Sent /\ Current = Signal("sell", s) THEN FilledNow ELSE 0
BY DEF SoldNow, Sent, FilledNow

LEMMA SoldIsFilledNext ==
    \A s \in Symbols :
        SoldNow(s)' = IF Sent' /\ Current' = Signal("sell", s) THEN FilledNow' ELSE 0
BY DEF SoldNow, Sent, FilledNow

\* A step that has no order in progress and leaves the account alone.
Quiet ==
    /\ ~Sent /\ ~Sent'
    /\ UNCHANGED <<holdings, book, positions, halt, lastReconcile, open>>
    /\ ~Resting \/ open

Still == UNCHANGED <<sweepVars, holdings, book, positions, halt, lastReconcile, open>>

LEMMA OrderFrame ==
    ASSUME BrokerAnswers, [Next]_vars
    PROVE  \/ Quiet \/ Still \/ Start \/ Restore \/ CloseMarket \/ EodSignal \/ Reconcile
           \/ SubmitAccepted \/ PollAgain \/ PollTimeout \/ Resolving \/ Fill \/ Settle
<1> USE DEF Quiet, Sent, Resting, riskVars, marketVars, clockVars
<1>1. CASE Step \/ ForceCloseAll
  BY <1>1 DEF Step, ForceCloseAll
<1>2. CASE NextSymbol \/ ProcessBar \/ OnTime
  BY <1>2 DEF NextSymbol, ProcessBar, NextBar, OnTime
<1>3. CASE RefuseBar \/ SignalsDone
  BY <1>3 DEF RefuseBar, NextBar, SignalsDone, Raise, Leave
<1>4. CASE Handle
  BY <1>4 DEF Handle, SkipEntry, EvaluateEntry, HandleExit, UnknownExit, Turn,
     NextSignal, Raise, Leave
<1>5. CASE SubmitRefused
  BY <1>5 DEF SubmitRefused, RetryOrRaise, Raise, Leave
<1>6. CASE Tick
  BY <1>6 DEF Tick, Still
<1>7. CASE ReadFails \/ SubmitLost \/ Drop
  BY <1>7 DEF ReadFails, SubmitLost, Drop, BrokerAnswers
<1>8. CASE UNCHANGED vars
  BY <1>8 DEF vars, Still
<1> QED
  BY <1>1, <1>2, <1>3, <1>4, <1>5, <1>6, <1>7, <1>8
  DEF Next, Session, Sweep, Submit, ResolveFill, Environment, Resolving

LEMMA QuietHolds ==
    ASSUME HeldInv, Quiet
    PROVE  HeldInv'
<1>1. Live' = Live /\ (~Resting => open)
  BY DEF Quiet, Live, HeldInv, OrderIsAlone
<1>2. open /\ open'
  BY <1>1 DEF Quiet
<1>3. OrderIsAlone'
  BY <1>1, <1>2 DEF Quiet, HeldInv, OrderIsAlone
<1>4. OrderIsKnown'
  BY DEF Quiet, OrderIsKnown, Sent
<1>5. NoPhantomLong'
  BY SoldIsFilled, SoldIsFilledNext DEF Quiet, HeldInv, NoPhantomLong
<1> QED
  BY <1>3, <1>4, <1>5 DEF HeldInv

LEMMA StillHolds ==
    ASSUME HeldInv, Still
    PROVE  HeldInv'
<1>1. /\ Live' = Live /\ Current' = Current /\ FilledNow' = FilledNow
      /\ Sent' = Sent /\ Resting' = Resting /\ order' = order /\ pc' = pc
  BY DEF Still, sweepVars, Live, Current, FilledNow, Sent, Resting
<1>2. UNCHANGED <<holdings, book, positions, halt, lastReconcile, open>>
  BY DEF Still
<1>3. OrderIsAlone'
  BY <1>1, <1>2 DEF HeldInv, OrderIsAlone
<1>4. OrderIsKnown'
  BY <1>1, <1>2 DEF HeldInv, OrderIsKnown
<1>5. NoPhantomLong'
  BY <1>1, <1>2, SoldIsFilled, SoldIsFilledNext DEF HeldInv, NoPhantomLong
<1> QED
  BY <1>3, <1>4, <1>5 DEF HeldInv

\* A session begins with an empty book, and ends with one.
LEMMA SessionHolds ==
    ASSUME HeldInv, Start \/ Restore \/ CloseMarket \/ EodSignal
    PROVE  HeldInv'
<1>1. CASE Start \/ Restore
  <2>1. ~open /\ UNCHANGED <<sweepVars, book>> /\ open' /\ lastReconcile' = "none"
    BY <1>1 DEF Start, Restore, Opening, StartSession, RestoreSession
  <2>2. Live' = {} /\ ~Sent'
    BY <2>1 DEF HeldInv, OrderIsAlone, Live, sweepVars, Resting, Sent
  <2> QED
    BY <2>1, <2>2 DEF HeldInv, OrderIsAlone, OrderIsKnown, NoPhantomLong, Sent
<1>2. CASE CloseMarket \/ EodSignal
  <2>1. /\ Resting /\ book' = [id \in Tickets |-> NoOrder]
        /\ UNCHANGED <<sweepVars, holdings, positions, halt, lastReconcile>>
    BY <1>2 DEF CloseMarket, EodSignal, Closing, riskVars
  <2>2. Live' = {} /\ ~Sent /\ ~Sent' /\ Resting'
    BY <2>1 DEF Live, NoOrder, sweepVars, Resting, Sent
  <2>3. NoPhantomLong'
    BY <2>1, <2>2, SoldIsFilled, SoldIsFilledNext DEF HeldInv, NoPhantomLong
  <2> QED
    BY <2>2, <2>3 DEF HeldInv, OrderIsAlone, OrderIsKnown, Sent
<1> QED
  BY <1>1, <1>2

\* A match says that account and positions are equal, and nothing is in progress.
LEMMA ReconcileHolds ==
    ASSUME TypeOK, HeldInv, Reconcile
    PROVE  HeldInv'
<1>1. /\ pc = "reconcile" /\ pc' \in {"bars", "time"}
      /\ UNCHANGED <<book, holdings, positions, open>>
      /\ ~halt' => ~halt /\ ~Mismatch
  BY DEF Reconcile, marketVars, clockVars, riskVars
<1>2. Live' = Live /\ ~Sent /\ ~Sent' /\ ~Resting
  BY <1>1 DEF Live, Sent, Resting
<1>3. OrderIsAlone'
  BY <1>1, <1>2 DEF HeldInv, OrderIsAlone
<1>4. NoPhantomLong'
  <2> SUFFICES ASSUME ~halt', NEW s \in Symbols
               PROVE  holdings'[s] + SoldNow(s)' >= positions'[s]
    BY DEF NoPhantomLong
  <2>1. SoldNow(s)' = 0
    BY <1>2, SoldIsFilledNext
  <2>2. holdings'[s] = positions'[s] /\ holdings'[s] \in Nat
    BY <1>1 DEF Mismatch, TypeOK, WorldType
  <2> QED
    BY <2>1, <2>2
<1> QED
  BY <1>1, <1>2, <1>3, <1>4 DEF HeldInv, OrderIsKnown, Sent

LEMMA SubmitHolds ==
    ASSUME TypeOK, HeldInv, SubmitAccepted
    PROVE  HeldInv'
<1>1. PICK id \in Free : /\ book' = Placed(id, Current, order.qty)
                         /\ order' = [order EXCEPT !.id = id]
  BY DEF SubmitAccepted
<1>2. /\ pc = "submit" /\ pc' = "poll" /\ batch' = batch
      /\ UNCHANGED <<holdings, positions, halt, lastReconcile, open>>
  BY DEF SubmitAccepted, riskVars, clockVars
<1>3. order'.id = id /\ order'.qty = order.qty
  BY <1>1 DEF TypeOK, SweepType, LocalsType
<1>4. Current.side \in {"buy", "sell"} /\ Current.sym \in Symbols
  BY <1>2, OrderTyped DEF Trading, SignalType
<1>5. /\ book'[id] = [sym |-> Current.sym, side |-> Current.side, qty |-> order.qty, filled |-> 0]
      /\ \A i \in Tickets \ {id} : book'[i] = book[i]
  BY <1>1, <1>2, PlacingTyped
<1>6. id \in Tickets /\ id \in Live' /\ Live' = Live \cup {id}
  BY <1>4, <1>5 DEF Live, Free
<1>7. ~Sent /\ Sent' /\ Current' = Current /\ FilledNow' = 0 /\ ~Resting
  BY <1>2, <1>3, <1>5, <1>6 DEF Sent, Current, FilledNow, Resting
<1>8. OrderIsAlone'
  BY <1>2, <1>3, <1>6, <1>7 DEF HeldInv, OrderIsAlone
<1>9. holdings[Current.sym] \in Nat
  BY <1>4 DEF TypeOK, WorldType
<1>10. OrderIsKnown'
  BY <1>2, <1>3, <1>5, <1>7, <1>9 DEF OrderIsKnown
<1>11. NoPhantomLong'
  BY <1>2, <1>7, SoldIsFilled, SoldIsFilledNext DEF HeldInv, NoPhantomLong
<1> QED
  BY <1>8, <1>10, <1>11 DEF HeldInv

\* An answer changes nothing; the last one is remembered.
LEMMA PollHolds ==
    ASSUME TypeOK, HeldInv, PollAgain \/ PollTimeout
    PROVE  HeldInv'
<1>1. /\ Sent /\ Sent' /\ batch' = batch /\ order.id \in Live
      /\ UNCHANGED <<book, holdings, positions, halt, lastReconcile, open>>
  BY DEF PollAgain, PollTimeout, Sent, riskVars, marketVars, clockVars
<1>2. /\ order'.id = order.id /\ order'.qty = order.qty
      /\ pc' = "cancel" => order'.filled = book[order.id].filled
  BY DEF PollAgain, PollTimeout, TypeOK, SweepType, LocalsType
<1>3. Live' = Live /\ Current' = Current
  BY <1>1 DEF Live, Current
<1>4. FilledNow' = FilledNow /\ FilledNow = book[order.id].filled
  BY <1>1, <1>2, <1>3 DEF FilledNow
<1>5. book[order.id].filled \in Nat
  BY <1>1, LiveTyped DEF TypeOK
<1>6. OrderIsAlone'
  BY <1>1, <1>2, <1>3 DEF HeldInv, OrderIsAlone, Sent, Resting
<1>7. OrderIsKnown'
  BY <1>1, <1>2, <1>3, <1>4, <1>5 DEF HeldInv, OrderIsKnown
<1>8. NoPhantomLong'
  BY <1>1, <1>3, <1>4, SoldIsFilled, SoldIsFilledNext DEF HeldInv, NoPhantomLong
<1> QED
  BY <1>6, <1>7, <1>8 DEF HeldInv

\* What is recorded is what the account got, or less.
LEMMA ResolveHolds ==
    ASSUME ExecutorInv, HeldInv, Resolving
    PROVE  HeldInv'
<1>1. Sent /\ Trading /\ UNCHANGED <<holdings, lastReconcile, open>>
  BY Resolution DEF Sent, Trading, clockVars
<1>2. PICK h \in {halt, TRUE} : Resolve(Counted, h) /\ (CancelFails /\ ~PollGone /\ ~Cancel => h)
  <2>1. CASE PollGone \/ Cancel
    BY <2>1 DEF PollGone, Cancel, Counted
  <2>2. CASE CancelFails
    BY <2>2 DEF CancelFails, Counted
  <2> QED
    BY <2>1, <2>2 DEF Resolving
<1>3. ~halt' => ~halt /\ (PollGone \/ Cancel)
  <2>1. h => halt'
    BY <1>2 DEF Resolve
  <2>2. halt => h
    OBVIOUS
  <2>3. PollGone \/ Cancel \/ CancelFails
    BY DEF Resolving
  <2> QED
    BY <1>2, <2>1, <2>2, <2>3
<1>4. ~Sent'
  BY <1>2 DEF Resolve, EntryFilled, ExitFilled, NextSignal, Raise, Leave, Sent
<1>5. /\ Current.sym \in Symbols /\ Current.side \in {"buy", "sell"}
      /\ Current = Signal(Current.side, Current.sym)
      /\ Counted \in Nat /\ order.qty \in Nat \ {0}
  <2>1. Current \in SignalType /\ Current.sym \in Symbols
        /\ Counted \in Nat /\ order.qty \in Nat \ {0}
    BY <1>1, OrderTyped DEF ExecutorInv
  <2> QED
    BY <2>1 DEF SignalType, Signal
<1>6. /\ holdings \in [Symbols -> Nat] /\ positions \in [Symbols -> Nat]
      /\ book \in [Tickets -> OrderType \union {NoOrder}] /\ order.id \in Tickets
  BY <1>1 DEF ExecutorInv, TypeOK, WorldType, RM!TypeOK, SweepType
<1>7. OrderIsAlone'
  <2>1. open /\ open'
    BY <1>1 DEF HeldInv, OrderIsAlone, Resting, Sent
  <2>2. ~halt' => Live' = {}
    <3> SUFFICES ASSUME ~halt' PROVE Live' = {}
      OBVIOUS
    <3>1. Live \subseteq {order.id}
      BY <1>1, <1>3 DEF HeldInv, OrderIsAlone
    <3>2. CASE PollGone
      BY <3>1, <3>2 DEF PollGone, marketVars, Live
    <3>3. CASE Cancel
      <4>1. book' = [book EXCEPT ![order.id] = NoOrder]
        BY <3>3 DEF Cancel
      <4> QED
        BY <1>6, <3>1, <4>1 DEF Live, NoOrder
    <3> QED
      BY <1>3, <3>2, <3>3
  <2> QED
    BY <2>1, <2>2 DEF OrderIsAlone
<1>8. OrderIsKnown'
  BY <1>4 DEF OrderIsKnown, Sent
<1>9. NoPhantomLong'
  <2> SUFFICES ASSUME lastReconcile' = "match", ~halt', NEW s \in Symbols
               PROVE  holdings'[s] + SoldNow(s)' >= positions'[s]
    BY DEF NoPhantomLong
  <2>1. SoldNow(s)' = 0 /\ holdings'[s] = holdings[s] /\ holdings[s] \in Nat
    BY <1>1, <1>4, <1>6, SoldIsFilledNext
  <2>2. holdings[s] + SoldNow(s) >= positions[s] /\ positions[s] \in Nat
    BY <1>1, <1>3, <1>6 DEF HeldInv, NoPhantomLong
  <2>3. s # Current.sym \/ Current.side = "buy" => holdings[s] >= positions[s]
    <3>1. ASSUME s # Current.sym \/ Current.side = "buy" PROVE SoldNow(s) = 0
      BY <1>5, <3>1, SoldIsFilled DEF Signal
    <3> QED
      BY <2>1, <2>2, <3>1
  <2>4. CASE Current.side = "buy" /\ EntryFilled(Current.sym, Counted)
    <3>1. positions' = [positions EXCEPT ![Current.sym] = Counted]
      BY <2>4 DEF EntryFilled, RM!RecordEntry
    <3>2. Counted <= FilledNow /\ holdings[Current.sym] >= FilledNow
      <4>1. CASE PollGone
        BY <1>1, <1>5, <2>4, <4>1 DEF PollGone, Counted, FilledNow, HeldInv, OrderIsKnown
      <4>2. CASE Cancel
        BY <1>1, <2>4, <4>2 DEF Cancel, Counted, HeldInv, OrderIsKnown
      <4> QED
        BY <1>3, <4>1, <4>2
    <3>3. FilledNow \in Nat
      BY <1>5, LiveTyped DEF FilledNow, ExecutorInv, TypeOK
    <3>4. holdings[Current.sym] \in Nat /\ holdings[Current.sym] >= Counted
      BY <1>5, <1>6, <3>2, <3>3
    <3>5. CASE s = Current.sym
      BY <1>6, <2>1, <3>1, <3>4, <3>5
    <3>6. CASE s # Current.sym
      BY <1>6, <2>1, <2>3, <3>1, <3>6
    <3> QED
      BY <3>5, <3>6
  <2>5. CASE Current.side = "buy" /\ UNCHANGED riskVars
    BY <2>1, <2>3, <2>5 DEF riskVars
  <2>6. CASE Current.side = "sell" /\ ExitFilled(Current.sym)
    <3>1. positions' = [positions EXCEPT ![Current.sym] = 0]
      BY <2>6 DEF ExitFilled, RM!RecordExit
    <3> QED
      BY <1>6, <2>1, <2>3, <3>1
  <2> QED
    BY <1>2, <2>4, <2>5, <2>6 DEF Resolve
<1> QED
  BY <1>7, <1>8, <1>9 DEF HeldInv

\* One more share goes into the account, or out of it, and into the order.
LEMMA FillHolds ==
    ASSUME ExecutorInv, HeldInv, Fill
    PROVE  HeldInv'
<1>1. PICK id \in Live :
         LET o == book[id]
             delta == IF o.side = "buy" THEN 1 ELSE -1
         IN  /\ o.filled < o.qty
             /\ Broker(o.sym, holdings[o.sym] + delta, id, [o EXCEPT !.filled = @ + 1])
  BY DEF Fill
<1> DEFINE o == book[id]
<1>2. /\ id \in Tickets /\ o \in OrderType /\ o.sym \in Symbols
      /\ o.side \in {"buy", "sell"} /\ o.qty \in Nat \ {0} /\ o.filled \in Nat
  BY LiveTyped DEF ExecutorInv, TypeOK
<1>3. /\ holdings \in [Symbols -> Nat] /\ positions \in [Symbols -> Nat]
      /\ book \in [Tickets -> OrderType \union {NoOrder}]
  BY DEF ExecutorInv, TypeOK, WorldType, RM!TypeOK
<1>4. /\ UNCHANGED <<sweepVars, positions, halt, lastReconcile, open>>
      /\ holdings' = [holdings EXCEPT ![o.sym] =
                         holdings[o.sym] + (IF o.side = "buy" THEN 1 ELSE -1)]
      /\ book' = [book EXCEPT ![id] = [o EXCEPT !.filled = @ + 1]]
  BY <1>1 DEF Broker, riskVars, clockVars
<1>5. /\ book'[id].filled = o.filled + 1 /\ book'[id].qty = o.qty
      /\ book'[id].sym = o.sym /\ book'[id].side = o.side
  BY <1>2, <1>3, <1>4 DEF OrderType
<1>6. \A i \in Tickets \ {id} : book'[i] = book[i]
  BY <1>3, <1>4
<1>7. Live' = Live
  BY <1>2, <1>5, <1>6 DEF Live
<1>8. Current' = Current /\ Sent' = Sent /\ Resting' = Resting /\ order' = order /\ pc' = pc
  BY <1>4 DEF sweepVars, Current, Sent, Resting
<1>9. ~halt => Sent /\ order.id = id
  BY DEF HeldInv, OrderIsAlone
<1>10. (Sent /\ order.id = id) => /\ o.sym = Current.sym /\ o.side = Current.side
                                 /\ FilledNow = o.filled /\ FilledNow' = o.filled + 1
  BY <1>5, <1>7, <1>8 DEF HeldInv, OrderIsKnown, FilledNow
<1>11. Sent /\ order.id # id => FilledNow' = FilledNow
  <2>1. Live \subseteq Tickets
    BY DEF Live
  <2> QED
    BY <1>6, <1>7, <1>8, <2>1 DEF FilledNow
<1>12. OrderIsAlone'
  BY <1>4, <1>7, <1>8 DEF HeldInv, OrderIsAlone
<1> HIDE DEF o
<1>13. (Sent /\ Current.side = "buy") => holdings'[Current.sym] >= FilledNow'
  <2> SUFFICES ASSUME Sent, Current.side = "buy" PROVE holdings'[Current.sym] >= FilledNow'
    OBVIOUS
  <2>1. ~halt
    BY DEF ExecutorInv, OrderIsDecided, Trading, Sent
  <2>2. /\ o.sym = Current.sym /\ o.side = "buy"
        /\ FilledNow = o.filled /\ FilledNow' = o.filled + 1
    BY <1>9, <1>10, <2>1
  <2>3. holdings[o.sym] \in Nat /\ holdings'[o.sym] = holdings[o.sym] + 1
    BY <1>2, <1>3, <1>4, <2>2
  <2>4. holdings[o.sym] >= o.filled
    BY <2>2 DEF HeldInv, OrderIsKnown
  <2> QED
    BY <1>2, <2>2, <2>3, <2>4
<1>14. (Sent /\ order.id \in Live') =>
          /\ book'[order.id].sym = Current.sym /\ book'[order.id].side = Current.side
          /\ book'[order.id].qty = order.qty
  BY <1>5, <1>6, <1>7 DEF HeldInv, OrderIsKnown, Live, o
<1>15. pc = "cancel" => order.filled <= FilledNow'
  <2> SUFFICES ASSUME pc = "cancel" PROVE order.filled <= FilledNow'
    OBVIOUS
  <2>1. order.filled <= FilledNow /\ order.filled \in Nat /\ Sent
    BY DEF HeldInv, OrderIsKnown, Sent, ExecutorInv, TypeOK, SweepType, LocalsType
  <2>2. CASE order.id = id
    BY <1>2, <1>10, <2>1, <2>2
  <2>3. CASE order.id # id
    BY <1>11, <2>1, <2>3
  <2> QED
    BY <2>2, <2>3
<1>16. OrderIsKnown'
  BY <1>8, <1>13, <1>14, <1>15 DEF OrderIsKnown
<1>17. NoPhantomLong'
  <2> SUFFICES ASSUME lastReconcile' = "match", ~halt', NEW s \in Symbols
               PROVE  holdings'[s] + SoldNow(s)' >= positions'[s]
    BY DEF NoPhantomLong
  <2>1. /\ Sent /\ Sent' /\ Current' = Current /\ o.sym = Current.sym /\ o.side = Current.side
        /\ FilledNow = o.filled /\ FilledNow' = o.filled + 1
    BY <1>4, <1>8, <1>9, <1>10
  <2>2. /\ holdings[s] + SoldNow(s) >= positions[s] /\ positions'[s] = positions[s]
        /\ holdings[s] \in Nat /\ positions[s] \in Nat
    BY <1>3, <1>4 DEF HeldInv, NoPhantomLong
  <2>3. CASE s # o.sym
    <3>1. Current # Signal("sell", s)
      BY <2>1, <2>3 DEF Signal
    <3>2. SoldNow(s)' = SoldNow(s)
      BY <2>1, <3>1, SoldIsFilled, SoldIsFilledNext
    <3>3. holdings'[s] = holdings[s]
      BY <1>2, <1>3, <1>4, <2>3
    <3> QED
      BY <2>2, <3>2, <3>3
  <2>4. CASE s = o.sym /\ o.side = "buy"
    <3>1. Current # Signal("sell", s)
      <4>1. Current.side = "buy" /\ Signal("sell", s).side = "sell"
        BY <2>1, <2>4 DEF Signal
      <4> QED
        BY <4>1
    <3>2. SoldNow(s)' = 0 /\ SoldNow(s) = 0
      BY <2>1, <3>1, SoldIsFilled, SoldIsFilledNext
    <3>3. holdings'[s] = holdings[s] + 1
      BY <1>2, <1>3, <1>4, <2>4
    <3> QED
      BY <2>2, <3>2, <3>3
  <2>5. CASE s = o.sym /\ o.side = "sell"
    <3>1. Current = Signal("sell", s)
      <4>1. Current \in SignalType
        BY <2>1, OrderTyped DEF ExecutorInv, Sent, Trading
      <4> QED
        BY <2>1, <2>5, <4>1 DEF Signal, SignalType
    <3>2. SoldNow(s)' = o.filled + 1 /\ SoldNow(s) = o.filled
      BY <2>1, <3>1, SoldIsFilled, SoldIsFilledNext
    <3>3. holdings'[s] = holdings[s] - 1
      BY <1>2, <1>3, <1>4, <2>5
    <3> QED
      BY <1>2, <2>2, <3>2, <3>3
  <2> QED
    BY <1>2, <2>3, <2>4, <2>5
<1> QED
  BY <1>12, <1>16, <1>17 DEF HeldInv

\* Only a filled order leaves the list, so nothing is filled that was not.
LEMMA SettleHolds ==
    ASSUME ExecutorInv, HeldInv, Settle
    PROVE  HeldInv'
<1>1. PICK id \in Live :
         /\ book[id].filled = book[id].qty
         /\ Broker(book[id].sym, holdings[book[id].sym], id, NoOrder)
  BY DEF Settle
<1>2. id \in Tickets /\ book[id].sym \in Symbols
  BY LiveTyped DEF ExecutorInv, TypeOK
<1>3. /\ holdings \in [Symbols -> Nat]
      /\ book \in [Tickets -> OrderType \union {NoOrder}]
  BY DEF ExecutorInv, TypeOK, WorldType
<1>4. /\ UNCHANGED <<sweepVars, holdings, positions, halt, lastReconcile, open>>
      /\ book' = [book EXCEPT ![id] = NoOrder]
  BY <1>1, <1>2, <1>3 DEF Broker, riskVars, clockVars
<1>5. Live' = Live \ {id} /\ \A i \in Live' : book'[i] = book[i]
  BY <1>3, <1>4 DEF Live, NoOrder
<1>6. Current' = Current /\ Sent' = Sent /\ Resting' = Resting /\ order' = order /\ pc' = pc
  BY <1>4 DEF sweepVars, Current, Sent, Resting
<1>7. Sent => FilledNow' = FilledNow
  <2>1. CASE order.id = id
    BY <1>1, <1>5, <1>6, <2>1 DEF FilledNow, HeldInv, OrderIsKnown
  <2>2. CASE order.id # id
    BY <1>5, <1>6, <2>2 DEF FilledNow
  <2> QED
    BY <2>1, <2>2
<1>8. OrderIsAlone'
  BY <1>4, <1>5, <1>6 DEF HeldInv, OrderIsAlone
<1>9. OrderIsKnown'
  BY <1>4, <1>5, <1>6, <1>7 DEF HeldInv, OrderIsKnown, Sent
<1>10. NoPhantomLong'
  BY <1>4, <1>6, <1>7, SoldIsFilled, SoldIsFilledNext DEF HeldInv, NoPhantomLong
<1> QED
  BY <1>8, <1>9, <1>10 DEF HeldInv

-----------------------------------------------------------------------------
(* The results.                                                            *)

\* The inductive invariant: the Executor's lots are the manager's positions,
\* each of them watched; what was decided about an order still holds when its
\* fill is recorded; nothing but the opening orders is traded before the
\* account was compared; and the account is never overdrawn.
THEOREM ExecutorInvariant == Spec => []ExecutorInv
<1>1. Init => ExecutorInv
  <2> SUFFICES ASSUME Init PROVE ExecutorInv
    OBVIOUS
  <2>1. LotsArePositions /\ HeldIsWatched
    BY DEF Init, LotsArePositions, HeldIsWatched, NoLots, RM!Init, RM!NoPositions,
       RM!Held, RM!HeldIn
  <2>2. OrderIsDecided /\ ReconciledFirst
    BY DEF Init, OrderIsDecided, ReconciledFirst, Trading, Resting
  <2> QED
    BY <2>1, <2>2, InitTyped DEF ExecutorInv
<1>2. ExecutorInv /\ [Next]_vars => ExecutorInv'
  BY TypeStep, LotsStep, WatchedStep, DecisionStep, ReconciledStep DEF ExecutorInv
<1> QED
  BY <1>1, <1>2, PTL DEF Spec

\* The lots of the Executor never drift from the manager's positions.
THEOREM LotsNeverDrift == Spec => []LotsArePositions
<1>1. ExecutorInv => LotsArePositions
  BY DEF ExecutorInv
<1> QED
  BY <1>1, ExecutorInvariant, PTL

\* No position is left without its minute bars.
THEOREM PositionsAreWatched == Spec => []HeldIsWatched
<1>1. ExecutorInv => HeldIsWatched
  BY DEF ExecutorInv
<1> QED
  BY <1>1, ExecutorInvariant, PTL

\* A step of the Executor is a step of its RiskManager or leaves it alone.
LEMMA ProtocolStep ==
    ASSUME ExecutorInv, [Next]_vars
    PROVE  [RM!Next]_(RM!vars)
<1> USE RiskManagerAssumption
<1>1. CASE UNCHANGED riskVars
  BY <1>1 DEF riskVars, RM!vars
<1>2. CASE Start
  <2>1. PICK date \in Dates, capital \in Capitals :
            date > sessionDate /\ RM!StartSession(date, capital)
    BY <1>2 DEF Start, StartSession
  <2>2. RM!Start
    BY <2>1 DEF RM!Start
  <2> QED
    BY <2>2 DEF RM!Next
<1>3. CASE Restore
  <2>1. PICK date \in Dates, capital \in Capitals, snapshot \in RM!Snapshots,
             entries \in 0..DailyMaxEntries, pnl \in Pnls :
             RM!RestoreSession(date, capital, snapshot, entries, pnl)
    BY <1>3 DEF Restore, RestoreSession
  <2>2. date > sessionDate
    BY <1>3 DEF Restore
  <2>3. RM!Restore
    BY <2>1, <2>2 DEF RM!Restore
  <2> QED
    BY <2>3 DEF RM!Next
<1>4. CASE Resolving
  <2>1. PICK h \in {halt, TRUE} : Resolve(Counted, h)
    BY <1>4, Resolution
  <2>2. Trading /\ Current.sym \in Symbols /\ Counted \in Nat /\ order.qty \in Nat \ {0}
        /\ Current.side \in {"buy", "sell"}
    <3>1. Trading
      BY <1>4, Resolution DEF Sent, Trading
    <3>2. Current \in SignalType
      BY <3>1, OrderTyped DEF ExecutorInv
    <3> QED
      BY <3>1, <3>2, OrderTyped DEF ExecutorInv, SignalType
  <2>3. Counted <= order.qty
    BY <1>4, <2>2, Resolution DEF Counted, Sent, ExecutorInv, OrderIsDecided
  <2>4. CASE Current.side = "buy" /\ EntryFilled(Current.sym, Counted)
    <3>1. PICK price \in Prices, cash \in CashLevels :
              RM!Approves(Current.sym, price, cash) /\ order.qty = RM!EntryQty(price)
      BY <2>2, <2>4 DEF ExecutorInv, OrderIsDecided
    <3>2. RM!RecordEntry(Current.sym, Counted)
      BY <2>4 DEF EntryFilled
    <3>3. Counted \in 1..RM!EntryQty(price)
      BY <2>2, <2>3, <3>1, <3>2 DEF RM!RecordEntry
    <3>4. RM!Enter
      BY <2>2, <3>1, <3>2, <3>3 DEF RM!Enter
    <3> QED
      BY <3>4 DEF RM!Next
  <2>5. CASE ExitFilled(Current.sym)
    <3>1. RM!Exit
      BY <2>2, <2>5 DEF ExitFilled, RM!Exit
    <3> QED
      BY <3>1 DEF RM!Next
  <2>6. CASE UNCHANGED riskVars
    BY <1>1, <2>6
  <2> QED
    BY <2>1, <2>4, <2>5, <2>6 DEF Resolve
<1> QED
  BY <1>1, <1>2, <1>3, <1>4, RiskFrame

\* The Executor keeps the protocol of the RiskManager: it implements
\* RiskManager!Spec, with its own state hidden.
THEOREM ExecutorKeepsProtocol == Spec => RiskManagerProtocol
<1>1. Init => RM!Init
  BY DEF Init
<1>2. ExecutorInv /\ [Next]_vars => [RM!Next]_(RM!vars)
  BY ProtocolStep
<1> QED
  BY <1>1, <1>2, ExecutorInvariant, PTL DEF Spec, RiskManagerProtocol, RM!Spec

\* The day never records more entries than the cap, whatever the broker does:
\* RiskManager's own invariant, carried over to the whole system.
THEOREM DailyCapHolds == Spec => []RM!EntriesWithinCap
<1>1. Init => RM!EntriesWithinCap
  BY RiskManagerAssumption DEF Init, RM!Init, RM!EntriesWithinCap
<1>2. RM!TypeOK /\ RM!EntriesWithinCap /\ [RM!Next]_(RM!vars) => RM!EntriesWithinCap'
  BY RiskManagerAssumption
  DEF RM!TypeOK, RM!EntriesWithinCap, RM!Next, RM!vars, RM!Start, RM!StartSession,
      RM!Restore, RM!RestoreSession, RM!Enter, RM!Exit, RM!Approves, RM!RecordEntry,
      RM!RecordExit
<1>3. ExecutorInv /\ [Next]_vars /\ RM!EntriesWithinCap => RM!EntriesWithinCap'
  BY <1>2, ProtocolStep DEF ExecutorInv, TypeOK
<1> QED
  BY <1>1, <1>3, ExecutorInvariant, PTL DEF Spec

\* An order that appears in the book was placed by this sweep.
LEMMA NewOrder ==
    ASSUME TypeOK, [Next]_vars, NEW id \in Free, book'[id].side = "buy"
    PROVE  Placing /\ Current.side = "buy"
<1>0. id \in Tickets /\ id \notin Live /\ book[id] = NoOrder
  BY DEF Free, Live, TypeOK, WorldType, NoOrder, OrderType
<1>1. CASE Fill
  <2>1. PICK j \in Live : book' = [book EXCEPT ![j] = [book[j] EXCEPT !.filled = @ + 1]]
    BY <1>1 DEF Fill, Broker
  <2> QED
    BY <1>0, <2>1 DEF NoOrder, TypeOK, WorldType
<1>2. CASE UNCHANGED book \/ Removal \/ Clearing
  BY <1>0, <1>2 DEF Removal, Clearing, NoOrder, TypeOK, WorldType
<1>3. CASE Placing
  <2>1. PICK j \in Free : book' = Placed(j, Current, order.qty)
    BY <1>3 DEF Placing
  <2>2. CASE j = id
    BY <1>3, <2>1, <2>2, PlacingTyped DEF Placing
  <2>3. CASE j # id
    BY <1>0, <1>3, <2>1, <2>3, PlacingTyped DEF Placing, NoOrder
  <2> QED
    BY <2>2, <2>3
<1> QED
  BY <1>1, <1>2, <1>3, BookFrame

\* No purchase in a halt, none but the opening orders without a match.
THEOREM PurchasesAreCleared == Spec => BuysAreCleared
<1>1. ExecutorInv /\ [Next]_vars
        => [NewBuy => ~IsHalted /\ (phase = "flush" \/ lastReconcile = "match")]_vars
  <2> SUFFICES ASSUME ExecutorInv, [Next]_vars, NewBuy
               PROVE  ~IsHalted /\ (phase = "flush" \/ lastReconcile = "match")
    OBVIOUS
  <2>1. Placing /\ Current.side = "buy"
    BY NewOrder DEF NewBuy, ExecutorInv
  <2>2. Trading
    BY <2>1 DEF Placing, Trading
  <2>3. ~halt /\ ~RM!IsHalted
    BY <2>1, <2>2 DEF ExecutorInv, OrderIsDecided, RM!Approves
  <2>4. phase = "flush" \/ lastReconcile = "match"
    BY <2>2, <2>3 DEF ExecutorInv, ReconciledFirst, TypeOK, ExecutorType
  <2> QED
    BY <2>3, <2>4 DEF IsHalted
<1> QED
  BY <1>1, ExecutorInvariant, PTL DEF Spec, BuysAreCleared

\* No position is larger than what the account holds, while the broker answers
\* the reads and forgets no order: through refusals, timeouts, partial fills,
\* fills between the last poll and the cancellation and failed cancellations.
THEOREM NoPhantomLongs ==
    ASSUME BrokerAnswers
    PROVE  Spec => []NoPhantomLong
<1>1. Init => HeldInv
  BY DEF Init, HeldInv, OrderIsAlone, OrderIsKnown, NoPhantomLong, Live, NoOrder, Resting, Sent
<1>2. ExecutorInv /\ HeldInv /\ [Next]_vars => HeldInv'
  BY OrderFrame, QuietHolds, StillHolds, SessionHolds, ReconcileHolds, SubmitHolds,
     PollHolds, ResolveHolds, FillHolds, SettleHolds DEF ExecutorInv
<1>3. HeldInv => NoPhantomLong
  BY DEF HeldInv
<1> QED
  BY <1>1, <1>2, <1>3, ExecutorInvariant, PTL DEF Spec
=============================================================================
