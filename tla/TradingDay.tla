----------------------------- MODULE TradingDay -----------------------------
(***************************************************************************)
(* The callbacks of src/stock_agent/main.py on the worker threads of the   *)
(* scheduler, with the ledger of src/stock_agent/storage/db.py that is to  *)
(* survive the process: what is traded, what is recorded, what a session   *)
(* start reads back.  The strategy is the daily one, the only one main.py  *)
(* builds.  The Executor appears as module Executor shows it from outside: *)
(* an order is one step with an outcome, lots and positions are one set.   *)
(* A callback is split where another thread can come between.              *)
(*                                                                         *)
(* A day has the times 0 (before the opening), 1 = 09:00, 2..Minutes (the  *)
(* later minutes of on_step), then 15:30 and 15:35.                        *)
(***************************************************************************)
EXTENDS Naturals, Sequences, FiniteSets

CONSTANTS
    Universe,     \* the symbols, in the order of the sweep
    Minutes,      \* bound: minutes at which on_step is due
    MaxDays,      \* bound: trading days
    MaxFills,     \* bound: orders filled in all
    Workers,      \* threads that run callbacks
    Threshold,    \* consecutive_failure_threshold of the recorder
    DryRuns,      \* whether --dry-run may be set when the process starts
    Faults        \* faults of the broker, the disk, the host

Symbols == {Universe[i] : i \in 1..Len(Universe)}

ASSUME TradingDayAssumption ==
    /\ Universe \in Seq(Symbols)
    /\ Minutes \in Nat \ {0} /\ MaxDays \in Nat /\ MaxFills \in Nat
    /\ Workers \in Nat \ {0} /\ Threshold \in Nat \ {0}
    /\ DryRuns \subseteq BOOLEAN
    /\ Faults \subseteq {"balance", "order", "record", "load", "late", "crash"}

VARIABLES         \* the world
    day, time,
    account,      \* the symbols the account holds
    fills         \* what was traded: Seq([side, sym, day, number])

VARIABLES         \* trading.db
    orders,       \* rows of the table orders, as indices into fills
    summaries     \* table daily_pnl: day -> [session, entries] or NoSummary

VARIABLES         \* the process
    process,      \* "up", "closing" (after a signal) or "down"
    dry,          \* --dry-run
    job,          \* callback -> where its instance is, "idle" if none runs
    started,      \* SessionStatus.started
    session,      \* RiskManager.session_date, 0 = none
    entries,      \* RiskManager.entries_today
    held,         \* RiskManager positions and Executor lots
    halt,         \* Executor._halt
    checked,      \* Executor.last_reconcile: "none", "match", "mismatch"
    queue,        \* Executor._pending_signals
    entryEvents,  \* Executor._sweep_entry_events
    exitEvents,   \* Executor._sweep_exit_events; both empty when no sweep is
                  \* on, for nobody reads them then
    subs,         \* symbols the bar source is subscribed to
    believed,     \* symbols the strategy believes it is long in
    counter,      \* DryRunOrderSubmitter._counter
    failures,     \* SqliteTradingRecorder._consecutive_failures
    emitted       \* SqliteTradingRecorder._critical_emitted

VARIABLES         \* locals of the callbacks in progress
    loaded,       \* on_session_start: the open positions it has read
    todo, at,     \* on_step: signals to process, index into Universe
    report        \* on_step: events not yet recorded

VARIABLES         \* history
    incidents,    \* days on which an error was reported or the process died
    overlapped    \* the last session start had read the ledger, and not yet
                  \* replaced the positions, while a sweep was in progress

worldVars == <<day, time>>
ledgerVars == <<orders, summaries, failures, emitted>>
riskVars == <<session, entries, halt, checked>>
tradeVars == <<account, fills, held, subs, counter>>
eventVars == <<entryEvents, exitEvents>>
sweepVars == <<todo, at, report, eventVars>>
hostVars == <<process, dry>>
vars == <<worldVars, ledgerVars, riskVars, tradeVars, sweepVars, hostVars,
          job, started, queue, believed, loaded, incidents, overlapped>>

-----------------------------------------------------------------------------

Jobs == {"session_start", "step", "daily_report", "eod_signal"}
Ops == {"entry", "exit", "summary", "open", "pnl"}
NoSummary == [session |-> 0, entries |-> 0]

Signal(side, s) == [side |-> side, sym |-> s]
Moved(S, signal) == IF signal.side = "buy" THEN S \union {signal.sym} ELSE S \ {signal.sym}

AllIdle == \A j \in Jobs : job[j] = "idle"
Running == {j \in Jobs : job[j] \notin {"idle", "called"}}
Goes(j, pc) == job' = [job EXCEPT ![j] = pc]
Tell == incidents' = incidents \union {day}

\* The callbacks the triggers of _install_jobs name for a time of the day.
JobsDue(t) ==
    {j \in Jobs : \/ j = "session_start" /\ t = 1
                  \/ j = "step" /\ t \in 1..Minutes
                  \/ j = "daily_report" /\ t = Minutes + 1
                  \/ j = "eod_signal" /\ t = Minutes + 2}

-----------------------------------------------------------------------------
(* The ledger.                                                             *)

Rows(d) == {i \in 1..Len(orders) : fills[orders[i]].day = d}
OfSymbol(s, d) == {i \in Rows(d) : fills[orders[i]].sym = s}

\* load_open_positions: the symbols whose latest row of the day is a buy.
OpenRows(d) ==
    {s \in Symbols : \E i \in OfSymbol(s, d) :
        /\ \A k \in OfSymbol(s, d) : k <= i
        /\ fills[orders[i]].side = "buy"}
Buys(d) == {i \in Rows(d) : fills[orders[i]].side = "buy"}

\* Mutant: a success resets the counter and leaves the flag.
Succeeds_KeepsFlag(op) ==
    /\ failures' = [failures EXCEPT ![op] = 0]
    /\ UNCHANGED emitted

\* _on_success, _on_failure with _maybe_emit_critical, for one operation.
Succeeds(op) == /\ failures' = [failures EXCEPT ![op] = 0]
                /\ emitted' = [emitted EXCEPT ![op] = FALSE]
Fails(op) == /\ failures' = [failures EXCEPT ![op] = @ + 1]
             /\ emitted' = [emitted EXCEPT ![op] = @ \/ failures[op] + 1 >= Threshold]

\* order_number is the primary key: a number that is there is refused.
Known(id) == \E i \in 1..Len(orders) : fills[orders[i]].number = fills[id].number
OpOf(id) == IF fills[id].side = "buy" THEN "entry" ELSE "exit"

\* record_entry, record_exit: never raises, warns of what it did not write.
Insert(id) ==
    \/ /\ process = "up" /\ ~Known(id)
       /\ orders' = Append(orders, id) /\ Succeeds(OpOf(id)) /\ UNCHANGED incidents
    \/ /\ process = "up" /\ (Known(id) \/ "record" \in Faults)
       /\ Fails(OpOf(id)) /\ Tell /\ UNCHANGED orders
    \/ /\ process = "closing"
       /\ Tell /\ UNCHANGED <<orders, failures, emitted>>

-----------------------------------------------------------------------------
(* The process.  Nothing in memory survives it.                            *)

Fresh ==
    /\ job' = [j \in Jobs |-> "idle"] /\ started' = FALSE
    /\ session' = 0 /\ entries' = 0 /\ held' = {} /\ halt' = FALSE /\ checked' = "none"
    /\ queue' = <<>> /\ entryEvents' = <<>> /\ exitEvents' = <<>> /\ subs' = {} /\ believed' = {} /\ counter' = 0
    /\ failures' = [op \in Ops |-> 0] /\ emitted' = [op \in Ops |-> FALSE]
    /\ loaded' = {} /\ todo' = <<>> /\ at' = 1 /\ report' = <<>>

Init ==
    /\ day = 1 /\ time = 0 /\ account = {} /\ fills = <<>>
    /\ orders = <<>> /\ summaries = [d \in 1..MaxDays |-> NoSummary]
    /\ process = "up" /\ dry \in DryRuns
    /\ job = [j \in Jobs |-> "idle"] /\ started = FALSE
    /\ session = 0 /\ entries = 0 /\ held = {} /\ halt = FALSE /\ checked = "none"
    /\ queue = <<>> /\ entryEvents = <<>> /\ exitEvents = <<>> /\ subs = {} /\ believed = {} /\ counter = 0
    /\ failures = [op \in Ops |-> 0] /\ emitted = [op \in Ops |-> FALSE]
    /\ loaded = {} /\ todo = <<>> /\ at = 1 /\ report = <<>>
    /\ incidents = {} /\ overlapped = FALSE

\* build_runtime in a new process.
Boot ==
    /\ process = "down"
    /\ process' = "up" /\ dry' \in DryRuns
    /\ Fresh
    /\ UNCHANGED <<worldVars, account, fills, orders, summaries, incidents, overlapped>>

Crash ==
    /\ process # "down" /\ "crash" \in Faults
    /\ process' = "down" /\ Tell
    /\ Fresh
    /\ UNCHANGED <<worldVars, account, fills, orders, summaries, dry, overlapped>>

\* _graceful_shutdown: the scheduler takes no more jobs, broker, bar source
\* and ledger are closed under the callbacks that still run.
Shutdown ==
    /\ process = "up" /\ "crash" \in Faults
    /\ process' = "closing"
    /\ UNCHANGED <<worldVars, ledgerVars, riskVars, tradeVars, sweepVars, dry,
                   job, started, queue, believed, loaded, incidents, overlapped>>

\* The interpreter waits for its workers, then ends.
Exit ==
    /\ process = "closing" /\ AllIdle
    /\ process' = "down"
    /\ Fresh
    /\ UNCHANGED <<worldVars, account, fills, orders, summaries, dry, incidents,
                   overlapped>>

-----------------------------------------------------------------------------
(* The scheduler.                                                          *)

\* A time of the day comes: the due callbacks are submitted, except one whose
\* last instance has not ended (max_instances is 1) or that comes late.  A
\* sweep may take longer than a minute, not longer than a break of the market;
\* a free worker takes a callback at once.
Tick ==
    LET night == time = Minutes + 2
        next == IF night THEN 0 ELSE time + 1
    IN  /\ night => day < MaxDays
        /\ next \notin 2..Minutes => AllIdle
        /\ (\E j \in Jobs : job[j] = "called") => Cardinality(Running) = Workers
        /\ time' = next /\ day' = IF night THEN day + 1 ELSE day
        /\ \E missed \in SUBSET JobsDue(next) :
             /\ missed # {} => "late" \in Faults
             /\ job' = [j \in Jobs |->
                          IF /\ process = "up" /\ j \in JobsDue(next) \ missed
                             /\ job[j] = "idle"
                          THEN "called" ELSE job[j]]
        /\ UNCHANGED <<ledgerVars, riskVars, tradeVars, sweepVars, hostVars,
                       started, queue, believed, loaded, incidents, overlapped>>

\* A worker takes the callback.
Taken(j) == job[j] = "called" /\ Cardinality(Running) < Workers

-----------------------------------------------------------------------------
(* 09:00: on_session_start.                                                *)

sessionUnchanged == UNCHANGED <<worldVars, account, fills, orders, summaries,
                                sweepVars, hostVars, queue, believed, counter>>

\* No balance or no capital: the day is skipped.
StartFails ==
    /\ Taken("session_start")
    /\ process = "closing" \/ "balance" \in Faults
    /\ Goes("session_start", "idle") /\ started' = FALSE /\ Tell
    /\ sessionUnchanged
    /\ UNCHANGED <<failures, emitted, riskVars, held, subs, loaded, overlapped>>

Sweeping == job["step"] \in {"flush", "bars", "record"}

\* load_open_positions; a query that fails returns nothing.
LoadOpenPositions ==
    /\ Taken("session_start") /\ process = "up"
    /\ Goes("session_start", "load_daily_pnl")
    /\ \/ /\ loaded' = OpenRows(day) /\ Succeeds("open")
       \/ /\ "load" \in Faults
          /\ loaded' = {} /\ Fails("open")
    /\ overlapped' = Sweeping
    /\ sessionUnchanged
    /\ UNCHANGED <<riskVars, held, subs, started, incidents>>

\* load_daily_pnl; a query that fails counts no entry.
LoadDailyPnl(buys) ==
    \/ process = "up" /\ buys = Cardinality(Buys(day)) /\ Succeeds("pnl")
    \/ process = "up" /\ buys = 0 /\ "load" \in Faults /\ Fails("pnl")
    \/ process = "closing" /\ buys = 0 /\ UNCHANGED <<failures, emitted>>

\* Mutant: a restart is not recognised, every session starts empty.
StartSession_NoRestore ==
    /\ job["session_start"] = "load_daily_pnl"
    /\ \E buys \in {Cardinality(Buys(day)), 0} :
         buys >= Cardinality(loaded) /\ LoadDailyPnl(buys)
    /\ entries' = 0 /\ session' = day /\ held' = {} /\ UNCHANGED subs
    /\ halt' = FALSE /\ checked' = "none" /\ started' = TRUE /\ loaded' = {}
    /\ Goes("session_start", "idle")
    /\ sessionUnchanged
    /\ UNCHANGED <<incidents, overlapped>>

\* restore_session if the day has rows, else start_session: both replace what
\* the Executor and the RiskManager hold.
StartSession ==
    /\ job["session_start"] = "load_daily_pnl"
    /\ \E buys \in {Cardinality(Buys(day)), 0} :
         /\ buys >= Cardinality(loaded) /\ LoadDailyPnl(buys)
         /\ entries' = buys
    /\ session' = day /\ held' = loaded /\ subs' = subs \union loaded
    /\ halt' = FALSE /\ checked' = "none" /\ started' = TRUE /\ loaded' = {}
    /\ Goes("session_start", "idle")
    /\ sessionUnchanged
    /\ UNCHANGED <<incidents, overlapped>>

\* RiskManager.restore_session refuses more positions than entries.
RestoreRaises ==
    /\ job["session_start"] = "load_daily_pnl"
    /\ \E buys \in {Cardinality(Buys(day)), 0} :
         buys < Cardinality(loaded) /\ LoadDailyPnl(buys)
    /\ started' = FALSE /\ Tell /\ loaded' = {}
    /\ Goes("session_start", "idle")
    /\ sessionUnchanged
    /\ UNCHANGED <<riskVars, held, subs, overlapped>>

-----------------------------------------------------------------------------
(* Every minute: on_step.                                                  *)

daySteady == UNCHANGED <<worldVars, summaries, hostVars, started, session, loaded>>
stepUnchanged == daySteady /\ UNCHANGED overlapped

StepSkipped ==
    /\ Taken("step") /\ ~started
    /\ Goes("step", "idle")
    /\ stepUnchanged
    /\ UNCHANGED <<orders, failures, emitted, entries, halt, checked, tradeVars,
                   sweepVars, queue, believed, incidents>>

\* Executor.step up to its first call: the queue is taken and emptied.
StepBegins ==
    /\ Taken("step") /\ started
    /\ Goes("step", "flush")
    /\ entryEvents' = <<>> /\ exitEvents' = <<>> /\ todo' = queue /\ queue' = <<>>
    /\ overlapped' = (overlapped \/ job["session_start"] = "load_daily_pnl")
    /\ daySteady
    /\ UNCHANGED <<orders, failures, emitted, entries, halt, checked, tradeVars,
                   at, report, believed, incidents>>

InSweep == job["step"] \in {"flush", "bars"}
Processing(side) == InSweep /\ todo # <<>> /\ Head(todo).side = side

ledgerUnchanged == UNCHANGED <<orders, failures, emitted, queue, believed, report>>

\* _handle_entry: halted, rejected by the RiskManager, or nothing filled.
EntryPasses ==
    /\ Processing("buy") /\ (halt \/ process = "up")
    /\ todo' = Tail(todo)
    /\ stepUnchanged /\ ledgerUnchanged
    /\ UNCHANGED <<job, entries, halt, checked, tradeVars, at, eventVars, incidents>>

\* An order is filled; a dry run only pretends.
Trade ==
    /\ Len(fills) < MaxFills
    /\ LET signal == Head(todo)
           number == IF dry THEN <<"DRY", counter + 1>> ELSE <<"KIS", Len(fills) + 1>>
       IN  /\ fills' = Append(fills, [side |-> signal.side, sym |-> signal.sym,
                                      day |-> day, number |-> number])
           /\ account' = IF dry THEN account ELSE Moved(account, signal)
    /\ counter' = IF dry THEN counter + 1 ELSE counter

\* ... and booked: RiskManager, lots, subscription; the event follows.
TradeBooked ==
    /\ Trade
    /\ held' = Moved(held, Head(todo)) /\ subs' = Moved(subs, Head(todo))
    /\ todo' = Tail(todo)
    /\ stepUnchanged /\ ledgerUnchanged
    /\ UNCHANGED <<job, halt, checked, at, incidents>>

\* What _handle_entry and _handle_exit send to the broker.
Tradable ==
    /\ InSweep /\ todo # <<>>
    /\ IF Head(todo).side = "buy" THEN ~halt /\ Head(todo).sym \notin held
       ELSE Head(todo).sym \in held /\ (dry \/ Head(todo).sym \in account)

EntryFilled ==
    /\ Processing("buy") /\ Tradable /\ process = "up"
    /\ TradeBooked /\ entries' = entries + 1
    /\ entryEvents' = Append(entryEvents, Len(fills) + 1) /\ UNCHANGED exitEvents

ExitFilled ==
    /\ Processing("sell") /\ Tradable /\ process = "up"
    /\ TradeBooked /\ UNCHANGED <<entries, entryEvents>>
    /\ exitEvents' = Append(exitEvents, Len(fills) + 1)

\* Mutant: the exception is swallowed without a report.
Raises_Silent ==
    /\ Goes("step", "idle") /\ UNCHANGED incidents
    /\ todo' = <<>> /\ at' = 1 /\ entryEvents' = <<>> /\ exitEvents' = <<>>
    /\ stepUnchanged /\ ledgerUnchanged
    /\ UNCHANGED <<checked, subs>>

\* An exception leaves step: on_step reports it, the events of the sweep stay
\* unrecorded.
Raises ==
    /\ Goes("step", "idle") /\ Tell
    /\ todo' = <<>> /\ at' = 1 /\ entryEvents' = <<>> /\ exitEvents' = <<>>
    /\ stepUnchanged /\ ledgerUnchanged
    /\ UNCHANGED <<checked, subs>>

untraded == UNCHANGED <<entries, held, halt, account, fills, counter>>

\* _handle_exit without a position, an order the broker does not take (of a
\* share the account has not, after close() or because of a fault; a dry run
\* asks the broker only for the balance before a purchase), ...
OrderRaises ==
    /\ InSweep /\ todo # <<>>
    /\ \/ Processing("sell") /\ Head(todo).sym \notin held
       \/ Processing("sell") /\ ~dry /\ Head(todo).sym \notin account
       \/ /\ process = "closing" \/ "order" \in Faults
          /\ dry => Processing("buy")
    /\ Raises /\ untraded

\* ... one that is filled although the Executor never learns it, ...
OrderIsLost ==
    /\ Tradable /\ "order" \in Faults /\ ~dry /\ process = "up"
    /\ Trade /\ Raises
    /\ \/ Head(todo).side = "sell" /\ halt' = TRUE
       \/ UNCHANGED halt
    /\ UNCHANGED <<entries, held>>

\* ... or one that is booked, but the bar source is closed before the
\* subscription is changed.
SubscriptionRaises ==
    /\ Tradable /\ process = "closing"
    /\ Trade /\ Raises
    /\ held' = Moved(held, Head(todo))
    /\ entries' = IF Processing("buy") THEN entries + 1 ELSE entries
    /\ UNCHANGED halt

\* Mutant: a mismatch is noted and does not halt.
Reconcile_NoHalt ==
    /\ job["step"] = "flush" /\ todo = <<>> /\ process = "up"
    /\ Goes("step", "bars") /\ at' = 1
    /\ checked' = IF held = account THEN "match" ELSE "mismatch"
    /\ stepUnchanged /\ ledgerUnchanged
    /\ UNCHANGED <<entries, halt, tradeVars, todo, eventVars, incidents>>

\* reconcile: a mismatch halts until the next session start.
Reconcile ==
    /\ job["step"] = "flush" /\ todo = <<>> /\ process = "up"
    /\ Goes("step", "bars") /\ at' = 1
    /\ checked' = IF held = account THEN "match" ELSE "mismatch"
    /\ halt' = (halt \/ held # account)
    /\ stepUnchanged /\ ledgerUnchanged
    /\ UNCHANGED <<entries, tradeVars, todo, eventVars, incidents>>

ReconcileRaises ==
    /\ job["step"] = "flush" /\ todo = <<>>
    /\ process = "closing" \/ "balance" \in Faults
    /\ Raises /\ untraded

\* The next symbol of the bar loop: nothing new, the stop guard sells, or the
\* strategy emits what its belief allows.
Bars ==
    /\ job["step"] = "bars" /\ todo = <<>> /\ at <= Len(Universe)
    /\ process = "up"
    /\ at' = at + 1
    /\ LET s == Universe[at]
           own == Signal(IF s \in believed THEN "sell" ELSE "buy", s)
       IN  \/ UNCHANGED <<todo, believed>>
           \/ /\ s \in subs \intersect held
              /\ todo' = <<Signal("sell", s)>> /\ UNCHANGED believed
           \/ /\ s \in subs
              /\ todo' = <<own>> /\ believed' = Moved(believed, own)
    /\ stepUnchanged
    /\ UNCHANGED <<job, orders, failures, emitted, entries, halt, checked, tradeVars,
                   queue, eventVars, report, incidents>>

\* get_minute_bars of a closed bar source.
BarsRaise ==
    /\ job["step"] = "bars" /\ todo = <<>> /\ at <= Len(Universe)
    /\ process = "closing"
    /\ Raises /\ untraded

\* step returns: entries are recorded before exits, a mismatch is reported.
StepReturns ==
    /\ job["step"] = "bars" /\ todo = <<>> /\ at > Len(Universe)
    /\ Goes("step", "record")
    /\ report' = entryEvents \o exitEvents
    /\ entryEvents' = <<>> /\ exitEvents' = <<>> /\ at' = 1
    /\ stepUnchanged
    /\ UNCHANGED <<orders, failures, emitted, entries, halt, checked, tradeVars,
                   todo, queue, believed, incidents>>

Record ==
    /\ job["step"] = "record" /\ report # <<>>
    /\ Insert(Head(report)) /\ report' = Tail(report)
    /\ stepUnchanged
    /\ UNCHANGED <<job, entries, halt, checked, tradeVars, todo, at, eventVars, queue,
                   believed>>

StepEnds ==
    /\ job["step"] = "record" /\ report = <<>>
    /\ Goes("step", "idle")
    /\ IF checked = "mismatch" THEN Tell ELSE UNCHANGED incidents
    /\ stepUnchanged /\ ledgerUnchanged
    /\ UNCHANGED <<entries, halt, checked, tradeVars, todo, at, eventVars>>

-----------------------------------------------------------------------------
(* 15:30 and 15:35.                                                        *)

\* on_daily_report: INSERT OR REPLACE of what the RiskManager holds.
DailyReport ==
    /\ Taken("daily_report")
    /\ Goes("daily_report", "idle")
    /\ \/ /\ process = "up"
          /\ summaries' = [summaries EXCEPT ![day] = [session |-> session, entries |-> entries]]
          /\ Succeeds("summary")
       \/ /\ process = "up" /\ "record" \in Faults
          /\ Fails("summary") /\ UNCHANGED summaries
       \/ /\ process = "closing"
          /\ UNCHANGED <<summaries, failures, emitted>>
    /\ UNCHANGED <<worldVars, orders, riskVars, tradeVars, sweepVars, hostVars,
                   started, queue, believed, loaded, incidents, overlapped>>

\* on_eod_signal: some symbols signal, in the order of the universe; an error
\* in the loop drops what the strategy has already emitted.
EodSignal ==
    /\ Taken("eod_signal")
    /\ Goes("eod_signal", "idle")
    /\ \E n \in 0..Len(Universe) : \E k \in [1..n -> 1..Len(Universe)] :
         LET fired == [i \in 1..n |-> Universe[k[i]]]
             S == {fired[i] : i \in 1..n}
             collected == [i \in 1..n |->
                 Signal(IF fired[i] \in believed THEN "sell" ELSE "buy", fired[i])]
         IN  /\ \A i, j \in 1..n : i < j => k[i] < k[j]
             /\ queue' \in {queue, queue \o collected}
             /\ believed' = (believed \ S) \union (S \ believed)
    /\ UNCHANGED <<worldVars, ledgerVars, riskVars, tradeVars, sweepVars, hostVars,
                   started, loaded, incidents, overlapped>>

Callback ==
    \/ StartFails \/ LoadOpenPositions \/ StartSession \/ RestoreRaises
    \/ StepSkipped \/ StepBegins
    \/ EntryPasses \/ EntryFilled \/ ExitFilled \/ OrderRaises \/ OrderIsLost
    \/ SubscriptionRaises \/ Reconcile \/ ReconcileRaises \/ Bars \/ BarsRaise
    \/ StepReturns \/ Record \/ StepEnds
    \/ DailyReport \/ EodSignal

Next == Boot \/ Crash \/ Shutdown \/ Exit \/ Tick \/ Callback

Spec == Init /\ [][Next]_vars

-----------------------------------------------------------------------------
(* Properties.                                                             *)

Elements(s) == {s[i] : i \in 1..Len(s)}
Ids == 1..Len(fills)

FillType == [side : {"buy", "sell"}, sym : Symbols, day : Nat \ {0},
             number : {"DRY", "KIS"} \X Nat]
SignalType == [side : {"buy", "sell"}, sym : Symbols]

WorldTypes ==
    /\ day \in Nat \ {0} /\ time \in 0..(Minutes + 2)
    /\ account \subseteq Symbols /\ fills \in Seq(FillType)
    /\ incidents \subseteq Nat \ {0} /\ overlapped \in BOOLEAN

LedgerTypes ==
    /\ orders \in Seq(Ids)
    /\ summaries \in [1..MaxDays -> [session : Nat, entries : Nat]]
    /\ failures \in [Ops -> Nat] /\ emitted \in [Ops -> BOOLEAN]

ProcessTypes ==
    /\ process \in {"up", "closing", "down"} /\ dry \in BOOLEAN
    /\ job \in [Jobs -> {"idle", "called", "load_daily_pnl", "flush", "bars", "record"}]
    /\ started \in BOOLEAN /\ halt \in BOOLEAN
    /\ session \in Nat /\ entries \in Nat /\ counter \in Nat
    /\ checked \in {"none", "match", "mismatch"}
    /\ held \subseteq Symbols /\ subs \subseteq Symbols
    /\ believed \subseteq Symbols /\ loaded \subseteq Symbols

SweepTypes ==
    /\ queue \in Seq(SignalType) /\ todo \in Seq(SignalType)
    /\ at \in 1..(Len(Universe) + 1)
    /\ entryEvents \in Seq(Ids) /\ exitEvents \in Seq(Ids) /\ report \in Seq(Ids)

TypeOK == WorldTypes /\ LedgerTypes /\ ProcessTypes /\ SweepTypes

Recorded(id) == id \in Elements(orders)
InFlight(id) == id \in Elements(entryEvents) \union Elements(exitEvents) \union Elements(report)

\* Nothing traded is forgotten in silence: a fill is in the ledger, on its way
\* there, or its day had an error report, a storage warning or the end of the
\* process, through sweeps that raise, storage failures, crashes, numbers
\* that come twice and callbacks that are submitted while the last one runs.
LossIsReported ==
    \A id \in Ids : Recorded(id) \/ InFlight(id) \/ fills[id].day \in incidents

\* One alarm per outage: the critical message of an operation has been sent
\* exactly when its failures in a row have reached the threshold
\* (db.py:748-767), whatever the other operations do.
AlarmAtThreshold == \A op \in Ops : emitted[op] <=> failures[op] >= Threshold

\* Every fill of a symbol today is in the ledger, the ledger could be read,
\* and the symbol was bought once: the replay relies on one entry per symbol and
\* day (db.py:583), for a sweep records its entries before its exits.
Replayable(s) ==
    LET today == {id \in Ids : fills[id].sym = s /\ fills[id].day = day}
    IN  /\ \A id \in today : Recorded(id)
        /\ \A i, k \in today : fills[i].side = "buy" /\ fills[k].side = "buy" => i = k
        /\ failures["open"] = 0

\* Between two callbacks the positions of the session are those the ledger
\* would give back, in whatever order session start and first step came
\* (docs/adr/0014:75: positions are restored exactly by replaying the ledger).
HeldIsRecorded ==
    (AllIdle /\ process = "up" /\ session = day) =>
        \A s \in Symbols : Replayable(s) => (s \in held <=> s \in OpenRows(day))

\* The same with any number of workers, of a session whose start had the
\* ledger to itself.  A session start that a sweep overlaps (main.py:201: the
\* scheduler's default pool) puts back what the sweep has not recorded yet;
\* the next session start sets it right.
HeldUnlessOverlapped == ~overlapped => HeldIsRecorded

\* A purchase of the bar loop goes to the broker only on positions that agree
\* with the account, as long as the sweep's comparison stands
\* (executor.py:772-801): through lost orders, lost records, restarts, and any
\* number of workers.  A session start that comes between comparison and
\* purchase lifts the halt and discards the comparison; that purchase has none.
PurchasesAreBacked ==
    [][fills' # fills /\ job["step"] = "bars" /\ Processing("buy") /\ ~dry =>
          checked = "none" \/ (checked = "match" /\ held = account)]_vars

=============================================================================
