------------------------------ MODULE Executor ------------------------------
(***************************************************************************)
(* The orchestrator of one trading day after the other:                    *)
(* src/stock_agent/execution/executor.py with the RiskManager it drives,   *)
(* the strategy it asks, the bar source it reads and the broker it trades  *)
(* at.  One sweep (step or force_close_all) is split at its broker calls:  *)
(* between two of them the broker may fill, settle or drop orders.         *)
(*                                                                         *)
(* Abstractions: a price, a cash balance and a net profit are drawn when   *)
(* they are used; a strategy emits at most one signal per bar, an entry    *)
(* when it believes it is flat, an exit when it believes it is long (the   *)
(* indicators only decide whether it emits).  Minutes are numbered through *)
(* the days: bar t is the t-th minute and closed when clock >= t.  The     *)
(* daily bar is stamped 09:00, the first minute of its day.                *)
(***************************************************************************)
EXTENDS Integers, Sequences, FiniteSets

CONSTANTS             \* RiskManager
    Symbols, PositionPct, MaxPositions, DailyLossPct, DailyMaxEntries,
    MinNotional, Dates, Capitals, Prices, CashLevels, Pnls, Quantities

CONSTANTS
    Universe,         \* Executor._symbols: the symbols in sweep order
    Intraday,         \* TRUE: ORBStrategy; FALSE: RSIMRStrategy
    Watched,          \* symbols subscribed before the first session
    MaxRetries,       \* ExecutorConfig.backoff_max_attempts
    MaxPolls,         \* bound: sleeps before order_fill_timeout_s is over
    MaxMinutes,       \* bound: minutes of a trading day
    Tickets,          \* bound: orders the broker has open at the same time
    InitialHoldings,  \* what the account may hold before the first session
    Faults            \* faults of the broker and of the data source

ASSUME RiskManagerAssumption ==
    /\ PositionPct \in Nat \ {0} /\ MaxPositions \in Nat \ {0}
    /\ DailyLossPct \in Nat \ {0} /\ DailyMaxEntries \in Nat \ {0}
    /\ MinNotional \in Nat \ {0}
    /\ IsFiniteSet(Symbols)
    /\ Dates \subseteq Nat \ {0} /\ Capitals \subseteq Nat
    /\ Prices \subseteq Nat \ {0} /\ CashLevels \subseteq Nat
    /\ Pnls \subseteq Int /\ Quantities \subseteq Nat

ASSUME ExecutorAssumption ==
    /\ Universe \in Seq(Symbols)
    /\ \A i, j \in 1..Len(Universe) : i # j => Universe[i] # Universe[j]
    /\ Intraday \in BOOLEAN
    /\ Watched \subseteq Symbols
    /\ MaxRetries \in Nat
    /\ MaxPolls \in Nat
    /\ MaxMinutes \in Nat
    /\ 0 \notin Tickets
    /\ InitialHoldings \subseteq [Symbols -> Nat]
    /\ Faults \subseteq {"read", "refuse", "lost", "drop", "cancel", "fetch"}

VARIABLES             \* the RiskManager
    sessionDate, startingCapital, dailyPnl, entriesToday, positions, haltLogged

VARIABLES             \* the Executor
    lots,             \* _open_lots: symbol -> quantity, 0 = no lot
    guarded,          \* the lots with a stop_price > 0
    halt,             \* _halt
    lastReconcile,    \* _last_reconcile: "none", "match" or "mismatch"
    lastSeen,         \* _last_processed_bar_time, 0 = no entry
    queue,            \* _pending_signals
    events            \* _sweep_entry_events and _sweep_exit_events, in order

VARIABLES             \* the sweep in progress
    pc,               \* where it is; at rest: how the last sweep ended
    mode,             \* "step" or "close" (force_close_all)
    phase,            \* which signals are processed: "flush", "bars", "time"
    at,               \* index into Universe of the bar loop
    list,             \* minutes of the list of bars not yet looped over
    batch,            \* the signals _process_signals has not finished
    order             \* locals of the order being placed

VARIABLES             \* strategy, bar source, broker
    believed,         \* symbols the strategy believes it is long in
    done,             \* symbols the strategy left today: no second entry
    dated,            \* symbols whose state ORBStrategy has dated today
    fed,              \* the last bar on_bar has seen of a symbol, 0 = none
    subs,             \* subscribed symbols
    since,            \* the clock when a symbol was subscribed
    clock,            \* minutes closed
    opened,           \* the clock when the day began
    open,             \* the market is open
    holdings,         \* the account: symbol -> shares
    book              \* the broker's order book: ticket -> order or NoOrder

RM == INSTANCE RiskManager

riskVars == <<sessionDate, startingCapital, dailyPnl, entriesToday, positions, haltLogged>>
ledgerVars == <<lots, guarded, events>>
sweepVars == <<pc, mode, phase, at, list, batch, order>>
strategyVars == <<believed, done, dated, fed>>
feedVars == <<subs, since>>
clockVars == <<clock, opened, open>>
marketVars == <<clockVars, holdings, book>>

vars == <<riskVars, ledgerVars, sweepVars, strategyVars, marketVars,
          halt, lastReconcile, lastSeen, queue, feedVars>>

-----------------------------------------------------------------------------

NoLots == [s \in Symbols |-> 0]
NoBars == [s \in Symbols |-> 0]
NoOrder == [sym |-> "none", side |-> "none", qty |-> 0, filled |-> 0]
NoLocals == [qty |-> 0, tries |-> 0, id |-> 0, polls |-> 0, filled |-> 0]

Signal(side, s) == [side |-> side, sym |-> s]
Resting == pc \in {"returned", "raised"}
IsHalted == halt \/ RM!IsHalted

\* The broker's side of the book.
Live == {id \in Tickets : book[id].side # "none"}
Free == Tickets \ Live
LiveSells(s) == {id \in Live : book[id].sym = s /\ book[id].side = "sell"}

\* A sale the account covers; the shares of an open sale are reserved.
Covered(s, qty) ==
    /\ \A id \in LiveSells(s) : book[id].filled = book[id].qty
    /\ holdings[s] >= qty

Placed(id, signal, qty) ==
    [book EXCEPT ![id] = [sym |-> signal.sym, side |-> signal.side,
                          qty |-> qty, filled |-> 0]]

-----------------------------------------------------------------------------
(* The strategy.                                                           *)

SignalOf(long, s) == Signal(IF s \in long THEN "sell" ELSE "buy", s)

\* The signals of the symbols S, in the order of the universe.
SweepOrders(S) ==
    {k \in [1..Cardinality(S) -> 1..Len(Universe)] :
        /\ \A i, j \in 1..Cardinality(S) : i < j => k[i] < k[j]
        /\ {Universe[k[i]] : i \in 1..Cardinality(S)} = S}
SignalsOf(long, S) ==
    {[i \in 1..Cardinality(S) |-> SignalOf(long, Universe[k[i]])] : k \in SweepOrders(S)}

\* The strategy emits a signal for each symbol of S; it believes to be long in
\* the symbols long and has left those of left today.  It changes its own
\* state when it emits, before anything is traded.
React(S, long, left) ==
    /\ \A s \in S : s \in long \/ s \notin left
    /\ believed' = (long \ S) \union (S \ long)
    /\ done' = left \union (S \intersect long)

\* ORBStrategy resets a symbol with the first bar of a new day.
Forgotten(s, t) == IF Intraday /\ t > opened /\ s \notin dated THEN {s} ELSE {}

\* on_bar for bar t of s; it refuses to go back in time.
Accepts(s, t) == t >= fed[s]
OnBar(s, t) ==
    /\ Accepts(s, t)
    /\ \E S \in SUBSET {s} :
          /\ React(S, believed \ Forgotten(s, t), done \ Forgotten(s, t))
          /\ batch' \in SignalsOf(believed \ Forgotten(s, t), S)
    /\ dated' = dated \union Forgotten(s, t)
    /\ fed' = [fed EXCEPT ![s] = t]

-----------------------------------------------------------------------------
(* The bar source.  The bars of a subscription are kept until it ends; a   *)
(* minute without a tick has no bar.                                       *)

Subscribe(S) ==
    /\ subs' = subs \union S
    /\ since' = [s \in Symbols |-> IF s \in S \ subs THEN clock ELSE since[s]]

Unsubscribe(s) == subs' = subs \ {s} /\ UNCHANGED since

\* get_minute_bars for the i-th symbol of the universe.
MinuteBars(i) ==
    IF i <= Len(Universe) /\ Universe[i] \in subs
    THEN (since[Universe[i]] + 1)..clock
    ELSE {}

-----------------------------------------------------------------------------
(* Sessions.                                                               *)

Init ==
    /\ RM!Init
    /\ lots = NoLots /\ guarded = {} /\ halt = FALSE /\ lastReconcile = "none"
    /\ lastSeen = NoBars /\ queue = <<>> /\ events = <<>>
    /\ pc = "returned" /\ mode = "step" /\ phase = "flush" /\ at = 1
    /\ list = {} /\ batch = <<>> /\ order = NoLocals
    /\ believed = {} /\ done = {} /\ dated = {} /\ fed = NoBars
    /\ subs = Watched /\ since = NoBars
    /\ clock = 0 /\ opened = 0 /\ open = FALSE
    /\ holdings \in InitialHoldings
    /\ book = [id \in Tickets |-> NoOrder]

\* Mutant: the lots of the last session are kept.
StartSession_KeepsLots(date, capital) ==
    /\ RM!StartSession(date, capital)
    /\ halt' = FALSE
    /\ lastReconcile' = "none"
    /\ lastSeen' = NoBars
    /\ UNCHANGED <<lots, guarded, queue, events, feedVars>>

\* start_session.  The pending queue survives, and so do the subscriptions.
StartSession(date, capital) ==
    /\ RM!StartSession(date, capital)
    /\ lots' = NoLots
    /\ guarded' = {}
    /\ halt' = FALSE
    /\ lastReconcile' = "none"
    /\ lastSeen' = NoBars
    /\ UNCHANGED <<queue, events, feedVars>>

\* restore_session.  Only ORBStrategy is told; a restored lot has no guard.
RestoreSession(date, capital, snapshot, entries, pnl, closed) ==
    /\ RM!RestoreSession(date, capital, snapshot, entries, pnl)
    /\ lots' = snapshot
    /\ guarded' = {}
    /\ halt' = FALSE
    /\ lastReconcile' = "none"
    /\ lastSeen' = NoBars
    /\ Subscribe(RM!HeldIn(snapshot))
    /\ \/ /\ Intraday
          /\ believed' = RM!HeldIn(snapshot)
          /\ done' = closed \ RM!HeldIn(snapshot)
          /\ dated' = RM!HeldIn(snapshot) \union closed
       \/ /\ ~Intraday
          /\ UNCHANGED <<believed, done, dated>>
    /\ UNCHANGED <<queue, events>>

\* A new trading day.
Opening ==
    /\ Resting /\ ~open
    /\ open' = TRUE
    /\ opened' = clock
    /\ UNCHANGED <<sweepVars, fed, clock, holdings, book>>

Start == \E date \in Dates, capital \in Capitals :
    /\ Opening
    /\ date > sessionDate
    /\ StartSession(date, capital)
    /\ done' = IF Intraday THEN done ELSE {}
    /\ dated' = {}
    /\ UNCHANGED believed

\* The first session of a process may be restored from any ledger.
Restore == \E date \in Dates, capital \in Capitals, snapshot \in RM!Snapshots,
              entries \in 0..DailyMaxEntries, pnl \in Pnls, closed \in SUBSET Symbols :
    /\ Opening
    /\ sessionDate = 0
    /\ RestoreSession(date, capital, snapshot, entries, pnl, closed)

-----------------------------------------------------------------------------
(* How a sweep ends: its locals go out of scope, the events stay readable. *)

Leave(outcome) ==
    /\ pc' = outcome
    /\ mode' = "step" /\ phase' = "flush" /\ at' = 1
    /\ list' = {} /\ batch' = <<>> /\ order' = NoLocals

Raise == Leave("raised")

\* _process_signals goes on to the next signal.
NextSignal ==
    /\ pc' = "signals"
    /\ batch' = Tail(batch)
    /\ order' = NoLocals
    /\ UNCHANGED <<mode, phase, at, list>>

\* A read that fails _with_backoff to the end: the attempts have no effect,
\* so they are one step.
ReadFails ==
    /\ "read" \in Faults
    /\ pc \in {"reconcile", "poll"} \/ (pc = "signals" /\ batch # <<>>
                                        /\ Head(batch).side = "buy" /\ ~IsHalted)
    /\ Raise
    /\ UNCHANGED <<riskVars, ledgerVars, strategyVars, marketVars,
                   halt, lastReconcile, lastSeen, queue, feedVars>>

-----------------------------------------------------------------------------
(* step, force_close_all, reconcile.                                       *)

\* Mutant: a sweep without pending signals does not reconcile.
Step_NoReconcile ==
    /\ Resting /\ open
    /\ events' = <<>>
    /\ queue' = <<>>
    /\ batch' = queue
    /\ pc' = IF queue = <<>> THEN "bars" ELSE "signals"
    /\ list' = MinuteBars(at)
    /\ UNCHANGED <<riskVars, lots, guarded, mode, phase, at, order, strategyVars,
                   marketVars, halt, lastReconcile, lastSeen, feedVars>>

\* The queue is emptied before its signals are processed, and flushed before
\* the sweep reconciles.
Step ==
    /\ Resting /\ open
    /\ events' = <<>>
    /\ queue' = <<>>
    /\ batch' = queue
    /\ pc' = IF queue = <<>> THEN "reconcile" ELSE "signals"
    /\ UNCHANGED <<riskVars, lots, guarded, mode, phase, at, list, order, strategyVars,
                   marketVars, halt, lastReconcile, lastSeen, feedVars>>

ForceCloseAll ==
    /\ Resting /\ open /\ Intraday
    /\ events' = <<>>
    /\ mode' = "close"
    /\ pc' = "reconcile"
    /\ UNCHANGED <<riskVars, lots, guarded, phase, at, list, batch, order, strategyVars,
                   marketVars, halt, lastReconcile, lastSeen, queue, feedVars>>

Mismatch == holdings # positions

Reconcile ==
    /\ pc = "reconcile"
    /\ lastReconcile' = IF Mismatch THEN "mismatch" ELSE "match"
    /\ halt' = (halt \/ Mismatch)
    /\ \/ mode = "step" /\ pc' = "bars" /\ list' = MinuteBars(at)
       \/ mode = "close" /\ pc' = "time" /\ UNCHANGED list
    /\ UNCHANGED <<riskVars, ledgerVars, mode, phase, at, batch, order,
                   strategyVars, marketVars, lastSeen, queue, feedVars>>

\* No bar (any more) for this symbol.
NextSymbol ==
    /\ pc = "bars" /\ at <= Len(Universe)
    /\ at' = at + 1
    /\ list' = MinuteBars(at + 1)
    /\ UNCHANGED <<riskVars, ledgerVars, pc, mode, phase, batch, order,
                   strategyVars, marketVars, halt, lastReconcile, lastSeen, queue,
                   feedVars>>

\* The next bar that counts as new: it is later than the last one of the
\* symbol, and the last one is forgotten when a session starts.
NextBar(s, t) ==
    /\ pc = "bars" /\ at <= Len(Universe)
    /\ s = Universe[at]
    /\ t > lastSeen[s]

\* A bar counts as processed before its signals are.  Below the stop of a
\* guarded lot the strategy is not asked.
ProcessBar == \E t \in list : LET s == Universe[at] IN
    /\ NextBar(s, t)
    /\ list' = {u \in list : u > t}
    /\ lastSeen' = [lastSeen EXCEPT ![s] = t]
    /\ \/ /\ s \in guarded
          /\ batch' = <<Signal("sell", s)>>
          /\ UNCHANGED strategyVars
       \/ OnBar(s, t)
    /\ pc' = "signals"
    /\ phase' = "bars"
    /\ UNCHANGED <<riskVars, ledgerVars, mode, at, order, marketVars,
                   halt, lastReconcile, queue, feedVars>>

\* on_bar raises, and with it the sweep.
RefuseBar == \E t \in list : LET s == Universe[at] IN
    /\ NextBar(s, t)
    /\ ~Accepts(s, t)
    /\ Raise
    /\ UNCHANGED <<riskVars, ledgerVars, strategyVars, marketVars,
                   halt, lastReconcile, lastSeen, queue, feedVars>>

\* on_time, after the bars.  ORBStrategy closes all its longs from
\* force_close_at on, the minute force_close_all is called at; RSIMRStrategy
\* never does.
OnTime ==
    /\ pc = "time" \/ (pc = "bars" /\ at > Len(Universe))
    /\ \E S \in {{}, believed} :
          /\ S # {} => Intraday
          /\ mode = "close" => S = believed
          /\ React(S, believed, done)
          /\ batch' \in SignalsOf(believed, S)
    /\ pc' = "signals"
    /\ phase' = "time"
    /\ UNCHANGED <<riskVars, ledgerVars, mode, at, list, order, dated, fed, marketVars,
                   halt, lastReconcile, lastSeen, queue, feedVars>>

\* _process_signals is through with its list.
SignalsDone ==
    /\ pc = "signals" /\ batch = <<>>
    /\ \/ /\ phase = "time"
          /\ Leave("returned")
       \/ /\ phase # "time"
          /\ pc' = IF phase = "flush" THEN "reconcile" ELSE "bars"
          /\ UNCHANGED <<mode, phase, at, list, batch, order>>
    /\ UNCHANGED <<riskVars, ledgerVars, strategyVars, marketVars,
                   halt, lastReconcile, lastSeen, queue, feedVars>>

-----------------------------------------------------------------------------
(* _handle_entry and _handle_exit up to the order.                         *)

Turn(side) == pc = "signals" /\ batch # <<>> /\ Head(batch).side = side

SkipEntry ==
    /\ Turn("buy")
    /\ IsHalted
    /\ NextSignal
    /\ UNCHANGED <<riskVars, ledgerVars, strategyVars, marketVars,
                   halt, lastReconcile, lastSeen, queue, feedVars>>

\* Mutant: the RiskManager is not asked.
EvaluateEntry_NoRisk ==
    /\ Turn("buy")
    /\ ~IsHalted
    /\ \E price \in Prices :
          order' = [NoLocals EXCEPT !.qty = RM!EntryQty(price)]
    /\ pc' = "submit"
    /\ UNCHANGED <<riskVars, ledgerVars, mode, phase, at, list, batch, strategyVars,
                   marketVars, halt, lastReconcile, lastSeen, queue, feedVars>>

\* The balance was read; evaluate_entry approves or rejects.
EvaluateEntry ==
    /\ Turn("buy")
    /\ ~IsHalted
    /\ \E price \in Prices, cash \in CashLevels :
          \/ /\ RM!Approves(Head(batch).sym, price, cash)
             /\ order' = [NoLocals EXCEPT !.qty = RM!EntryQty(price)]
             /\ pc' = "submit"
             /\ UNCHANGED <<mode, phase, at, list, batch>>
          \/ /\ ~RM!Approves(Head(batch).sym, price, cash)
             /\ NextSignal
    /\ UNCHANGED <<riskVars, ledgerVars, strategyVars, marketVars,
                   halt, lastReconcile, lastSeen, queue, feedVars>>

\* What an exit sells: the lot or, without one, the position of the manager.
ExitQty(s) == IF lots[s] > 0 THEN lots[s] ELSE positions[s]

HandleExit ==
    /\ Turn("sell")
    /\ ExitQty(Head(batch).sym) > 0
    /\ order' = [NoLocals EXCEPT !.qty = ExitQty(Head(batch).sym)]
    /\ pc' = "submit"
    /\ UNCHANGED <<riskVars, ledgerVars, mode, phase, at, list, batch, strategyVars,
                   marketVars, halt, lastReconcile, lastSeen, queue, feedVars>>

\* An exit of what was never entered.
UnknownExit ==
    /\ Turn("sell")
    /\ ExitQty(Head(batch).sym) = 0
    /\ Raise
    /\ UNCHANGED <<riskVars, ledgerVars, strategyVars, marketVars,
                   halt, lastReconcile, lastSeen, queue, feedVars>>

-----------------------------------------------------------------------------
(* submit_buy, submit_sell under _with_backoff.                            *)

Current == Head(batch)
Acceptable == Current.side = "sell" => Covered(Current.sym, order.qty)

SubmitAccepted ==
    /\ pc = "submit"
    /\ Acceptable
    /\ \E id \in Free :
          /\ book' = Placed(id, Current, order.qty)
          /\ order' = [order EXCEPT !.id = id]
    /\ pc' = "poll"
    /\ UNCHANGED <<riskVars, ledgerVars, mode, phase, at, list, batch, strategyVars,
                   clockVars, holdings, halt, lastReconcile, lastSeen, queue, feedVars>>

\* Mutant: the attempts are never over.
RetryOrRaise_Forever ==
    /\ order' = [order EXCEPT !.tries = IF @ < MaxRetries THEN @ + 1 ELSE 0]
    /\ UNCHANGED <<pc, mode, phase, at, list, batch>>

\* KisClientError: try again, or give up with ExecutorError.
RetryOrRaise ==
    \/ /\ order.tries < MaxRetries
       /\ order' = [order EXCEPT !.tries = @ + 1]
       /\ UNCHANGED <<pc, mode, phase, at, list, batch>>
    \/ /\ order.tries = MaxRetries
       /\ Raise

SubmitRefused ==
    /\ pc = "submit"
    /\ "refuse" \in Faults \/ ~Acceptable \/ Free = {}
    /\ RetryOrRaise
    /\ UNCHANGED <<riskVars, ledgerVars, strategyVars, marketVars,
                   halt, lastReconcile, lastSeen, queue, feedVars>>

\* The order was placed, but its answer did not arrive.
SubmitLost ==
    /\ pc = "submit"
    /\ "lost" \in Faults
    /\ Acceptable
    /\ \E id \in Free : book' = Placed(id, Current, order.qty)
    /\ RetryOrRaise
    /\ UNCHANGED <<riskVars, ledgerVars, strategyVars, clockVars, holdings,
                   halt, lastReconcile, lastSeen, queue, feedVars>>

-----------------------------------------------------------------------------
(* _resolve_fill and what the handlers do with its outcome.                *)

\* Mutant: the new position's minute bars are not subscribed.
EntryFilled_Unwatched(s, qty) ==
    /\ RM!RecordEntry(s, qty)
    /\ lots' = [lots EXCEPT ![s] = qty]
    /\ guarded' = guarded \union {s}
    /\ events' = Append(events, [side |-> "buy", sym |-> s, qty |-> qty])
    /\ NextSignal
    /\ UNCHANGED feedVars

EntryFilled(s, qty) ==
    /\ RM!RecordEntry(s, qty)
    /\ lots' = [lots EXCEPT ![s] = qty]
    /\ guarded' = guarded \union {s}
    /\ events' = Append(events, [side |-> "buy", sym |-> s, qty |-> qty])
    /\ Subscribe({s})
    /\ NextSignal

\* Mutant: the lot is not removed.
ExitFilled_KeepsLot(s) ==
    /\ \E pnl \in Pnls : RM!RecordExit(s, pnl)
    /\ guarded' = guarded \ {s}
    /\ events' = Append(events, [side |-> "sell", sym |-> s, qty |-> order.qty])
    /\ Unsubscribe(s)
    /\ NextSignal
    /\ UNCHANGED lots

ExitFilled(s) ==
    /\ \E pnl \in Pnls : RM!RecordExit(s, pnl)
    /\ lots' = [lots EXCEPT ![s] = 0]
    /\ guarded' = guarded \ {s}
    /\ events' = Append(events, [side |-> "sell", sym |-> s, qty |-> order.qty])
    /\ Unsubscribe(s)
    /\ NextSignal

\* filled shares of the order are known to be filled; h: _halt so far.
Resolve(filled, h) ==
    \/ /\ Current.side = "buy" /\ filled > 0
       /\ EntryFilled(Current.sym, filled)
       /\ halt' = h
    \/ /\ Current.side = "buy" /\ filled = 0
       /\ NextSignal
       /\ halt' = h
       /\ UNCHANGED <<riskVars, ledgerVars, feedVars>>
    \/ /\ Current.side = "sell" /\ filled = order.qty
       /\ ExitFilled(Current.sym)
       /\ halt' = h
    \/ /\ Current.side = "sell" /\ filled < order.qty
       /\ Raise
       /\ halt' = TRUE
       /\ UNCHANGED <<riskVars, ledgerVars, feedVars>>

\* The order is not listed any more: taken for filled.
PollGone ==
    /\ pc = "poll" /\ order.id \notin Live
    /\ Resolve(order.qty, halt)
    /\ UNCHANGED <<strategyVars, marketVars, lastReconcile, lastSeen, queue>>

PollAgain ==
    /\ pc = "poll" /\ order.id \in Live
    /\ order.polls < MaxPolls
    /\ order' = [order EXCEPT !.polls = @ + 1]
    /\ UNCHANGED <<riskVars, ledgerVars, pc, mode, phase, at, list, batch, strategyVars,
                   marketVars, halt, lastReconcile, lastSeen, queue, feedVars>>

\* Mutant: what was ordered counts as filled.
PollTimeout_Requested ==
    /\ pc = "poll" /\ order.id \in Live
    /\ order' = [order EXCEPT !.filled = order.qty]
    /\ pc' = "cancel"
    /\ UNCHANGED <<riskVars, ledgerVars, mode, phase, at, list, batch, strategyVars,
                   marketVars, halt, lastReconcile, lastSeen, queue, feedVars>>

\* The deadline is over: what this answer says was filled is what counts.
PollTimeout ==
    /\ pc = "poll" /\ order.id \in Live
    /\ order' = [order EXCEPT !.filled = book[order.id].filled]
    /\ pc' = "cancel"
    /\ UNCHANGED <<riskVars, ledgerVars, mode, phase, at, list, batch, strategyVars,
                   marketVars, halt, lastReconcile, lastSeen, queue, feedVars>>

\* cancel_order; an order that is gone is as good as cancelled.
Cancel ==
    /\ pc = "cancel"
    /\ book' = [book EXCEPT ![order.id] = NoOrder]
    /\ Resolve(order.filled, halt)
    /\ UNCHANGED <<strategyVars, clockVars, holdings, lastReconcile, lastSeen,
                   queue>>

\* The cancellation failed to the end; it may have been carried out.
CancelFails ==
    /\ pc = "cancel"
    /\ "cancel" \in Faults
    /\ book' \in {book, [book EXCEPT ![order.id] = NoOrder]}
    /\ Resolve(order.filled, TRUE)
    /\ UNCHANGED <<strategyVars, clockVars, holdings, lastReconcile, lastSeen,
                   queue>>

-----------------------------------------------------------------------------
(* The end of the day and the queue.                                       *)

\* The exchange closes after the last sweep; day orders do not survive.
Closing ==
    /\ Resting /\ open
    /\ open' = FALSE
    /\ book' = [id \in Tickets |-> NoOrder]
    /\ UNCHANGED <<riskVars, ledgerVars, sweepVars, dated, clock, opened, holdings,
                   halt, lastReconcile, lastSeen, feedVars>>

CloseMarket ==
    /\ Intraday
    /\ Closing
    /\ UNCHANGED <<believed, done, fed, queue>>

\* _on_eod_signal: the daily bars, stamped 09:00, go through on_bar one symbol
\* after the other, then the signals are enqueued.  Symbols without a daily
\* bar are skipped.  The loop ends at a symbol that on_bar has seen a later
\* minute bar of, or whose bars cannot be fetched; then nothing is enqueued.
Stamp0900 == opened + 1

EodSignal ==
    /\ ~Intraday
    /\ Closing
    /\ \E n \in 0..Len(Universe) :
       \E fetched \in SUBSET {Universe[i] : i \in 1..n} :
       \E S \in SUBSET fetched :
          /\ \A s \in fetched : Accepts(s, Stamp0900)
          /\ React(S, believed, done)
          /\ fed' = [s \in Symbols |-> IF s \in fetched THEN Stamp0900 ELSE fed[s]]
          /\ \/ /\ n = Len(Universe)
                /\ queue' \in {queue \o new : new \in SignalsOf(believed, S)}
             \/ /\ n < Len(Universe)
                /\ ~Accepts(Universe[n + 1], Stamp0900) \/ "fetch" \in Faults
                /\ UNCHANGED queue

-----------------------------------------------------------------------------
(* The broker and the market.                                              *)

Tick ==
    /\ Resting /\ open
    /\ clock < opened + MaxMinutes
    /\ clock' = clock + 1
    /\ UNCHANGED <<riskVars, ledgerVars, sweepVars, strategyVars, opened, open, holdings,
                   book, halt, lastReconcile, lastSeen, queue, feedVars>>

Broker(s, shares, id, o) ==
    /\ holdings' = [holdings EXCEPT ![s] = shares]
    /\ book' = [book EXCEPT ![id] = o]
    /\ UNCHANGED <<riskVars, ledgerVars, sweepVars, strategyVars, clockVars,
                   halt, lastReconcile, lastSeen, queue, feedVars>>

\* One more share of an order is traded.
Fill == \E id \in Live :
    LET o == book[id]
        delta == IF o.side = "buy" THEN 1 ELSE -1
    IN  /\ o.filled < o.qty
        /\ Broker(o.sym, holdings[o.sym] + delta, id, [o EXCEPT !.filled = @ + 1])

\* A filled order leaves the list of pending orders.
Settle == \E id \in Live :
    /\ book[id].filled = book[id].qty
    /\ Broker(book[id].sym, holdings[book[id].sym], id, NoOrder)

\* The exchange drops an order that is not filled.
Drop == \E id \in Live :
    /\ "drop" \in Faults
    /\ Broker(book[id].sym, holdings[book[id].sym], id, NoOrder)

-----------------------------------------------------------------------------

Submit == SubmitAccepted \/ SubmitRefused \/ SubmitLost
ResolveFill == PollGone \/ PollAgain \/ PollTimeout \/ Cancel \/ CancelFails
Handle == SkipEntry \/ EvaluateEntry \/ HandleExit \/ UnknownExit
Sweep == Reconcile \/ NextSymbol \/ ProcessBar \/ RefuseBar \/ OnTime \/ SignalsDone
         \/ ReadFails \/ Handle \/ Submit \/ ResolveFill
Session == Start \/ Restore \/ CloseMarket \/ EodSignal
Environment == Tick \/ Fill \/ Settle \/ Drop

Next == Session \/ Step \/ ForceCloseAll \/ Sweep \/ Environment

Spec == Init /\ [][Next]_vars

-----------------------------------------------------------------------------
(* Properties.                                                             *)

SignalType == [side : {"buy", "sell"}, sym : Symbols]
EventType == [side : {"buy", "sell"}, sym : Symbols, qty : Nat \ {0}]
OrderType == [sym : Symbols, side : {"buy", "sell"}, qty : Nat \ {0}, filled : Nat]
LocalsType == [qty : Nat, tries : Nat, id : Tickets \union {0}, polls : Nat, filled : Nat]

ExecutorType ==
    /\ lots \in [Symbols -> Nat] /\ guarded \subseteq Symbols
    /\ halt \in BOOLEAN /\ lastReconcile \in {"none", "match", "mismatch"}
    /\ lastSeen \in [Symbols -> Nat]
    /\ queue \in Seq(SignalType) /\ events \in Seq(EventType)

Trading == pc \in {"submit", "poll", "cancel"}
Sent == pc \in {"poll", "cancel"}

SweepType ==
    /\ pc \in {"returned", "raised", "signals", "reconcile", "bars", "time",
               "submit", "poll", "cancel"}
    /\ mode \in {"step", "close"} /\ phase \in {"flush", "bars", "time"}
    /\ at \in 1..(Len(Universe) + 1) /\ list \subseteq Nat
    /\ batch \in Seq(SignalType) /\ order \in LocalsType
    /\ Trading => batch # <<>> /\ order.qty > 0
    /\ Sent => order.id \in Tickets

WorldType ==
    /\ believed \subseteq Symbols /\ done \subseteq Symbols
    /\ dated \subseteq Symbols /\ fed \in [Symbols -> Nat]
    /\ subs \subseteq Symbols /\ since \in [Symbols -> Nat]
    /\ clock \in Nat /\ opened \in Nat /\ open \in BOOLEAN
    /\ holdings \in [Symbols -> Nat]
    /\ book \in [Tickets -> OrderType \union {NoOrder}]

\* The state has its types; an order in progress has its signal and its
\* quantity, and once it is sent its ticket.
TypeOK == RM!TypeOK /\ ExecutorType /\ SweepType /\ WorldType

\* The lots of the Executor are the positions of the RiskManager in every
\* state, so that the fallback of _handle_exit is never taken
\* (executor.py:999: on the normal path the lot cannot be missing).
LotsArePositions == lots = positions

\* A position is watched: its minute bars arrive, so its stop can be seen.
HeldIsWatched == RM!Held \subseteq subs

\* The RiskManager is used as it expects: whatever the broker does between an
\* approval and the fill, an entry is recorded while the approval still holds
\* and with no more shares than were approved.
RiskManagerProtocol == RM!Spec

NewBuy == \E id \in Free : book'[id].side = "buy"

\* No purchase is sent in a halt, whatever set it; and after the flush of the
\* opening orders none before the account was found to be as recorded
\* (reconcile: a mismatch blocks new entries until the next start_session).
BuysAreCleared ==
    [][NewBuy => ~IsHalted /\ (phase = "flush" \/ lastReconcile = "match")]_vars

\* What the order in progress has sold of s so far.
SoldNow(s) ==
    IF pc \in {"poll", "cancel"} /\ Current = Signal("sell", s)
    THEN IF order.id \in Live THEN book[order.id].filled ELSE order.qty
    ELSE 0

\* No position is larger than what the account holds, as long as nothing is
\* halted: through timeouts, partial fills, fills between the last poll and
\* the cancellation, and failed cancellations.
NoPhantomLong ==
    (lastReconcile = "match" /\ ~halt) =>
        \A s \in Symbols : holdings[s] + SoldNow(s) >= positions[s]

-----------------------------------------------------------------------------

\* What the proofs carry along.  The broker never sells more than the account
\* holds: at most one sale of a symbol is unfinished, and it is covered.
BookIsCovered ==
    /\ \A id \in Live : book[id].filled <= book[id].qty
    /\ \A id \in Live :
          book[id].side = "sell" =>
              book[id].qty - book[id].filled <= holdings[book[id].sym]
    /\ \A i, j \in Live :
          (i # j /\ book[i].side = "sell" /\ book[j].side = "sell"
                /\ book[i].sym = book[j].sym)
              => book[i].filled = book[i].qty \/ book[j].filled = book[j].qty

\* What was decided about the order in progress still holds when it is filled.
OrderIsDecided ==
    /\ (Trading /\ Current.side = "buy") =>
          /\ ~halt
          /\ \E price \in Prices, cash \in CashLevels :
                RM!Approves(Current.sym, price, cash) /\ order.qty = RM!EntryQty(price)
    /\ (Trading /\ Current.side = "sell") => order.qty = positions[Current.sym]
    /\ (pc = "poll" /\ order.id \in Live) => book[order.id].qty = order.qty
    /\ pc = "cancel" => order.filled <= order.qty

\* After the flush nothing is traded before the account was compared.
ReconciledFirst ==
    /\ lastReconcile = "mismatch" => halt
    /\ Resting => phase = "flush"
    /\ (pc \in {"bars", "time"} \/ ((pc = "signals" \/ Trading) /\ phase # "flush"))
          => lastReconcile # "none"

\* The inductive invariant.
ExecutorInv ==
    TypeOK /\ BookIsCovered /\ LotsArePositions /\ HeldIsWatched
    /\ OrderIsDecided /\ ReconciledFirst

\* Every sweep returns or raises: retries and polls are bounded.
SweepEnds == ~Resting ~> Resting

FairSpec == Spec /\ WF_vars(Sweep)
=============================================================================
