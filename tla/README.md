# Formal model of the Korean stock trading system

TLA+ modules for `src/stock_agent`, checked with TLC on small instances and, for
what matters most, proved with TLAPS for every value of the constants. Paths
below are relative to the repository root.

## 1. The system

A single process trades Korean stocks on a paper account. APScheduler starts
callbacks at fixed times; they drive an `Executor` that asks a strategy for
signals, a `RiskManager` for permission and a broker adapter for orders.

| part | state it keeps | operations | what must be right |
|---|---|---|---|
| `main.py` | `SessionStatus` | session start 09:00, step every minute 9-14 h, force close 15:00 (intraday strategies only), daily report 15:30, end-of-day signal 15:35 (daily strategy) | what is traded is recorded; one failing callback does not hurt the next; callbacks that overlap do not mix |
| `execution/executor.py` | open lots, halt, last reconcile, processed-bar markers, pending signals, events of the sweep | `start_session`, `restore_session`, `enqueue_pending_signals`, `step`, `force_close_all`, `reconcile` | lots = positions; no position the account does not hold; no purchase in a halt or before a reconcile; every sweep ends |
| `risk/manager.py` | date, capital, profit of the day, entries of the day, positions | `start_session`, `restore_session`, `evaluate_entry`, `record_entry`, `record_exit` | the caps hold through exits and restarts; the breaker works |
| `broker/kis_client.py`, `broker/rate_limiter.py` | time stamps of the last calls | order, pending orders, cancel, balance | at most `max_calls` orders in a period, `min_interval` between two |
| `data/realtime.py` | per symbol: last tick, current bar, closed bars | `start`, `subscribe`, `unsubscribe`, `get_minute_bars`, tick, polling thread | bars are complete, ordered and of the subscribed symbols |
| `strategy/orb.py`, `strategy/rsi_mr.py` | per symbol: flat / long / closed, opening range, closes | `on_bar`, `on_time`, restores | one entry a day, an exit for every entry |
| `storage/db.py` | orders and daily results in SQLite, failure counter | record, load, close | what a restart reads is what happened |
| `monitor/notifier.py` | failure counter | four notifications | one alarm per outage |
| `data/historical.py` | daily bars in SQLite | fetch, called by the backfill script, the evening callback and `backtest/prev_close.py` | an answer from the table is what the source would have said |
| `data/kis_minute_bars.py` | minute bars in SQLite, shared by several processes | `stream`: a walk backwards over days and pages | a day in the table is whole; paging ends |
| `backtest/engine.py` | cash, lots, belief of the strategy | the loop over minute bars | the replay obeys the same limits as live trading |
| `backtest/dca.py`, `golden_cross.py`, `momentum.py`, `low_volatility.py`, `rsi_mr.py` | cash, lots, buffers of closes, holdings | five loops over daily bars, each with its strategy | no debt, no lost won, no look-ahead; strategy and account agree |
| `backtest/sensitivity.py`, `rsi_mr_sensitivity.py` and their scripts | a CSV of rows that outlives the process | grid, resume, pool of workers, flush, merge, report | a study stopped anywhere and resumed is the uninterrupted one |
| `backtest/walk_forward.py`, `scripts/walk_forward_rsi_mr.py`, `scripts/backtest.py` | windows, three files of a report | windows, verdicts, writes | each test window is new; a PASS is earned |
| the rest of `scripts/`, `safety.py`, `config.py`, calendar, universe, CSV loader | none | | not modelled, see section 5 |

What is hard here, and no unit test of the repository reaches, is what happens
*between* the parts: the broker fills while the Executor polls, an exception
leaves a sweep half done, the strategy changes its state before anything is
traded, a night or a restart comes between a signal and its order, yesterday's
data meets today's state, a cache is filled by one process while another reads
it, a study of hours is killed and taken up again. `PROJECT.json` lists each such
hazard at its line.

## 2. The modules

| module | code | how |
|---|---|---|
| `RiskManager` | `risk/manager.py` | one variable per field, one action per operation; `Approves` is `evaluate_entry`. `Spec` is also the **abstract specification** of what the manager's caller must do: record an entry only on an approval that holds now, at most with the approved quantity |
| `RateLimiter` | `broker/rate_limiter.py` | the deque is the part `head..` of the log of all stamps; `acquire` is split at `sleep_fn` |
| `Executor` | `execution/executor.py` with its strategy, bar source and broker | `RM == INSTANCE RiskManager`; one action per piece of a sweep between two broker calls |
| `TradingDay` | `main.py` with `storage/db.py` | the callbacks on the scheduler's worker threads, each split where another thread can come between, the ledger and the process that dies and starts again |
| `RealtimeStore` | `data/realtime.py` and the loop of `step` over its bars | one action per piece of code under the lock, or per call of the library outside of it |
| `BacktestEngine` | `backtest/engine.py` with `strategy/orb.py`, `backtest/costs.py` and the manager | `RM == INSTANCE RiskManager`; the loop over the bars, split where it calls a part |
| `MarketDays` | | what both sources have: days of trade, bars of a day, one clock |
| `MinuteBars`, `DailyBars` | `data/kis_minute_bars.py`; `data/historical.py` with `backtest/prev_close.py`, the evening callback and the backfill script | the loader of every process, split at each request and transaction; the daily cache, a call a step |
| `BarCaches` | | both caches under the clock of `MarketDays` |
| `PortfolioAccount` | what the five portfolio backtests share | stream, account, arithmetic of a trade, buffers |
| `DcaBacktest`, `GoldenCross`, `Rebalancing`, `RsiReversion` | `backtest/` and `strategy/` `dca`, `golden_cross`, `momentum` with `low_volatility`, `rsi_mr` | one action per bar, or per signal where the code makes several of one bar |
| `Portfolios` | | the five side by side, with the properties asked of all |
| `StudyProcess` | what the command lines share | runs, exit codes, exceptions, files of a report |
| `ParameterStudy` | `backtest/sensitivity.py`, `backtest/rsi_mr_sensitivity.py`, `scripts/sensitivity.py`, `scripts/c4_rsi_mr_sensitivity.py` | the grid as a function, the pool with its workers, the CSV with rows cut in the middle |
| `WalkForward`, `BacktestReport` | `backtest/walk_forward.py` with `scripts/walk_forward_rsi_mr.py`; `scripts/backtest.py` | windows and verdicts; pipelines and reports |
| `Studies` | | the command lines side by side |
| `OrderGateProofs` (`RiskManager` and `RateLimiter`), `ExecutorProofs`, `TradingDayProofs`, `RealtimeStoreProofs`, `BacktestEngineProofs`, `BarCachesProofs`, `PortfolioProofs`, `StudiesProofs` | | the theorems |
| `MCRiskManager`, `MCExecutor`, `MCTradingDay`, `MCBacktestEngine`, `MCBarCaches`, `MCPortfolios`, `MCStudies` | | values of the constants for TLC |

### Executor: state and actions

The Executor's fields are `lots`, `guarded` (lots with a stop price), `halt`,
`lastReconcile`, `lastSeen`, `queue` and `events`; those of the RiskManager
appear under their own names. `pc` says where the sweep in progress is, `mode`
and `phase` which call it is and whose signals it processes, `at` and `list` are
the two loop variables of `step`, `batch` the signals not yet processed, `order`
the locals of the order in progress.

| code | actions |
|---|---|
| `_on_session_start` -> `start_session` / `restore_session` | `Start`, `Restore` |
| `step`, `force_close_all` up to the first broker call | `Step`, `ForceCloseAll` |
| `reconcile` | `Reconcile` (the balance is read and compared in one step) |
| the bar loop, the stop guard, `on_bar`, `on_time` | `NextSymbol`, `ProcessBar`, `RefuseBar`, `OnTime` |
| `_process_signals` | `SignalsDone`, and `NextSignal` at the end of each handler |
| `_handle_entry` | `SkipEntry`, `EvaluateEntry`, then the order |
| `_handle_exit` | `HandleExit`, `UnknownExit`, then the order |
| `_with_backoff` around an order | `SubmitAccepted`, `SubmitRefused`, `SubmitLost` (accepted, but the answer is lost: the retry orders again) |
| `_with_backoff` around a read | `ReadFails` (the attempts have no effect, so they are one step) |
| `_resolve_fill` | `PollGone`, `PollAgain`, `PollTimeout`, `Cancel`, `CancelFails` |
| `_on_eod_signal` -> `enqueue_pending_signals` | `EodSignal` |
| the exchange and the broker | `Tick`, `Fill`, `Settle`, `Drop`, `CloseMarket` |

Abstractions. Prices, cash and profits are drawn from small sets when the code
uses them. A strategy is the set of symbols it `believed` to be long in and those
it is `done` with today; whether its indicators fire is a choice. Minutes are
numbered through the days; a bar is its number. The broker fills one share at a
time, may list a filled order for a while (`Settle`), refuses a sale that the
account does not cover, and with the matching entry of `Faults` refuses, loses
answers, drops orders or fails reads and cancellations. A `DryRunOrderSubmitter`
is a broker that fills at once and is not told apart.

### TradingDay: state and actions

`day` and `time` are the scheduler's clock: 09:00, the later minutes of
`on_step`, 15:30, 15:35. `job` says where the one instance of each callback is
(`max_instances` is 1); at most `Workers` run, the others wait. `fills` is what
was traded, `orders` the rows of the ledger as indices into it, and
`entryEvents`, `exitEvents`, `report` are the three places an event passes on
its way there. `process` is `"up"`, `"closing"` once a signal came, or `"down"`;
`Fresh` is everything a new process forgets. Two history variables: `incidents`,
the days of which an operator was told that something went wrong, and
`overlapped`, that a sweep was in progress (`Sweeping`) while the last session
start had read the ledger and not yet replaced the positions. No guard reads them.

| code | actions |
|---|---|
| `_install_jobs`, the scheduler | `Tick` |
| `build_runtime`, `main`, a kill, `_graceful_shutdown` | `Boot`, `Exit`, `Crash`, `Shutdown` |
| `_on_session_start` | `StartFails`, `LoadOpenPositions`, then `StartSession` or `RestoreRaises` |
| `_on_step` with `Executor.step` | `StepSkipped`, `StepBegins`, the signals, `Reconcile`, `Bars`, `StepReturns`, `Record`, `StepEnds` |
| a signal | `EntryPasses`, `EntryFilled`, `ExitFilled`, `OrderRaises`, `OrderIsLost`, `SubscriptionRaises` |
| an exception in the sweep | `Raises`, in `OrderRaises`, `OrderIsLost`, `SubscriptionRaises`, `ReconcileRaises`, `BarsRaise` |
| `_on_daily_report`, `_on_eod_signal` | `DailyReport`, `EodSignal` |
| `SqliteTradingRecorder` | `Insert` with `Succeeds` and `Fails`; `OpenRows` and `Buys` are the replay |

Abstractions. Lots and positions are one set, as `ExecutorProofs` shows they
may be; an order is one step with an outcome, since `Executor` has its inside.
A process that dies in the middle of an order is therefore one that dies before
or after it. Quantities and profits are left out; a dry run fills without
changing the account. A callback of one worker can come between any two steps of
another.

### RealtimeStore: state and actions

`mode`, `started` and `closer` are the life of the store (`closer` is how far
`close` has got); `registered`, `current`, `bars` and `handle` are the keys and
the fields of `_accumulators`; `poller`, `todo`, `asked`, `succeeded` and
`failures` are the polling thread and its locals. `live` are the feeds that the
library delivers, `call` what a caller is in the middle of, `callback` the tick
that a feed or a poll is about to deliver. `seen`, `handed`, `alarms` and `strays`
are history; `strays` are the symbols whose feed nobody may know any more: an
`unsubscribe` has overtaken another thread's `subscribe`, or the library failed to
end the feed.

| code | actions |
|---|---|
| `start` | `StartWebsocket`, `StartPolling`, `StartRaises` |
| `close` | `Close`, `CloseFeeds`, `Disconnect` |
| `subscribe` | `Subscribe` (under the lock), `Attach` or `AttachRaises` (the library), `StoreHandle` (under the lock again) |
| `unsubscribe` | `Unsubscribe`, `Detach` |
| the websocket's callback | `Receive`, then `Deliver` with `OnTick` |
| `_polling_loop` | `SweepBegins`, `Poll`, `Deliver`, `SweepEnds` with `RecordSweepOutcome`, `PollerEnds` |
| the bar loop of `Executor.step`, `start_session` | `Sweep`, `StartSession` |

Abstractions. A tick is its minute and its price; volumes are always 0 in the
code. `Sweep` reads the bars and processes them in one step: `get_minute_bars`
returns a copy, so nothing that happens meanwhile is seen. Callers come from the
scheduler, which starts after the store, so nothing is subscribed before `start`
and the second half of `_try_connect_websocket` has nothing to do.

### BacktestEngine: state and actions

`cash`, `active` and `phantomLongs` are the engine's locals, `states` the
strategy's dictionary, `equity` the last entry of `daily_equity`. `pc` says where
`run` is, `then` where it goes when `signals` is empty. `ranges` (what a symbol's
bars of the session showed in the opening range) and `entered` are history: the
strategy forgets a day lazily, they forget it when the session starts.

| code | actions |
|---|---|
| the loop of `run` | `NextBar`, `BarOutOfOrder`, `EndOfStream`, `OpenSession` |
| `ORBStrategy.on_bar`, `on_time` | `OnBar`, `OnTime` with `ForceClose` |
| `_process_signals`, `_handle_entry`, `_handle_exit` | `HandleEntry`, `HandleExit`, `SignalsDone` |
| `_close_session` | `CloseSession`, `SessionClosed` |

Abstractions. A `Decimal` is an integer in a smaller unit (hundredths of a won
for a signal's price, ten thousandths for a fill's), so `int()` is a division
with rest. The signals of one `on_time` are a set: the code's order is that in
which the symbols came first, and no result depends on it. Trades, the counts of
refusals and the metrics are left out: nothing is decided by them.

### BarCaches: state and actions

`today` and `now` are the clock, `minuteDb` and `dailyDb` the two tables.
`loader` says for each process where it is in `stream`: `asOf` is the date the
code read before the walk, `cur` the day, `cursor` the time of the next page,
`day` the rows so far, `collected` what the caller will get. `spoiled` (bars a
complete answer did not deliver) and `fetched` (what the daily source was asked)
are history.

| code | actions |
|---|---|
| `stream`, `_collect_symbol_bars` | `Stream`, `LookUp`, `NextSymbol`, with `Earlier` the walk over the calendar |
| `_fetch_day`, its retries | `Page`, `Timeout`, `RateLimited` |
| the transaction; every other error, `close`, a crash | `Write`; `Fails` |
| `fetch_daily_ohlcv` | `Hit`, `Fetch`, `FetchNothing`, `FetchRaises`, called by `Backfill`, `EodBar`, `PrevClose` |

Abstractions. Prices are not told apart; a row is its day and minute. The source
answers a page short of rows, repeats the row behind the cursor, shows an earlier
day for a day without trade, and `MaxFlaws` pages have rows that cannot be read.
A daily row is `"live"` when it was fetched before the close of its day.

### Portfolios: state and actions

`baseline` says which backtest a run is of. `pc` is the place in the loop, `bar`
the bar in hand, `cash`, `lots` and `profit` the account, `equity` the last entry
of the curve, `latest` the last closes, `closes`, `seen` and `holdings` the
strategy. `period`, `exits`, `entries` and `snapshot` are those of a rebalancing.

| code | actions |
|---|---|
| `dca.py` | `DcaBar`, `DcaLiquidate` |
| `golden_cross.py` | `GoldenBuy`, `GoldenExit`, `GoldenBar` |
| `momentum.py`, `low_volatility.py` | `RebalanceBar`, `OnTime` or `NotDue`, `ExecuteExit`, `ExitsDone`, `AttemptBuy`, `EntriesDone`, `RebalanceOnBar` |
| `rsi_mr.py` | `StopLoss`, `TakeProfit`, `Enter`, `Pass` |
| the end of each run | `EndOfStream`, `Liquidate`, `Liquidated` |

Abstractions. Amounts are integers as in `BacktestEngine`. A standard deviation
is compared by its variance, an RSI by a product instead of a quotient.

### Studies: state and actions

A behaviour is one command line given `MaxRuns` times; data and dates (`inputs`)
may change between the runs, the files stay. `file` holds the rows of the CSV, of
which the last may be `"torn"` or, once read back, `"cut"`.

| code | actions |
|---|---|
| `main` up to the grid | `Begin`, `Refused`, `Load`, `LoadFails` |
| `run_sensitivity*`, `run_sensitivity_combos_parallel` | `Start`, `RunSingleCombo`, `ReadRow` and `ReadError` with `append_sensitivity_row`, `Drained` |
| the report | `Report`, `ReportFails`, `WriteCsv`, `WriteBreaks` |
| a kill | `Kill` |
| `walk_forward_rsi_mr.py` | `BeginWalk`, `ComputeWindow`, `Aggregate`, `WriteWalk` |
| `scripts/backtest.py` | `BeginReport`, `ReportRefused`, `NoSymbols`, one action for each pipeline, then the three files |
| `except` in `main` | `ComputingFails`, `TellsHalf` |

Abstractions. A combination is the tuple of its positions on the axes, what it
measures a constant; only the metrics that a verdict asks for are there. A file
is opened, written and closed in one step, and the step that fails leaves any
part of it.

## 3. The runs

Bounds: two symbols, so that one order's fate meets another's position; at most
two shares per order, so that "nothing", "some" and "all" differ; two orders in
the book, so that a lost answer can leave a second one; one or two days and one
or two minutes a day, so that a night lies between signal and order; account
100, position 40, loss limit 20, so that one loss trips the breaker.
`executor_overnight` takes one entry a day and a restored share of one symbol:
with the night, the restore and the partial fills that is already every path of
a sweep.
`trading_day` has two symbols, two minutes, two days and three fills, so that a
sale and a second purchase follow a first one and a night lies between signal
and order, and two worker threads, so that any two callbacks overlap; that makes
4.8 million states (two minutes). Its alarm threshold is 1: within two days no
operation can fail twice, alarm and then succeed again; the theorem is for every
threshold.
`realtime_store` has two symbols, three minutes, two prices and three ticks in
the present subscriptions (a tick of an accumulator that is gone counts no
more), so that a bar is extended, closed and followed by another, and a symbol
comes back while a tick of its old subscription is on its way; the alarm is due
at the first of two failing sweeps, the theorem is for every threshold.
`backtest` has two symbols, two days of four minutes (before, in and after the
opening range, and the time of the forced close) and six bars of four shapes, one
of them touching stop and target alike; the capital is such that a second
purchase is approved by the RiskManager and then refused for its slippage, and
the loss limit such that one stop halts the day.
`bar_caches` has one symbol and four days (a whole day of trade, a holiday the
calendar does not list, a day with one bar, a Saturday), three bars a day and
pages of two, two processes and two calls in all, so that a day takes two pages,
one process writes what the other has just missed, and the clock passes midnight
during a walk; one page has rows that cannot be read.
`portfolios` has two symbols on six days of three months, two prices, one place,
windows of two and three closes, and capital for one purchase but not for two.
`studies` has a grid of two by two, one or two workers, three runs with two faults
and two inputs, and 120 spans of months with two or three days, with
fifteen others that `generate_windows` refuses; the calendar has 13 months, so that no window
ends behind it.
The runs stop when dates, minutes, ticks and bars are used up, hence `CHECK_DEADLOCK FALSE`.

| run | question | answer |
|---|---|---|
| `risk_manager` | do counters, cap, positions and breaker fit together through every order of calls, two days and a restore? | yes |
| `rate_limiter` | do both limits hold although the wait is computed once and a sleep may end late? | yes |
| `executor_overnight` | daily strategy, two days, restore, partial fills | lots are positions, positions are subscribed, the RiskManager is used as its `Spec` demands |
| `executor_intraday` | intraday strategy with retries, force close and failing cancellations | no position exceeds the account while nothing is halted, every sweep ends |
| `executor_faults` | all faults at once with retries | the inductive invariant and the purchases' clearance survive |
| `trading_day` | daily strategy, two workers, dry run or not, every fault of broker, ledger and host, signals and restarts | what is traded is recorded or its day has a report; one alarm per outage; a session start that no sweep overlaps gives back what was held; a bar loop buys only when positions and account agree, as long as no session start has discarded the comparison |
| `realtime_store` | websocket or polling, subscriptions that come and go, attaching and polling that fail, a close at any point | bars are those of the ticks and in the order of time, each is processed once, one alarm per outage, the polling thread ends |
| `backtest` | any stream of bars, in order or not, with gaps and days that end early | belief, lots and refusals are in step, account and RiskManager agree on every won, no debt, entries are breakouts of their day and one a day |
| `bar_caches` | two processes on one minute cache, one on the daily one, every fault | a day in the table is over and whole, a caller gets past days whole or not at all, an answer of the daily table reaches back as far as the fetch of its last row, every step of a stream takes it closer to its end |
| `portfolios` | each of the five backtests over every series of bars, days without bars included | strategy and account agree on what may be held and on the places, money is neither lost nor owed, a rebalancing sees earlier days only, a month is bought once |
| `studies` | the command lines with exceptions, kills and changed data anywhere | a resumed grid comes to the file and the verdict of an uninterrupted one, one combination is lost at most, flushed rows stay until the final write, windows roll, a PASS has what it needs |
| `overlapping_callbacks` | *violated*: `main.py:37` says the Executor is called from the scheduler's thread only | there are worker threads, and session start and first step are due in the same second: the step buys, the session start, which has already read an empty ledger, forgets the position |

Type invariants, the cap of the day's entries, the length of the limiter's deque
and its inductive invariant, `FeedsAreKnown` and `NeverOutOfSync` are proved
(section 4) for every value of the constants, so no run asks for them again. Every
other property of the passing runs has a theorem too, except the two of liveness.

Why `NoPhantomLong` is not asked under every fault. A sale whose answer is lost,
an order the exchange drops and a poll that cannot be read to the end
(`executor.py:1108` raises without a halt and without cancelling) all let the
account fall behind a position until the next reconcile: the property is
violated as soon as `"lost"`, `"drop"` or `"read"` is among `Faults`. What still
holds then, and is checked in `executor_faults` and proved, is that the next
purchase of the bar loop comes after a reconcile that found the two equal.

`BlockingScheduler` (`main.py:201`) has APScheduler's default pool of ten
threads, and none of the callbacks takes a lock. What a second one breaks, and
what it leaves, is this:

* The positions. `HeldIsRecorded` is violated in `overlapping_callbacks`: the step
  buys between the session start's query and its `restore_session`. In
  `trading_day` the same invariant is asked of every session whose start no sweep
  overlapped (`HeldUnlessOverlapped`): ledger and replay are sound, the order of
  the callbacks is what is not. An overlap counts until the next session start,
  which replaces the positions anew.
* The purchases. `reconcile` and the bar loop are two steps of one callback, and a
  session start in between replaces the positions, lifts the halt and sets
  `last_reconcile` to none. TLC finds the case with two workers: the session start
  reads an empty ledger, the step of the same second buys `a` and compares
  (equal), the session start replaces the positions by none, and the bar loop
  buys `a` a second time, although the account holds it. So "every purchase of the
  bar loop finds positions and account equal" is false of the program.
  `PurchasesAreBacked` says that this is the only way: a purchase has a comparison
  that found the two equal, and they still are, or a session start has taken its
  comparison away (`checked = "none"`).

The replay needs one purchase per symbol and day (`Replayable`), as the
comment at `db.py:583` does: `main.py:581` records all entries of a sweep before
its exits, so a symbol that one flush buys, sells and buys again (which takes
the signals of three evenings whose session starts failed) is replayed as sold.

`realtime_store` has one caller and no late ticks. `subscribe` registers the
symbol, attaches the feed outside of the lock and stores the handle after it
(`realtime.py:283-286`, `:416-419`): an `unsubscribe` of another thread between
the two finds no handle, and the feed stays. An error of the library's
`unsubscribe` is swallowed, and the feed stays as well. Two callers are possible, as
`overlapping_callbacks` shows; "every live feed is known" is violated with two
elements in `Callers`. `FeedsAreKnown` is therefore stated, and proved for every
number of callers and every fault, of the symbols that have met neither of the
two (those that have are in `strays`). Two callers and a feed that does not end
make more states than a run takes with these bounds; TLC has checked them with
smaller ones.

A websocket tick carries the exchange's time. One of the minute
before, after the first of a new minute (`"late"` in `Faults`), closes the new
bar and opens one of the old minute: the bars are not in the order of time that
`realtime.py:322` promises, and the Executor passes over what is not later than
the last bar it saw. `BarsInTimeOrder` and `OldBarsWereProcessed` are violated
then, `BarsAreTheTicks` is not.

`BreakerIsReported` leaves out a loss limit that rounds to 0, which takes a
capital of a few dozen won: such a session starts halted and logs no trip.

### What the model shows and no run states

* A flushed signal that raises takes those behind it with it: `executor.py:707`
  empties the queue before its signals are processed, while
  `docs/adr/0027...:103` says after.
* `reconcile` compares account and positions. An opening order that is refused or
  filled with nothing is in neither, so the strategy goes on believing in it,
  while `docs/adr/0027...:116` says the next reconcile finds it.
* A position restored into the daily strategy has no stop (`executor.py:643`) and
  `RSIMRStrategy` does not hold it, so no bar closes it, while the comment at
  `executor.py:636-638` expects the next daily bar to.
* `start_session` forgets which bars were processed, the bar source keeps those
  of a subscription over the night: yesterday's bars are handed to `on_bar` again.
* When `step` raises, the events of the sweep so far never reach the ledger; only
  the force close callback reads `last_sweep_*_events`.
* A process started after 09:00 never runs the session start of that day, hence
  restores nothing, although `docs/adr/0014...:75` speaks of an exact restore; its
  daily report is that of no session.
* On a day whose session start failed the daily report files the RiskManager's
  session, which is that of the day before, under today's date (`main.py:801`),
  while `main.py:772` calls it the summary of the day.
* The numbers of a dry run begin at `DRY-0001` in every process and are the
  primary key of the ledger: a second process on the same file can record none
  of its orders until it is past the highest number (the storage warning is what
  `LossIsReported` counts as the report).
* `force_close_all` closes what the
  *strategy* believes to be long (`executor.py:759`). A position whose exit failed
  before is not among it, so the call returns without an error and leaves the
  position; and a symbol the stop guard has sold still is among it, so its exit
  raises for a missing entry and those behind it are not tried. Only an intraday
  strategy is exposed, and `main.py:307` always builds the daily one.

* A symbol whose feed could not be attached stays registered, so the next
  `subscribe` returns early (`realtime.py:281`): it has no ticks until somebody
  unsubscribes it.
* A quote that arrives after its symbol was unsubscribed is dropped and still
  counts as a success of the sweep, while `realtime.py:176-184` says that a
  symbol was updated.
* `is_halted` is computed from the present profit: a winning exit opens the gate
  again, while `docs/operations-playbook.md:103-112` says that the breaker
  refuses every later entry.
* A queued exit raises at the next opening, because the session start has
  forgotten its position, while `main.py:379-381` says that it is left there. And
  `main.py:703-704` says that the signals of the evening are enqueued: one symbol
  that was fed minute bars makes the loop raise, and nothing is.

Caches.

* `historical.py:281-292` decides by the row of the range's last day. A range
  whose last day some other call has fetched is answered by what is there, so
  `scripts/backfill_daily_bars.py:21-24` does not fetch an earlier beginning:
  `HitsReachBack` says how far an answer can be relied upon. A row of today
  fetched before the close is stored, and served as final tomorrow.
* The retries of a timeout are counted per request, although the parameter is
  `http_max_retries_per_day`. A day given up is missing from the answer and
  nobody is told; `AnswersByWholeDays` says that it is missing as a whole.
* `stream` does not compare the end of a range with the clock
  (`kis_minute_bars.py:311-319`), and a symbol's walk reads the date once. The
  model has ranges up to today only: a walk that begins on one day, asks for the
  next day, and comes to it while that day is traded stores it unfinished;
  `CachedDaysAreWhole` is violated without the guard in `Stream`. The walk of one
  symbol takes minutes, not the hours between.
* The interface keeps a year (`kis_minute_bars.py:14`, `:512`); an older day is
  answered by nothing, is not stored and is asked for again by every call. The
  model's days are younger, so "whole" in `AnswersByWholeDays` means whole
  within that year: of an older day a caller gets nothing and is not told.
* A page none of whose times can be read ends its day like a short one, and the
  day is stored as complete; a row that cannot be read is in no answer ever.
  `spoiled` records both. A page whose earliest row cannot be read and whose rows
  come again is asked for again, with no bound but the broker's.

Portfolio backtests.

* A purchase that floors to no share or exceeds the cash is not made and the
  strategy is not told: it believes to hold what is not there. So
  `EveryLotIsBelieved` is an inclusion and not an equation, and places stay empty
  until the strategy sells. A month whose DCA purchase is not made is not tried again.
* A rebalancing trades at the last close of a symbol, of whatever day that is;
  `rebalance_day` is validated and used nowhere. A buffer without any change
  counts as an RSI of 100.
* At the end of a DCA run the lots are closed as trades without touching the
  cash: `MoneyAddsUp` is asked of it until then.

Studies.

* Rows are flushed to a `.tmp` that replaces the CSV, the final `write_csv`
  writes in place. A kill or a full disk there loses rows that were flushed, or
  tears a line; then every `--resume` fails, or takes a last number that lost
  digits for the measured one. `docs/runbooks/step_a_home_resume.md:11` and `:68` and
  `scripts/sensitivity.py:219` promise that one combination is lost at most; the
  properties say so up to the final write, and with one worker.
* `--resume A --output-csv B` flushes to B: A never grows, and a second stop
  measures again what the first run had done.
* Rows are found by their combination alone. A resume with other dates or data
  mixes rows of both; `ResumeIsUninterrupted` promises the verdict only when none is mixed.
* After an exception up to `workers + 1` combinations that were in the call
  queue are still measured (`Raises`), and their rows are thrown away.
* `--sort-by` of c4 does not reach its table, which sorts again.
* `--symbols ","` comes through `_resolve_symbols` as no symbol at all
  (`backtest.py:314-316`, and `sensitivity.py:321` says it cannot); every loader
  (`minute_csv.py:140`, `daily_bar_loader.py:86`, `kis_minute_bars.py:314`) and every
  strategy's configuration refuses it with the error an empty universe has, so in
  the model the two are one action (`NoSymbols`).
* A walk-forward whose training average is negative has a degradation of 0 and may
  PASS (`walk_forward.py:276`); the doc at `:97` speaks of an average of 0 only. Spans that begin after the 28th have
  test windows that overlap or leave days out, which the third part of
  `WindowsRoll` excludes.
* An error between two files of a report leaves those of two runs side by side
  (`told`).

### Fairness

`SweepEnds` is checked under `WF_vars(Sweep)`: a call of `step` or
`force_close_all` that runs goes on running. That is what the interpreter does;
nothing is assumed of the broker, the clock or the market, which may stand still
for ever. The property holds because the polls are bounded by the deadline
(`MaxPolls`) and the attempts by `backoff_max_attempts`.

`PollingStops` is checked under `WF_vars(Poller)`: the polling thread runs on and
a request returns, with a price or without. `close` joins the thread with a
timeout, so nothing else waits for it.

## 4. The proofs

`tlapm` checks every theorem to the last leaf, for every universe, account,
price set, number of retries and polls and every set of faults. The assumptions
are those of the constants: for the caches a page of at least two rows
(`_PAGE_SIZE` is 120), for the portfolios rates of at most the whole amount and
months in the order of their days (`RiskConfigAssumption` is what
`RiskConfig.__post_init__` enforces; `IntervalWithinPeriod` is not enforced by
the limiter's constructor but true of the only configuration the code uses), for
the windows a calendar that goes on behind the span (`CalendarAssumption`; dates do).

Beside those, three results have a hypothesis about faults, none about the number
of threads:

| hypothesis | says | result | without it |
|---|---|---|---|
| `BrokerAnswers` | no answer is lost, no order dropped, a read succeeds within its attempts | `NoPhantomLongs` | violated, section 3 |
| `InTime` | a feed delivers in the order of time | `BarsAreOrdered`, `NoBarIsPassedOver` | violated, section 3 |

* `OrderGateProofs`, of the RiskManager: types; open positions were entries of the day
  (cardinality argument: an exit removes one position, an entry adds one and
  counts one); the cap; the breaker is reported. Of the limiter: both limits and
  the length of the deque. `WindowKept`
  alone is not inductive: the invariant adds that what was purged is a period
  old (`PurgedIsOld`), that stamps lie in the past and that a sleep ends late
  enough for both limits (`SleepLongEnough`), which replaces the second
  computation of the wait that the code does not make.
* `ExecutorProofs`: first types together with `BookIsCovered` (the account
  cannot become negative because at most one sale of a symbol is unfinished and
  covered). Then `ExecutorInv`, which adds `OrderIsDecided`: while an order is
  on its way, what was approved still holds, since nothing but the order in
  progress may change the RiskManager. From it follow `LotsArePositions`,
  `HeldIsWatched`, the **refinement** `Spec => RM!Spec` (every step is an
  operation of the RiskManager called within its protocol, or a stutter), the
  cap of the day as a corollary of what was proved of the RiskManager alone, and
  `BuysAreCleared`. `NoPhantomLong` is not inductive: a sale in the book may
  take from the account what the position still counts. `HeldInv` adds that
  without a halt the book has no order but the one in progress (`OrderIsAlone`),
  and how far this one is (`OrderIsKnown`): what an answer said of it is not more
  than what it traded, and what it bought is in the account. So what a sale has
  taken is what its resolution is going to take from the position, and what a
  purchase is going to add is there already. Both need every answer to arrive:
  that is `BrokerAnswers`.
* `TradingDayProofs`: types, `AlarmAtThreshold`, and `LossIsReported` for every
  number of workers and every set of faults. `LossIsReported` is not inductive:
  `LossInv` adds `EventsInSweep`, that the events of a sweep are those of fills of
  the present day and that there are none when no sweep runs. It holds because
  `Tick` leaves the day only when no callback runs: a sweep may take longer than
  a minute, not longer than a night. `PurchasesAreBacked`: from the comparison on
  every fill moves account and positions alike, and only a session start moves the
  positions without the account; it takes the comparison away in the same step
  (`Backed`). `HeldUnlessOverlapped`: what the other callbacks do between the two
  reads of a session start and `restore_session` cannot matter unless a sweep is on,
  and then it was noted (`Noted`). It speaks of
  moments when nothing is in flight; `HeldFits` says of every moment what is held,
  as if the events on their way were already rows, exits behind entries. It needs
  that the three lists keep that order and hold no fill twice (`Sides`, `Once`), that
  a session starts before anything of its day is read (`SessionFits`) and that the
  ledger is the same at both reads of a session start (`LoadedFits`).
* `RealtimeStoreProofs`: types, `AlarmOncePerOutage`, and under the assumption
  `InTime` that no tick is late `BarsInTimeOrder` and `OldBarsWereProcessed`.
  `OrderInv` is the strengthening: closed bars lie before the current one, what
  was processed is a beginning of the list and lies before the current bar and
  before the tick on its way. `BarsAreTheTicks`, late ticks included: `TickInv`
  says that there are as many bars as runs of ticks of one minute, and that each
  bar tells its run (`Tells`); a further tick extends the last run and the last
  bar, or begins both (`SameRunGrows`, `NewRunBegins`). `FeedsAreKnown` for every
  number of callers: `FeedInv` says that each live feed of a symbol without a stray
  is known to its accumulator or to a call in progress (`KnownByStore`,
  `KnownByCall`), and that no two calls work on such a symbol.

* `BacktestEngineProofs`: types; `StrategyInStep` and `NeverOutOfSync` from
  `EngineInv`, which adds where the loop has got to with which bar (`LoopInv`),
  that a signal on its way is of a symbol it fits (`SignalInv`) and that who is
  long is so since today (`SyncInv`): without the last, a bar of the next day
  would reset a symbol that is held. `NoDebt` under `Commission + SellTax <= 100`
  percent, which `BacktestConfig` does not enforce: beyond it a sale costs more
  than it brings. `BreakoutOfTheDay` and `OneEntryADay` from `DayInv`: a state
  that is not of today has no range today. `MoneyAddsUp` folds an addition over
  the lots. What such a sum does when one lot comes or goes does not follow from the
  fold's definition without an argument about the order it chooses: `SumsDiffer`
  proves it by descent to a smallest part of the symbols for which it is
  wrong; `BooksInv` adds that a symbol without a lot costs nothing. The **refinement** `Spec => RM!Spec`,
  as for the Executor: replay and live trading keep the same protocol.

* `BarCachesProofs`: types; `CachedDaysAreWhole` and `AnswersByWholeDays` from
  `MinuteInv`. Neither is inductive: `Sound` adds what each process has in its
  hands (`PagedTo`: down to the cursor the day is whole; before the transaction
  the day is over and complete; `DatesSound`: a date that was read is not later
  than the clock's; `AnswersSound`: the days behind it). It holds of
  every process alone, since the others only add whole days, the clock only goes
  on and the source only spoils more (`StaysSound`). `DayEnds` and `DayGoesOn` are
  the argument about pages: a page that is full shows the latest rows, so what it
  lacks lies before its earliest. That there is an earlier business day, and a last
  session before a holiday, is the existence of a greatest element (`Greatest`, by
  well-foundedness). `StreamsAdvance` needs a page of two: with one row a page the
  row the interface repeats would be asked for again and again. `HitsReachBack` from
  `DailyInv`: each row has a fetch that ended on it and whose rows are all there.
* `PortfolioProofs`: types and `NoDebt` (what is paid is at most the cash the
  quantity was computed from, slippage and commission included; a sale brings
  something as long as the charges are at most the amount). `EveryLotIsBelieved`
  and `CapKept` need `PlaceInv` and `BeliefInv`: in the middle of a rebalancing a lot
  is one that is believed in or one whose exit is on its way, and the purchases
  come after the last exit. `OncePerMonth` needs `MonthInv`: no lot is of a
  later month than the last bar's, and none is of that month before the purchase.
  `MoneyAddsUp` as in the engine, with sums of sums: a symbol has a sequence of
  lots. No trade changes the `Balance` (`BuysBalances`, `SellsBalances`), and
  everything else leaves the account alone; the closing of a DCA run is the
  exception that section 3 names.
* `StudiesProofs`: types, and all properties of `studies`.
  The grid: `Combinations`, the odometer, lists every combination once. Its size, a
  fold over the axes, is the number of combinations (a bijection for each further
  axis), and each turn goes to the immediate successor in the lexicographic
  order, so that as many turns as there are combinations reach all of them.
  `FlushedRowsStay` from the types alone: every write of a row appends to what was
  read from the same file, and rows of the grid that a load kept stay in it.
  `OneCombinationIsLost` needs `PoolInv`: every combination is in the queue, in the
  one hand or in the file. `ResumeIsUninterrupted` needs `WriteInv`: what is about to
  be written has the whole grid, each combination once and in its order
  (`Gridded`), because the queue is exactly what the load left out (`RemainingIs`)
  and the merge sorts it in between (`MergedIs`). The verdict counts rows where the
  reference counts combinations, so it is carried over by a bijection (`Phase3Is`).
  `WindowsRoll` rests on the calendar: every day lies in one month (`MonthInIs`),
  the first days of the months grow, `AddMonths` lands in the month it should
  (`AddMonthsIs`), hence windows are in order and the first that does not fit is
  followed by none that does (`FirstUnfit`). `PassIsEarned` from the gates at the
  moment of the verdict, and from which files a run has told by then.

What recursion there is in the modules (`Remaining`, the first days of the months,
the partial sums of the proofs) is a recursive function. That there is a function
with the equation it is defined by, and what holds of its values, is proved by
induction over a set of numbers (`Upwards`), as the library's own induction
takes an operator.

Only model-checked: `SweepEnds` and `PollingStops`, which are liveness under
fairness; the disagreement that `overlapping_callbacks` shows; and the values that
a run gives the constants, of which the theorems know the assumptions only.

## 5. Not modelled yet, and why

* The force close of an intraday strategy on a thread of its own, the recorder
  that stands in when the ledger cannot be opened, rows that cannot be parsed.
* The restores of both live strategies after a restart: `main.py` builds the
  daily one, and calls none of them.
* `strategy/vwap_mr.py`, `strategy/gap_reversal.py`: two more session strategies
  of the minute backtest, with the states of `ORBStrategy` and other conditions.
* `monitor/notifier.py`: one message a call; its counter of failures and its
  alarm are those of the recorder once more, of which `AlarmAtThreshold` speaks.
* `data/minute_csv.py`, `data/spread_samples.py`, `data/universe.py`,
  `data/calendar.py`, `config.py`, `safety.py`: parsing, lookups and a filter in
  front of a library; they keep nothing between two calls.
* `backtest/metrics.py`: arithmetic on a finished run, in `Decimal`.
* The scripts not named in section 2 run once over a list.
* Text, formatting, logging: no state.

## 6. Plan

1. **`RiskManager`, `RateLimiter`, `Executor`**, **`TradingDay`**,
   **`RealtimeStore`**, **`BacktestEngine`** and their proofs: done.
2. **`BarCaches`**, **`Portfolios`**, **`Studies`** and their runs: done.
   **`BarCachesProofs`**, **`PortfolioProofs`**: done.
3. **`StudiesProofs`**, and with it a theorem for every safety property of the
   passing runs, under the two hypotheses of section 4: done.
4. Abstract specifications of the bar source and of the caches, with refinement.
5. The force close in `TradingDay`; `get_current_price` in `RealtimeStore`.
6. The other two session strategies in `BacktestEngine`; `Notifier`.
