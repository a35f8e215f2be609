--------------------------- MODULE RealtimeStore ---------------------------
(***************************************************************************)
(* src/stock_agent/data/realtime.py, the source of the Executor's bars.    *)
(* Four kinds of thread meet here: the callers (callbacks of the scheduler *)
(* that subscribe, unsubscribe and read bars), the websocket's thread or   *)
(* the polling thread that brings ticks, and the main thread that closes   *)
(* the store.  An action is what a thread does under the lock, or one call *)
(* of the library outside of it.                                           *)
(*                                                                         *)
(* A tick is its minute and its price: nothing finer is kept in a bar.     *)
(***************************************************************************)
EXTENDS Naturals, Sequences, FiniteSets

CONSTANTS
    Symbols,
    Callers,      \* threads that subscribe and unsubscribe
    Prices,
    MaxMinute,    \* bound: minutes
    MaxTicks,     \* bound: ticks of the present subscriptions
    FeedIds,      \* bound: feeds at a time
    Threshold,    \* _POLLING_FAILURE_ALERT_THRESHOLD
    MaxFailures,  \* bound: failed sweeps in a row
    Faults        \* what the library may do: see StoreAssumption

ASSUME StoreAssumption ==
    /\ Prices \subseteq Nat /\ FeedIds \subseteq Nat \ {0}
    /\ MaxMinute \in Nat /\ MaxTicks \in Nat /\ MaxFailures \in Nat
    /\ Threshold \in Nat \ {0}
    /\ Faults \subseteq {"keys", "attach", "detach", "quote", "late"}

VARIABLES
    minute,       \* the clock
    mode,         \* _mode: "idle", "websocket" or "polling"
    started,      \* _started
    closer,       \* close(): "open", "feeds", "disconnect", "closed"
    registered,   \* the keys of _accumulators
    current,      \* current_bar of an accumulator, or NoBar
    bars,         \* its closed_bars
    handle,       \* its subscription_handle, 0 = None
    live,         \* library: feeds that deliver ticks, [sym, id]
    call,         \* caller -> what it is in the middle of
    callback,     \* the tick a feed or a poll is about to deliver, or NoTick
    poller,       \* polling thread: "off", "wait", "sweep", "ended"
    todo,         \* ... symbols of the sweep not yet asked
    asked,        \* ... whether the sweep has symbols
    succeeded,    \* ... sweep_succeeded
    failures,     \* _polling_consecutive_failures
    lastSeen      \* Executor._last_processed_bar_time, 0 = none

VARIABLES         \* history
    seen,         \* the ticks an accumulator has taken
    handed,       \* how many of the closed bars this session has processed
    alarms,       \* critical messages since the last successful sweep
    strays        \* symbols that may have a feed nobody knows: an unsubscribe
                  \* has overtaken a subscribe, or a feed did not end

accVars == <<registered, current, bars, handle, seen, handed>>
pollVars == <<poller, todo, asked, succeeded, failures, alarms>>
lifeVars == <<minute, mode, started, closer>>
vars == <<lifeVars, accVars, live, strays, call, callback, pollVars, lastSeen>>

-----------------------------------------------------------------------------

NoBar == [minute |-> 0, open |-> 0, high |-> 0, low |-> 0, close |-> 0]
NoTick == [sym |-> "none", minute |-> 0, price |-> 0]
Idle == [pc |-> "idle", sym |-> "none", handle |-> 0]

NewBar(tick) ==
    [minute |-> tick.minute, open |-> tick.price, high |-> tick.price,
     low |-> tick.price, close |-> tick.price]

\* Mutant: the low is that of the first tick.
ExtendBar_KeepsLow(bar, tick) ==
    [bar EXCEPT !.high = IF @ >= tick.price THEN @ ELSE tick.price,
                !.close = tick.price]

ExtendBar(bar, tick) ==
    [bar EXCEPT !.high = IF @ >= tick.price THEN @ ELSE tick.price,
                !.low = IF @ <= tick.price THEN @ ELSE tick.price,
                !.close = tick.price]

Closed == closer # "open"
AllIdle == \A c \in Callers : call[c] = Idle

TicksLeft == Cardinality({x \in Symbols \X (1..MaxTicks) : x[2] <= Len(seen[x[1]])}) < MaxTicks

\* An accumulator that is new, or one that is gone.
Empty(s) ==
    /\ current' = [current EXCEPT ![s] = NoBar] /\ bars' = [bars EXCEPT ![s] = <<>>]
    /\ seen' = [seen EXCEPT ![s] = <<>>] /\ handed' = [handed EXCEPT ![s] = 0]

Init ==
    /\ minute = 1 /\ mode = "idle" /\ started = FALSE /\ closer = "open"
    /\ registered = {} /\ current = [s \in Symbols |-> NoBar]
    /\ bars = [s \in Symbols |-> <<>>] /\ handle = [s \in Symbols |-> 0]
    /\ seen = [s \in Symbols |-> <<>>] /\ handed = [s \in Symbols |-> 0]
    /\ live = {} /\ strays = {} /\ call = [c \in Callers |-> Idle] /\ callback = NoTick
    /\ poller = "off" /\ todo = {} /\ asked = FALSE /\ succeeded = FALSE
    /\ failures = 0 /\ alarms = 0 /\ lastSeen = [s \in Symbols |-> 0]

ClockTick ==
    /\ minute < MaxMinute /\ minute' = minute + 1
    /\ UNCHANGED <<mode, started, closer, accVars, live, strays, call, callback, pollVars,
                   lastSeen>>

-----------------------------------------------------------------------------
(* start and close, on the main thread.                                    *)

\* main.py starts the store before the scheduler: nobody else runs, and
\* nothing has been subscribed.
StartWebsocket ==
    /\ ~started /\ ~Closed
    /\ started' = TRUE /\ mode' = "websocket"
    /\ UNCHANGED <<minute, closer, accVars, live, strays, call, callback, pollVars, lastSeen>>

StartPolling ==
    /\ ~started /\ ~Closed
    /\ started' = TRUE /\ mode' = "polling" /\ poller' = "wait"
    /\ UNCHANGED <<minute, closer, accVars, live, strays, call, callback, todo, asked,
                   succeeded, failures, alarms, lastSeen>>

\* _build_pykis without live keys raises; main closes the store and ends.
StartRaises ==
    /\ ~started /\ ~Closed /\ "keys" \in Faults
    /\ started' = TRUE
    /\ UNCHANGED <<minute, mode, closer, accVars, live, strays, call, callback, pollVars,
                   lastSeen>>

Close ==
    /\ ~Closed /\ started
    /\ closer' = "feeds"
    /\ UNCHANGED <<minute, mode, started, accVars, live, strays, call, callback, pollVars,
                   lastSeen>>

\* The handles that are stored now.
CloseFeeds ==
    /\ closer = "feeds"
    /\ closer' = "disconnect"
    /\ live' = {f \in live : ~(f.sym \in registered /\ handle[f.sym] = f.id)}
    /\ UNCHANGED <<minute, mode, started, accVars, strays, call, callback, pollVars, lastSeen>>

Disconnect ==
    /\ closer = "disconnect"
    /\ closer' = "closed" /\ live' = {}
    /\ UNCHANGED <<minute, mode, started, accVars, strays, call, callback, pollVars, lastSeen>>

-----------------------------------------------------------------------------
(* The callers.                                                            *)

\* A symbol that is there is left alone, whether it has a feed or not.  The
\* callers come from the scheduler, so the store has been started.
Subscribe(c, s) ==
    /\ call[c] = Idle /\ ~Closed /\ mode # "idle" /\ s \notin registered
    /\ registered' = registered \union {s} /\ Empty(s)
    /\ call' = IF mode = "websocket"
               THEN [call EXCEPT ![c] = [pc |-> "attach", sym |-> s, handle |-> 0]]
               ELSE call
    /\ UNCHANGED <<lifeVars, handle, live, strays, callback, pollVars, lastSeen>>

FreeIds ==
    FeedIds \ ({f.id : f \in live} \union {handle[s] : s \in Symbols}
                 \union {call[c].handle : c \in Callers})

\* stock.on("price", ...)
Attach(c) ==
    /\ call[c].pc = "attach"
    /\ \E id \in FreeIds :
         /\ \A other \in FreeIds : id <= other
         /\ live' = live \union {[sym |-> call[c].sym, id |-> id]}
         /\ call' = [call EXCEPT ![c].pc = "store", ![c].handle = id]
    /\ UNCHANGED <<lifeVars, accVars, strays, callback, pollVars, lastSeen>>

AttachRaises(c) ==
    /\ call[c].pc = "attach" /\ (Closed \/ "attach" \in Faults)
    /\ call' = [call EXCEPT ![c] = Idle]
    /\ UNCHANGED <<lifeVars, accVars, live, strays, callback, pollVars, lastSeen>>

StoreHandle(c) ==
    /\ call[c].pc = "store"
    /\ handle' = IF call[c].sym \in registered
                 THEN [handle EXCEPT ![call[c].sym] = call[c].handle] ELSE handle
    /\ call' = [call EXCEPT ![c] = Idle]
    /\ UNCHANGED <<lifeVars, registered, current, bars, seen, handed, live, strays, callback,
                   pollVars, lastSeen>>

Subscribing(s) == \E c \in Callers : call[c].sym = s /\ call[c].pc \in {"attach", "store"}

Unsubscribe(c, s) ==
    /\ call[c] = Idle /\ ~Closed /\ mode # "idle" /\ s \in registered
    /\ registered' = registered \ {s} /\ Empty(s) /\ handle' = [handle EXCEPT ![s] = 0]
    /\ call' = IF handle[s] = 0 THEN call
               ELSE [call EXCEPT ![c] = [pc |-> "detach", sym |-> s, handle |-> handle[s]]]
    /\ strays' = strays \union {x \in {s} : Subscribing(x)}
    /\ UNCHANGED <<lifeVars, live, callback, pollVars, lastSeen>>

\* handle.unsubscribe(), whose errors are ignored.
Detach(c) ==
    /\ call[c].pc = "detach"
    /\ \/ live' = {f \in live : f.id # call[c].handle} /\ UNCHANGED strays
       \/ "detach" \in Faults /\ UNCHANGED live /\ strays' = strays \union {call[c].sym}
    /\ call' = [call EXCEPT ![c] = Idle]
    /\ UNCHANGED <<lifeVars, accVars, callback, pollVars, lastSeen>>

\* Mutant: everything up to the running minute counts as processed.
Sweep_MarksNow(c, s) ==
    /\ call[c] = Idle /\ ~Closed /\ mode # "idle"
    /\ \E i \in 1..Len(bars[s]) : bars[s][i].minute > lastSeen[s]
    /\ handed' = [handed EXCEPT ![s] = Len(bars[s])]
    /\ lastSeen' = [lastSeen EXCEPT ![s] = minute]
    /\ UNCHANGED <<lifeVars, registered, current, bars, handle, seen, live, strays, call,
                   callback, pollVars>>

\* Executor.step reads a copy of the bars and processes, one after the other,
\* those that are later than the last one processed.
Sweep(c, s) ==
    LET new == {i \in 1..Len(bars[s]) :
                   /\ bars[s][i].minute > lastSeen[s]
                   /\ \A k \in 1..(i - 1) : bars[s][k].minute < bars[s][i].minute}
    IN  /\ call[c] = Idle /\ ~Closed /\ mode # "idle" /\ new # {}
        /\ handed' = [handed EXCEPT ![s] = @ + Cardinality(new)]
        /\ \E last \in new :
             /\ \A i \in new : i <= last
             /\ lastSeen' = [lastSeen EXCEPT ![s] = bars[s][last].minute]
        /\ UNCHANGED <<lifeVars, registered, current, bars, handle, seen, live, strays, call,
                       callback, pollVars>>

\* Executor.start_session and restore_session forget what was processed.  What
\* counts from here on is what this session processes.
StartSession(c) ==
    /\ call[c] = Idle /\ ~Closed /\ mode # "idle"
    /\ lastSeen' = [s \in Symbols |-> 0] /\ handed' = [s \in Symbols |-> 0]
    /\ UNCHANGED <<lifeVars, registered, current, bars, handle, seen, live, strays, call,
                   callback, pollVars>>

-----------------------------------------------------------------------------
(* Ticks.                                                                  *)

Stamps == {minute} \union (IF "late" \in Faults THEN {minute - 1} \ {0} ELSE {})

\* The websocket's thread has a tick of a feed.
Receive ==
    /\ mode = "websocket" /\ callback = NoTick /\ TicksLeft
    /\ \E f \in live, m \in Stamps, p \in Prices :
         callback' = [sym |-> f.sym, minute |-> m, price |-> p]
    /\ UNCHANGED <<lifeVars, accVars, live, strays, call, pollVars, lastSeen>>

\* Mutant: a finished bar is closed, the new one is not begun.
OnTick_KeepsCurrent(s, tick) ==
    LET begun == current[s] # NoBar
        same == begun /\ current[s].minute = tick.minute
    IN  /\ current' = [current EXCEPT ![s] = IF same THEN ExtendBar(@, tick)
                                             ELSE IF begun THEN @ ELSE NewBar(tick)]
        /\ bars' = [bars EXCEPT ![s] = IF begun /\ ~same THEN Append(@, current[s]) ELSE @]

OnTick(s, tick) ==
    LET begun == current[s] # NoBar
        same == begun /\ current[s].minute = tick.minute
    IN  /\ current' = [current EXCEPT ![s] = IF same THEN ExtendBar(@, tick) ELSE NewBar(tick)]
        /\ bars' = [bars EXCEPT ![s] = IF begun /\ ~same THEN Append(@, current[s]) ELSE @]

\* _on_tick: a tick of a symbol that is not subscribed any more is dropped; the
\* polling thread counts it as a success all the same.
Deliver ==
    /\ callback # NoTick
    /\ \/ /\ callback.sym \in registered
          /\ OnTick(callback.sym, callback)
          /\ seen' = [seen EXCEPT ![callback.sym] = Append(@, callback)]
       \/ /\ callback.sym \notin registered
          /\ UNCHANGED <<current, bars, seen>>
    /\ callback' = NoTick
    /\ succeeded' = (poller = "sweep")
    /\ UNCHANGED <<lifeVars, registered, handle, handed, live, strays, call, poller, todo, asked,
                   failures, alarms, lastSeen>>

-----------------------------------------------------------------------------
(* The polling thread.                                                     *)

\* Mutant: the loop does not look at the stop event.
SweepBegins_IgnoresStop ==
    /\ poller = "wait" /\ failures < MaxFailures
    /\ poller' = "sweep" /\ todo' = registered /\ asked' = (registered # {})
    /\ succeeded' = FALSE
    /\ UNCHANGED <<lifeVars, accVars, live, strays, call, callback, failures, alarms, lastSeen>>

SweepBegins ==
    /\ poller = "wait" /\ ~Closed /\ failures < MaxFailures
    /\ poller' = "sweep" /\ todo' = registered /\ asked' = (registered # {})
    /\ succeeded' = FALSE
    /\ UNCHANGED <<lifeVars, accVars, live, strays, call, callback, failures, alarms, lastSeen>>

\* _poll_once: a price, no price, or an exception that only this symbol feels.
Poll ==
    /\ poller = "sweep" /\ callback = NoTick /\ ~Closed
    /\ \E s \in todo :
         /\ todo' = todo \ {s}
         /\ \/ /\ TicksLeft
               /\ \E p \in Prices : callback' = [sym |-> s, minute |-> minute, price |-> p]
            \/ "quote" \in Faults /\ UNCHANGED callback
    /\ UNCHANGED <<lifeVars, accVars, live, strays, call, poller, asked, succeeded, failures,
                   alarms, lastSeen>>

\* Mutant: a success does not end the outage.
RecordSweepOutcome_NoReset ==
    IF succeeded \/ ~asked THEN UNCHANGED failures /\ alarms' = IF asked THEN 0 ELSE alarms
    ELSE /\ failures' = failures + 1
         /\ alarms' = IF failures + 1 = Threshold THEN alarms + 1 ELSE alarms

RecordSweepOutcome ==
    \/ ~asked /\ UNCHANGED <<failures, alarms>>
    \/ asked /\ succeeded /\ failures' = 0 /\ alarms' = 0
    \/ /\ asked /\ ~succeeded
       /\ failures' = failures + 1
       /\ alarms' = IF failures + 1 = Threshold THEN alarms + 1 ELSE alarms

\* All symbols were asked, or the stop event ends the loop over them.
SweepEnds ==
    /\ poller = "sweep" /\ callback = NoTick /\ (todo = {} \/ Closed)
    /\ poller' = "wait" /\ todo' = {} /\ RecordSweepOutcome
    /\ UNCHANGED <<lifeVars, accVars, live, strays, call, callback, asked, succeeded, lastSeen>>

PollerEnds ==
    /\ poller = "wait" /\ Closed
    /\ poller' = "ended"
    /\ UNCHANGED <<lifeVars, accVars, live, strays, call, callback, todo, asked, succeeded,
                   failures, alarms, lastSeen>>

Main == StartWebsocket \/ StartPolling \/ StartRaises \/ Close \/ CloseFeeds \/ Disconnect

Caller(c) ==
    \/ \E s \in Symbols : Subscribe(c, s) \/ Unsubscribe(c, s) \/ Sweep(c, s)
    \/ Attach(c) \/ AttachRaises(c) \/ StoreHandle(c) \/ Detach(c) \/ StartSession(c)

Poller == SweepBegins \/ Poll \/ (poller = "sweep" /\ Deliver) \/ SweepEnds \/ PollerEnds

Next == ClockTick \/ Main \/ (\E c \in Callers : Caller(c)) \/ Receive \/ Deliver \/ Poller

Spec == Init /\ [][Next]_vars

\* The interpreter runs the polling thread on, and a request returns.
FairSpec == Spec /\ WF_vars(Poller)

-----------------------------------------------------------------------------
(* Properties.                                                             *)

BarType == [minute : Nat, open : Nat, high : Nat, low : Nat, close : Nat]
TickType == [sym : Symbols, minute : Nat \ {0}, price : Nat]

LifeTypes ==
    /\ minute \in Nat \ {0} /\ mode \in {"idle", "websocket", "polling"}
    /\ started \in BOOLEAN /\ closer \in {"open", "feeds", "disconnect", "closed"}

AccumulatorTypes ==
    /\ registered \subseteq Symbols /\ current \in [Symbols -> BarType]
    /\ bars \in [Symbols -> Seq(BarType)] /\ seen \in [Symbols -> Seq(TickType)]
    /\ handed \in [Symbols -> Nat] /\ lastSeen \in [Symbols -> Nat]
    /\ callback \in TickType \union {NoTick}

FeedTypes ==
    /\ handle \in [Symbols -> FeedIds \union {0}]
    /\ live \subseteq [sym : Symbols, id : FeedIds] /\ strays \subseteq Symbols
    /\ DOMAIN call = Callers
    /\ \A c \in Callers :
         call[c] \in {Idle} \union [pc : {"attach", "store", "detach"}, sym : Symbols,
                                    handle : FeedIds \union {0}]

PollTypes ==
    /\ poller \in {"off", "wait", "sweep", "ended"} /\ todo \subseteq Symbols
    /\ asked \in BOOLEAN /\ succeeded \in BOOLEAN
    /\ failures \in Nat /\ alarms \in Nat

TypeOK == LifeTypes /\ AccumulatorTypes /\ FeedTypes /\ PollTypes

\* All bars of an accumulator, the one in progress last.
AllBars(s) == IF current[s] = NoBar THEN bars[s] ELSE Append(bars[s], current[s])

\* get_minute_bars promises the closed bars in the order of time
\* (realtime.py:322).  With feeds in the order of time they are, one bar a
\* minute, through unsubscriptions, new subscriptions and the callbacks of old
\* ones that come late.
BarsInTimeOrder ==
    \A s \in Symbols : \A i, k \in 1..Len(AllBars(s)) :
        i < k => AllBars(s)[i].minute < AllBars(s)[k].minute

\* The bars are what the ticks say: there is one for every run of ticks of one
\* minute, with their first, highest, lowest and last price (realtime.py:511-528,
\* :554-578).  Nothing of an earlier subscription is in them.
BarsAreTheTicks ==
    \A s \in Symbols :
        LET t == seen[s]
            Begins == {i \in 1..Len(t) : i = 1 \/ t[i].minute # t[i - 1].minute}
            Run(i) == Cardinality({b \in Begins : b <= i})
        IN  /\ Len(AllBars(s)) = Cardinality(Begins)
            /\ \A k \in 1..Len(AllBars(s)) :
                 LET bar == AllBars(s)[k]
                     T == {i \in 1..Len(t) : Run(i) = k}
                 IN  /\ \A i \in T : t[i].minute = bar.minute
                     /\ \E i \in T : t[i].price = bar.open /\ \A j \in T : i <= j
                     /\ \E i \in T : t[i].price = bar.close /\ \A j \in T : i >= j
                     /\ \E i \in T : t[i].price = bar.high /\ \A j \in T : t[j].price <= bar.high
                     /\ \E i \in T : t[i].price = bar.low /\ \A j \in T : t[j].price >= bar.low

\* The Executor tells new bars from old ones by their time
\* (executor.py:715-717).  Within a session no bar is passed over that was not
\* processed, and none is processed twice, although a new subscription begins a
\* new list.
OldBarsWereProcessed ==
    \A s \in Symbols : \A i \in 1..Len(bars[s]) :
        bars[s][i].minute <= lastSeen[s] <=> i <= handed[s]

\* unsubscribe ends the feed that subscribe has attached (realtime.py:288-303):
\* when no call is in progress every live feed is the one its accumulator
\* knows, however many threads call at once.  Only a symbol itself can lose its
\* feed: one whose subscribe another thread's unsubscribe has overtaken, for
\* the handle comes too late (realtime.py:416-419), or whose feed did not end,
\* for the error is ignored (realtime.py:300-303).
FeedsAreKnown ==
    (AllIdle /\ ~Closed) =>
        \A f \in live : f.sym \in strays \/ (f.sym \in registered /\ handle[f.sym] = f.id)

\* One alarm per outage of the polling, at the threshold (realtime.py:480-498).
AlarmOncePerOutage == alarms = IF failures >= Threshold THEN 1 ELSE 0

\* After close() the polling thread ends, wherever it was (realtime.py:452-478).
PollingStops == Closed ~> poller \in {"off", "ended"}

=============================================================================
