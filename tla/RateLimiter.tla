---------------------------- MODULE RateLimiter ----------------------------
(***************************************************************************)
(* The limiter every order and every cancellation passes before it goes to *)
(* the broker: src/stock_agent/broker/rate_limiter.py.                     *)
(*                                                                         *)
(* Time is an integer number of ticks.  log is the sequence of all time    *)
(* stamps ever appended; the deque of the code is the part of it that has  *)
(* not been purged, log[head], log[head + 1], ...                          *)
(***************************************************************************)
EXTENDS Integers, Sequences

CONSTANTS
    MaxCalls,      \* max_calls
    Period,        \* period_s
    MinInterval,   \* min_interval_s
    MaxTime        \* bound: the clock stops here

ASSUME LimiterAssumption ==
    /\ MaxCalls \in Nat \ {0}
    /\ Period \in Nat \ {0}
    /\ MinInterval \in Nat
    /\ MaxTime \in Nat

\* The constructor does not check this, its defaults (0.35 s and 1 s) satisfy
\* it.  Without it _purge may forget the last call before the interval is over.
ASSUME IntervalWithinPeriod == MinInterval <= Period

VARIABLES
    now,     \* time_fn()
    log,     \* every time stamp appended so far
    head,    \* index of the oldest stamp still in the deque
    wakeAt   \* when sleep_fn returns at the earliest; Awake: no call sleeps

limiterVars == <<now, log, head, wakeAt>>

Awake == -1
Max2(x, y) == IF x >= y THEN x ELSE y

Inflight == Len(log) - head + 1

\* _purge: drop the stamps at the left end that are a period old.
Purged(h) ==
    /\ h \in head..(Len(log) + 1)
    /\ \A i \in head..(h - 1) : now - log[i] >= Period
    /\ h <= Len(log) => now - log[h] < Period

\* Mutant: one call too many fits in the window.
WaitForWindow_OffByOne(h) ==
    IF Len(log) - h < MaxCalls THEN 0 ELSE Max2(0, Period - (now - log[h]))

\* _wait_for_window, the deque starting at h
WaitForWindow(h) ==
    IF Len(log) - h + 1 < MaxCalls THEN 0 ELSE Max2(0, Period - (now - log[h]))

\* Mutant: the interval is measured from the oldest stamp.
WaitForInterval_Oldest(h) ==
    IF h > Len(log) THEN 0 ELSE Max2(0, MinInterval - (now - log[h]))

\* _wait_for_interval
WaitForInterval(h) ==
    IF h > Len(log) THEN 0 ELSE Max2(0, MinInterval - (now - log[Len(log)]))

Wait(h) == Max2(WaitForWindow(h), WaitForInterval(h))

-----------------------------------------------------------------------------

LimiterInit ==
    /\ now = 0
    /\ log = <<>>
    /\ head = 1
    /\ wakeAt = Awake

Tick ==
    /\ now < MaxTime
    /\ now' = now + 1
    /\ UNCHANGED <<log, head, wakeAt>>

\* acquire, no wait needed
AcquireNow ==
    /\ wakeAt = Awake
    /\ \E h \in 1..(Len(log) + 1) :
          /\ Purged(h)
          /\ Wait(h) = 0
          /\ head' = h
    /\ log' = Append(log, now)
    /\ UNCHANGED <<now, wakeAt>>

\* acquire up to the call of sleep_fn
AcquireSleep ==
    /\ wakeAt = Awake
    /\ \E h \in 1..(Len(log) + 1) :
          /\ Purged(h)
          /\ Wait(h) > 0
          /\ head' = h
          /\ wakeAt' = now + Wait(h)
    /\ UNCHANGED <<now, log>>

\* acquire after sleep_fn: purge and append, without computing the wait again.
\* A sleep may return late, never early.
AcquireWake ==
    /\ wakeAt # Awake
    /\ now >= wakeAt
    /\ \E h \in 1..(Len(log) + 1) : Purged(h) /\ head' = h
    /\ log' = Append(log, now)
    /\ wakeAt' = Awake
    /\ UNCHANGED now

LimiterNext == Tick \/ AcquireNow \/ AcquireSleep \/ AcquireWake

LimiterSpec == LimiterInit /\ [][LimiterNext]_limiterVars

-----------------------------------------------------------------------------
(* Properties.                                                             *)

\* The state has its types.
LimiterTypeOK ==
    /\ now \in Nat
    /\ log \in Seq(Nat)
    /\ head \in 1..(Len(log) + 1)
    /\ wakeAt \in Nat \union {Awake}

\* The broker's contract: any max_calls + 1 consecutive calls span at least a
\* period, although the wait is computed once, before the sleep.
WindowKept ==
    \A i, j \in 1..Len(log) : j = i + MaxCalls => log[j] - log[i] >= Period

\* Two calls are at least min_interval apart.
IntervalKept ==
    \A i, j \in 1..Len(log) : j = i + 1 => log[j] - log[i] >= MinInterval

\* The deque never holds more than max_calls stamps, so the length test of
\* _wait_for_window looks at the right stamp.
DequeBounded == Inflight <= MaxCalls

\* What the proof carries along: the stamps are in the past, what was purged
\* is a period old, and a sleep ends late enough for both limits.
StampsInPast == \A i \in 1..Len(log) : log[i] <= now
PurgedIsOld == \A i \in 1..(head - 1) : now - log[i] >= Period
SleepLongEnough ==
    wakeAt # Awake =>
        /\ Len(log) > 0 => wakeAt - log[Len(log)] >= MinInterval
        /\ Inflight = MaxCalls => wakeAt - log[head] >= Period

\* The inductive invariant.
LimiterInv ==
    /\ LimiterTypeOK
    /\ StampsInPast
    /\ PurgedIsOld
    /\ SleepLongEnough
    /\ DequeBounded
    /\ WindowKept
    /\ IntervalKept
=============================================================================
