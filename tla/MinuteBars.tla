----------------------------- MODULE MinuteBars -----------------------------
(***************************************************************************)
(* src/stock_agent/data/kis_minute_bars.py: the loader that pages backwards *)
(* through the past days of the broker's quotation interface and keeps whole *)
(* days in SQLite.  Several processes work on one file (the workers of a    *)
(* parameter study, a backfill beside a backtest), so an action is one       *)
(* request or one transaction of one of them.                                *)
(*                                                                         *)
(* A cached row is its symbol, day and minute; prices are not told apart.   *)
(***************************************************************************)
EXTENDS MarketDays, Sequences

CONSTANTS
    Workers,
    SymbolLists,    \* the tuples of symbols a caller asks for
    Ranges,         \* ... and the ranges of days, <<start, end>>
    PageSize,       \* _PAGE_SIZE
    TimeoutRetries, \* http_max_retries_per_day
    RateRetries,    \* rate_limit_max_retries
    MaxFlaws        \* bound: pages with unreadable rows

ASSUME MinuteAssumption ==
    /\ SymbolLists \subseteq Seq(Symbols) \ {<<>>}
    /\ Ranges \subseteq {r \in Days \X Days : r[1] <= r[2]}
    /\ PageSize \in Nat \ {0, 1} /\ RateRetries \in Nat \ {0}
    /\ TimeoutRetries \in Nat /\ MaxFlaws \in Nat

VARIABLES
    minuteDb,     \* table minute_bars: symbol -> day -> its bars
    loader,       \* worker -> where it is in stream
    flaws         \* bound: pages with such rows so far

VARIABLES         \* history
    spoiled       \* symbol -> day -> bars a complete answer did not deliver

minuteVars == <<minuteDb, loader, flaws, spoiled>>

-----------------------------------------------------------------------------

\* pc: "idle"; "day", about to look cur up; "page", about to ask for a page;
\* "write", about to store a day; "done", the merged stream is returned.
Idle ==
    [pc |-> "idle", list |-> <<>>, todo |-> <<>>, start |-> 1, end |-> 1, asked |-> 1,
     asOf |-> 1, cur |-> 0, cursor |-> 0, day |-> {}, timeouts |-> 0,
     limits |-> 0, collected |-> [s \in Symbols |-> [d \in Days |-> {}]],
     skipped |-> {}]

Sym(l) == Head(l.todo)

\* Mutant: the first day is not part of the range.
Earlier_Exclusive(l, day) ==
    LET open == {d \in BusinessDays : l.start < d /\ d < day}
    IN  IF open = {} THEN 0 ELSE CHOOSE d \in open : \A e \in open : e <= d

\* The walk from end to start passes over days without trade; 0 is its end.
Earlier(l, day) ==
    LET open == {d \in BusinessDays : l.start <= d /\ d < day}
    IN  IF open = {} THEN 0 ELSE CHOOSE d \in open : \A e \in open : e <= d

ToDayBefore(l, day) ==
    [l EXCEPT !.pc = "day", !.cur = Earlier(l, day), !.day = {}]

Collect(l, bars) ==
    ToDayBefore([l EXCEPT !.collected[Sym(l)][l.cur] = bars], l.cur)

\* _collect_symbol_bars reads the clock once for a symbol.
BeginSymbol(l) == ToDayBefore([l EXCEPT !.asOf = today], l.end + 1)

-----------------------------------------------------------------------------
(* stream and _collect_symbol_bars.                                        *)

\* Bound: no range ends on a day to come, which the code does not refuse.
Stream(w) ==
    /\ loader[w].pc \in {"idle", "done"}
    /\ Called
    /\ \E list \in SymbolLists, range \in Ranges :
         /\ range[2] <= today
         /\ loader' = [loader EXCEPT ![w] = BeginSymbol(
              [Idle EXCEPT !.list = list, !.todo = list, !.asked = today,
                           !.start = range[1], !.end = range[2]])]
    /\ UNCHANGED <<minuteDb, flaws, spoiled>>

Cached(sym, day) == minuteDb[sym][day] # {}

\* Today is neither read from the table nor written to it.
LookUp(w) ==
    LET l == loader[w] IN
    /\ l.pc = "day" /\ l.cur # 0
    /\ loader' = [loader EXCEPT ![w] =
         IF l.cur # l.asOf /\ Cached(Sym(l), l.cur)
         THEN Collect(l, minuteDb[Sym(l)][l.cur])
         ELSE [l EXCEPT !.pc = "page", !.cursor = BarsPerDay,
                        !.timeouts = 0, !.limits = 0]]
    /\ UNCHANGED <<minuteDb, calls, flaws, spoiled>>

NextSymbol(w) ==
    LET l == loader[w] IN
    /\ l.pc = "day" /\ l.cur = 0
    /\ loader' = [loader EXCEPT ![w] =
         IF Len(l.todo) = 1 THEN [l EXCEPT !.pc = "done", !.todo = <<>>]
         ELSE BeginSymbol([l EXCEPT !.todo = Tail(@)])]
    /\ UNCHANGED <<minuteDb, calls, flaws, spoiled>>

Raise(w) == loader' = [loader EXCEPT ![w] = Idle]

-----------------------------------------------------------------------------
(* The quotation interface, as the loader and its tests know it: at most   *)
(* PageSize rows, the latest ones up to the cursor, sometimes once more the *)
(* row the cursor has just passed; for a day without trading, the rows of  *)
(* the day of trading before.  It keeps a year: all days lie within it.    *)

ServedDay(sym, day) ==
    LET sessions == {d \in 1..day : \E s \in Symbols : Traded[s][d] # {}}
    IN  IF day \in sessions \/ sessions = {} THEN day
        ELSE CHOOSE d \in sessions : \A e \in sessions : e <= d

Pages(rows) ==
    {p \in SUBSET rows :
        \/ p = rows /\ Cardinality(rows) <= PageSize
        \/ /\ Cardinality(p) = PageSize
           /\ \A r \in p : \A q \in rows \ p : q < r}

Answers(sym, day, cursor) ==
    UNION {Pages({b \in Shown(sym, ServedDay(sym, day)) : b <= c}) :
             c \in {cursor, cursor + 1}}

-----------------------------------------------------------------------------
(* _fetch_day.                                                             *)

FetchedDay(l) ==
    IF l.cur = l.asOf \/ l.day = {} THEN Collect(l, l.day)
    ELSE [l EXCEPT !.pc = "write"]

\* Mutant: the earliest row is asked for again.
NextPage_Stays(l, first) ==
    [l EXCEPT !.cursor = first, !.timeouts = 0, !.limits = 0]

NextPage(l, first) ==
    [l EXCEPT !.cursor = first - 1, !.timeouts = 0, !.limits = 0]

\* Kept for days that are over: of today no answer is complete.
Spoil(l, bars) ==
    spoiled' = IF l.cur = l.asOf THEN spoiled
               ELSE [spoiled EXCEPT ![Sym(l)][l.cur] =
                        @ \cup (bars \cap Traded[Sym(l)][l.cur])]

\* A page without a single readable time ends the day like a short one.
PageEndsDay(rows, times) ==
    \/ Cardinality(rows) < PageSize
    \/ times = {}
    \/ 1 \in times

\* Some rows have a field that _parse_row rejects, and some of these have
\* no readable time.  Rows of another day are passed over.
Page(w) ==
    LET l == loader[w] IN
    /\ l.pc = "page"
    /\ \E rows \in Answers(Sym(l), l.cur, l.cursor) :
       \E bad \in SUBSET rows : \E untimed \in {{}, bad} :
         LET kept == IF ServedDay(Sym(l), l.cur) = l.cur
                     THEN rows \ bad ELSE {}
             got == [l EXCEPT !.day = @ \cup kept]
             times == rows \ untimed
         IN
         /\ bad = {} \/ flaws < MaxFlaws
         /\ flaws' = IF bad = {} THEN flaws ELSE flaws + 1
         /\ \/ /\ PageEndsDay(rows, times)
               /\ loader' = [loader EXCEPT ![w] = FetchedDay(got)]
               /\ Spoil(l, IF times = {} /\ rows # {}
                           THEN 1..l.cursor ELSE bad)
            \/ /\ ~PageEndsDay(rows, times)
               /\ \E first \in times :
                    /\ \A t \in times : first <= t
                    /\ loader' = [loader EXCEPT ![w] = NextPage(got, first)]
               /\ Spoil(l, bad)
    /\ UNCHANGED <<minuteDb, calls>>

\* Mutant: the pages that came are kept.
Timeout_KeepsPages(w) ==
    LET l == loader[w] IN
    /\ l.pc = "page"
    /\ loader' = [loader EXCEPT ![w] =
         IF l.timeouts < TimeoutRetries THEN [l EXCEPT !.timeouts = @ + 1]
         ELSE FetchedDay(l)]
    /\ UNCHANGED <<minuteDb, calls, flaws, spoiled>>

\* The retries are counted anew for every request; beyond them the day is
\* given up with everything its earlier pages brought.
Timeout(w) ==
    LET l == loader[w] IN
    /\ l.pc = "page"
    /\ loader' = [loader EXCEPT ![w] =
         IF l.timeouts < TimeoutRetries THEN [l EXCEPT !.timeouts = @ + 1]
         ELSE Collect([l EXCEPT !.skipped = @ \cup {<<Sym(l), l.cur>>}], {})]
    /\ UNCHANGED <<minuteDb, calls, flaws, spoiled>>

RateLimited(w) ==
    LET l == loader[w] IN
    /\ l.pc = "page"
    /\ IF l.limits < RateRetries
       THEN loader' = [loader EXCEPT ![w].limits = @ + 1, ![w].timeouts = 0]
       ELSE Raise(w)
    /\ UNCHANGED <<minuteDb, calls, flaws, spoiled>>

\* One transaction stores the day.
Write(w) ==
    LET l == loader[w] IN
    /\ l.pc = "write"
    /\ minuteDb' = [minuteDb EXCEPT ![Sym(l)][l.cur] = @ \cup l.day]
    /\ loader' = [loader EXCEPT ![w] = Collect(l, l.day)]
    /\ UNCHANGED <<calls, flaws, spoiled>>

\* Any other error of the interface, a failed transaction, close(), or the
\* end of the process.
Fails(w) ==
    /\ loader[w].pc \in {"day", "page", "write"}
    /\ Raise(w)
    /\ UNCHANGED <<minuteDb, calls, flaws, spoiled>>

-----------------------------------------------------------------------------

MinuteInit ==
    /\ minuteDb = [s \in Symbols |-> [d \in Days |-> {}]]
    /\ loader = [w \in Workers |-> Idle]
    /\ flaws = 0
    /\ spoiled = [s \in Symbols |-> [d \in Days |-> {}]]

\* What stream does once it is called.
Work(w) ==
    \/ LookUp(w) \/ NextSymbol(w)
    \/ Page(w) \/ Timeout(w) \/ RateLimited(w) \/ Write(w)

MinuteNext == \E w \in Workers : Stream(w) \/ Work(w) \/ Fails(w)

LoaderStates ==
    [pc : {"idle", "day", "page", "write", "done"},
     list : Seq(Symbols), todo : Seq(Symbols), start : Days, end : Days, asked : Days,
     asOf : Days, cur : 0..LastDay, cursor : 0..BarsPerDay,
     day : SUBSET Bars, timeouts : 0..TimeoutRetries,
     limits : 0..RateRetries,
     collected : [Symbols -> [Days -> SUBSET Bars]],
     skipped : SUBSET (Symbols \X Days)]

MinuteTypeOK ==
    /\ minuteDb \in [Symbols -> [Days -> SUBSET Bars]]
    /\ loader \in [Workers -> LoaderStates]
    /\ flaws \in Nat
    /\ spoiled \in [Symbols -> [Days -> SUBSET Bars]]
    /\ \A w \in Workers :
         LET l == loader[w] IN
         /\ l.pc \in {"day", "page", "write"} => l.todo # <<>>
         /\ l.pc \in {"page", "write"} => l.cur \in BusinessDays

\* What a table row or a returned bar stands for: the whole day, up to rows
\* the source itself spoiled.
Whole(sym, day, bars) ==
    /\ bars \subseteq Traded[sym][day]
    /\ Traded[sym][day] \subseteq bars \cup spoiled[sym][day]

\* A day is found in the table by any of its rows, so the rows of a day must
\* come all together: whatever fails between two pages, two processes store
\* or the clock does, a day in the table is over and complete.
CachedDaysAreWhole ==
    \A s \in Symbols, d \in Days :
        Cached(s, d) => d < today /\ Whole(s, d, minuteDb[s][d])

\* The stream has this day of this symbol behind it.
Behind(l, sym, day) ==
    /\ l.pc # "idle"
    /\ \E i \in DOMAIN l.list : l.list[i] = sym
    /\ day \in BusinessDays /\ l.start <= day /\ day <= l.end
    /\ \/ \A i \in DOMAIN l.todo : l.todo[i] # sym
       \/ Sym(l) = sym /\ l.cur < day

\* A backtest cannot see that rows are missing: of the past days it asked for
\* it gets each one whole or, when the requests timed out, not at all.
AnswersByWholeDays ==
    \A w \in Workers : \A s \in Symbols, d \in Days :
        LET l == loader[w]
            bars == l.collected[s][d]
        IN  Behind(l, s, d) /\ d < l.asked =>
              Whole(s, d, bars) \/ (<<s, d>> \in l.skipped /\ bars = {})

\* The paging loop has no counter: it ends because the cursor goes down with
\* every page, also when the answer repeats a row.  Every step of a stream takes
\* it closer to its end: fewer symbols, an earlier day, a later stage of the
\* day, an earlier cursor, fewer retries left, in this order.  Only a page
\* whose earliest row has no readable time may be asked for again.
Stage == [day |-> 3, page |-> 2, write |-> 1]

Closer(m, l) ==
    \/ m.pc \in {"idle", "done"}
    \/ Len(m.todo) < Len(l.todo)
    \/ /\ m.todo = l.todo
       /\ \/ m.cur < l.cur
          \/ m.cur = l.cur /\ Stage[m.pc] < Stage[l.pc]
          \/ /\ m.cur = l.cur /\ m.pc = "page" /\ l.pc = "page"
             /\ \/ m.cursor < l.cursor
                \/ m.cursor = l.cursor /\ m.limits > l.limits
                \/ /\ m.cursor = l.cursor /\ m.limits = l.limits
                   /\ m.timeouts > l.timeouts

StreamsAdvance ==
    [][\A w \in Workers :
         \/ loader'[w] = loader[w]
         \/ loader[w].pc \in {"idle", "done"}
         \/ Closer(loader'[w], loader[w])
         \/ flaws' > flaws]_<<loader, flaws>>
=============================================================================
