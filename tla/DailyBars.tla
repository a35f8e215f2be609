----------------------------- MODULE DailyBars -----------------------------
(***************************************************************************)
(* src/stock_agent/data/historical.py: daily bars of pykrx kept in SQLite,  *)
(* with the two that ask it for one day, backtest/prev_close.py and the     *)
(* evening callback of main.py.  One process uses it, so a call is one      *)
(* step.                                                                   *)
(*                                                                         *)
(* A row is "final", or "live" when pykrx was asked before the day's close. *)
(***************************************************************************)
EXTENDS MarketDays

CONSTANTS
    Lookback      \* max_lookback_days

ASSUME DailyAssumption == Lookback \in Nat \ {0}

VARIABLES
    dailyDb,      \* table daily_bars: symbol -> day -> "none", "live", "final"
    answer        \* what the last call returned

VARIABLES         \* history
    fetched       \* symbol -> the ranges pykrx has answered with rows

dailyVars == <<dailyDb, answer, fetched>>

-----------------------------------------------------------------------------

NoAnswer == [sym |-> "none", start |-> 1, end |-> 0, hit |-> FALSE, rows |-> {}]

HasRow(sym, day) == dailyDb[sym][day] # "none"

\* pykrx: a row for every day with trade, today's as soon as there is one.
SourceRows(sym, start, end) == {d \in start..end : Shown(sym, d) # {}}

Select(db, sym, start, end) == {d \in start..end : db[sym][d] # "none"}

Answer(sym, start, end, hit, rows) ==
    [sym |-> sym, start |-> start, end |-> end, hit |-> hit, rows |-> rows]

\* INSERT OR REPLACE of all rows in one transaction.
Insert(sym, rows) ==
    [dailyDb EXCEPT ![sym] = [d \in Days |->
        IF d \notin rows THEN @[d]
        ELSE IF d = today /\ MarketOpen THEN "live" ELSE "final"]]

\* Mutant: the start's row decides.
CacheHit_ByStart(sym, start, end) == end < today /\ HasRow(sym, start)

\* The end's row decides: a range that ends in the past is answered from the
\* table when the table has a row for its last day.
CacheHit(sym, start, end) == end < today /\ HasRow(sym, end)

-----------------------------------------------------------------------------

Hit(sym, start, end) ==
    /\ CacheHit(sym, start, end)
    /\ answer' = Answer(sym, start, end, TRUE, Select(dailyDb, sym, start, end))
    /\ UNCHANGED <<dailyDb, fetched>>

Fetch(sym, start, end) ==
    LET rows == SourceRows(sym, start, end) IN
    /\ ~CacheHit(sym, start, end)
    /\ rows # {}
    /\ dailyDb' = Insert(sym, rows)
    /\ fetched' = [fetched EXCEPT ![sym] = @ \cup {<<start, d>> : d \in rows}]
    /\ answer' = Answer(sym, start, end, FALSE,
                        Select(dailyDb', sym, start, end))

\* No trade in the range, or pykrx is out of order and returns an empty table.
FetchNothing(sym, start, end) ==
    /\ ~CacheHit(sym, start, end)
    /\ answer' = Answer(sym, start, end, FALSE, {})
    /\ UNCHANGED <<dailyDb, fetched>>

\* pykrx raises or returns None, or the transaction is rolled back.
FetchRaises(sym, start, end) ==
    /\ ~CacheHit(sym, start, end)
    /\ answer' = NoAnswer
    /\ UNCHANGED <<dailyDb, fetched>>

FetchDailyOhlcv(sym, start, end) ==
    /\ Called
    /\ \/ Hit(sym, start, end)
       \/ Fetch(sym, start, end)
       \/ FetchNothing(sym, start, end)
       \/ FetchRaises(sym, start, end)

Backfill ==
    \E s \in Symbols : \E end \in 1..today : \E start \in 1..end :
        FetchDailyOhlcv(s, start, end)

\* main.on_eod_signal asks for today alone.
EodBar == \E s \in Symbols : FetchDailyOhlcv(s, today, today)

\* DailyBarPrevCloseProvider asks for the business day before a session.
PrevClose ==
    \E s \in Symbols : \E session \in 1..today :
        LET before == {d \in BusinessDays :
                         session - Lookback <= d /\ d < session}
        IN  \E d \in before :
              /\ \A e \in before : e <= d
              /\ FetchDailyOhlcv(s, d, d)

DailyInit ==
    /\ dailyDb = [s \in Symbols |-> [d \in Days |-> "none"]]
    /\ answer = NoAnswer
    /\ fetched = [s \in Symbols |-> {}]

DailyNext == Backfill \/ EodBar \/ PrevClose

DailyTypeOK ==
    /\ dailyDb \in [Symbols -> [Days -> {"none", "live", "final"}]]
    /\ fetched \in [Symbols -> SUBSET (Days \X Days)]
    /\ answer.rows \subseteq answer.start..answer.end

\* An answer from the table is the whole truth only as far back as the fetch
\* that once brought its last row; rows before that are whatever other fetches
\* have left behind.
HitsReachBack ==
    answer.hit => \E r \in fetched[answer.sym] :
        /\ r[2] = answer.end
        /\ \A d \in answer.start..answer.end :
             r[1] <= d /\ Traded[answer.sym][d] # {} => d \in answer.rows

=============================================================================
