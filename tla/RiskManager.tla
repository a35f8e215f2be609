---------------------------- MODULE RiskManager ----------------------------
(***************************************************************************)
(* Position sizing, entry gating and the daily loss breaker:               *)
(* src/stock_agent/risk/manager.py.                                        *)
(*                                                                         *)
(* Percentages are integers (the code's Decimal("0.10") is 10 here), money *)
(* is an integer number of won.  A symbol the manager does not hold has    *)
(* position 0: record_entry refuses a quantity that is not positive, so 0  *)
(* stands for "no PositionRecord".  Entry price and entry time of a record *)
(* are not read by any decision of this module and are left out.           *)
(***************************************************************************)
EXTENDS Integers, FiniteSets

CONSTANTS
    Symbols,          \* the universe of tradable symbols
    PositionPct,      \* RiskConfig.position_pct
    MaxPositions,     \* RiskConfig.max_positions
    DailyLossPct,     \* RiskConfig.daily_loss_limit_pct
    DailyMaxEntries,  \* RiskConfig.daily_max_entries
    MinNotional       \* RiskConfig.min_notional_krw

CONSTANTS             \* the inputs of the callers
    Dates, Capitals, Prices, CashLevels, Pnls,
    Quantities        \* share counts a ledger snapshot may hold, 0 included

ASSUME RiskConfigAssumption ==
    /\ PositionPct \in Nat \ {0}
    /\ MaxPositions \in Nat \ {0}
    /\ DailyLossPct \in Nat \ {0}
    /\ DailyMaxEntries \in Nat \ {0}
    /\ MinNotional \in Nat \ {0}

ASSUME CallerAssumption ==
    /\ IsFiniteSet(Symbols)
    /\ Dates \subseteq Nat \ {0}
    /\ Capitals \subseteq Nat
    /\ Prices \subseteq Nat \ {0}
    /\ CashLevels \subseteq Nat
    /\ Pnls \subseteq Int
    /\ Quantities \subseteq Nat

VARIABLES
    sessionDate,      \* _session_date, 0 when no session was started
    startingCapital,  \* _starting_capital_krw, 0 when no session was started
    dailyPnl,         \* _daily_realized_pnl_krw
    entriesToday,     \* _entries_today
    positions,        \* _active_positions: symbol -> quantity, 0 = absent
    haltLogged        \* _halt_logged: the breaker tripped in this session

vars == <<sessionDate, startingCapital, dailyPnl, entriesToday, positions, haltLogged>>

NoPositions == [s \in Symbols |-> 0]
HeldIn(pos) == {s \in Symbols : pos[s] > 0}
Held == HeldIn(positions)

-----------------------------------------------------------------------------
(* The pure judgements.                                                    *)

TargetNotional == (startingCapital * PositionPct) \div 100
ThresholdFor(capital) == -((capital * DailyLossPct) \div 100)
HaltThreshold == ThresholdFor(startingCapital)
IsHalted == sessionDate # 0 /\ dailyPnl <= HaltThreshold

\* int(Decimal(target) / price): the whole shares the target buys
EntryQty(price) == TargetNotional \div price

\* evaluate_entry: every rule must be content.  The order in which the code
\* tries them only selects the reason that is logged.
Approves(s, price, cash) ==
    /\ ~IsHalted
    /\ entriesToday < DailyMaxEntries
    /\ Cardinality(Held) < MaxPositions
    /\ s \notin Held
    /\ EntryQty(price) * price >= MinNotional
    /\ EntryQty(price) * price <= cash

-----------------------------------------------------------------------------
(* The operations.                                                         *)

Init ==
    /\ sessionDate = 0
    /\ startingCapital = 0
    /\ dailyPnl = 0
    /\ entriesToday = 0
    /\ positions = NoPositions
    /\ haltLogged = FALSE

\* A day with no money raises and leaves everything as it was.
StartSession(date, capital) ==
    /\ capital > 0
    /\ sessionDate' = date
    /\ startingCapital' = capital
    /\ dailyPnl' = 0
    /\ entriesToday' = 0
    /\ positions' = NoPositions
    /\ haltLogged' = FALSE

\* Mutant: the number of entries is not checked against the open positions.
RestoreSession_Unchecked(date, capital, open, entries, pnl) ==
    /\ capital > 0
    /\ sessionDate' = date
    /\ startingCapital' = capital
    /\ dailyPnl' = pnl
    /\ entriesToday' = entries
    /\ positions' = open
    /\ haltLogged' = (pnl <= ThresholdFor(capital))

\* Mutant: a session restored in a halt does not know that it is halted.
RestoreSession_Unlogged(date, capital, open, entries, pnl) ==
    /\ capital > 0
    /\ entries >= Cardinality(HeldIn(open))
    /\ sessionDate' = date
    /\ startingCapital' = capital
    /\ dailyPnl' = pnl
    /\ entriesToday' = entries
    /\ positions' = open
    /\ haltLogged' = FALSE

\* The snapshot of the ledger replaces the state; validated before anything
\* is assigned.
RestoreSession(date, capital, open, entries, pnl) ==
    /\ capital > 0
    /\ entries >= Cardinality(HeldIn(open))
    /\ sessionDate' = date
    /\ startingCapital' = capital
    /\ dailyPnl' = pnl
    /\ entriesToday' = entries
    /\ positions' = open
    /\ haltLogged' = (pnl <= ThresholdFor(capital))

RecordEntry(s, qty) ==
    /\ sessionDate # 0
    /\ qty > 0
    /\ s \notin Held
    /\ positions' = [positions EXCEPT ![s] = qty]
    /\ entriesToday' = entriesToday + 1
    /\ UNCHANGED <<sessionDate, startingCapital, dailyPnl, haltLogged>>

RecordExit(s, pnl) ==
    /\ sessionDate # 0
    /\ s \in Held
    /\ positions' = [positions EXCEPT ![s] = 0]
    /\ dailyPnl' = dailyPnl + pnl
    /\ haltLogged' = (haltLogged \/ dailyPnl' <= HaltThreshold)
    /\ UNCHANGED <<sessionDate, startingCapital, entriesToday>>

-----------------------------------------------------------------------------
(* The protocol a caller keeps: an entry is recorded only on an approval   *)
(* of the present state, with at most the approved quantity (a partial     *)
(* fill records less); a snapshot comes from a ledger of approved entries. *)

Snapshots == {open \in [Symbols -> Quantities] :
                 Cardinality(HeldIn(open)) <= DailyMaxEntries}

Enter == \E s \in Symbols, price \in Prices, cash \in CashLevels :
            /\ Approves(s, price, cash)
            /\ \E qty \in 1..EntryQty(price) : RecordEntry(s, qty)

Exit == \E s \in Symbols, pnl \in Pnls : RecordExit(s, pnl)

Start == \E date \in Dates, capital \in Capitals :
            /\ date > sessionDate
            /\ StartSession(date, capital)

Restore == \E date \in Dates, capital \in Capitals, open \in Snapshots,
              entries \in 0..DailyMaxEntries, pnl \in Pnls :
            /\ date > sessionDate
            /\ RestoreSession(date, capital, open, entries, pnl)

Next == Start \/ Restore \/ Enter \/ Exit

Spec == Init /\ [][Next]_vars

-----------------------------------------------------------------------------
(* Properties.                                                             *)

\* The state has its types; a session that was started has a date and money.
TypeOK ==
    /\ sessionDate \in Nat
    /\ startingCapital \in Nat
    /\ dailyPnl \in Int
    /\ entriesToday \in Nat
    /\ positions \in [Symbols -> Nat]
    /\ haltLogged \in BOOLEAN
    /\ (sessionDate = 0) = (startingCapital = 0)

\* Every open position was counted as an entry of the day, across exits and
\* restores: restore_session relies on it to accept a snapshot.
OpenWithinEntries == Cardinality(Held) <= entriesToday

\* The day never records more entries than daily_max_entries, also when a
\* restart takes the counter from the ledger.
EntriesWithinCap == entriesToday <= DailyMaxEntries

\* A tripped breaker has been reported (record_exit logs the transition,
\* restore_session marks it as logged).  The exception is a capital so small
\* that the limit rounds to nothing: then the session starts halted.
BreakerIsReported == (IsHalted /\ HaltThreshold < 0) => haltLogged
=============================================================================
