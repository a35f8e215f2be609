SPECIFICATION Spec
CONSTANTS
    a = a
    b = b
    Symbols = {a, b}
    PositionPct = 40
    MaxPositions = 2
    DailyLossPct = 20
    DailyMaxEntries = 2
    MinNotional = 25
    Dates <- MCOneDay
    Capitals <- MCCapitals
    Prices <- MCOneShare
    CashLevels <- MCCash
    Pnls <- MCLoss
    Quantities <- MCNone
    Universe <- MCUniverse
    Intraday = TRUE
    Watched = {a, b}
    MaxRetries = 1
    MaxPolls = 0
    MaxMinutes = 1
    Tickets = {1, 2}
    InitialHoldings <- MCEmptyAccount
    Faults = {"read", "refuse", "lost", "drop", "cancel"}
INVARIANTS
    ExecutorInv
PROPERTIES
    BuysAreCleared
CHECK_DEADLOCK FALSE
