SPECIFICATION FairSpec
CONSTANTS
    a = a
    b = b
    Symbols = {a, b}
    PositionPct = 40
    MaxPositions = 2
    DailyLossPct = 20
    DailyMaxEntries = 2
    MinNotional = 25
    Dates <- MCOneDay
    Capitals <- MCCapitals
    Prices <- MCPrices
    CashLevels <- MCCash
    Pnls <- MCLoss
    Quantities <- MCQuantities
    Universe <- MCUniverse
    Intraday = TRUE
    Watched = {a, b}
    MaxRetries = 1
    MaxPolls = 1
    MaxMinutes = 1
    Tickets = {1, 2}
    InitialHoldings <- MCAccounts
    Faults = {"refuse", "cancel"}
INVARIANTS
    NoPhantomLong
PROPERTIES
    SweepEnds
CHECK_DEADLOCK FALSE
