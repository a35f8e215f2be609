SPECIFICATION Spec
CONSTANTS
    a = a
    b = b
    Symbols = {a, b}
    PositionPct = 40
    MaxPositions = 2
    DailyLossPct = 20
    DailyMaxEntries = 1
    MinNotional = 25
    Dates <- MCDates
    Capitals <- MCCapitals
    Prices <- MCPrices
    CashLevels <- MCCash
    Pnls <- MCLoss
    Quantities <- MCShares
    Universe <- MCUniverse
    Intraday = FALSE
    Watched = {}
    MaxRetries = 0
    MaxPolls = 0
    MaxMinutes = 2
    Tickets = {1}
    InitialHoldings <- MCOneHeld
    Faults = {"fetch"}
INVARIANTS
    LotsArePositions
    HeldIsWatched
PROPERTIES
    RiskManagerProtocol
CHECK_DEADLOCK FALSE
