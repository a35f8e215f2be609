SPECIFICATION Spec
CONSTANTS
    a = a
    b = b
    c = c
    Symbols = {a, b, c}
    PositionPct = 40
    MaxPositions = 2
    DailyLossPct = 20
    DailyMaxEntries = 4
    MinNotional = 25
    Dates <- MCDates
    Capitals <- MCCapitals
    Prices <- MCPrices
    CashLevels <- MCCashLevels
    Pnls <- MCPnls
    Quantities <- MCQuantities
INVARIANTS
    OpenWithinEntries
    BreakerIsReported
CHECK_DEADLOCK FALSE
