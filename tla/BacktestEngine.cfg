CONSTANTS
    Symbols = {"a", "b"}
    PositionPct = 50
    MaxPositions = 2
    DailyLossPct = 3
    DailyMaxEntries = 2
    MinNotional = 100
    StartingCapital = 1010
    Commission = 1
    SellTax = 1
    Slippage = 1
    OrStart = 1
    OrEnd = 2
    ForceCloseAt = 3
    StopPct = 5
    TakePct = 10
    Shapes <- MCShapes
    MaxTime = 3
    MaxDay = 2
    MaxBars = 6
SPECIFICATION Spec
INVARIANTS StrategyInStep MoneyAddsUp NoDebt BreakoutOfTheDay OneEntryADay
CHECK_DEADLOCK FALSE
