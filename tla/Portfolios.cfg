CONSTANTS
    Symbols = {1, 2}
    StartingCapital = 31
    Commission = 10
    SellTax = 10
    Slippage = 10
    PositionPct = 60
    Closes <- MCCloses
    Lows <- MCLows
    MaxDay = 6
    MonthOf <- MCMonths
    Baselines <- MCBaselines
    Target = 1
    MonthlyInvestment = 18
    PurchaseDay = 2
    SmaSymbol = 1
    SmaPeriod = 2
    TopN = 1
    Lookback = 3
    MonthInterval = 2
    RsiPeriod = 2
    Oversold = 30
    Overbought = 70
    StopLossPct = 20
    MaxPositions = 2
SPECIFICATION Spec
INVARIANTS EveryLotIsBelieved CapKept NoDebt MoneyAddsUp NoLookAhead OncePerMonth
CHECK_DEADLOCK FALSE
