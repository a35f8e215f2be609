CONSTANTS
    a = a  one = one  two = two
    Symbols = {a}
    LastDay = 4
    BarsPerDay = 3
    BusinessDays <- MCBusinessDays
    Traded <- MCTraded
    Workers = {one, two}
    SymbolLists <- MCLists
    Ranges <- MCRanges
    PageSize = 2
    TimeoutRetries = 0
    RateRetries = 1
    MaxFlaws = 1
    Lookback = 2
    MaxCalls = 2
    FirstToday = 3
SPECIFICATION Spec
INVARIANTS CachedDaysAreWhole AnswersByWholeDays HitsReachBack
PROPERTIES StreamsAdvance
SYMMETRY MCSymmetry
CHECK_DEADLOCK FALSE
