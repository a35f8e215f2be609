CONSTANTS
    Symbols = {"a", "b"}
    Callers = {"step"}
    Prices = {1, 2}
    MaxMinute = 3
    MaxTicks = 3
    FeedIds = {1, 2, 3}
    Threshold = 1
    MaxFailures = 2
    Faults = {"keys", "attach", "quote"}
SPECIFICATION FairSpec
INVARIANTS BarsInTimeOrder BarsAreTheTicks OldBarsWereProcessed AlarmOncePerOutage
PROPERTIES PollingStops
CHECK_DEADLOCK FALSE
