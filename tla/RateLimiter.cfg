SPECIFICATION LimiterSpec
CONSTANTS
    MaxCalls = 2
    Period = 6
    MinInterval = 2
    MaxTime = 16
INVARIANTS
    WindowKept
    IntervalKept
CHECK_DEADLOCK FALSE
