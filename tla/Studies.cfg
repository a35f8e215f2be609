SPECIFICATION Spec

CONSTANTS
    AxisSizes <- MCAxisSizes
    Current <- MCCurrent
    Inputs = {"now", "before"}
    Measured <- MCMeasured
    DcaReturn <- MCDcaReturn
    OtherFiles <- MCOtherFiles
    MonthDays <- MCMonthDays
    Spans <- MCSpans
    Returns <- MCReturns
    Threshold = 30
    Drawdowns <- MCDrawdowns
    Sharpes = {30, 31}
    Sessions = {239, 240}
    SymbolCounts = {0, 1, 2}
    MaxRuns = 3
    MaxFaults = 2

INVARIANT OneCombinationIsLost
INVARIANT ResumeIsUninterrupted
INVARIANT WindowsRoll
INVARIANT PassIsEarned

PROPERTY FlushedRowsStay

CHECK_DEADLOCK FALSE
