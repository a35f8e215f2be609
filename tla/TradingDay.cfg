CONSTANTS
    a = a  b = b
    Universe <- MCUniverse
    Minutes = 2
    MaxDays = 2
    MaxFills = 3
    Workers = 2
    Threshold = 1
    DryRuns = {TRUE, FALSE}
    Faults = {"balance", "order", "record", "load", "crash"}
SPECIFICATION Spec
INVARIANTS LossIsReported AlarmAtThreshold HeldUnlessOverlapped
PROPERTIES PurchasesAreBacked
CHECK_DEADLOCK FALSE
