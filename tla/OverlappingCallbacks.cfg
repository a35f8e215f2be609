CONSTANTS
    a = a  b = b
    Universe <- MCUniverse
    Minutes = 2
    MaxDays = 2
    MaxFills = 2
    Workers = 2
    Threshold = 2
    DryRuns = {FALSE}
    Faults = {}
SPECIFICATION Spec
INVARIANTS HeldIsRecorded
CHECK_DEADLOCK FALSE
