SPECIFICATION FoundFairSpec
CONSTANTS
    Run = {r1, r2}
    Past = Past
    NoRun = NoRun
    MaxTries = 8
    Lockless = {}
    Faults = {"build", "ctrl-c", "crash"}
    NumFiles = 2
    RecordFile = 1
    Skew = 1
    Horizon = 9
INVARIANTS FailedRunLeavesFolder
PROPERTIES EveryRunEnds
CHECK_DEADLOCK FALSE
