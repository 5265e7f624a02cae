SPECIFICATION ReadingSpec
CONSTANTS
    Run = {r1, r2}
    Past = Past
    NoRun = NoRun
    MaxTries = 8
    Lockless = {r1, r2}
    Faults = {"build", "crash"}
    NumFiles = 2
    RecordFile = 1
    Skew = 1
    Horizon = 9
SYMMETRY Symmetry
INVARIANTS OnlyFinishedGiven
CHECK_DEADLOCK FALSE
