SPECIFICATION Spec
CONSTANTS
    Run = {r1, r2}
    Past = Past
    NoRun = NoRun
    MaxTries = 8
    Lockless = {}
    Faults = {"disk", "build", "ctrl-c", "crash"}
    NumFiles = 3
    RecordFile = 2
    Skew = 1
    Horizon = 9
SYMMETRY Symmetry
INVARIANTS SealedIsWhole UnmarkedOnlyByUndo
PROPERTIES NewerKept ImplementsStore ImplementsLock
CHECK_DEADLOCK FALSE
