SPECIFICATION LockFairSpec
CONSTANTS
    Run = {r1, r2, r3, r4}
    Past = Past
    NoRun = NoRun
    MaxTries = 2
    Lockless = {r4}
    Faults = {"disk", "crash"}
INVARIANTS NoteIsTrue TurnsAreOthers
PROPERTIES DeadRunNeverBlocks ImplementsTurns TakeAnswers
CHECK_DEADLOCK FALSE
