SPECIFICATION FairSpec
CONSTANTS
    r1 = r1
    r2 = r2
    r3 = r3
    Run = {r1, r2, r3}
    Past = Past
    NoKey = NoKey
    Part = Part
    Faults <- OneOfEach
INVARIANTS NameIsWhole
PROPERTIES ImplementsKeyOnce EveryRunHasAKey
CHECK_DEADLOCK FALSE
