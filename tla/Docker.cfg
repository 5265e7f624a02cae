SPECIFICATION Spec
CONSTANTS
    r1 = r1
    r2 = r2
    Run = {r1, r2}
    Past = Past
    Machine <- OneMachine
    Pid <- OwnPids
    Installs = {r1}
    Helped = {r2}
    Faults <- EveryFault
    MaxFailed = 1
INVARIANTS WhatIsLeftIsSaid LeftoversCleared AppIsFenced PackagesAreWhole
PROPERTIES LivingLeftAlone
CHECK_DEADLOCK FALSE
