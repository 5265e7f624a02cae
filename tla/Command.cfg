SPECIFICATION FairSpec
CONSTANTS
    Room = 1
    Limit = 1
    MaxOutput = 3
    Input = 2
    Helpers = {"waited for", "left", "away"}
INVARIANTS WholeIsWhole StoppedLeavesNothing
PROPERTIES Returns NeverLeftWaiting
CHECK_DEADLOCK FALSE
