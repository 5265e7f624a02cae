SPECIFICATION FairSpec
CONSTANTS
    App = {a1, a2}
    NoApp = NoApp
    Thing = {t1}
    MaxNames = 1
    Capacity = 3
    MaxCalls = 3
    Faults = {"spawn", "panic", "write", "off", "restart"}
INVARIANTS OneCheckAtATime LineIsOfItsCall HandedOnce GapIsSeen
PROPERTIES EveryCallAnswered
CHECK_DEADLOCK FALSE
