SPECIFICATION Spec
CONSTANTS
    Worlds <- MCWorlds
    MaxTroubled = 1
INVARIANTS PassesAreEarned FindingsAreTrue CorrectIsCredited SuitePasswordsHold GuessesCostThemselves
CHECK_DEADLOCK FALSE
