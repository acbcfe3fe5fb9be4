SPECIFICATION Spec
CONSTANTS
    N = 2
    OutputRank = 1
    MaxCalls = 3
    Configs <- UtilityFails
INVARIANT
    ResultsAreOwn
CHECK_DEADLOCK FALSE
