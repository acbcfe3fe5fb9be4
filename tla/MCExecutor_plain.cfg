SPECIFICATION Spec
CONSTANTS
    N = 2
    OutputRank = 1
    MaxCalls = 3
    Configs <- Plain
INVARIANT
    ResultsAreOwn
PROPERTIES
    CallsReturn
    WorkersStop
    DeathIsNoticed
CHECK_DEADLOCK FALSE
