SPECIFICATION MCSpec
CONSTANTS
    Engine = {e0, e1}
    Rank0 = e0
    Client = {c1}
    Req = {q1, q2}
    NoEngine = NoEngine
    SyncEvery = 2
    MaxPasses = 1
    MaxNews = 1
    Aborts = {q1}
INVARIANTS InLockstep NothingAhead KnownToBePaused
PROPERTIES RequestsFinish EnginesPause
