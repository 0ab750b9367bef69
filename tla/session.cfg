\* Two callers of any helper, a cache of one statement, faults of every kind.
SPECIFICATION FairSpec
CONSTANTS
    u1 = u1
    u2 = u2
    User = {u1, u2}
    Handle = {1, 2}
    Text <- Texts
    Query <- Queries
    Ddl = {}
    Limit = 1
    Api <- Apis
    Signals = {u2}
    MaxDepth = 1
    MaxRuns = 2
    Faults = {"refuse", "loss"}
CHECK_DEADLOCK FALSE
INVARIANTS
    InOnePlace
    NothingLeftOpen
    CommitsWhatResolved
PROPERTIES
    CacheSpec
    EveryCallAnswered
