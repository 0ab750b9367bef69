\* Two calls on two nodes that fail, come back, are removed and added again.
SPECIFICATION FairSpec
CONSTANTS
    a = a
    b = b
    g1 = g1
    g2 = g2
    g3 = g3
    Name <- Both
    Lives = 2
    Get <- TwoGets
    Destroyers = {1}
    Patterns <- All
    Selectors = {"rr", "order"}
    Threshold = 2
    Restores = TRUE
CHECK_DEADLOCK FALSE
INVARIANTS
    EvenSpread
PROPERTIES
    FailsOnlyAfterAll
    EveryGetAnswered
    OfflineEnds
