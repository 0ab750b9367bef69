\* Attaches may hang, nothing else fails; two calls of destroy().
SPECIFICATION FairSpec
CONSTANTS
    r1 = r1
    r2 = r2
    r3 = r3
    Req <- Three
    NoConn = NoConn
    Destroyers <- TwoDestroys
    MaxSize = 2
    MinSize = 1
    MaxUses = 2
    Options = {"connectTimeout", "idleTimeout"}
    Faults = {}
CHECK_DEADLOCK FALSE
PROPERTIES
    LeaseSpec
    EveryGetAnswered
    DestroyReplied
