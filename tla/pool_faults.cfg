\* Every option that ends a connection and every fault, attach callbacks that are
\* called again included.
SPECIFICATION Spec
CONSTANTS
    r1 = r1
    r2 = r2
    r3 = r3
    Req <- Three
    NoConn = NoConn
    Destroyers <- OneDestroy
    MaxSize = 2
    MinSize = 1
    MaxUses = 2
    Options = {"connectTimeout", "idleTimeout", "maxLifetime"}
    Faults = {"loss", "attach_error", "detach_error", "repeated_callback"}
SYMMETRY Interchangeable
CHECK_DEADLOCK FALSE
INVARIANTS
    SingleHolder
    NoLeak
    WithinBounds
