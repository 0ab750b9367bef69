\* Three calls of any kind, lost connections, cancels and a detach().
SPECIFICATION FairSpec
CONSTANTS
    o1 = o1
    o2 = o2
    o3 = o3
    Op <- Three
    Kinds = {"execute", "fetch", "prepare", "openBlob", "free", "closeBlob", "batch"}
    Chunks = 1
    Faults = {"loss"}
CHECK_DEADLOCK FALSE
INVARIANTS
    InStep
    OwnReply
    CalledBack
PROPERTIES
    RpcSpec
    EveryCallAnswered
    DetachSettles
