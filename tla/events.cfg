\* Changes, notifications, a refusal, a lost socket and close() in any order.
SPECIFICATION FairSpec
CONSTANTS
    e1 = e1
    e2 = e2
    c1 = c1
    c2 = c2
    c3 = c3
    Event <- OneEvent
    Change <- ThreeChanges
    MaxPosts = 2
    Faults = {"refused", "lost"}
CHECK_DEADLOCK FALSE
INVARIANTS
    KnownActive
PROPERTIES
    EveryChangeAnswered
    EveryPostNoticed
