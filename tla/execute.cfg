SPECIFICATION Spec
CONSTANTS
    c1 = c1
    c2 = c2
    Call <- TwoCalls
    Plans <- AllPlans
    Failing <- Refusals
    Chunk = 2
    PerPacket = 2
    Word = 4
    Base = 4
    WordBits = 2
    Half = 128
    Day = 10
CHECK_DEADLOCK FALSE
INVARIANTS
    SentAsGiven
    RunOnce
PROPERTIES
    EveryCallAnswered
