SPECIFICATION Spec
CONSTANTS
    Cases <- AllCases
    MaxLosses = 2
    Losable <- AllPhases
    Refusing = {"first"}
CHECK_DEADLOCK FALSE
INVARIANTS
    LayersAgree
    RightLoginSucceeds
PROPERTIES
    EveryAttachAnswered
    Reconnects
