\* Every kind of answer, then one more, with the stream cut anywhere.
SPECIFICATION Spec
CONSTANTS
    Scripts <- TwoAnswers
    Output <- Columns
    Length = 3
    Word = 4
    Opaque = 16
    WordBits = 2
CHECK_DEADLOCK FALSE
INVARIANTS
    DecodedInOrder
PROPERTIES
    AllDecoded
