\* Up to five rows, flushed two at a time; failures anywhere; destroy() any time.
SPECIFICATION FairSpec
CONSTANTS
    MaxRows = 5
    FlushRows = 2
CHECK_DEADLOCK FALSE
INVARIANTS
    AllOrNothing
    FinishKeepsAll
    NothingLeftOpen
PROPERTIES
    EndsSomehow
