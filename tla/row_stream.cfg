\* Five rows in responses of two, to an array, a callback and a stream.
SPECIFICATION FairSpec
CONSTANTS
    c1 = c1
    c2 = c2
    Rows = 5
    Batch = 2
    HighWater = 2
    Cells <- Columns
    Segments = 2
CHECK_DEADLOCK FALSE
INVARIANTS
    RowsInOrder
    Backpressure
PROPERTIES
    StreamSettles
