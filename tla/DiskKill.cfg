SPECIFICATION Spec
CONSTANTS
    a = a
    b = b
    c = c
    d = d
    Messages = {a, b, c, d}
    Size <- Sizes
    NoMessage = NoMessage
    HeaderSize = 1
    ConfigSize = 1
    RecordHeader = 1
    Capability = 6
    MaxCache = 13
    Garbage = 3
    PowerFails = FALSE
    MapFails = TRUE
    MaxEnds = 2
INVARIANTS
    KeptIsLoaded
    Reopens
    InsideMapping
PROPERTY IsRecordLog
CHECK_DEADLOCK FALSE
