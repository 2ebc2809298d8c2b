SPECIFICATION Spec
CONSTANTS
    a = a
    b = b
    c = c
    d = d
    Messages = {a, b, c}
    Size <- SmallSizes
    NoMessage = NoMessage
    HeaderSize = 1
    ConfigSize = 1
    RecordHeader = 1
    Capability = 5
    MaxCache = 9
    Garbage = 3
    PowerFails = TRUE
    MapFails = FALSE
    MaxEnds = 2
INVARIANT KeptIsLoaded
