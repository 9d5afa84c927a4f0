SPECIFICATION FairSpec
CONSTANTS
    w1 = w1  w2 = w2  s1 = s1
    Writers = {w1, w2}
    Streams = {s1}
    MaxRows = 3
    MaxEnds = 2
INVARIANTS
    TypeOK
    DoneIsComplete
PROPERTIES
    RowsArrive
    StreamsEnd
CHECK_DEADLOCK FALSE
