SPECIFICATION ArraySpec
CONSTANTS
    WordBytes = 2
    LongBytes = 3
    Precision = 4
    MaxSafe = 511
    HeaderSize = 4
    MaxBufferSize = 16
    MaxBodySize = 16
    MaxItems = 1
    MaxConnections = 1
    Frames <- AllFrames
    Slots = 3
    ArrayFrames <- MCArrayFrames
CHECK_DEADLOCK FALSE
INVARIANTS
    FrameArrives
PROPERTIES
    ShiftsAtOnce
