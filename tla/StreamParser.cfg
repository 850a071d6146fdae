SPECIFICATION ParserSpec
CONSTANTS
    HeaderSize = 1
    MaxBufferSize = 1
    MaxBodySize = 2
    MaxItems = 3
    MaxConnections = 2
CHECK_DEADLOCK FALSE
INVARIANTS
    ParserTypeOK
    FramesIntact
    ParserResyncs
    BatchDecodeAgrees
