SPECIFICATION FairConnectionSpec
CONSTANTS
    SEND_INTERVAL = 10
    TIMEOUT_THRESHOLD = 15
    CHECK_INTERVAL = 5
    MaxRetries = 3
    FailsSynchronously = TRUE
    MaxAppConnects = 4
CHECK_DEADLOCK FALSE
INVARIANTS
    ConnectionTypeOK
    ReconnectingHasTimer
    RetriesBounded
    HeartbeatFollowsSocket
PROPERTIES
    ReconnectsOrGivesUp
