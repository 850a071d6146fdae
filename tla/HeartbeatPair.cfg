SPECIFICATION PairSpec
CONSTANTS
    SEND_INTERVAL = 10
    TIMEOUT_THRESHOLD = 15
    CHECK_INTERVAL = 5
    MaxDelay = 1
    MaxLate = 1
INVARIANTS
    PairTypeOK
    NoFalseTimeout
    DeadPeerNoticed
