SPECIFICATION FairSyncSpec
CONSTANTS
    Keys = {k1, k2}
    s1 = s1
    s2 = s2
    n1 = n1
    Values <- MCTwoValues
    DataTypes <- MCDataTypes
    DetectDataType <- MCDetectDataType
    KeyIdBound = 3
    MaxKeys = 4
    ValidPaths = {k1, k2}
    Clients = {c1}
    MaxConnects = 2
    MaxResyncs = 1
    MaxAppCalls = 3
CHECK_DEADLOCK FALSE
INVARIANTS
    KeyIdIndexExact
    LiveIdsAllocated
    SyncTypeOK
    ReplicaFollows
PROPERTIES
    EventuallyReady
    ExchangeSettles
