SPECIFICATION SyncSpec
CONSTANTS
    Keys = {k1, k2}
    s1 = s1
    s2 = s2
    n1 = n1
    Values <- MCTwoValues
    DataTypes <- MCDataTypes
    DetectDataType <- MCDetectDataType
    KeyIdBound = 4
    MaxKeys = 4
    ValidPaths = {k1, k2}
    Clients = {c1, c2}
    MaxConnects = 1
    MaxResyncs = 0
    MaxAppCalls = 3
SYMMETRY MCSymmetry
CHECK_DEADLOCK FALSE
INVARIANTS
    LateJoinerSeesTheState
