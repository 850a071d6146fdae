SPECIFICATION TopicSpec
CONSTANTS
    t1 = t1
    t2 = t2
    p2 = p2
    k = k
    s1 = s1
    NoParams = none
    TopicOrder <- MCTopicOrder
    ParamsOf <- MCParamsOf
    Keys = {k}
    Values = {s1}
    DataTypes = {"String"}
    DetectDataType <- MCDetectDataType
    MaxKeys = 2
    ValidPaths <- MCValidPaths
    PeerIds = {1, 2, 3, 4}
    PeerPaths <- MCPeerPaths
    PeerTypes = {"String", "VarInteger"}
    MaxKeyId = 3
    MaxCalls = 4
CHECK_DEADLOCK FALSE
INVARIANT TopicsAlwaysScoped
