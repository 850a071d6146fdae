---------------------------- MODULE MCTopicSync -----------------------------
(* Model of TopicSync.  Of the topics t2 has a parameter, so that the      *)
(* limit of two keys refuses it where both topics are sent, and the        *)
(* client's registry a third key of three.                                 *)
EXTENDS TopicSync

CONSTANTS t1, t2, p2, k, s1

MCTopicOrder == << t1, t2 >>
MCParamsOf == [t \in Topics |-> IF t = t1 THEN {NoParams} ELSE {p2}]
MCPeerPaths == {"name", "param"} \X {0, 1}
MCValidPaths == MCPeerPaths \cup WirePaths
MCDetectDataType == [v \in Values |-> "String"]
=============================================================================
