-------------------------- MODULE MCPrincipalSync ---------------------------
(* Model of PrincipalSync.  n1 has another type than s1 and s2.            *)
EXTENDS PrincipalSync

CONSTANTS s1, s2, n1

MCTwoValues == {s1, n1}
MCThreeValues == {s1, s2, n1}
MCDataTypes == {"String", "VarInteger"}
MCDetectDataType ==
    [v \in Values |-> IF v = n1 THEN "VarInteger" ELSE "String"]

(* Keys and clients are interchangeable: unordered_maps are walked in any  *)
(* order, and no client is told from another.                              *)
MCSymmetry == Permutations(Keys) \cup Permutations(Clients)
=============================================================================
