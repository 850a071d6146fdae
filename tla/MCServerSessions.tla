-------------------------- MODULE MCServerSessions --------------------------
(* Model of ServerSessions.  Connections and client ids are only compared. *)
EXTENDS ServerSessions, TLC

MCSymmetry == Permutations(Conns) \cup Permutations(Uuids)
=============================================================================
