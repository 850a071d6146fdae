------------------------------ MODULE Protocol ------------------------------
(***************************************************************************)
(* The frames of DanProtocol (include/danws/protocol/types.h) that carry   *)
(* state between a server and its clients, and the associative maps        *)
(* (std::map, std::unordered_map) that every component keeps.              *)
(*                                                                         *)
(* A payload is a value, a key path or nothing (std::monostate); how the   *)
(* payload is laid out in bytes is the business of StreamParser.           *)
(***************************************************************************)
EXTENDS Naturals, Sequences

NoPayload == "monostate"    \* Payload holding std::monostate
NullType  == "Null"         \* DataType::Null

Frame(type, id, dt, p) ==
    [frameType |-> type, keyId |-> id, dataType |-> dt, payload |-> p]

Signal(type)        == Frame(type, 0, NullType, NoPayload)
KeySignal(type, id) == Frame(type, id, NullType, NoPayload)

ServerSync  == Signal("ServerSync")
ServerReset == Signal("ServerReset")
ClientReady == Signal("ClientReady")
Identify    == Signal("Identify")       \* its UUID is the channel it travels on
ClientResyncReq == Signal("ClientResyncReq")

AuthFrame   == Signal("Auth")           \* its token is up to the application
AuthOk      == Signal("AuthOk")
ClientReset == Signal("ClientReset")
ClientSync  == Signal("ClientSync")

ServerKeyRegistration(id, dt, path) ==
    Frame("ServerKeyRegistration", id, dt, path)
ServerValue(id, dt, value)  == Frame("ServerValue", id, dt, value)
ClientKeyRegistration(id, dt, path) ==
    Frame("ClientKeyRegistration", id, dt, path)
ClientValue(id, dt, value)  == Frame("ClientValue", id, dt, value)
ServerKeyDelete(id)         == KeySignal("ServerKeyDelete", id)
ClientKeyRequest(id)        == KeySignal("ClientKeyRequest", id)

-----------------------------------------------------------------------------
(* Maps: m[k] = v and m.erase(k).                                          *)

EmptyMap == [k \in {} |-> k]
Put(m, k, v) == [x \in DOMAIN m \cup {k} |-> IF x = k THEN v ELSE m[x]]
Erase(m, k)  == [x \in DOMAIN m \ {k} |-> m[x]]

(* All maps from a subset of K to V.                                       *)
Maps(K, V) == UNION {[D -> V] : D \in SUBSET K}
=============================================================================
