------------------------------ MODULE Replica -------------------------------
(***************************************************************************)
(* The replica that a DanWebSocketClient (src/api/client.cpp) keeps of the *)
(* server's state, and what a frame does to it.  A replica is a record of  *)
(*     registry : the KeyRegistry registry_                                *)
(*     store    : keyId -> value            (store_)                       *)
(*     pending  : keyId -> value            (pendingValues_)               *)
(*     refused  : history: since the last reset a registration threw.      *)
(***************************************************************************)
EXTENDS KeyRegistry, SequencesExt

Replicas(I, P, T, V) ==
    [registry : Registries(I, P, T), store : Maps(I, V), pending : Maps(I, V),
     refused : BOOLEAN]

EmptyReplica == [registry |-> EmptyRegistry, store |-> EmptyMap,
                 pending |-> EmptyMap, refused |-> FALSE]

-----------------------------------------------------------------------------
(* The effect of a frame on a replica: the cases of handleFrame.           *)

ReplicaRegister(r, f) ==
    IF RegisterThrows(r.registry, f.payload) THEN [r EXCEPT !.refused = TRUE]
    ELSE [r EXCEPT
            !.registry = RegisterOne(r.registry, f.keyId, f.payload, f.dataType),
            !.store = IF f.keyId \in DOMAIN r.pending
                      THEN Put(r.store, f.keyId, r.pending[f.keyId]) ELSE r.store,
            !.pending = Erase(r.pending, f.keyId)]

ReplicaValue(r, f) ==
    IF HasKeyId(r.registry, f.keyId)
    THEN [r EXCEPT !.store = Put(r.store, f.keyId, f.payload)]
    ELSE [r EXCEPT !.pending = Put(r.pending, f.keyId, f.payload)]

(* Pending values survive a deletion.                                      *)
ReplicaDelete(r, f) ==
    [r EXCEPT !.registry = RemoveByKeyId(r.registry, f.keyId),
              !.store = Erase(r.store, f.keyId)]

ReplicaApply(r, f) ==
    CASE f.frameType = "ServerKeyRegistration" -> ReplicaRegister(r, f)
      [] f.frameType = "ServerValue"           -> ReplicaValue(r, f)
      [] f.frameType = "ServerKeyDelete"       -> ReplicaDelete(r, f)
      [] f.frameType = "ServerReset"           -> EmptyReplica
      [] OTHER                                 -> r

(* The replica now and after each of some frames.  (The binds a value that *)
(* TLC would otherwise evaluate again wherever it is used.)                *)
The(S) == CHOOSE x \in S : TRUE

Replay(r, frames) ==
    LET after[i \in 0 .. Len(frames)] ==
            IF i = 0 THEN << r >>
            ELSE The({Append(rs, ReplicaApply(Last(rs), frames[i])) : rs \in {after[i - 1]}})
    IN  after[Len(frames)]

(* get(key)                                                                *)
ReplicaGet(r, path) ==
    IF Resolves(r.registry, path) /\ ResolvePath(r.registry, path) \in DOMAIN r.store
    THEN r.store[ResolvePath(r.registry, path)] ELSE NoPayload

(* get(key) for every key it does not answer with std::monostate.          *)
ClientView(r) ==
    [k \in {p \in DOMAIN r.registry.pathToId :
               Resolves(r.registry, p) /\ ResolvePath(r.registry, p) \in DOMAIN r.store}
        |-> r.store[ResolvePath(r.registry, k)]]
=============================================================================
