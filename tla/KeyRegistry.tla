---------------------------- MODULE KeyRegistry -----------------------------
(***************************************************************************)
(* KeyRegistry (src/state/key_registry.cpp): what a receiver knows of the  *)
(* key ids of its peer.  A registry is a record of its two maps,           *)
(*     byId     : keyId -> [path, type]    (byId_; an entry's keyId_ is    *)
(*                                          the id it is stored under)     *)
(*     pathToId : path -> keyId            (pathToId_)                     *)
(* and each operation an operator from registry to registry.  nextId_ is   *)
(* written and never read, and is left out.                                *)
(***************************************************************************)
EXTENDS Protocol, FiniteSets

CONSTANTS
    MaxKeys,     \* maxKeys_
    ValidPaths   \* the paths that validateKeyPath accepts

ASSUME MaxKeysAssumption == MaxKeys \in Nat

EmptyRegistry == [byId |-> EmptyMap, pathToId |-> EmptyMap]

Registries(I, P, T) ==
    [byId : Maps(I, [path : P, type : T]), pathToId : Maps(P, I)]

HasKeyId(reg, id)  == id \in DOMAIN reg.byId
HasPath(reg, path) == path \in DOMAIN reg.pathToId
RegistrySize(reg)  == Cardinality(DOMAIN reg.byId)

(* Mutant: the limit is checked with > instead of >=.                      *)
MutRegisterThrows(reg, path) ==
    \/ path \notin ValidPaths
    \/ ~HasPath(reg, path) /\ RegistrySize(reg) > MaxKeys

(* registerOne throws on an invalid path, and at the limit on a path it    *)
(* does not know; a known path is let through whatever its new id.         *)
RegisterThrows(reg, path) ==
    \/ path \notin ValidPaths
    \/ ~HasPath(reg, path) /\ RegistrySize(reg) >= MaxKeys

RegisterOne(reg, id, path, type) ==
    [byId |-> Put(reg.byId, id, [path |-> path, type |-> type]),
     pathToId |-> Put(reg.pathToId, path, id)]

(* removeByKeyId; an unknown id is ignored.                                *)
RemoveByKeyId(reg, id) ==
    IF HasKeyId(reg, id)
    THEN [byId |-> Erase(reg.byId, id),
          pathToId |-> Erase(reg.pathToId, reg.byId[id].path)]
    ELSE reg

(* getByPath(path)->keyId: the entry is found through byId_, and carries   *)
(* the path that byId_ holds, which need not be the one asked for.         *)
Resolves(reg, path) == HasPath(reg, path) /\ HasKeyId(reg, reg.pathToId[path])
ResolvePath(reg, path) == reg.pathToId[path]

(* The two maps are inverse to each other.                                 *)
Bidirectional(reg) ==
    /\ \A id \in DOMAIN reg.byId :
          /\ HasPath(reg, reg.byId[id].path)
          /\ reg.pathToId[reg.byId[id].path] = id
    /\ \A path \in DOMAIN reg.pathToId :
          /\ HasKeyId(reg, reg.pathToId[path])
          /\ reg.byId[reg.pathToId[path]].path = path
=============================================================================
