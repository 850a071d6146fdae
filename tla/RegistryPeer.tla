---------------------------- MODULE RegistryPeer ----------------------------
(***************************************************************************)
(* A KeyRegistry driven by the frames of a peer: ServerKeyRegistration and *)
(* ServerKeyDelete at a client, ClientKeyRegistration at a server.  The    *)
(* registry itself puts no order on them.  DisciplinedSpec has the peer    *)
(* keep to what FlatState::setLeaf does within one id space: an id in use  *)
(* is not given to another path, and a path in use not to another id       *)
(* before ServerKeyDelete.                                                 *)
(***************************************************************************)
EXTENDS KeyRegistry

CONSTANTS PeerIds, PeerPaths, PeerTypes

VARIABLE registry

(* The registries that keys of the peer can make.                          *)
PeerRegistries == Registries(PeerIds, PeerPaths \cap ValidPaths, PeerTypes)

(* Type invariant of the registry's maps.                                  *)
RegistryTypeOK == registry \in PeerRegistries

RegistryInit == registry = EmptyRegistry

(* handleFrame, ServerKeyRegistration: a registration that throws is       *)
(* swallowed by the stream parser and changes nothing.                     *)
Register(id, path, type) ==
    /\ ~RegisterThrows(registry, path)
    /\ registry' = RegisterOne(registry, id, path, type)

RemoveId(id) ==
    /\ HasKeyId(registry, id)
    /\ registry' = RemoveByKeyId(registry, id)

(* clear()                                                                 *)
ClearRegistry == registry' = EmptyRegistry

Disciplined(id, path) ==
    /\ HasKeyId(registry, id) => registry.byId[id].path = path
    /\ HasPath(registry, path) => registry.pathToId[path] = id

DisciplinedNext ==
    \/ ClearRegistry
    \/ \E id \in PeerIds : RemoveId(id)
    \/ \E id \in PeerIds, path \in PeerPaths, type \in PeerTypes :
          Disciplined(id, path) /\ Register(id, path, type)

DisciplinedSpec == RegistryInit /\ [][DisciplinedNext]_registry

-----------------------------------------------------------------------------
(* The registry is what its header says, a bidirectional id <-> path map:  *)
(* looking a path up by its id and an id up by its path agree.             *)
RegistryBidirectional == Bidirectional(registry)

(* registerOne's limit bounds the registry, although it is only checked    *)
(* for paths that are not yet registered.                                  *)
RegistryWithinLimit == RegistrySize(registry) <= MaxKeys
=============================================================================
