----------------------------- MODULE FlatState ------------------------------
(***************************************************************************)
(* FlatState (src/api/flat_state.cpp): the key-value store behind a        *)
(* principal, a topic-mode session and a topic payload.  A store is a      *)
(* record of its two maps,                                                 *)
(*     entries : key -> [keyId, type, value]      (entries_)               *)
(*     byKeyId : keyId -> key                     (byKeyId_)               *)
(* and each operation is an operator from the store before to the store    *)
(* after, next to the operator that gives the frames the operation passes  *)
(* to its enqueue callback, in the order in which it does.                 *)
(***************************************************************************)
EXTENDS Protocol, FiniteSets, SequencesExt

CONSTANTS
    Keys,            \* key paths
    Values,          \* payloads an application can set
    DataTypes,       \* the data types of those payloads
    DetectDataType   \* Values -> DataTypes, FlatState::detectDataType

ASSUME FlatStateAssumption ==
    /\ DetectDataType \in [Values -> DataTypes]
    /\ NoPayload \notin Values
    /\ IsFiniteSet(Keys)

EmptyFlat == [entries |-> EmptyMap, byKeyId |-> EmptyMap]

EntriesOf(K, I) == Maps(K, [keyId : I, type : DataTypes, value : Values])
FlatStates(K, I) == [entries : EntriesOf(K, I), byKeyId : Maps(I, K)]

WirePath(prefix, k) == IF prefix = "" THEN k ELSE <<prefix, k>>

-----------------------------------------------------------------------------
(* setLeaf.  A key that is new, or whose type changes, is given a new id;  *)
(* otherwise only the value of its entry changes.                          *)

HasKey(fs, k) == k \in DOMAIN fs.entries

NeedsNewId(fs, k, v) ==
    IF HasKey(fs, k) THEN fs.entries[k].type # DetectDataType[v] ELSE TRUE

(* Mutant: the type change forgets byKeyId_.erase(old id).                 *)
MutLeafKeepsOldId(fs, k, v, id) ==
    IF NeedsNewId(fs, k, v)
    THEN [entries |-> Put(fs.entries, k,
                [keyId |-> id, type |-> DetectDataType[v], value |-> v]),
          byKeyId |-> Put(fs.byKeyId, id, k)]
    ELSE [fs EXCEPT !.entries[k].value = v]

SetLeaf(fs, k, v, id) ==
    LET without == IF HasKey(fs, k) THEN Erase(fs.byKeyId, fs.entries[k].keyId)
                                    ELSE fs.byKeyId
    IN  IF NeedsNewId(fs, k, v)
        THEN [entries |-> Put(fs.entries, k,
                    [keyId |-> id, type |-> DetectDataType[v], value |-> v]),
              byKeyId |-> Put(without, id, k)]
        ELSE [fs EXCEPT !.entries[k].value = v]

(* Mutant: the type change does not tell the clients to delete the old id. *)
MutSetFramesNoDelete(fs, prefix, k, v, id) ==
    LET dt == DetectDataType[v]
    IN  IF NeedsNewId(fs, k, v)
        THEN << ServerKeyRegistration(id, dt, WirePath(prefix, k)),
                ServerSync, ServerValue(id, dt, v) >>
        ELSE << ServerValue(fs.entries[k].keyId, dt, v) >>

SetFrames(fs, prefix, k, v, id) ==
    LET dt       == DetectDataType[v]
        delete   == IF HasKey(fs, k)
                    THEN << ServerKeyDelete(fs.entries[k].keyId) >> ELSE << >>
        register == << ServerKeyRegistration(id, dt, WirePath(prefix, k)),
                       ServerSync, ServerValue(id, dt, v) >>
    IN  IF NeedsNewId(fs, k, v)
        THEN delete \o register
        ELSE << ServerValue(fs.entries[k].keyId, dt, v) >>

(* clear(key), for a key that is present.                                  *)
ClearKey(fs, k) == [entries |-> Erase(fs.entries, k),
                    byKeyId |-> Erase(fs.byKeyId, fs.entries[k].keyId)]

ClearKeyFrames(fs, k) == << ServerKeyDelete(fs.entries[k].keyId) >>

(* get(key): std::monostate for a key that is absent.                      *)
Get(fs, k) == IF HasKey(fs, k) THEN fs.entries[k].value ELSE NoPayload

-----------------------------------------------------------------------------
(* buildKeyFrames and buildValueFrames walk an unordered_map: the order is *)
(* any enumeration of the keys.                                            *)

IterationOrders(fs) == SetToSeqs(DOMAIN fs.entries)

KeyFrames(fs, prefix, order) ==
    [i \in DOMAIN order |->
        LET e == fs.entries[order[i]]
        IN  ServerKeyRegistration(e.keyId, e.type, WirePath(prefix, order[i]))]

ValueFrames(fs, order) ==
    [i \in DOMAIN order |->
        LET e == fs.entries[order[i]] IN ServerValue(e.keyId, e.type, e.value)]
=============================================================================
