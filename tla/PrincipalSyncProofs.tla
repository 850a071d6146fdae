------------------------- MODULE PrincipalSyncProofs ------------------------
(***************************************************************************)
(* Proofs about PrincipalTX, for every set of keys, values and data types  *)
(* and every bound on the ids, and about PrincipalSync, for every set of   *)
(* clients besides: what the server, its sessions and the replicas promise *)
(* each other, whatever is on the channels.                                *)
(***************************************************************************)
EXTENDS PrincipalSync, ReplicaProofs

-----------------------------------------------------------------------------
(* The store of one principal.                                             *)

(* setLeaf keeps a store well typed, provided the id it is given is.       *)
LEMMA SetLeafType ==
    ASSUME NEW K, NEW I, NEW fs \in FlatStates(K, I),
           NEW k \in K, NEW v \in Values, NEW id,
           NeedsNewId(fs, k, v) => id \in I
    PROVE  SetLeaf(fs, k, v, id) \in FlatStates(K, I)
<1> DEFINE E == [keyId : I, type : DataTypes, value : Values]
           e == [keyId |-> id, type |-> DetectDataType[v], value |-> v]
<1>0. fs.entries \in Maps(K, E) /\ fs.byKeyId \in Maps(I, K)
  BY DEF FlatStates, EntriesOf
<1>1. CASE NeedsNewId(fs, k, v)
  <2>1. e \in E
    BY <1>1, FlatStateAssumption
  <2>2. Put(fs.entries, k, e) \in Maps(K, E)
    <3> HIDE DEF E, e
    <3> QED BY <1>0, <2>1, PutType
  <2>3. Erase(fs.byKeyId, fs.entries[k].keyId) \in Maps(I, K)
    BY <1>0, EraseType
  <2>4. Put(IF HasKey(fs, k) THEN Erase(fs.byKeyId, fs.entries[k].keyId)
                             ELSE fs.byKeyId, id, k) \in Maps(I, K)
    BY <1>0, <1>1, <2>3, PutType
  <2> QED BY <1>1, <2>2, <2>4 DEF SetLeaf, FlatStates, EntriesOf
<1>2. CASE ~NeedsNewId(fs, k, v)
  <2>1. k \in DOMAIN fs.entries
    BY <1>2 DEF NeedsNewId, HasKey
  <2> DEFINE f == [fs.entries EXCEPT ![k].value = v]
  <2>2. PICK D \in SUBSET K : fs.entries \in [D -> E]
    BY <1>0 DEF Maps
  <2>3. f \in [D -> E]
    BY <2>1, <2>2
  <2>4. f \in Maps(K, E)
    BY <2>3 DEF Maps
  <2>5. SetLeaf(fs, k, v, id) = [entries |-> f, byKeyId |-> fs.byKeyId]
    BY <1>2 DEF SetLeaf, FlatStates
  <2> QED BY <1>0, <2>4, <2>5 DEF FlatStates, EntriesOf
<1> QED BY <1>1, <1>2

-----------------------------------------------------------------------------
(* The frames that introduce the store to a session are frames of the      *)
(* cache's type.                                                           *)
LEMMA KeyFramesType ==
    ASSUME NEW fs \in FlatStates(Keys, KeyIds),
           NEW order \in IterationOrders(fs)
    PROVE  Append(KeyFrames(fs, "", order), ServerSync) \in Seq(KeyFrameSet)
<1> DEFINE n == Cardinality(DOMAIN fs.entries)
<1> DEFINE E == [keyId : KeyIds, type : DataTypes, value : Values]
<1>0. fs.entries \in Maps(Keys, E)
  BY DEF FlatStates, EntriesOf
<1>1. order \in [1 .. n -> DOMAIN fs.entries]
  BY DEF IterationOrders, SetToSeqs
<1>2. n \in Nat
  <2>1. DOMAIN fs.entries \subseteq Keys
    <3> HIDE DEF E
    <3> QED BY <1>0, MapApply
  <2> QED BY <2>1, FlatStateAssumption, FS_Subset, FS_CardinalityType
<1>3. \A i \in 1 .. n : KeyFrames(fs, "", order)[i] \in KeyFrameSet
  <2> TAKE i \in 1 .. n
  <2>1. order[i] \in DOMAIN fs.entries
    BY <1>1
  <2>2. order[i] \in Keys /\ fs.entries[order[i]] \in E
    <3> HIDE DEF E
    <3> QED BY <1>0, <2>1, MapApply
  <2>3. KeyFrames(fs, "", order)[i] =
            ServerKeyRegistration(fs.entries[order[i]].keyId,
                                  fs.entries[order[i]].type, order[i])
    BY <1>1 DEF KeyFrames, WirePath
  <2> DEFINE e == fs.entries[order[i]]
             p == order[i]
  <2>4. e.keyId \in KeyIds /\ e.type \in DataTypes /\ p \in Keys
    BY <2>2
  <2> HIDE DEF e, p
  <2>5. ServerKeyRegistration(e.keyId, e.type, p) \in KeyFrameSet
    BY <2>4 DEF KeyFrameSet, ServerKeyRegistration, Frame
  <2> QED BY <2>3, <2>5 DEF e, p
<1>4. KeyFrames(fs, "", order) \in Seq(KeyFrameSet)
  <2> HIDE DEF n
  <2>1. DOMAIN KeyFrames(fs, "", order) = 1 .. n
    BY <1>1 DEF KeyFrames
  <2>2. KeyFrames(fs, "", order) = [i \in 1 .. n |-> KeyFrames(fs, "", order)[i]]
    BY <2>1 DEF KeyFrames
  <2>3. KeyFrames(fs, "", order) \in [1 .. n -> KeyFrameSet]
    BY <1>3, <2>2
  <2> QED BY <1>2, <2>3, SeqDef
<1>5. ServerSync \in KeyFrameSet
  BY DEF KeyFrameSet
<1> QED BY <1>4, <1>5, AppendProperties

-----------------------------------------------------------------------------
(* One step of the principal preserves its types.                          *)
LEMMA PrincipalTypeStep ==
    ASSUME PrincipalTypeOK, [PrincipalNext]_txVars
    PROVE  PrincipalTypeOK'
<1> USE DEF PrincipalTypeOK
<1>1. ASSUME NEW k \in Keys, NEW v \in Values, Set(k, v)
      PROVE  PrincipalTypeOK'
  <2>1. NeedsNewId(flat, k, v) => nextKeyId \in KeyIds
    BY <1>1, KeyIdBoundAssumption DEF Set, KeyIds
  <2>2. flat' \in FlatStates(Keys, KeyIds)
    BY <1>1, <2>1, SetLeafType DEF Set
  <2>3. nextKeyId' \in 1 .. KeyIdBound + 1
    BY <1>1, KeyIdBoundAssumption DEF Set
  <2> QED BY <1>1, <2>2, <2>3 DEF Set
<1>2. ASSUME NEW k \in Keys, ClearOne(k)
      PROVE  PrincipalTypeOK'
  <2>1. flat' \in FlatStates(Keys, KeyIds)
    BY <1>2, EraseType DEF ClearOne, ClearKey, FlatStates, EntriesOf
  <2> QED BY <1>2, <2>1 DEF ClearOne
<1>3. EmptyFlat \in FlatStates(Keys, KeyIds)
  BY EmptyType DEF EmptyFlat, FlatStates, EntriesOf
<1>4. ASSUME ClearAll
      PROVE  PrincipalTypeOK'
  <2>1. << ServerSync >> \in Seq(KeyFrameSet)
    BY DEF KeyFrameSet
  <2> QED BY <1>3, <1>4, <2>1, KeyIdBoundAssumption DEF ClearAll
<1>5. ASSUME ClearWhenEmpty
      PROVE  PrincipalTypeOK'
  BY <1>5, KeyIdBoundAssumption DEF ClearWhenEmpty
<1>6. ASSUME BuildKeyFrames
      PROVE  PrincipalTypeOK'
  <2>1. cachedKeyFrames' \in Seq(KeyFrameSet)
    BY <1>6, KeyFramesType DEF BuildKeyFrames
  <2> QED BY <1>6, <2>1 DEF BuildKeyFrames
<1>7. CASE UNCHANGED txVars
  BY <1>7 DEF txVars
<1> QED BY <1>1, <1>2, <1>4, <1>5, <1>6, <1>7 DEF PrincipalNext

(* One step preserves the exactness of the id index, and the facts about   *)
(* ids and types it depends on: a new id is one no live key has, because   *)
(* all live ids are below the counter.                                     *)
LEMMA PrincipalIndexStep ==
    ASSUME PrincipalInv, [PrincipalNext]_txVars
    PROVE  (KeyIdIndexExact /\ LiveIdsAllocated /\ TypesMatchValues)'
<1> DEFINE Index == KeyIdIndexExact /\ LiveIdsAllocated /\ TypesMatchValues
<1> USE DEF PrincipalInv
<1>0. /\ \A k \in DOMAIN flat.entries :
            /\ k \in Keys
            /\ flat.entries[k] \in [keyId : KeyIds, type : DataTypes, value : Values]
      /\ \A id \in DOMAIN flat.byKeyId : id \in KeyIds
      /\ nextKeyId \in Nat
  <2>1. flat.entries \in EntriesOf(Keys, KeyIds) /\ flat.byKeyId \in Maps(KeyIds, Keys)
    BY DEF PrincipalTypeOK, FlatStates
  <2>2. nextKeyId \in Nat
    BY KeyIdBoundAssumption DEF PrincipalTypeOK
  <2> DEFINE E == [keyId : KeyIds, type : DataTypes, value : Values]
  <2>3. flat.entries \in Maps(Keys, E)
    BY <2>1 DEF EntriesOf
  <2> HIDE DEF E
  <2>4. \A k \in DOMAIN flat.entries : k \in Keys /\ flat.entries[k] \in E
    BY <2>3, MapApply
  <2>5. \A id \in DOMAIN flat.byKeyId : id \in KeyIds
    BY <2>1, MapApply
  <2> QED BY <2>2, <2>4, <2>5 DEF E
<1>1. ASSUME NEW k \in Keys, NEW v \in Values, Set(k, v), NeedsNewId(flat, k, v)
      PROVE  Index'
  <2> DEFINE e == [keyId |-> nextKeyId, type |-> DetectDataType[v], value |-> v]
             old == IF HasKey(flat, k)
                    THEN Erase(flat.byKeyId, flat.entries[k].keyId)
                    ELSE flat.byKeyId
  <2>1. flat'.entries = Put(flat.entries, k, e) /\ flat'.byKeyId = Put(old, nextKeyId, k)
    BY <1>1 DEF Set, SetLeaf
  <2>2. nextKeyId' = nextKeyId + 1
    BY <1>1 DEF Set
  <2>3. nextKeyId \notin DOMAIN flat.byKeyId
    BY <1>0 DEF KeyIdIndexExact, LiveIdsAllocated
  <2>4. DOMAIN flat'.entries = DOMAIN flat.entries \cup {k}
    BY <2>1 DEF Put
  <2>5. \A x \in DOMAIN flat'.entries :
            flat'.entries[x] = IF x = k THEN e ELSE flat.entries[x]
    BY <2>1 DEF Put
  <2>6. DOMAIN flat'.byKeyId = DOMAIN old \cup {nextKeyId}
    BY <2>1 DEF Put
  <2>7. \A id \in DOMAIN flat'.byKeyId :
            flat'.byKeyId[id] = IF id = nextKeyId THEN k ELSE old[id]
    BY <2>1 DEF Put
  <2>8. \A id \in DOMAIN old : /\ id \in DOMAIN flat.byKeyId
                              /\ old[id] = flat.byKeyId[id]
                              /\ old[id] # k
    BY DEF Erase, HasKey, KeyIdIndexExact
  <2>9. \A id \in DOMAIN flat.byKeyId : flat.byKeyId[id] # k => id \in DOMAIN old
    BY DEF Erase, HasKey, KeyIdIndexExact
  <2>10. KeyIdIndexExact'
    <3> HIDE DEF old
    <3>1. \A x \in DOMAIN flat'.entries :
              /\ flat'.entries[x].keyId \in DOMAIN flat'.byKeyId
              /\ flat'.byKeyId[flat'.entries[x].keyId] = x
      BY <2>3, <2>4, <2>5, <2>6, <2>7, <2>8, <2>9 DEF KeyIdIndexExact
    <3>2. \A id \in DOMAIN flat'.byKeyId :
              /\ flat'.byKeyId[id] \in DOMAIN flat'.entries
              /\ flat'.entries[flat'.byKeyId[id]].keyId = id
      BY <2>3, <2>4, <2>5, <2>6, <2>7, <2>8, <2>9 DEF KeyIdIndexExact
    <3> QED BY <3>1, <3>2 DEF KeyIdIndexExact
  <2>11. LiveIdsAllocated'
    BY <1>0, <2>2, <2>4, <2>5 DEF LiveIdsAllocated, KeyIds
  <2>12. TypesMatchValues'
    BY <2>4, <2>5 DEF TypesMatchValues
  <2> QED BY <2>10, <2>11, <2>12
<1>2. ASSUME NEW k \in Keys, NEW v \in Values, Set(k, v), ~NeedsNewId(flat, k, v)
      PROVE  Index'
  <2>1. /\ flat'.entries = [flat.entries EXCEPT ![k].value = v]
        /\ flat'.byKeyId = flat.byKeyId
        /\ nextKeyId' = nextKeyId
    BY <1>2 DEF Set, SetLeaf, PrincipalTypeOK, FlatStates
  <2>2. k \in DOMAIN flat.entries /\ flat.entries[k].type = DetectDataType[v]
    BY <1>2 DEF NeedsNewId, HasKey
  <2>3. DOMAIN flat'.entries = DOMAIN flat.entries
    BY <2>1
  <2>4. \A x \in DOMAIN flat.entries :
            /\ flat'.entries[x].keyId = flat.entries[x].keyId
            /\ flat'.entries[x].type = flat.entries[x].type
            /\ flat'.entries[x].value = IF x = k THEN v ELSE flat.entries[x].value
    BY <1>0, <2>1
  <2>5. KeyIdIndexExact'
    BY <2>1, <2>3, <2>4 DEF KeyIdIndexExact
  <2>6. LiveIdsAllocated'
    BY <2>1, <2>3, <2>4 DEF LiveIdsAllocated
  <2>7. TypesMatchValues'
    BY <2>2, <2>3, <2>4 DEF TypesMatchValues
  <2> QED BY <2>5, <2>6, <2>7
<1>3. ASSUME NEW k \in Keys, ClearOne(k)
      PROVE  Index'
  <2>1. /\ flat'.entries = Erase(flat.entries, k)
        /\ flat'.byKeyId = Erase(flat.byKeyId, flat.entries[k].keyId)
        /\ nextKeyId' = nextKeyId
        /\ k \in DOMAIN flat.entries
    BY <1>3 DEF ClearOne, ClearKey, HasKey
  <2>2. DOMAIN flat'.entries = DOMAIN flat.entries \ {k}
    BY <2>1 DEF Erase
  <2>3. \A x \in DOMAIN flat'.entries : flat'.entries[x] = flat.entries[x]
    BY <2>1 DEF Erase
  <2>4. DOMAIN flat'.byKeyId = DOMAIN flat.byKeyId \ {flat.entries[k].keyId}
    BY <2>1 DEF Erase
  <2>5. \A id \in DOMAIN flat'.byKeyId : flat'.byKeyId[id] = flat.byKeyId[id]
    BY <2>1 DEF Erase
  <2>6. KeyIdIndexExact'
    BY <2>1, <2>2, <2>3, <2>4, <2>5 DEF KeyIdIndexExact
  <2>7. LiveIdsAllocated'
    BY <2>1, <2>2, <2>3 DEF LiveIdsAllocated
  <2>8. TypesMatchValues'
    BY <2>2, <2>3 DEF TypesMatchValues
  <2> QED BY <2>6, <2>7, <2>8
<1>4. ASSUME ClearAll
      PROVE  Index'
  BY <1>4 DEF ClearAll, EmptyFlat, EmptyMap,
              KeyIdIndexExact, LiveIdsAllocated, TypesMatchValues
<1>5. ASSUME ClearWhenEmpty
      PROVE  Index'
  BY <1>5 DEF ClearWhenEmpty, KeyIdIndexExact, LiveIdsAllocated, TypesMatchValues
<1>6. ASSUME BuildKeyFrames
      PROVE  Index'
  BY <1>6 DEF BuildKeyFrames, KeyIdIndexExact, LiveIdsAllocated, TypesMatchValues
<1>7. CASE UNCHANGED txVars
  BY <1>7 DEF txVars, KeyIdIndexExact, LiveIdsAllocated, TypesMatchValues
<1> QED BY <1>1, <1>2, <1>3, <1>4, <1>5, <1>6, <1>7 DEF PrincipalNext

(* A new PrincipalTX satisfies the invariant.                              *)
LEMMA PrincipalInitInv == PrincipalInit => PrincipalInv
<1> SUFFICES ASSUME PrincipalInit PROVE PrincipalInv
  OBVIOUS
<1>1. PrincipalTypeOK
  <2>1. EmptyFlat \in FlatStates(Keys, KeyIds)
    BY EmptyType DEF EmptyFlat, FlatStates, EntriesOf
  <2>2. << >> \in Seq(KeyFrameSet)
    OBVIOUS
  <2>3. 1 \in 1 .. KeyIdBound + 1
    BY KeyIdBoundAssumption
  <2> QED BY <2>1, <2>2, <2>3 DEF PrincipalInit, PrincipalTypeOK
<1>2. KeyIdIndexExact /\ LiveIdsAllocated /\ TypesMatchValues
  BY DEF PrincipalInit, EmptyFlat, EmptyMap,
         KeyIdIndexExact, LiveIdsAllocated, TypesMatchValues
<1> QED BY <1>1, <1>2 DEF PrincipalInv

-----------------------------------------------------------------------------
(* PrincipalInv holds in every reachable state.                            *)
THEOREM PrincipalInvariant == PrincipalSpec => []PrincipalInv
<1>1. PrincipalInit => PrincipalInv
  BY PrincipalInitInv
<1>2. PrincipalInv /\ [PrincipalNext]_txVars => PrincipalInv'
  BY PrincipalTypeStep, PrincipalIndexStep DEF PrincipalInv
<1> QED BY <1>1, <1>2, PTL DEF PrincipalSpec

(* The members of PrincipalTX keep their types; in particular no id above  *)
(* the bound enters either map.                                            *)
THEOREM PrincipalTypeCorrect == PrincipalSpec => []PrincipalTypeOK
<1>1. PrincipalInv => PrincipalTypeOK
  BY DEF PrincipalInv
<1> QED BY <1>1, PrincipalInvariant, PTL

(* byKeyId_ stays the exact inverse of entries_ under every interleaving   *)
(* of set, type changes, clear(key), clear() and frame building, although  *)
(* clear() restarts the id counter.                                        *)
THEOREM PrincipalIndexCorrect == PrincipalSpec => []KeyIdIndexExact
<1>1. PrincipalInv => KeyIdIndexExact
  BY DEF PrincipalInv
<1> QED BY <1>1, PrincipalInvariant, PTL

(* allocateKeyId never hands out the id of a live key, although clear()    *)
(* restarts nextKeyId_: every live id is below the counter.                *)
THEOREM PrincipalIdsAllocated == PrincipalSpec => []LiveIdsAllocated
<1>1. PrincipalInv => LiveIdsAllocated
  BY DEF PrincipalInv
<1> QED BY <1>1, PrincipalInvariant, PTL

-----------------------------------------------------------------------------
(* Types.                                                                  *)

Reps == Replicas(KeyIds, Keys, DataTypes, Values)

(* The frames a server sends, by their type.                               *)
LEMMA DownKinds ==
    ASSUME NEW f \in DownFrames
    PROVE  /\ f.frameType \in {"ServerKeyRegistration", "ServerSync", "ServerReset",
                               "ServerValue", "ServerKeyDelete"}
           /\ f.frameType = "ServerKeyRegistration" =>
                 f.keyId \in KeyIds /\ f.dataType \in DataTypes /\ f.payload \in Keys
           /\ f.frameType = "ServerValue" => f.keyId \in KeyIds /\ f.payload \in Values
           /\ f.frameType = "ServerKeyDelete" => f.keyId \in KeyIds
BY DEF DownFrames, KeyFrameSet, ServerSync, ServerReset, ServerKeyDelete, Signal,
       KeySignal, Frame

(* What handleFrame does with each.                                        *)
LEMMA ApplyKinds ==
    ASSUME NEW r, NEW f
    PROVE  /\ f.frameType = "ServerKeyRegistration" => ReplicaApply(r, f) = ReplicaRegister(r, f)
           /\ f.frameType = "ServerValue" => ReplicaApply(r, f) = ReplicaValue(r, f)
           /\ f.frameType = "ServerKeyDelete" => ReplicaApply(r, f) = ReplicaDelete(r, f)
           /\ f.frameType = "ServerReset" => ReplicaApply(r, f) = EmptyReplica
           /\ f.frameType = "ServerSync" => ReplicaApply(r, f) = r
BY DEF ReplicaApply

(* The members of a replica, ...                                           *)
LEMMA RepsFields ==
    ASSUME NEW r \in Reps
    PROVE  /\ r.registry \in Registries(KeyIds, Keys, DataTypes)
           /\ r.registry.byId \in Maps(KeyIds, [path : Keys, type : DataTypes])
           /\ r.registry.pathToId \in Maps(Keys, KeyIds)
           /\ r.store \in Maps(KeyIds, Values) /\ r.pending \in Maps(KeyIds, Values)
           /\ r.refused \in BOOLEAN
<1>1. /\ r.registry \in Registries(KeyIds, Keys, DataTypes)
      /\ r.store \in Maps(KeyIds, Values) /\ r.pending \in Maps(KeyIds, Values)
      /\ r.refused \in BOOLEAN
  BY DEF Reps, Replicas
<1> QED BY <1>1 DEF Registries

(* ... and how one is made of them.                                        *)
LEMMA MakeReps ==
    ASSUME NEW reg \in Registries(KeyIds, Keys, DataTypes), NEW st \in Maps(KeyIds, Values),
           NEW pe \in Maps(KeyIds, Values), NEW b \in BOOLEAN
    PROVE  [registry |-> reg, store |-> st, pending |-> pe, refused |-> b] \in Reps
BY DEF Reps, Replicas

(* A registry is made of two maps.                                         *)
LEMMA MakeRegistry ==
    ASSUME NEW b \in Maps(KeyIds, [path : Keys, type : DataTypes]), NEW m \in Maps(Keys, KeyIds)
    PROVE  [byId |-> b, pathToId |-> m] \in Registries(KeyIds, Keys, DataTypes)
BY DEF Registries

(* A client starts with a replica.                                         *)
LEMMA EmptyReplicaType == EmptyReplica \in Reps
<1>1. EmptyRegistry \in Registries(KeyIds, Keys, DataTypes)
  BY EmptyType, MakeRegistry DEF EmptyRegistry
<1> QED BY <1>1, EmptyType, MakeReps DEF EmptyReplica

(* A replica stays one, whatever frame it is given.                        *)
LEMMA RepsClosed == Closed(Reps, DownFrames)
<1> SUFFICES ASSUME NEW r \in Reps, NEW f \in DownFrames
             PROVE  ReplicaApply(r, f) \in Reps
  BY DEF Closed
<1>1. CASE f.frameType = "ServerKeyRegistration"
  <2>0. f.keyId \in KeyIds /\ f.dataType \in DataTypes /\ f.payload \in Keys
    BY <1>1, DownKinds
  <2>1. CASE RegisterThrows(r.registry, f.payload)
    <3>1. ReplicaRegister(r, f) = [registry |-> r.registry, store |-> r.store,
                                   pending |-> r.pending, refused |-> TRUE]
      BY <2>1 DEF ReplicaRegister, Reps, Replicas
    <3>2. [registry |-> r.registry, store |-> r.store, pending |-> r.pending,
           refused |-> TRUE] \in Reps
      BY RepsFields, MakeReps
    <3> QED BY <1>1, <3>1, <3>2, ApplyKinds
  <2>2. CASE ~RegisterThrows(r.registry, f.payload)
    <3> DEFINE reg == RegisterOne(r.registry, f.keyId, f.payload, f.dataType)
               st == IF f.keyId \in DOMAIN r.pending
                     THEN Put(r.store, f.keyId, r.pending[f.keyId]) ELSE r.store
               pe == Erase(r.pending, f.keyId)
    <3>1. ReplicaRegister(r, f) = [registry |-> reg, store |-> st, pending |-> pe,
                                   refused |-> r.refused]
      BY <2>2 DEF ReplicaRegister, Reps, Replicas
    <3>2. [path |-> f.payload, type |-> f.dataType] \in [path : Keys, type : DataTypes]
      BY <2>0
    <3>3. /\ Put(r.registry.byId, f.keyId, [path |-> f.payload, type |-> f.dataType])
                \in Maps(KeyIds, [path : Keys, type : DataTypes])
          /\ Put(r.registry.pathToId, f.payload, f.keyId) \in Maps(Keys, KeyIds)
      BY <2>0, <3>2, PutType, RepsFields
    <3>4. reg \in Registries(KeyIds, Keys, DataTypes)
      BY <3>3, MakeRegistry DEF RegisterOne
    <3>5. st \in Maps(KeyIds, Values)
      <4>1. CASE f.keyId \in DOMAIN r.pending
        <5>1. r.pending[f.keyId] \in Values
          BY <4>1, MapApply, RepsFields
        <5> QED BY <2>0, <4>1, <5>1, PutType, RepsFields
      <4> QED BY <4>1, RepsFields
    <3>6. pe \in Maps(KeyIds, Values)
      BY EraseType, RepsFields
    <3> HIDE DEF reg, st, pe
    <3>7. [registry |-> reg, store |-> st, pending |-> pe, refused |-> r.refused] \in Reps
      BY <3>4, <3>5, <3>6, RepsFields, MakeReps
    <3> QED BY <1>1, <3>1, <3>7, ApplyKinds
  <2> QED BY <2>1, <2>2
<1>2. CASE f.frameType = "ServerValue"
  <2>0. f.keyId \in KeyIds /\ f.payload \in Values
    BY <1>2, DownKinds
  <2>1. \/ ReplicaValue(r, f) = [registry |-> r.registry, pending |-> r.pending,
              store |-> Put(r.store, f.keyId, f.payload), refused |-> r.refused]
        \/ ReplicaValue(r, f) = [registry |-> r.registry, store |-> r.store,
              pending |-> Put(r.pending, f.keyId, f.payload), refused |-> r.refused]
    BY DEF ReplicaValue, Reps, Replicas
  <2>2. Put(r.store, f.keyId, f.payload) \in Maps(KeyIds, Values)
        /\ Put(r.pending, f.keyId, f.payload) \in Maps(KeyIds, Values)
    BY <2>0, PutType, RepsFields
  <2>3. /\ [registry |-> r.registry, pending |-> r.pending,
            store |-> Put(r.store, f.keyId, f.payload), refused |-> r.refused] \in Reps
        /\ [registry |-> r.registry, store |-> r.store,
            pending |-> Put(r.pending, f.keyId, f.payload), refused |-> r.refused] \in Reps
    BY <2>2, RepsFields, MakeReps
  <2> QED BY <1>2, <2>1, <2>3, ApplyKinds
<1>3. CASE f.frameType = "ServerKeyDelete"
  <2>0. PICK reg : reg = RemoveByKeyId(r.registry, f.keyId)
    OBVIOUS
  <2>1. ReplicaDelete(r, f) = [registry |-> reg, store |-> Erase(r.store, f.keyId),
                               pending |-> r.pending, refused |-> r.refused]
    <3>1. PICK q : q = [r EXCEPT !.registry = reg]
      OBVIOUS
    <3>2. q = [registry |-> reg, store |-> r.store, pending |-> r.pending,
               refused |-> r.refused]
      BY <3>1 DEF Reps, Replicas
    <3>3. ReplicaDelete(r, f) = [q EXCEPT !.store = Erase(r.store, f.keyId)]
      BY <2>0, <3>1 DEF ReplicaDelete
    <3> QED BY <3>2, <3>3
  <2>2. Erase(r.store, f.keyId) \in Maps(KeyIds, Values)
    BY EraseType, RepsFields
  <2>3. /\ Erase(r.registry.byId, f.keyId) \in Maps(KeyIds, [path : Keys, type : DataTypes])
        /\ Erase(r.registry.pathToId, r.registry.byId[f.keyId].path) \in Maps(Keys, KeyIds)
    BY EraseType, RepsFields
  <2>4. reg \in Registries(KeyIds, Keys, DataTypes)
    <3>1. CASE HasKeyId(r.registry, f.keyId)
      BY <2>0, <2>3, <3>1, MakeRegistry DEF RemoveByKeyId
    <3>2. CASE ~HasKeyId(r.registry, f.keyId)
      BY <2>0, <3>2, RepsFields DEF RemoveByKeyId
    <3> QED BY <3>1, <3>2
  <2>5. [registry |-> reg, store |-> Erase(r.store, f.keyId), pending |-> r.pending,
         refused |-> r.refused] \in Reps
    BY <2>2, <2>4, RepsFields, MakeReps
  <2> QED BY <1>3, <2>1, <2>5, ApplyKinds
<1>4. CASE f.frameType \in {"ServerReset", "ServerSync"}
  BY <1>4, ApplyKinds, EmptyReplicaType
<1> QED BY <1>1, <1>2, <1>3, <1>4, DownKinds

(* The frames the server builds are frames of its channels.                *)
LEMMA DownMembers ==
    /\ ServerSync \in DownFrames /\ ServerReset \in DownFrames
    /\ KeyFrameSet \subseteq DownFrames
    /\ \A id \in KeyIds : ServerKeyDelete(id) \in DownFrames
    /\ \A id \in KeyIds, dt \in DataTypes, k \in Keys :
          ServerKeyRegistration(id, dt, k) \in DownFrames
    /\ \A id \in KeyIds, dt \in DataTypes, v \in Values :
          ServerValue(id, dt, v) \in DownFrames
<1>1. KeyFrameSet \subseteq DownFrames /\ ServerReset \in DownFrames
      /\ \A id \in KeyIds : ServerKeyDelete(id) \in DownFrames
  BY DEF DownFrames
<1>2. ServerSync \in KeyFrameSet
  BY DEF KeyFrameSet
<1>3. \A id \in KeyIds, dt \in DataTypes, k \in Keys :
          ServerKeyRegistration(id, dt, k) \in KeyFrameSet
  BY DEF KeyFrameSet, ServerKeyRegistration, Frame
<1>4. \A id \in KeyIds, dt \in DataTypes, v \in Values :
          ServerValue(id, dt, v) \in DownFrames
  BY DEF DownFrames, ServerValue, Frame
<1> QED BY <1>1, <1>2, <1>3, <1>4

(* The entry of a key.                                                     *)
LEMMA EntryType ==
    ASSUME NEW fs \in FlatStates(Keys, KeyIds), NEW k \in DOMAIN fs.entries
    PROVE  /\ k \in Keys /\ fs.entries[k].keyId \in KeyIds
           /\ fs.entries[k].type \in DataTypes /\ fs.entries[k].value \in Values
<1> DEFINE E == [keyId : KeyIds, type : DataTypes, value : Values]
<1>1. fs.entries \in Maps(Keys, E)
  BY DEF FlatStates, EntriesOf
<1> HIDE DEF E
<1>2. k \in Keys /\ fs.entries[k] \in E
  BY <1>1, MapApply
<1> QED BY <1>2 DEF E

(* The frames of a set() are frames of the channel, ...                    *)
LEMMA SetFramesType ==
    ASSUME NEW fs \in FlatStates(Keys, KeyIds), NEW k \in Keys, NEW v \in Values, NEW id,
           NeedsNewId(fs, k, v) => id \in KeyIds
    PROVE  SetFrames(fs, "", k, v, id) \in Seq(DownFrames)
<1> DEFINE dt == DetectDataType[v]
<1>0. dt \in DataTypes
  BY FlatStateAssumption
<1> HIDE DEF dt
<1>1. CASE ~NeedsNewId(fs, k, v)
  <2>1. k \in DOMAIN fs.entries
    BY <1>1 DEF NeedsNewId, HasKey
  <2>2. ServerValue(fs.entries[k].keyId, dt, v) \in DownFrames
    BY <1>0, <2>1, EntryType, DownMembers
  <2> QED BY <1>1, <2>2 DEF SetFrames, dt
<1>2. CASE NeedsNewId(fs, k, v)
  <2> DEFINE delete == IF HasKey(fs, k) THEN << ServerKeyDelete(fs.entries[k].keyId) >> ELSE << >>
             register == << ServerKeyRegistration(id, dt, k), ServerSync,
                            ServerValue(id, dt, v) >>
  <2>1. delete \in Seq(DownFrames)
    <3>1. CASE HasKey(fs, k)
      <4>1. ServerKeyDelete(fs.entries[k].keyId) \in DownFrames
        BY <3>1, EntryType, DownMembers DEF HasKey
      <4> QED BY <3>1, <4>1
    <3> QED BY <3>1
  <2>2. register \in Seq(DownFrames)
    <3>1. /\ ServerKeyRegistration(id, dt, k) \in DownFrames /\ ServerSync \in DownFrames
          /\ ServerValue(id, dt, v) \in DownFrames
      BY <1>0, <1>2, DownMembers
    <3> QED BY <3>1
  <2>3. SetFrames(fs, "", k, v, id) = delete \o register
    BY <1>2 DEF SetFrames, WirePath, dt
  <2> HIDE DEF delete, register
  <2> QED BY <2>1, <2>2, <2>3, ConcatProperties
<1> QED BY <1>1, <1>2

(* An order of a store's keys has each of them once.                       *)
LEMMA OrderOfKeys ==
    ASSUME NEW fs \in FlatStates(Keys, KeyIds), NEW order \in IterationOrders(fs)
    PROVE  /\ order \in Seq(DOMAIN fs.entries)
           /\ \A k \in DOMAIN fs.entries : \E i \in 1 .. Len(order) : order[i] = k
           /\ \A i, j \in 1 .. Len(order) : i # j => order[i] # order[j]
<1>1. DOMAIN fs.entries \subseteq Keys
  BY EntryType
<1>2. IsFiniteSet(DOMAIN fs.entries)
  BY <1>1, FlatStateAssumption, FS_Subset
<1> QED BY <1>2, OrderOfSet DEF IterationOrders

(* The values sent to a new session are those of the store, in some order. *)
LEMMA ValueFramesType ==
    ASSUME NEW fs \in FlatStates(Keys, KeyIds), NEW order \in IterationOrders(fs)
    PROVE  /\ ValueFrames(fs, order) \in Seq(DownFrames)
           /\ Len(ValueFrames(fs, order)) = Len(order) /\ Len(order) \in Nat
           /\ \A i \in 1 .. Len(order) :
                 /\ order[i] \in DOMAIN fs.entries
                 /\ ValueFrames(fs, order)[i] =
                       ServerValue(fs.entries[order[i]].keyId, fs.entries[order[i]].type,
                                   fs.entries[order[i]].value)
<1>0. order \in Seq(DOMAIN fs.entries)
  BY OrderOfKeys
<1>1. /\ Len(order) \in Nat /\ DOMAIN order = 1 .. Len(order)
      /\ \A i \in 1 .. Len(order) : order[i] \in DOMAIN fs.entries
  BY <1>0, LenProperties, ElementOfSeq
<1> DEFINE e(i) == ServerValue(fs.entries[order[i]].keyId, fs.entries[order[i]].type,
                               fs.entries[order[i]].value)
<1>2. ValueFrames(fs, order) = [i \in 1 .. Len(order) |-> e(i)]
  BY <1>1 DEF ValueFrames
<1>3. \A i \in 1 .. Len(order) : e(i) \in DownFrames
  BY <1>1, EntryType, DownMembers
<1> HIDE DEF e
<1>4. [i \in 1 .. Len(order) |-> e(i)] \in Seq(DownFrames)
      /\ Len([i \in 1 .. Len(order) |-> e(i)]) = Len(order)
  BY <1>1, <1>3
<1>5. \A i \in 1 .. Len(order) : ValueFrames(fs, order)[i] = e(i)
  BY <1>2
<1> QED BY <1>1, <1>2, <1>4, <1>5 DEF e

-----------------------------------------------------------------------------
(* The state a client is led to.                                           *)

(* Each value among the frames is of an id the replica has by then.        *)
Knows(r, fs) ==
    \A i \in 1 .. Len(fs) :
        fs[i].frameType = "ServerValue" =>
            HasKeyId(Replay(r, fs)[i].registry, fs[i].keyId)

(* Ends stay replicas, and frames are handled in order.                    *)
LEMMA EndConcat ==
    ASSUME NEW r \in Reps, NEW fs \in Seq(DownFrames), NEW gs \in Seq(DownFrames)
    PROVE  /\ End(r, fs) \in Reps
           /\ fs \o gs \in Seq(DownFrames)
           /\ End(r, fs \o gs) = End(End(r, fs), gs)
           /\ Knows(r, fs) /\ Knows(End(r, fs), gs) => Knows(r, fs \o gs)
<1> DEFINE m == Len(fs)
           n == Len(gs)
<1>1. /\ End(r, fs) \in Reps
      /\ \A i \in 1 .. m + 1 : Replay(r, fs \o gs)[i] = Replay(r, fs)[i]
      /\ \A i \in 1 .. n + 1 : Replay(r, fs \o gs)[m + i] = Replay(End(r, fs), gs)[i]
      /\ End(r, fs \o gs) = End(End(r, fs), gs)
  BY ReplayConcat, RepsClosed DEF End
<1>2. /\ fs \o gs \in Seq(DownFrames) /\ Len(fs \o gs) = m + n /\ m \in Nat /\ n \in Nat
      /\ \A i \in 1 .. m + n : (fs \o gs)[i] = IF i <= m THEN fs[i] ELSE gs[i - m]
  BY ConcatProperties, LenProperties
<1>3. ASSUME Knows(r, fs), Knows(End(r, fs), gs), NEW i \in 1 .. Len(fs \o gs),
             (fs \o gs)[i].frameType = "ServerValue"
      PROVE  HasKeyId(Replay(r, fs \o gs)[i].registry, (fs \o gs)[i].keyId)
  <2> HIDE DEF m, n
  <2>1. CASE i <= m
    <3>1. i \in 1 .. m /\ i \in 1 .. m + 1 /\ (fs \o gs)[i] = fs[i]
      BY <1>2, <2>1
    <3>2. Replay(r, fs \o gs)[i] = Replay(r, fs)[i]
      BY <1>1, <3>1
    <3>3. HasKeyId(Replay(r, fs)[i].registry, fs[i].keyId)
      BY <1>3, <3>1 DEF Knows, m
    <3> QED BY <3>1, <3>2, <3>3
  <2>2. CASE ~(i <= m)
    <3> DEFINE j == i - m
    <3>1. j \in 1 .. n /\ j \in 1 .. n + 1 /\ (fs \o gs)[i] = gs[j] /\ m + j = i
      BY <1>2, <2>2
    <3> HIDE DEF j
    <3>2. Replay(r, fs \o gs)[i] = Replay(End(r, fs), gs)[j]
      BY <1>1, <3>1
    <3>3. HasKeyId(Replay(End(r, fs), gs)[j].registry, gs[j].keyId)
      BY <1>3, <3>1 DEF Knows, n
    <3> QED BY <3>1, <3>2, <3>3
  <2> QED BY <2>1, <2>2
<1>4. Knows(r, fs) /\ Knows(End(r, fs), gs) => Knows(r, fs \o gs)
  BY <1>3 DEF Knows
<1> QED BY <1>1, <1>2, <1>4

(* No frame, ...                                                           *)
LEMMA EndNone ==
    ASSUME NEW r \in Reps
    PROVE  End(r, << >>) = r /\ Knows(r, << >>)
BY ReplayNone, RepsClosed DEF End, Knows

(* ... and one.                                                            *)
LEMMA EndOne ==
    ASSUME NEW r \in Reps, NEW f \in DownFrames
    PROVE  /\ End(r, << f >>) = ReplicaApply(r, f)
           /\ ReplicaApply(r, f) \in Reps
           /\ (f.frameType = "ServerValue" => HasKeyId(r.registry, f.keyId))
                 <=> Knows(r, << f >>)
<1>1. << f >> \in Seq(DownFrames) /\ Len(<< f >>) = 1 /\ << f >>[1] = f
  OBVIOUS
<1>2. IsTrace(Replay(r, << f >>), r, << f >>)
  BY <1>1, ReplayTrace, RepsClosed
<1>3. /\ Len(Replay(r, << f >>)) = 2 /\ Replay(r, << f >>)[1] = r
      /\ Replay(r, << f >>)[2] = ReplicaApply(r, f)
  BY <1>1, <1>2 DEF IsTrace
<1>4. End(r, << f >>) = ReplicaApply(r, f)
  BY <1>3 DEF End, Last
<1>5. ReplicaApply(r, f) \in Reps
  BY RepsClosed DEF Closed
<1>6. (f.frameType = "ServerValue" => HasKeyId(r.registry, f.keyId)) <=> Knows(r, << f >>)
  BY <1>1, <1>3 DEF Knows
<1> QED BY <1>4, <1>5, <1>6

(* Handling the first frame does not change where the client is led to.    *)
LEMMA EndFirst ==
    ASSUME NEW r \in Reps, NEW fs \in Seq(DownFrames), fs # << >>
    PROVE  LET next == ReplicaApply(r, Head(fs)) IN
           /\ next \in Reps /\ Tail(fs) \in Seq(DownFrames)
           /\ End(next, Tail(fs)) = End(r, fs)
           /\ Knows(r, fs) =>
                 /\ Knows(next, Tail(fs))
                 /\ Head(fs).frameType = "ServerValue" =>
                       HasKeyId(r.registry, Head(fs).keyId)
<1> DEFINE next == ReplicaApply(r, Head(fs))
           m == Len(fs)
<1>0. /\ Tail(fs) \in Seq(DownFrames) /\ Len(Tail(fs)) = m - 1 /\ m \in Nat \ {0}
      /\ Head(fs) = fs[1] /\ Head(fs) \in DownFrames
      /\ \A i \in 1 .. m - 1 : Tail(fs)[i] = fs[i + 1]
  BY HeadTailProperties, EmptySeq, LenProperties
<1>1. /\ next \in Reps
      /\ \A i \in 1 .. m : Replay(next, Tail(fs))[i] = Replay(r, fs)[i + 1]
      /\ End(next, Tail(fs)) = End(r, fs)
  BY ReplayFirst, RepsClosed DEF End
<1>2. Replay(r, fs)[1] = r
  BY ReplayTrace, RepsClosed DEF IsTrace
<1>3. ASSUME Knows(r, fs) PROVE Knows(next, Tail(fs))
  <2> HIDE DEF next, m
  <2> SUFFICES ASSUME NEW i \in 1 .. m - 1, Tail(fs)[i].frameType = "ServerValue"
               PROVE  HasKeyId(Replay(next, Tail(fs))[i].registry, Tail(fs)[i].keyId)
    BY <1>0 DEF Knows
  <2>1. i \in 1 .. m /\ i + 1 \in 1 .. m /\ Tail(fs)[i] = fs[i + 1]
    BY <1>0
  <2>2. HasKeyId(Replay(r, fs)[i + 1].registry, fs[i + 1].keyId)
    BY <1>3, <2>1 DEF Knows, m
  <2> QED BY <1>1, <2>1, <2>2
<1>4. ASSUME Knows(r, fs), Head(fs).frameType = "ServerValue"
      PROVE  HasKeyId(r.registry, Head(fs).keyId)
  <2>1. 1 \in 1 .. Len(fs)
    BY <1>0
  <2>2. HasKeyId(Replay(r, fs)[1].registry, fs[1].keyId)
    BY <1>0, <1>4, <2>1 DEF Knows
  <2> QED BY <1>0, <1>2, <2>2
<1> HIDE DEF next
<1> QED BY <1>0, <1>1, <1>3, <1>4 DEF next

-----------------------------------------------------------------------------
(* What each frame does to the members of a replica.                       *)

(* A registration, ...                                                     *)
LEMMA RegisterEffect ==
    ASSUME NEW r \in Reps, NEW f \in DownFrames, f.frameType = "ServerKeyRegistration"
    PROVE  LET q == ReplicaApply(r, f) IN
           /\ RegisterThrows(r.registry, f.payload) =>
                 q.refused /\ q.registry = r.registry
           /\ ~RegisterThrows(r.registry, f.payload) =>
                 /\ q.registry = RegisterOne(r.registry, f.keyId, f.payload, f.dataType)
                 /\ q.refused = r.refused
                 /\ \A id \in DOMAIN r.store :
                       id # f.keyId => id \in DOMAIN q.store /\ q.store[id] = r.store[id]
<1>1. ReplicaApply(r, f) = ReplicaRegister(r, f)
  BY ApplyKinds
<1>2. CASE RegisterThrows(r.registry, f.payload)
  BY <1>1, <1>2 DEF ReplicaRegister, Reps, Replicas
<1>3. CASE ~RegisterThrows(r.registry, f.payload)
  <2> DEFINE reg == RegisterOne(r.registry, f.keyId, f.payload, f.dataType)
             st == IF f.keyId \in DOMAIN r.pending
                   THEN Put(r.store, f.keyId, r.pending[f.keyId]) ELSE r.store
  <2>1. ReplicaRegister(r, f) = [registry |-> reg, store |-> st,
                                 pending |-> Erase(r.pending, f.keyId), refused |-> r.refused]
    BY <1>3 DEF ReplicaRegister, Reps, Replicas
  <2>2. \A id \in DOMAIN r.store : id # f.keyId => id \in DOMAIN st /\ st[id] = r.store[id]
    BY DEF Put
  <2> HIDE DEF reg, st
  <2> QED BY <1>1, <1>3, <2>1, <2>2 DEF reg
<1> QED BY <1>2, <1>3

(* ... a value, ...                                                        *)
LEMMA ValueEffect ==
    ASSUME NEW r \in Reps, NEW f \in DownFrames, f.frameType = "ServerValue"
    PROVE  LET q == ReplicaApply(r, f) IN
           /\ q.registry = r.registry /\ q.refused = r.refused
           /\ HasKeyId(r.registry, f.keyId) => q.store = Put(r.store, f.keyId, f.payload)
<1>1. ReplicaApply(r, f) = ReplicaValue(r, f)
  BY ApplyKinds
<1>2. CASE HasKeyId(r.registry, f.keyId)
  BY <1>1, <1>2 DEF ReplicaValue, Reps, Replicas
<1>3. CASE ~HasKeyId(r.registry, f.keyId)
  BY <1>1, <1>3 DEF ReplicaValue, Reps, Replicas
<1> QED BY <1>2, <1>3

(* ... and a deletion.                                                     *)
LEMMA DeleteEffect ==
    ASSUME NEW r \in Reps, NEW f \in DownFrames, f.frameType = "ServerKeyDelete"
    PROVE  LET q == ReplicaApply(r, f) IN
           /\ q.registry = RemoveByKeyId(r.registry, f.keyId)
           /\ q.store = Erase(r.store, f.keyId) /\ q.refused = r.refused
<1>0. PICK reg : reg = RemoveByKeyId(r.registry, f.keyId)
  OBVIOUS
<1>1. PICK st : st = Erase(r.store, f.keyId)
  OBVIOUS
<1>2. PICK q : q = [r EXCEPT !.registry = reg]
  OBVIOUS
<1>3. q = [registry |-> reg, store |-> r.store, pending |-> r.pending, refused |-> r.refused]
  BY <1>2 DEF Reps, Replicas
<1>4. ReplicaDelete(r, f) = [q EXCEPT !.store = st]
  BY <1>0, <1>1, <1>2 DEF ReplicaDelete
<1>5. ReplicaDelete(r, f) = [registry |-> reg, store |-> st, pending |-> r.pending,
                             refused |-> r.refused]
  BY <1>3, <1>4
<1> QED BY <1>0, <1>1, <1>5, ApplyKinds

(* A registration that was refused is remembered until the next reset.     *)
LEMMA RefusedStays ==
    ASSUME NEW r \in Reps, NEW f \in DownFrames, f.frameType # "ServerReset", r.refused
    PROVE  ReplicaApply(r, f).refused
<1>1. CASE f.frameType = "ServerKeyRegistration"
  BY <1>1, RegisterEffect
<1>2. CASE f.frameType = "ServerValue"
  BY <1>2, ValueEffect
<1>3. CASE f.frameType = "ServerKeyDelete"
  BY <1>3, DeleteEffect
<1>4. CASE f.frameType = "ServerSync"
  BY <1>4, ApplyKinds
<1> QED BY <1>1, <1>2, <1>3, <1>4, DownKinds

(* A registration that was refused stays on record over every frame but    *)
(* ServerReset.                                                            *)
LEMMA EndRefused ==
    ASSUME NEW r \in Reps, NEW fs \in Seq(DownFrames), r.refused,
           \A i \in 1 .. Len(fs) : fs[i].frameType # "ServerReset"
    PROVE  End(r, fs).refused
<1> DEFINE p == Replay(r, fs)
           n == Len(fs)
           S == {m \in Nat : m <= n => p[m + 1].refused}
<1>0. n \in Nat /\ \A i \in 1 .. n : fs[i] \in DownFrames
  BY LenProperties, ElementOfSeq
<1>1. /\ p \in Seq(Reps) /\ Len(p) = n + 1 /\ p[1] = r
      /\ \A i \in 1 .. n : p[i + 1] = ReplicaApply(p[i], fs[i])
  BY ReplayTrace, RepsClosed DEF IsTrace
<1>2. \A i \in 1 .. n + 1 : p[i] \in Reps
  BY <1>1, ElementOfSeq
<1> HIDE DEF p
<1>3. 0 \in S
  BY <1>1
<1>4. ASSUME NEW m \in Nat, m \in S PROVE m + 1 \in S
  <2> SUFFICES ASSUME m + 1 <= n PROVE p[m + 2].refused
    OBVIOUS
  <2>1. m + 1 \in 1 .. n /\ m + 1 \in 1 .. n + 1 /\ p[m + 1].refused
    BY <1>0, <1>4
  <2>2. p[m + 2] = ReplicaApply(p[m + 1], fs[m + 1])
    BY <1>1, <2>1
  <2> QED BY <1>0, <1>2, <2>1, <2>2, RefusedStays
<1> HIDE DEF S
<1>5. n \in S
  BY <1>0, <1>3, <1>4, SetInduction
<1>6. End(r, fs) = p[n + 1]
  BY <1>1 DEF End, Last, p
<1> QED BY <1>0, <1>5, <1>6 DEF S

-----------------------------------------------------------------------------
(* Replicas and stores.  These are the conjuncts of the invariant, as      *)
(* facts about a replica r and a store fs.                                 *)

(* byKeyId is the inverse of entries.                                      *)
Exact(fs) ==
    /\ \A k \in DOMAIN fs.entries :
          /\ fs.entries[k].keyId \in DOMAIN fs.byKeyId
          /\ fs.byKeyId[fs.entries[k].keyId] = k
    /\ \A id \in DOMAIN fs.byKeyId :
          /\ fs.byKeyId[id] \in DOMAIN fs.entries
          /\ fs.entries[fs.byKeyId[id]].keyId = id

Current(r, fs) ==
    /\ \A id \in DOMAIN r.registry.byId :
          id \in DOMAIN fs.byKeyId /\ fs.byKeyId[id] = r.registry.byId[id].path
    /\ \A k \in DOMAIN r.registry.pathToId :
          k \in DOMAIN fs.entries /\ fs.entries[k].keyId = r.registry.pathToId[k]

Ids(r, fs) ==
    /\ DOMAIN r.registry.byId = DOMAIN fs.byKeyId
    /\ \A id \in DOMAIN r.registry.byId : r.registry.byId[id].path = fs.byKeyId[id]
    /\ DOMAIN r.registry.pathToId = DOMAIN fs.entries
    /\ \A k \in DOMAIN r.registry.pathToId : r.registry.pathToId[k] = fs.entries[k].keyId

Vals(r, fs) ==
    \A k \in DOMAIN fs.entries :
        /\ fs.entries[k].keyId \in DOMAIN r.store
        /\ r.store[fs.entries[k].keyId] = fs.entries[k].value

Registrations(fs) ==
    {ServerKeyRegistration(fs.entries[k].keyId, fs.entries[k].type, k) : k \in DOMAIN fs.entries}

(* One registration of a key of the store, on ids that are of the store.   *)
LEMMA RegisterCurrent ==
    ASSUME NEW fs \in FlatStates(Keys, KeyIds), Exact(fs), NEW r \in Reps, Current(r, fs),
           NEW k \in DOMAIN fs.entries, NEW f,
           f = ServerKeyRegistration(fs.entries[k].keyId, fs.entries[k].type, k)
    PROVE  LET q == ReplicaApply(r, f) IN
           \/ q.refused
           \/ /\ Current(q, fs)
              /\ DOMAIN q.registry.byId = DOMAIN r.registry.byId \cup {fs.entries[k].keyId}
              /\ DOMAIN q.registry.pathToId = DOMAIN r.registry.pathToId \cup {k}
              /\ q.refused = r.refused
<1> DEFINE q == ReplicaApply(r, f)
           id == fs.entries[k].keyId
<1>1. /\ f \in DownFrames /\ f.frameType = "ServerKeyRegistration" /\ f.keyId = id
      /\ f.payload = k
  BY EntryType, DownMembers DEF ServerKeyRegistration, Frame
<1>2. CASE RegisterThrows(r.registry, f.payload)
  BY <1>1, <1>2, RegisterEffect
<1>3. CASE ~RegisterThrows(r.registry, f.payload)
  <2>1. /\ q.registry = RegisterOne(r.registry, f.keyId, f.payload, f.dataType)
        /\ q.refused = r.refused
    BY <1>1, <1>3, RegisterEffect
  <2> HIDE DEF q
  <2>2. /\ q.registry.byId = Put(r.registry.byId, id, [path |-> k, type |-> f.dataType])
        /\ q.registry.pathToId = Put(r.registry.pathToId, k, id)
    BY <1>1, <2>1 DEF RegisterOne
  <2>3. /\ DOMAIN q.registry.byId = DOMAIN r.registry.byId \cup {id}
        /\ q.registry.byId[id].path = k
        /\ \A i \in DOMAIN r.registry.byId :
              i # id => q.registry.byId[i] = r.registry.byId[i]
    BY <2>2 DEF Put
  <2>4. /\ DOMAIN q.registry.pathToId = DOMAIN r.registry.pathToId \cup {k}
        /\ q.registry.pathToId[k] = id
        /\ \A x \in DOMAIN r.registry.pathToId :
              x # k => q.registry.pathToId[x] = r.registry.pathToId[x]
    BY <2>2 DEF Put
  <2>5. id \in DOMAIN fs.byKeyId /\ fs.byKeyId[id] = k
    BY DEF Exact
  <2>6. Current(q, fs)
    BY <2>3, <2>4, <2>5 DEF Current
  <2> QED BY <2>1, <2>3, <2>4, <2>6 DEF q
<1> QED BY <1>2, <1>3

(* All of them: the replica has the ids of the store.                      *)
LEMMA RegisterAll ==
    ASSUME NEW fs \in FlatStates(Keys, KeyIds), Exact(fs), NEW r \in Reps, Current(r, fs),
           NEW gs \in Seq(DownFrames), ToSet(gs) = {ServerSync} \cup Registrations(fs),
           ~End(r, gs).refused
    PROVE  Ids(End(r, gs), fs)
<1> DEFINE p == Replay(r, gs)
           n == Len(gs)
           Has(q, f) == f.frameType = "ServerKeyRegistration" =>
                          /\ f.keyId \in DOMAIN q.registry.byId
                          /\ f.payload \in DOMAIN q.registry.pathToId
           S == {m \in Nat : m <= n =>
                    \/ p[m + 1].refused
                    \/ Current(p[m + 1], fs) /\ \A i \in 1 .. m : Has(p[m + 1], gs[i])}
<1>0. n \in Nat /\ \A i \in 1 .. n : gs[i] \in DownFrames
  BY LenProperties, ElementOfSeq
<1>1. /\ p \in Seq(Reps) /\ Len(p) = n + 1 /\ p[1] = r
      /\ \A i \in 1 .. n : p[i + 1] = ReplicaApply(p[i], gs[i])
  BY ReplayTrace, RepsClosed DEF IsTrace
<1>2. \A i \in 1 .. n + 1 : p[i] \in Reps
  BY <1>1, ElementOfSeq
<1> HIDE DEF p
<1>3. \A i \in 1 .. n : gs[i] = ServerSync \/ gs[i] \in Registrations(fs)
  <2> TAKE i \in 1 .. n
  <2>1. gs[i] \in ToSet(gs)
    BY <1>0, LenProperties DEF ToSet
  <2> QED BY <2>1
<1>4. 0 \in S
  <2>1. Current(p[1], fs)
    BY <1>1
  <2> QED BY <2>1
<1>5. ASSUME NEW m \in Nat, m \in S PROVE m + 1 \in S
  <2> DEFINE q == p[m + 1]
             z == p[m + 2]
             f == gs[m + 1]
  <2> SUFFICES ASSUME m + 1 <= n
               PROVE  \/ z.refused
                      \/ Current(z, fs) /\ \A i \in 1 .. m + 1 : Has(z, gs[i])
    OBVIOUS
  <2>1. m + 1 \in 1 .. n /\ m + 1 \in 1 .. n + 1 /\ (m + 1) + 1 = m + 2
    BY <1>0
  <2>2. z = ReplicaApply(q, f) /\ q \in Reps /\ f \in DownFrames
    BY <1>0, <1>1, <1>2, <2>1
  <2>3. q.refused \/ (Current(q, fs) /\ \A i \in 1 .. m : Has(q, gs[i]))
    BY <1>0, <1>5, <2>1
  <2> HIDE DEF Has
  <2>4. CASE q.refused
    <3>1. f.frameType # "ServerReset"
      <4>1. f = ServerSync \/ f \in Registrations(fs)
        BY <1>3, <2>1
      <4>2. ServerSync.frameType = "ServerSync"
            /\ \A id, dt, k : ServerKeyRegistration(id, dt, k).frameType = "ServerKeyRegistration"
        BY DEF ServerSync, Signal, ServerKeyRegistration, Frame
      <4> HIDE DEF f
      <4> QED BY <4>1, <4>2 DEF Registrations
    <3> QED BY <2>2, <2>4, <3>1, RefusedStays
  <2>5. CASE Current(q, fs) /\ (\A i \in 1 .. m : Has(q, gs[i])) /\ f = ServerSync
    <3>1. f.frameType = "ServerSync"
      BY <2>5 DEF ServerSync, Signal, Frame
    <3>2. z = q
      BY <2>2, <3>1, ApplyKinds
    <3>3. Has(z, f)
      BY <3>1 DEF Has
    <3> QED BY <2>5, <3>2, <3>3
  <2>6. CASE Current(q, fs) /\ (\A i \in 1 .. m : Has(q, gs[i])) /\ f \in Registrations(fs)
    <3>1. PICK k \in DOMAIN fs.entries :
             f = ServerKeyRegistration(fs.entries[k].keyId, fs.entries[k].type, k)
      BY <2>6 DEF Registrations
    <3> HIDE DEF q, f, z
    <3>2. \/ z.refused
          \/ /\ Current(z, fs)
             /\ DOMAIN z.registry.byId = DOMAIN q.registry.byId \cup {fs.entries[k].keyId}
             /\ DOMAIN z.registry.pathToId = DOMAIN q.registry.pathToId \cup {k}
      BY <2>2, <2>6, <3>1, RegisterCurrent
    <3>3. f.keyId = fs.entries[k].keyId /\ f.payload = k
      BY <3>1 DEF ServerKeyRegistration, Frame
    <3>4. ASSUME ~z.refused, NEW i \in 1 .. m + 1 PROVE Has(z, gs[i])
      <4>1. CASE i \in 1 .. m
        BY <2>6, <3>2, <3>4, <4>1 DEF Has
      <4>2. CASE i = m + 1
        BY <3>2, <3>3, <3>4, <4>2 DEF Has, f
      <4> QED BY <4>1, <4>2
    <3> QED BY <3>2, <3>4
  <2>7. f = ServerSync \/ f \in Registrations(fs)
    BY <1>3, <2>1
  <2> QED BY <2>3, <2>4, <2>5, <2>6, <2>7
<1> HIDE DEF S
<1>6. n \in S
  BY <1>0, <1>4, <1>5, SetInduction
<1> DEFINE q == p[n + 1]
<1>7. End(r, gs) = q
  BY <1>1 DEF End, Last, p
<1>8. Current(q, fs) /\ \A i \in 1 .. n : Has(q, gs[i])
  <2>1. n <= n
    BY <1>0
  <2> HIDE DEF Has
  <2> QED BY <1>0, <1>6, <1>7, <2>1 DEF S
<1> HIDE DEF q, Has
<1>9. ASSUME NEW k \in DOMAIN fs.entries
      PROVE  fs.entries[k].keyId \in DOMAIN q.registry.byId /\ k \in DOMAIN q.registry.pathToId
  <2> DEFINE f == ServerKeyRegistration(fs.entries[k].keyId, fs.entries[k].type, k)
  <2>1. f \in ToSet(gs)
    BY DEF Registrations
  <2>2. f.frameType = "ServerKeyRegistration" /\ f.keyId = fs.entries[k].keyId /\ f.payload = k
    BY DEF ServerKeyRegistration, Frame
  <2> HIDE DEF f
  <2>3. PICK i \in 1 .. n : gs[i] = f
    BY <2>1, LenProperties DEF ToSet
  <2> QED BY <1>8, <2>2, <2>3 DEF Has
<1>10. Ids(q, fs)
  <2>1. Current(q, fs)
    BY <1>8
  <2>2. DOMAIN q.registry.byId = DOMAIN fs.byKeyId
    <3>1. \A id \in DOMAIN q.registry.byId : id \in DOMAIN fs.byKeyId
      BY <2>1 DEF Current
    <3>2. ASSUME NEW id \in DOMAIN fs.byKeyId PROVE id \in DOMAIN q.registry.byId
      <4>1. fs.byKeyId[id] \in DOMAIN fs.entries /\ fs.entries[fs.byKeyId[id]].keyId = id
        BY DEF Exact
      <4> QED BY <1>9, <4>1
    <3> QED BY <3>1, <3>2
  <2>3. DOMAIN q.registry.pathToId = DOMAIN fs.entries
    <3>1. \A k \in DOMAIN q.registry.pathToId : k \in DOMAIN fs.entries
      BY <2>1 DEF Current
    <3> QED BY <1>9, <3>1
  <2> QED BY <2>1, <2>2, <2>3 DEF Current, Ids
<1> QED BY <1>7, <1>10

(* A replica with the ids of the store is given its values.                *)
LEMMA ValuesAll ==
    ASSUME NEW fs \in FlatStates(Keys, KeyIds), Exact(fs), NEW order \in IterationOrders(fs),
           NEW r \in Reps, Ids(r, fs)
    PROVE  LET gs == ValueFrames(fs, order) IN
           /\ Ids(End(r, gs), fs) /\ Vals(End(r, gs), fs) /\ Knows(r, gs)
           /\ End(r, gs).refused = r.refused
<1> DEFINE gs == ValueFrames(fs, order)
           p == Replay(r, gs)
           n == Len(order)
           id(k) == fs.entries[k].keyId
           Has(q, k) == id(k) \in DOMAIN q.store /\ q.store[id(k)] = fs.entries[k].value
           S == {m \in Nat : m <= n =>
                    /\ p[m + 1].registry = r.registry /\ p[m + 1].refused = r.refused
                    /\ \A i \in 1 .. m : Has(p[m + 1], order[i])}
<1>0. /\ gs \in Seq(DownFrames) /\ Len(gs) = n /\ n \in Nat
      /\ \A i \in 1 .. n :
            /\ order[i] \in DOMAIN fs.entries
            /\ gs[i] = ServerValue(id(order[i]), fs.entries[order[i]].type,
                                   fs.entries[order[i]].value)
  BY ValueFramesType
<1>a. \A i \in 1 .. n : gs[i] \in DownFrames
  BY <1>0, ElementOfSeq
<1>b. \A i \in 1 .. n : /\ gs[i].frameType = "ServerValue" /\ gs[i].keyId = id(order[i])
                        /\ gs[i].payload = fs.entries[order[i]].value
  <2>1. \A x, t, v : /\ ServerValue(x, t, v).frameType = "ServerValue"
                     /\ ServerValue(x, t, v).keyId = x /\ ServerValue(x, t, v).payload = v
    BY DEF ServerValue, Frame
  <2> HIDE DEF gs, n, id
  <2> QED BY <1>0, <2>1
<1>1. /\ p \in Seq(Reps) /\ Len(p) = n + 1 /\ p[1] = r
      /\ \A i \in 1 .. n : p[i + 1] = ReplicaApply(p[i], gs[i])
  BY <1>0, ReplayTrace, RepsClosed DEF IsTrace
<1>2. \A i \in 1 .. n + 1 : p[i] \in Reps
  BY <1>1, ElementOfSeq
<1>3. \A i, j \in 1 .. n : i # j => id(order[i]) # id(order[j])
  <2> TAKE i, j \in 1 .. n
  <2>1. i # j => order[i] # order[j]
    BY OrderOfKeys
  <2>2. fs.byKeyId[id(order[i])] = order[i] /\ fs.byKeyId[id(order[j])] = order[j]
    BY <1>0 DEF Exact
  <2> QED BY <2>1, <2>2
<1>4. \A k \in DOMAIN fs.entries : HasKeyId(r.registry, id(k))
  BY DEF Exact, Ids, HasKeyId
<1> HIDE DEF p, gs, n
<1>5. 0 \in S
  BY <1>1
<1>6. ASSUME NEW m \in Nat, m \in S PROVE m + 1 \in S
  <2> DEFINE q == p[m + 1]
             z == p[m + 2]
             f == gs[m + 1]
  <2> SUFFICES ASSUME m + 1 <= n
               PROVE  /\ z.registry = r.registry /\ z.refused = r.refused
                      /\ \A i \in 1 .. m + 1 : Has(z, order[i])
    OBVIOUS
  <2>1. m + 1 \in 1 .. n /\ m + 1 \in 1 .. n + 1 /\ (m + 1) + 1 = m + 2
    BY <1>0
  <2>2. z = ReplicaApply(q, f) /\ q \in Reps /\ f \in DownFrames
    BY <1>a, <1>1, <1>2, <2>1
  <2>3. /\ q.registry = r.registry /\ q.refused = r.refused
        /\ \A i \in 1 .. m : Has(q, order[i])
    BY <1>0, <1>6, <2>1
  <2>4. /\ f.frameType = "ServerValue" /\ f.keyId = id(order[m + 1])
        /\ f.payload = fs.entries[order[m + 1]].value
    BY <1>b, <2>1
  <2>5. HasKeyId(q.registry, f.keyId)
    BY <1>0, <1>4, <2>1, <2>3, <2>4
  <2> HIDE DEF q, z, f
  <2>6. /\ z.registry = r.registry /\ z.refused = r.refused
        /\ z.store = Put(q.store, f.keyId, f.payload)
    BY <2>2, <2>3, <2>4, <2>5, ValueEffect
  <2>7. /\ DOMAIN z.store = DOMAIN q.store \cup {f.keyId} /\ z.store[f.keyId] = f.payload
        /\ \A x \in DOMAIN q.store : x # f.keyId => z.store[x] = q.store[x]
    BY <2>6 DEF Put
  <2>8. ASSUME NEW i \in 1 .. m + 1 PROVE Has(z, order[i])
    <3>1. CASE i \in 1 .. m
      <4>1. i \in 1 .. n /\ i # m + 1
        BY <1>0, <2>1, <3>1
      <4>2. id(order[i]) # f.keyId
        BY <1>3, <2>1, <2>4, <4>1
      <4>3. Has(q, order[i])
        BY <2>3, <3>1
      <4> HIDE DEF id
      <4> QED BY <2>7, <4>2, <4>3
    <3>2. CASE i = m + 1
      <4> HIDE DEF id
      <4> QED BY <2>4, <2>7, <3>2
    <3> QED BY <3>1, <3>2
  <2> QED BY <2>6, <2>8
<1>7. ASSUME NEW m \in Nat, m <= n
      PROVE  /\ p[m + 1].registry = r.registry /\ p[m + 1].refused = r.refused
             /\ \A i \in 1 .. m : Has(p[m + 1], order[i])
  <2> HIDE DEF S
  <2>1. m \in S
    BY <1>5, <1>6, SetInduction
  <2> HIDE DEF Has
  <2> QED BY <1>7, <2>1 DEF S
<1> DEFINE q == p[n + 1]
<1>8. End(r, gs) = q
  BY <1>1 DEF End, Last, p
<1>9. q.registry = r.registry /\ q.refused = r.refused /\ \A i \in 1 .. n : Has(q, order[i])
  <2>1. n <= n
    BY <1>0
  <2> HIDE DEF Has
  <2> QED BY <1>0, <1>7, <2>1
<1> HIDE DEF q
<1>10. Ids(q, fs)
  BY <1>9 DEF Ids
<1>11. Vals(q, fs)
  <2> SUFFICES ASSUME NEW k \in DOMAIN fs.entries PROVE Has(q, k)
    BY DEF Vals
  <2>1. PICK i \in 1 .. n : order[i] = k
    BY OrderOfKeys DEF n
  <2> HIDE DEF Has
  <2> QED BY <1>9, <2>1
<1>12. Knows(r, gs)
  <2> SUFFICES ASSUME NEW i \in 1 .. n PROVE HasKeyId(p[i].registry, gs[i].keyId)
    BY <1>0 DEF Knows, p
  <2>1. i - 1 \in Nat /\ i - 1 <= n /\ (i - 1) + 1 = i
    BY <1>0
  <2>2. p[i].registry = r.registry
    BY <1>7, <2>1
  <2> HIDE DEF id
  <2> QED BY <1>0, <1>b, <1>4, <2>2
<1> QED BY <1>8, <1>9, <1>10, <1>11, <1>12 DEF gs

(* Three frames, of which at most the last is a value.                     *)
LEMMA EndThree ==
    ASSUME NEW r \in Reps, NEW f \in DownFrames, NEW g \in DownFrames, NEW h \in DownFrames,
           f.frameType # "ServerValue", g.frameType # "ServerValue"
    PROVE  LET q == ReplicaApply(ReplicaApply(r, f), g) IN
           /\ End(r, << f, g, h >>) = ReplicaApply(q, h)
           /\ q \in Reps /\ ReplicaApply(r, f) \in Reps
           /\ HasKeyId(q.registry, h.keyId) => Knows(r, << f, g, h >>)
<1> DEFINE fs == << f, g, h >>
           p == Replay(r, fs)
<1>1. fs \in Seq(DownFrames) /\ Len(fs) = 3 /\ fs[1] = f /\ fs[2] = g /\ fs[3] = h
  OBVIOUS
<1> HIDE DEF fs
<1>2. IsTrace(p, r, fs)
  BY <1>1, ReplayTrace, RepsClosed
<1>3. /\ Len(p) = 4 /\ p[1] = r /\ p[2] = ReplicaApply(p[1], f)
      /\ p[3] = ReplicaApply(p[2], g) /\ p[4] = ReplicaApply(p[3], h)
  <2>1. Len(p) = 4 /\ p[1] = r /\ \A i \in 1 .. 3 : p[i + 1] = ReplicaApply(p[i], fs[i])
    BY <1>1, <1>2 DEF IsTrace
  <2>2. p[1 + 1] = ReplicaApply(p[1], fs[1])
    BY <2>1
  <2>3. p[2 + 1] = ReplicaApply(p[2], fs[2])
    BY <2>1
  <2>4. p[3 + 1] = ReplicaApply(p[3], fs[3])
    BY <2>1
  <2> QED BY <1>1, <2>1, <2>2, <2>3, <2>4
<1>4. End(r, fs) = p[4]
  BY <1>3 DEF End, Last, p
<1>5. ReplicaApply(r, f) \in Reps
  BY RepsClosed DEF Closed
<1>6. ReplicaApply(ReplicaApply(r, f), g) \in Reps
  BY <1>5, RepsClosed DEF Closed
<1>7. ASSUME HasKeyId(p[3].registry, h.keyId) PROVE Knows(r, fs)
  BY <1>1, <1>7 DEF Knows, p
<1> HIDE DEF p
<1> QED BY <1>3, <1>4, <1>5, <1>6, <1>7 DEF fs

(* The store after a set() of a key that keeps its id, ...                 *)
LEMMA LeafValue ==
    ASSUME NEW fs \in FlatStates(Keys, KeyIds),
           NEW k \in Keys, NEW v \in Values, NEW id, ~NeedsNewId(fs, k, v)
    PROVE  LET gt == SetLeaf(fs, k, v, id) IN
           /\ k \in DOMAIN fs.entries /\ DOMAIN gt.entries = DOMAIN fs.entries
           /\ gt.byKeyId = fs.byKeyId
           /\ \A x \in DOMAIN fs.entries :
                 /\ gt.entries[x].keyId = fs.entries[x].keyId
                 /\ gt.entries[x].type = fs.entries[x].type
                 /\ gt.entries[x].value = IF x = k THEN v ELSE fs.entries[x].value
<1> DEFINE E == [keyId : KeyIds, type : DataTypes, value : Values]
           gt == SetLeaf(fs, k, v, id)
<1>1. k \in DOMAIN fs.entries
  BY DEF NeedsNewId, HasKey
<1>2. gt.entries = [fs.entries EXCEPT ![k].value = v] /\ gt.byKeyId = fs.byKeyId
  BY DEF SetLeaf, FlatStates
<1>3. \A x \in DOMAIN fs.entries : fs.entries[x] \in E
  <2>1. fs.entries \in Maps(Keys, E)
    BY DEF FlatStates, EntriesOf
  <2> HIDE DEF E
  <2> QED BY <2>1, MapApply
<1> HIDE DEF gt
<1> QED BY <1>1, <1>2, <1>3 DEF gt

(* ... which introduces the same keys with the same ids.                   *)
LEMMA LeafSameIds ==
    ASSUME NEW fs \in FlatStates(Keys, KeyIds),
           NEW k \in Keys, NEW v \in Values, NEW id, ~NeedsNewId(fs, k, v)
    PROVE  LET gt == SetLeaf(fs, k, v, id) IN
           /\ Registrations(gt) = Registrations(fs)
           /\ \A r : Ids(r, fs) <=> Ids(r, gt)
<1> DEFINE gt == SetLeaf(fs, k, v, id)
<1>1. /\ DOMAIN gt.entries = DOMAIN fs.entries /\ gt.byKeyId = fs.byKeyId
      /\ \A x \in DOMAIN fs.entries :
            /\ gt.entries[x].keyId = fs.entries[x].keyId
            /\ gt.entries[x].type = fs.entries[x].type
  BY LeafValue
<1> HIDE DEF gt
<1>2. Registrations(gt) = Registrations(fs)
  BY <1>1 DEF Registrations
<1>3. \A r : Ids(r, fs) <=> Ids(r, gt)
  BY <1>1 DEF Ids
<1> QED BY <1>2, <1>3 DEF gt

(* The frames that go with a change of the store, on a replica that        *)
(* follows it: the value of a key that keeps its id, ...                   *)
LEMMA FollowValue ==
    ASSUME NEW fs \in FlatStates(Keys, KeyIds), Exact(fs),
           NEW k \in Keys, NEW v \in Values, NEW id, ~NeedsNewId(fs, k, v),
           NEW r \in Reps, Ids(r, fs), Vals(r, fs)
    PROVE  LET gs == SetFrames(fs, "", k, v, id)
               gt == SetLeaf(fs, k, v, id)
           IN  Ids(End(r, gs), gt) /\ Vals(End(r, gs), gt) /\ Knows(r, gs)
<1> DEFINE gs == SetFrames(fs, "", k, v, id)
           gt == SetLeaf(fs, k, v, id)
           f == ServerValue(fs.entries[k].keyId, DetectDataType[v], v)
           q == ReplicaApply(r, f)
<1>1. /\ k \in DOMAIN fs.entries /\ DOMAIN gt.entries = DOMAIN fs.entries
      /\ gt.byKeyId = fs.byKeyId
      /\ \A x \in DOMAIN fs.entries :
            /\ gt.entries[x].keyId = fs.entries[x].keyId
            /\ gt.entries[x].value = IF x = k THEN v ELSE fs.entries[x].value
  BY LeafValue
<1>2. gs = << f >>
  BY DEF SetFrames
<1>3. f \in DownFrames /\ f.frameType = "ServerValue"
      /\ f.keyId = fs.entries[k].keyId /\ f.payload = v
  <2>1. DetectDataType[v] \in DataTypes
    BY FlatStateAssumption
  <2> QED BY <1>1, <2>1, EntryType, DownMembers DEF ServerValue, Frame
<1>4. HasKeyId(r.registry, f.keyId)
  BY <1>1, <1>3 DEF Ids, Exact, HasKeyId
<1> HIDE DEF f
<1>5. End(r, gs) = q /\ Knows(r, gs)
  BY <1>2, <1>3, <1>4, EndOne
<1>6. q.registry = r.registry /\ q.store = Put(r.store, f.keyId, f.payload)
  BY <1>3, <1>4, ValueEffect
<1> HIDE DEF q, gt
<1>7. Ids(q, gt)
  BY <1>1, <1>6 DEF Ids
<1>8. Vals(q, gt)
  <2>1. /\ DOMAIN q.store = DOMAIN r.store \cup {f.keyId} /\ q.store[f.keyId] = f.payload
        /\ \A x \in DOMAIN r.store : x # f.keyId => q.store[x] = r.store[x]
    BY <1>6 DEF Put
  <2> SUFFICES ASSUME NEW x \in DOMAIN fs.entries
               PROVE  /\ fs.entries[x].keyId \in DOMAIN q.store
                      /\ q.store[fs.entries[x].keyId] = gt.entries[x].value
    BY <1>1 DEF Vals
  <2>2. CASE x = k
    BY <1>1, <1>3, <2>1, <2>2
  <2>3. CASE x # k
    <3>1. fs.entries[x].keyId # f.keyId
      BY <1>1, <1>3, <2>3 DEF Exact
    <3>2. /\ fs.entries[x].keyId \in DOMAIN r.store
          /\ r.store[fs.entries[x].keyId] = fs.entries[x].value
      BY DEF Vals
    <3> QED BY <1>1, <2>1, <2>3, <3>1, <3>2
  <2> QED BY <2>2, <2>3
<1> QED BY <1>5, <1>7, <1>8 DEF gt

(* ... the deletion of a key, ...                                          *)
LEMMA FollowDelete ==
    ASSUME NEW fs \in FlatStates(Keys, KeyIds), Exact(fs), NEW k \in DOMAIN fs.entries,
           NEW r \in Reps, Ids(r, fs), Vals(r, fs)
    PROVE  LET f == ServerKeyDelete(fs.entries[k].keyId)
               q == ReplicaApply(r, f)
           IN  /\ f \in DownFrames /\ f.frameType = "ServerKeyDelete"
               /\ q \in Reps /\ q.refused = r.refused
               /\ Ids(q, ClearKey(fs, k)) /\ Vals(q, ClearKey(fs, k))
<1> DEFINE f == ServerKeyDelete(fs.entries[k].keyId)
           q == ReplicaApply(r, f)
           gt == ClearKey(fs, k)
           id == fs.entries[k].keyId
<1>1. f \in DownFrames /\ f.frameType = "ServerKeyDelete" /\ f.keyId = id
  BY EntryType, DownMembers DEF ServerKeyDelete, KeySignal, Frame
<1> HIDE DEF f
<1>2. q \in Reps
  BY <1>1, RepsClosed DEF Closed
<1>3. /\ q.registry = RemoveByKeyId(r.registry, id) /\ q.store = Erase(r.store, id)
      /\ q.refused = r.refused
  BY <1>1, DeleteEffect
<1>4. id \in DOMAIN fs.byKeyId /\ fs.byKeyId[id] = k
  BY DEF Exact
<1>5. gt.entries = Erase(fs.entries, k) /\ gt.byKeyId = Erase(fs.byKeyId, id)
  BY DEF ClearKey
<1>6. HasKeyId(r.registry, id) /\ r.registry.byId[id].path = k
  BY <1>4 DEF Ids, HasKeyId
<1> HIDE DEF q, gt
<1>7. /\ q.registry.byId = Erase(r.registry.byId, id)
      /\ q.registry.pathToId = Erase(r.registry.pathToId, k)
  BY <1>3, <1>6 DEF RemoveByKeyId
<1>8. /\ DOMAIN gt.entries = DOMAIN fs.entries \ {k}
      /\ \A x \in DOMAIN gt.entries : gt.entries[x] = fs.entries[x]
      /\ DOMAIN gt.byKeyId = DOMAIN fs.byKeyId \ {id}
      /\ \A i \in DOMAIN gt.byKeyId : gt.byKeyId[i] = fs.byKeyId[i]
  BY <1>5 DEF Erase
<1>9. /\ DOMAIN q.registry.byId = DOMAIN r.registry.byId \ {id}
      /\ \A i \in DOMAIN q.registry.byId : q.registry.byId[i] = r.registry.byId[i]
      /\ DOMAIN q.registry.pathToId = DOMAIN r.registry.pathToId \ {k}
      /\ \A x \in DOMAIN q.registry.pathToId : q.registry.pathToId[x] = r.registry.pathToId[x]
  BY <1>7 DEF Erase
<1>10. Ids(q, gt)
  <2> HIDE DEF id
  <2> QED BY <1>8, <1>9 DEF Ids
<1>11. Vals(q, gt)
  <2> SUFFICES ASSUME NEW x \in DOMAIN gt.entries
               PROVE  /\ fs.entries[x].keyId \in DOMAIN q.store
                      /\ q.store[fs.entries[x].keyId] = fs.entries[x].value
    BY <1>8 DEF Vals
  <2>1. x \in DOMAIN fs.entries /\ x # k
    BY <1>8
  <2>2. fs.entries[x].keyId # id
    BY <2>1 DEF Exact
  <2>3. /\ fs.entries[x].keyId \in DOMAIN r.store
        /\ r.store[fs.entries[x].keyId] = fs.entries[x].value
    BY <2>1 DEF Vals
  <2> QED BY <1>3, <2>2, <2>3 DEF Erase
<1> QED BY <1>1, <1>2, <1>3, <1>10, <1>11 DEF f, q, gt

(* ... and the introduction of a new one, unless the client refuses it.    *)
LEMMA FollowNew ==
    ASSUME NEW fs, Exact(fs), NEW k \in Keys, k \notin DOMAIN fs.entries,
           NEW id \in KeyIds, id \notin DOMAIN fs.byKeyId, NEW dt \in DataTypes,
           NEW v \in Values, NEW gt,
           gt.entries = Put(fs.entries, k, [keyId |-> id, type |-> dt, value |-> v]),
           gt.byKeyId = Put(fs.byKeyId, id, k),
           NEW r \in Reps, Ids(r, fs), Vals(r, fs)
    PROVE  LET gs == << ServerKeyRegistration(id, dt, k), ServerSync, ServerValue(id, dt, v) >>
           IN  \/ End(r, gs).refused
               \/ /\ Ids(End(r, gs), gt) /\ Vals(End(r, gs), gt) /\ Knows(r, gs)
                  /\ End(r, gs).refused = r.refused
<1> DEFINE f == ServerKeyRegistration(id, dt, k)
           h == ServerValue(id, dt, v)
           q == ReplicaApply(r, f)
           z == ReplicaApply(q, h)
<1>1. /\ f \in DownFrames /\ f.frameType = "ServerKeyRegistration"
      /\ f.keyId = id /\ f.payload = k
  BY DownMembers DEF ServerKeyRegistration, Frame
<1>2. h \in DownFrames /\ h.frameType = "ServerValue" /\ h.keyId = id /\ h.payload = v
  BY DownMembers DEF ServerValue, Frame
<1>3. ServerSync \in DownFrames /\ ServerSync.frameType = "ServerSync"
  BY DownMembers DEF ServerSync, Signal, Frame
<1>4. ReplicaApply(q, ServerSync) = q
  BY <1>3, ApplyKinds
<1> HIDE DEF f, h
<1>5. /\ End(r, << f, ServerSync, h >>) = z /\ q \in Reps
      /\ HasKeyId(q.registry, h.keyId) => Knows(r, << f, ServerSync, h >>)
  BY <1>1, <1>2, <1>3, <1>4, EndThree
<1>6. z.registry = q.registry /\ z.refused = q.refused
      /\ (HasKeyId(q.registry, h.keyId) => z.store = Put(q.store, id, v))
  BY <1>2, <1>5, ValueEffect
<1>7. CASE RegisterThrows(r.registry, f.payload)
  <2>1. q.refused
    BY <1>1, <1>7, RegisterEffect
  <2> HIDE DEF z, q
  <2> QED BY <1>5, <1>6, <2>1 DEF f, h
<1>8. CASE ~RegisterThrows(r.registry, f.payload)
  <2>1. /\ q.registry = RegisterOne(r.registry, id, k, f.dataType)
        /\ q.refused = r.refused
        /\ \A i \in DOMAIN r.store : i # id => i \in DOMAIN q.store /\ q.store[i] = r.store[i]
    BY <1>1, <1>8, RegisterEffect
  <2> HIDE DEF q, z
  <2>2. /\ q.registry.byId = Put(r.registry.byId, id, [path |-> k, type |-> f.dataType])
        /\ q.registry.pathToId = Put(r.registry.pathToId, k, id)
    BY <2>1 DEF RegisterOne
  <2>3. /\ DOMAIN q.registry.byId = DOMAIN r.registry.byId \cup {id}
        /\ q.registry.byId[id].path = k
        /\ \A i \in DOMAIN r.registry.byId :
              i # id => q.registry.byId[i] = r.registry.byId[i]
        /\ DOMAIN q.registry.pathToId = DOMAIN r.registry.pathToId \cup {k}
        /\ q.registry.pathToId[k] = id
        /\ \A x \in DOMAIN r.registry.pathToId :
              x # k => q.registry.pathToId[x] = r.registry.pathToId[x]
    BY <2>2 DEF Put
  <2>4. HasKeyId(q.registry, h.keyId)
    BY <1>2, <2>3 DEF HasKeyId
  <2>5. /\ DOMAIN gt.entries = DOMAIN fs.entries \cup {k}
        /\ gt.entries[k].keyId = id /\ gt.entries[k].value = v
        /\ \A x \in DOMAIN fs.entries : x # k => gt.entries[x] = fs.entries[x]
        /\ DOMAIN gt.byKeyId = DOMAIN fs.byKeyId \cup {id} /\ gt.byKeyId[id] = k
        /\ \A i \in DOMAIN fs.byKeyId : i # id => gt.byKeyId[i] = fs.byKeyId[i]
    BY DEF Put
  <2>6. Ids(z, gt)
    <3>1. Ids(q, gt)
      BY <2>3, <2>5 DEF Ids
    <3> QED BY <1>6, <3>1 DEF Ids
  <2>7. Vals(z, gt)
    <3>1. z.store = Put(q.store, id, v)
      BY <1>6, <2>4
    <3>2. /\ id \in DOMAIN z.store /\ z.store[id] = v
          /\ \A i \in DOMAIN q.store : i # id => i \in DOMAIN z.store /\ z.store[i] = q.store[i]
      BY <3>1 DEF Put
    <3> SUFFICES ASSUME NEW x \in DOMAIN gt.entries
                 PROVE  /\ gt.entries[x].keyId \in DOMAIN z.store
                        /\ z.store[gt.entries[x].keyId] = gt.entries[x].value
      BY DEF Vals
    <3>3. CASE x = k
      BY <2>5, <3>2, <3>3
    <3>4. CASE x # k
      <4>1. x \in DOMAIN fs.entries /\ gt.entries[x] = fs.entries[x]
        BY <2>5, <3>4
      <4>2. fs.entries[x].keyId # id
        BY <4>1 DEF Exact
      <4>3. /\ fs.entries[x].keyId \in DOMAIN r.store
            /\ r.store[fs.entries[x].keyId] = fs.entries[x].value
        BY <4>1 DEF Vals
      <4> QED BY <2>1, <3>2, <4>1, <4>2, <4>3
    <3> QED BY <3>3, <3>4
  <2> QED BY <1>5, <1>6, <2>1, <2>4, <2>6, <2>7 DEF f, h
<1> QED BY <1>7, <1>8

(* A set() that gives the key a new id: the old one is deleted first.      *)
LEMMA FollowNewId ==
    ASSUME NEW fs \in FlatStates(Keys, KeyIds), Exact(fs),
           NEW k \in Keys, NEW v \in Values, NEW id \in KeyIds, id \notin DOMAIN fs.byKeyId,
           NeedsNewId(fs, k, v),
           NEW r \in Reps, Ids(r, fs), Vals(r, fs)
    PROVE  LET gs == SetFrames(fs, "", k, v, id)
               gt == SetLeaf(fs, k, v, id)
           IN  \/ End(r, gs).refused
               \/ Ids(End(r, gs), gt) /\ Vals(End(r, gs), gt) /\ Knows(r, gs)
<1> DEFINE gs == SetFrames(fs, "", k, v, id)
           gt == SetLeaf(fs, k, v, id)
           dt == DetectDataType[v]
           e == [keyId |-> id, type |-> dt, value |-> v]
           new == << ServerKeyRegistration(id, dt, k), ServerSync, ServerValue(id, dt, v) >>
<1>0. dt \in DataTypes
  BY FlatStateAssumption
<1>1. new \in Seq(DownFrames)
  <2>1. /\ ServerKeyRegistration(id, dt, k) \in DownFrames /\ ServerSync \in DownFrames
        /\ ServerValue(id, dt, v) \in DownFrames
    BY <1>0, DownMembers
  <2> QED BY <2>1
<1>2. CASE ~HasKey(fs, k)
  <2>1. gs = new
    BY <1>2 DEF SetFrames, WirePath
  <2>2. gt.entries = Put(fs.entries, k, e) /\ gt.byKeyId = Put(fs.byKeyId, id, k)
    BY <1>2 DEF SetLeaf
  <2>3. k \notin DOMAIN fs.entries
    BY <1>2 DEF HasKey
  <2> HIDE DEF gs, gt, dt, new, e
  <2>4. \/ End(r, new).refused
        \/ Ids(End(r, new), gt) /\ Vals(End(r, new), gt) /\ Knows(r, new)
    BY <1>0, <2>2, <2>3, FollowNew DEF new, e
  <2> QED BY <2>1, <2>4 DEF gs, gt
<1>3. CASE HasKey(fs, k)
  <2> DEFINE f == ServerKeyDelete(fs.entries[k].keyId)
             q == ReplicaApply(r, f)
             cl == ClearKey(fs, k)
  <2>0. k \in DOMAIN fs.entries
    BY <1>3 DEF HasKey
  <2>1. /\ f \in DownFrames /\ f.frameType = "ServerKeyDelete" /\ q \in Reps
        /\ q.refused = r.refused /\ Ids(q, cl) /\ Vals(q, cl)
    BY <2>0, FollowDelete
  <2>2. gs = << f >> \o new
    BY <1>3 DEF SetFrames, WirePath
  <2>3. gt.entries = Put(fs.entries, k, e)
        /\ gt.byKeyId = Put(Erase(fs.byKeyId, fs.entries[k].keyId), id, k)
    BY <1>3 DEF SetLeaf
  <2>4. cl.entries = Erase(fs.entries, k)
        /\ cl.byKeyId = Erase(fs.byKeyId, fs.entries[k].keyId)
    BY DEF ClearKey
  <2> HIDE DEF gs, gt, dt, f, q, cl, new, e
  <2>5. gt.entries = Put(cl.entries, k, e)
    <3>1. Put(Erase(fs.entries, k), k, e) = Put(fs.entries, k, e)
      BY <2>0 DEF Put, Erase
    <3> QED BY <2>3, <2>4, <3>1
  <2>6. gt.byKeyId = Put(cl.byKeyId, id, k)
    BY <2>3, <2>4
  <2>7. k \notin DOMAIN cl.entries /\ id \notin DOMAIN cl.byKeyId
    BY <2>4 DEF Erase
  <2>8. Exact(cl)
    <3>1. /\ DOMAIN cl.entries = DOMAIN fs.entries \ {k}
          /\ \A x \in DOMAIN cl.entries : cl.entries[x] = fs.entries[x]
          /\ DOMAIN cl.byKeyId = DOMAIN fs.byKeyId \ {fs.entries[k].keyId}
          /\ \A i \in DOMAIN cl.byKeyId : cl.byKeyId[i] = fs.byKeyId[i]
      BY <2>4 DEF Erase
    <3> QED BY <2>0, <3>1 DEF Exact
  <2>9. \/ End(q, new).refused
        \/ Ids(End(q, new), gt) /\ Vals(End(q, new), gt) /\ Knows(q, new)
    BY <1>0, <2>1, <2>5, <2>6, <2>7, <2>8, FollowNew DEF new, e
  <2>10. End(r, << f >>) = q /\ Knows(r, << f >>) /\ << f >> \in Seq(DownFrames)
    BY <2>1, EndOne DEF q
  <2>11. End(r, gs) = End(q, new) /\ (Knows(q, new) => Knows(r, gs))
    BY <1>1, <2>2, <2>10, EndConcat
  <2> QED BY <2>9, <2>11 DEF gs, gt
<1> QED BY <1>2, <1>3

-----------------------------------------------------------------------------
(* Types of the whole.                                                     *)

(* Every step of the system is a step of its principal, or none of it.     *)
LEMMA PrincipalStep ==
    ASSUME [SyncNext]_vars
    PROVE  [PrincipalNext]_txVars
<1>1. CASE UNCHANGED vars
  BY <1>1 DEF vars
<1>2. CASE AppStep
  BY <1>2 DEF AppStep, AppSet, AppClearKey, AppClear, PrincipalNext
<1>3. ASSUME NEW c \in Clients,
             Connect(c) \/ HandleOpen(c) \/ HandleClose(c) \/ SessionDisconnect(c)
             \/ ClientStep(c) \/ RequestResync(c)
      PROVE  UNCHANGED txVars
  BY <1>3 DEF Connect, HandleOpen, HandleClose, SessionDisconnect, RequestResync, ClientStep,
              OnKeyRegistration, OnSync, OnValue, OnKeyDelete, OnReset, Receives
<1>4. ASSUME NEW c \in Clients, SessionStep(c)
      PROVE  BuildKeyFrames \/ UNCHANGED txVars
  BY <1>4 DEF SessionStep, HandleIdentify, HandleClientReady, HandleKeyRequest,
              HandleResyncReq
<1> QED BY <1>1, <1>2, <1>3, <1>4 DEF SyncNext, PrincipalNext

(* What a message to one client, or to the sessions, does to the channels. *)
LEMMA SendDownEffect ==
    ASSUME down \in [Clients -> Seq(DownFrames)], NEW c \in Clients,
           NEW gs \in Seq(DownFrames)
    PROVE  /\ SendDown(down, c, gs) \in [Clients -> Seq(DownFrames)]
           /\ SendDown(down, c, gs)[c] = IF live[c] THEN down[c] \o gs ELSE down[c]
           /\ \A d \in Clients : d # c => SendDown(down, c, gs)[d] = down[d]
<1>1. down[c] \o gs \in Seq(DownFrames)
  BY ConcatProperties
<1> QED BY <1>1 DEF SendDown

(* The same for all sessions that are Ready.                               *)
LEMMA BroadcastEffect ==
    ASSUME down \in [Clients -> Seq(DownFrames)], NEW gs \in Seq(DownFrames)
    PROVE  /\ Broadcast(gs) \in [Clients -> Seq(DownFrames)]
           /\ \A c \in Clients : Broadcast(gs)[c] =
                 IF session[c] = "Ready" /\ live[c] THEN down[c] \o gs ELSE down[c]
<1>1. \A c \in Clients : down[c] \o gs \in Seq(DownFrames)
  BY ConcatProperties
<1> QED BY <1>1 DEF Broadcast

(* And for a resync.                                                       *)
LEMMA ResyncEffect ==
    ASSUME down \in [Clients -> Seq(DownFrames)], NEW gs \in Seq(DownFrames)
    PROVE  /\ << ServerReset >> \o gs \in Seq(DownFrames)
           /\ Resync(gs) \in [Clients -> Seq(DownFrames)]
           /\ \A c \in Clients : Resync(gs)[c] =
                 IF session[c] # "None" /\ live[c]
                 THEN (down[c] \o << ServerReset >>) \o gs ELSE down[c]
<1>1. << ServerReset >> \in Seq(DownFrames)
  BY DownMembers
<1>2. \A c \in Clients : (down[c] \o << ServerReset >>) \o gs \in Seq(DownFrames)
  BY <1>1, ConcatProperties
<1> QED BY <1>1, <1>2, ConcatProperties DEF Resync

(* Frames of the cache go down the channels.                               *)
LEMMA CacheIsDown ==
    ASSUME NEW gs \in Seq(KeyFrameSet)
    PROVE  gs \in Seq(DownFrames)
<1>1. KeyFrameSet \subseteq DownFrames
  BY DownMembers
<1> QED BY <1>1

(* The application's calls keep the types.                                 *)
LEMMA AppTypeStep ==
    ASSUME SyncTypeOK, PrincipalTypeOK', AppStep
    PROVE  SyncTypeOK'
<1> USE DEF SyncTypeOK
<1>0. ASSUME AppCall PROVE appCalls' \in 0 .. MaxAppCalls
  BY <1>0, SyncAssumption DEF AppCall
<1>1. \A b : MissedBy(b) \in [Clients -> SUBSET Gaps]
  BY DEF MissedBy, Gaps
<1>2. ASSUME NEW k \in Keys, NEW v \in Values, AppSet(k, v) PROVE SyncTypeOK'
  <2>0. nextKeyId \in 1 .. KeyIdBound + 1 /\ (NeedsNewId(flat, k, v) => nextKeyId <= KeyIdBound)
    BY <1>2 DEF AppSet, Set, PrincipalTypeOK
  <2>1. NeedsNewId(flat, k, v) => nextKeyId \in KeyIds
    BY <2>0, KeyIdBoundAssumption DEF KeyIds
  <2>2. SetFrames(flat, "", k, v, nextKeyId) \in Seq(DownFrames)
    BY <2>1, SetFramesType DEF PrincipalTypeOK
  <2>3. down' \in [Clients -> Seq(DownFrames)]
    BY <1>2, <2>2, BroadcastEffect DEF AppSet
  <2> QED BY <1>0, <1>1, <1>2, <2>3 DEF AppSet, clientVars
<1>3. ASSUME NEW k \in Keys, AppClearKey(k) PROVE SyncTypeOK'
  <2>1. ServerKeyDelete(flat.entries[k].keyId) \in DownFrames
    BY <1>3, EntryType, DownMembers DEF AppClearKey, ClearOne, HasKey, PrincipalTypeOK
  <2>2. ClearKeyFrames(flat, k) \in Seq(DownFrames)
    BY <2>1 DEF ClearKeyFrames
  <2>3. down' \in [Clients -> Seq(DownFrames)]
    BY <1>3, <2>2, BroadcastEffect DEF AppClearKey
  <2> QED BY <1>0, <1>1, <1>3, <2>3 DEF AppClearKey, clientVars
<1>4. ASSUME AppClear PROVE SyncTypeOK'
  <2>1. cachedKeyFrames' \in Seq(DownFrames)
    BY CacheIsDown DEF PrincipalTypeOK
  <2>2. Resync(cachedKeyFrames') \in [Clients -> Seq(DownFrames)]
    BY <2>1, ResyncEffect
  <2>3. down' \in [Clients -> Seq(DownFrames)] /\ gap' \in [Clients -> SUBSET Gaps]
    BY <1>4, <2>2 DEF AppClear
  <2> QED BY <1>0, <1>4, <2>3 DEF AppClear, clientVars
<1> QED BY <1>2, <1>3, <1>4 DEF AppStep

(* So do opening and closing connections, ...                              *)
LEMMA ConnectionTypeStep ==
    ASSUME SyncTypeOK, PrincipalTypeOK', NEW c \in Clients,
           Connect(c) \/ HandleOpen(c) \/ HandleClose(c) \/ SessionDisconnect(c)
           \/ RequestResync(c)
    PROVE  SyncTypeOK'
<1> USE DEF SyncTypeOK, ClientStates, SessionStates
<1>1. CASE Connect(c)
  <2>1. connects' \in [Clients -> 0 .. MaxConnects]
    BY <1>1, SyncAssumption DEF Connect
  <2> QED BY <1>1, <2>1 DEF Connect
<1>2. CASE HandleOpen(c)
  <2>1. << Identify >> \in Seq(UpFrames)
    BY DEF UpFrames
  <2> QED BY <1>2, <2>1 DEF HandleOpen
<1>3. << >> \in Seq(DownFrames) /\ << >> \in Seq(UpFrames)
  OBVIOUS
<1>4. CASE HandleClose(c)
  BY <1>3, <1>4 DEF HandleClose
<1>5. CASE SessionDisconnect(c)
  BY <1>3, <1>5 DEF SessionDisconnect, clientVars
<1>6. CASE RequestResync(c)
  <2>1. resyncs' \in [Clients -> 0 .. MaxResyncs]
    BY <1>6, SyncAssumption DEF RequestResync
  <2>2. ClientResyncReq \in UpFrames
    BY DEF UpFrames
  <2>3. up' \in [Clients -> Seq(UpFrames)]
    BY <1>6, <2>2, AppendProperties DEF RequestResync
  <2> QED BY <1>6, <2>1, <2>3 DEF RequestResync
<1> QED BY <1>1, <1>2, <1>4, <1>5, <1>6

(* A client's step, as a step of its replica and its channels.             *)
LEMMA ClientStepShape ==
    ASSUME SyncTypeOK, NEW c \in Clients, ClientStep(c)
    PROVE  /\ down[c] # << >> /\ Head(down[c]) \in DownFrames
           /\ down' = [down EXCEPT ![c] = Tail(@)]
           /\ replica' = [replica EXCEPT ![c] = ReplicaApply(@, Head(down[c]))]
           /\ \/ up' = up
              \/ up' = [up EXCEPT ![c] = Append(@, ClientReady)]
              \/ /\ Head(down[c]).frameType = "ServerValue"
                 /\ ~HasKeyId(replica[c].registry, Head(down[c]).keyId)
                 /\ up' = [up EXCEPT ![c] = Append(@, ClientKeyRequest(Head(down[c]).keyId))]
           /\ clientState' \in [Clients -> ClientStates]
           /\ \A d \in Clients : d # c => clientState'[d] = clientState[d]
           /\ UNCHANGED <<txVars, appCalls, session, live, connects, resyncs, gap>>
<1> DEFINE f == Head(down[c])
<1>0. /\ down \in [Clients -> Seq(DownFrames)] /\ up \in [Clients -> Seq(UpFrames)]
      /\ replica \in [Clients -> Reps] /\ clientState \in [Clients -> ClientStates]
  BY DEF SyncTypeOK, Reps
<1>1. /\ down[c] # << >> /\ down' = [down EXCEPT ![c] = Tail(@)]
      /\ UNCHANGED <<txVars, appCalls, session, live, connects, resyncs, gap>>
  BY DEF ClientStep, OnKeyRegistration, OnSync, OnValue, OnKeyDelete, OnReset, Receives
<1>2. f \in DownFrames
  BY <1>0, <1>1, HeadTailProperties, EmptySeq
<1> USE DEF ClientStates
<1>3. CASE OnKeyRegistration(c)
  <2>1. f.frameType = "ServerKeyRegistration" /\ up' = up
        /\ replica' = [replica EXCEPT ![c] = ReplicaRegister(@, f)]
        /\ clientState' = [clientState EXCEPT ![c] = Started(@)]
    BY <1>3 DEF OnKeyRegistration, Receives
  <2>2. clientState' \in [Clients -> ClientStates]
        /\ \A d \in Clients : d # c => clientState'[d] = clientState[d]
    BY <1>0, <2>1 DEF Started
  <2>3. ReplicaRegister(replica[c], f) = ReplicaApply(replica[c], f)
    BY <2>1, ApplyKinds
  <2> QED BY <1>0, <1>1, <1>2, <2>1, <2>2, <2>3
<1>4. CASE OnSync(c)
  <2>1. f.frameType = "ServerSync" /\ replica' = replica
        /\ (up' = up \/ up' = [up EXCEPT ![c] = Append(@, ClientReady)])
    BY <1>0, <1>4 DEF OnSync, Receives
  <2>2. clientState' \in [Clients -> ClientStates]
        /\ \A d \in Clients : d # c => clientState'[d] = clientState[d]
    BY <1>0, <1>4 DEF OnSync, Started
  <2>3. replica[c] = ReplicaApply(replica[c], f)
    BY <2>1, ApplyKinds
  <2>4. replica' = [replica EXCEPT ![c] = ReplicaApply(@, f)]
    BY <1>0, <2>1, <2>3
  <2> QED BY <1>1, <1>2, <2>1, <2>2, <2>4
<1>5. CASE OnValue(c)
  <2>1. /\ f.frameType = "ServerValue"
        /\ replica' = [replica EXCEPT ![c] = ReplicaValue(@, f)]
        /\ \/ up' = up
           \/ /\ ~HasKeyId(replica[c].registry, f.keyId)
              /\ up' = [up EXCEPT ![c] = Append(@, ClientKeyRequest(f.keyId))]
    BY <1>5 DEF OnValue, Receives
  <2>2. clientState' \in [Clients -> ClientStates]
        /\ \A d \in Clients : d # c => clientState'[d] = clientState[d]
    BY <1>0, <1>5 DEF OnValue
  <2>3. ReplicaValue(replica[c], f) = ReplicaApply(replica[c], f)
    BY <2>1, ApplyKinds
  <2> QED BY <1>0, <1>1, <1>2, <2>1, <2>2, <2>3
<1>6. CASE OnKeyDelete(c)
  <2>1. f.frameType = "ServerKeyDelete" /\ up' = up /\ clientState' = clientState
        /\ replica' = [replica EXCEPT ![c] = ReplicaDelete(@, f)]
    BY <1>6 DEF OnKeyDelete, Receives
  <2>2. ReplicaDelete(replica[c], f) = ReplicaApply(replica[c], f)
    BY <2>1, ApplyKinds
  <2> QED BY <1>0, <1>1, <1>2, <2>1, <2>2
<1>7. CASE OnReset(c)
  <2>1. f.frameType = "ServerReset" /\ up' = up
        /\ replica' = [replica EXCEPT ![c] = EmptyReplica]
        /\ clientState' = [clientState EXCEPT ![c] = "Synchronizing"]
    BY <1>7 DEF OnReset, Receives
  <2>2. EmptyReplica = ReplicaApply(replica[c], f)
    BY <2>1, ApplyKinds
  <2> QED BY <1>0, <1>1, <1>2, <2>1, <2>2
<1> QED BY <1>3, <1>4, <1>5, <1>6, <1>7 DEF ClientStep

(* ... the client's handlers, ...                                          *)
LEMMA ClientTypeStep ==
    ASSUME SyncTypeOK, PrincipalTypeOK', NEW c \in Clients, ClientStep(c)
    PROVE  SyncTypeOK'
<1> DEFINE f == Head(down[c])
<1>0. /\ down \in [Clients -> Seq(DownFrames)] /\ up \in [Clients -> Seq(UpFrames)]
      /\ replica \in [Clients -> Reps]
  BY DEF SyncTypeOK, Reps
<1>1. /\ down[c] # << >> /\ f \in DownFrames
      /\ down' = [down EXCEPT ![c] = Tail(@)]
      /\ replica' = [replica EXCEPT ![c] = ReplicaApply(@, f)]
      /\ clientState' \in [Clients -> ClientStates]
      /\ UNCHANGED <<txVars, appCalls, session, live, connects, resyncs, gap>>
  BY ClientStepShape
<1>2. down' \in [Clients -> Seq(DownFrames)]
  <2>1. Tail(down[c]) \in Seq(DownFrames)
    BY <1>0, <1>1, HeadTailProperties, EmptySeq
  <2> QED BY <1>0, <1>1, <2>1
<1>3. replica' \in [Clients -> Reps]
  <2>1. ReplicaApply(replica[c], f) \in Reps
    BY <1>0, <1>1, RepsClosed DEF Closed
  <2> QED BY <1>0, <1>1, <2>1
<1>4. up' \in [Clients -> Seq(UpFrames)]
  <2>1. ClientReady \in UpFrames
    BY DEF UpFrames
  <2>2. f.frameType = "ServerValue" => ClientKeyRequest(f.keyId) \in UpFrames
    BY <1>1, DownKinds DEF UpFrames
  <2>3. \A u \in UpFrames : Append(up[c], u) \in Seq(UpFrames)
    BY <1>0, AppendProperties
  <2>4. \/ up' = up
        \/ up' = [up EXCEPT ![c] = Append(@, ClientReady)]
        \/ /\ f.frameType = "ServerValue"
           /\ up' = [up EXCEPT ![c] = Append(@, ClientKeyRequest(f.keyId))]
    BY ClientStepShape
  <2> QED BY <1>0, <2>1, <2>2, <2>3, <2>4
<1> QED BY <1>1, <1>2, <1>3, <1>4 DEF SyncTypeOK, Reps

(* ... and the server's.                                                   *)
LEMMA SessionTypeStep ==
    ASSUME SyncTypeOK, PrincipalInv, PrincipalTypeOK', NEW c \in Clients, SessionStep(c)
    PROVE  SyncTypeOK'
<1>0. /\ down \in [Clients -> Seq(DownFrames)] /\ up \in [Clients -> Seq(UpFrames)]
      /\ session \in [Clients -> SessionStates] /\ gap \in [Clients -> SUBSET Gaps]
      /\ flat \in FlatStates(Keys, KeyIds)
      /\ cachedKeyFrames' \in Seq(KeyFrameSet) /\ cachedKeyFrames' \in Seq(DownFrames)
  BY CacheIsDown DEF SyncTypeOK, PrincipalTypeOK
<1>1. /\ up[c] # << >> /\ up' = [up EXCEPT ![c] = Tail(@)]
      /\ UNCHANGED <<appCalls, live, clientVars>>
  BY DEF SessionStep, HandleIdentify, HandleClientReady, HandleKeyRequest, HandleResyncReq,
         Accepts
<1>2. up' \in [Clients -> Seq(UpFrames)]
  <2>1. Tail(up[c]) \in Seq(UpFrames)
    BY <1>0, <1>1, HeadTailProperties, EmptySeq
  <2> QED BY <1>0, <1>1, <2>1
<1>3. SUFFICES /\ down' \in [Clients -> Seq(DownFrames)]
               /\ session' \in [Clients -> SessionStates] /\ gap' \in [Clients -> SUBSET Gaps]
  BY <1>1, <1>2 DEF SyncTypeOK, clientVars
<1>4. CASE HandleIdentify(c)
  <2>1. down' \in [Clients -> Seq(DownFrames)]
    BY <1>0, <1>4, SendDownEffect DEF HandleIdentify
  <2>2. session' \in [Clients -> SessionStates]
    BY <1>0, <1>4 DEF HandleIdentify, SessionStates
  <2>3. {g \in {"staleCache", "staleReplica"} :
            \/ g = "staleCache" /\ ~CacheCurrent
            \/ g = "staleReplica" /\ ~ReplicaCurrent(c)} \in SUBSET Gaps
    BY DEF Gaps
  <2>4. gap' \in [Clients -> SUBSET Gaps]
    BY <1>0, <1>4, <2>3 DEF HandleIdentify
  <2> QED BY <2>1, <2>2, <2>4
<1>5. CASE HandleClientReady(c)
  <2>1. \A order \in IterationOrders(flat) :
           SendDown(down, c, ValueFrames(flat, order)) \in [Clients -> Seq(DownFrames)]
    BY <1>0, ValueFramesType, SendDownEffect
  <2>2. down' \in [Clients -> Seq(DownFrames)]
    BY <1>0, <1>5, <2>1 DEF HandleClientReady
  <2> QED BY <1>0, <1>5, <2>2 DEF HandleClientReady, SessionStates
<1>6. CASE HandleKeyRequest(c)
  <2> DEFINE id == Head(up[c]).keyId
             e == flat.entries[flat.byKeyId[id]]
             value == IF id \in DOMAIN flat.byKeyId
                      THEN << ServerValue(id, e.type, e.value) >> ELSE << >>
  <2>1. \/ \E f \in ToSet(cachedKeyFrames') :
              down' = SendDown(down, c, << f, ServerSync >> \o value)
        \/ UNCHANGED down
    BY <1>6 DEF HandleKeyRequest
  <2>2. \A f \in ToSet(cachedKeyFrames') : f \in DownFrames
    BY <1>0, LenProperties, ElementOfSeq DEF ToSet
  <2>3. value \in Seq(DownFrames)
    <3>1. CASE id \in DOMAIN flat.byKeyId
      <4> DEFINE k == flat.byKeyId[id]
      <4>1. id \in KeyIds
        BY <1>0, <3>1, MapApply DEF FlatStates
      <4>2. k \in DOMAIN flat.entries
        BY <3>1 DEF PrincipalInv, KeyIdIndexExact
      <4> HIDE DEF id, k
      <4>3. flat.entries[k].type \in DataTypes /\ flat.entries[k].value \in Values
        BY <1>0, <4>2, EntryType
      <4>4. ServerValue(id, flat.entries[k].type, flat.entries[k].value) \in DownFrames
        BY <4>1, <4>3, DownMembers
      <4> QED BY <3>1, <4>4 DEF k
    <3>2. CASE id \notin DOMAIN flat.byKeyId
      BY <3>2
    <3> QED BY <3>1, <3>2
  <2> HIDE DEF value
  <2>4. \A f \in DownFrames : << f, ServerSync >> \in Seq(DownFrames)
    BY DownMembers
  <2>5. \A f \in DownFrames : << f, ServerSync >> \o value \in Seq(DownFrames)
    BY <2>3, <2>4, ConcatProperties
  <2>6. \A gs \in Seq(DownFrames) : SendDown(down, c, gs) \in [Clients -> Seq(DownFrames)]
    BY <1>0, SendDownEffect
  <2>7. down' \in [Clients -> Seq(DownFrames)]
    <3>1. CASE UNCHANGED down
      BY <1>0, <3>1
    <3>2. ASSUME NEW f \in ToSet(cachedKeyFrames'),
                 down' = SendDown(down, c, << f, ServerSync >> \o value)
          PROVE  down' \in [Clients -> Seq(DownFrames)]
      BY <2>2, <2>5, <2>6, <3>2
    <3> QED BY <2>1, <3>1, <3>2
  <2> QED BY <1>0, <1>6, <2>7 DEF HandleKeyRequest
<1>7. CASE HandleResyncReq(c)
  <2>1. << ServerReset >> \o cachedKeyFrames' \in Seq(DownFrames)
    BY <1>0, ResyncEffect
  <2>2. down' \in [Clients -> Seq(DownFrames)]
    BY <1>0, <1>7, <2>1, SendDownEffect DEF HandleResyncReq
  <2>3. gap' \in [Clients -> SUBSET Gaps]
    BY <1>0, <1>7 DEF HandleResyncReq, Gaps
  <2> QED BY <1>0, <1>7, <2>2, <2>3 DEF HandleResyncReq
<1> QED BY <1>4, <1>5, <1>6, <1>7 DEF SessionStep

(* Every step keeps the types.                                             *)
LEMMA SyncTypeStep ==
    ASSUME SyncTypeOK, PrincipalInv, [SyncNext]_vars
    PROVE  SyncTypeOK' /\ PrincipalInv'
<1>1. [PrincipalNext]_txVars
  BY PrincipalStep
<1>2. PrincipalInv' /\ PrincipalTypeOK'
  BY <1>1, PrincipalTypeStep, PrincipalIndexStep DEF PrincipalInv
<1>3. CASE UNCHANGED vars
  BY <1>2, <1>3 DEF vars, clientVars, SyncTypeOK
<1> QED BY <1>2, <1>3, AppTypeStep, ConnectionTypeStep, ClientTypeStep, SessionTypeStep
        DEF SyncNext

-----------------------------------------------------------------------------
(* The invariant of one client, as a fact about the state s of its         *)
(* session, its connection lv, the gap g, its replica r, the frames dn and *)
(* u under way, its state cs, and the cache cc, ck and store fs.           *)

EmptyCache(cc, ck) == cc /\ ck = << ServerSync >>
Asks(u) == \E i \in DOMAIN u : u[i].frameType = "ClientKeyRequest"
CacheOf(cc, ck, fs) == cc => ToSet(ck) = {ServerSync} \cup Registrations(fs)

ChannelAt(s, lv, dn, u, cs, cc) ==
    /\ ~lv \/ s = "None" => dn = << >>
    /\ s = "None" =>
          /\ u \in {<< >>, << Identify >>}
          /\ lv => cs = "Identifying"
    /\ s # "None" =>
          /\ \A i \in DOMAIN u : u[i].frameType # "Identify"
          /\ cc

SyncingAt(s, lv, g, dn, u, cc, ck, fs) ==
    s = "Synchronizing" /\ lv /\ g = {} =>
        /\ CacheOf(cc, ck, fs)
        /\ \/ EmptyCache(cc, ck)
           \/ /\ ~Asks(u)
              /\ \A i \in DOMAIN dn : dn[i].frameType # "ServerValue"

FollowAt(s, lv, g, r, dn, u, cc, ck, fs) ==
    s # "None" /\ lv /\ g = {} /\ ~End(r, dn).refused =>
        /\ Ids(End(r, dn), fs)
        /\ s = "Ready" =>
              /\ Vals(End(r, dn), fs)
              /\ EmptyCache(cc, ck) \/ (~Asks(u) /\ Knows(r, dn))

ClientAt(s, lv, g, r, dn, u, cs, cc, ck, fs) ==
    /\ ChannelAt(s, lv, dn, u, cs, cc)
    /\ SyncingAt(s, lv, g, dn, u, cc, ck, fs)
    /\ FollowAt(s, lv, g, r, dn, u, cc, ck, fs)

ClientOK(c) == ChannelOK(c) /\ SynchronizingOK(c) /\ FollowingOK(c)

(* ClientOK is that fact about the present state, ...                      *)
LEMMA ClientNow ==
    ASSUME NEW c \in Clients, down[c] \in Seq(DownFrames)
    PROVE  ClientOK(c) <=> ClientAt(session[c], live[c], gap[c], replica[c], down[c], up[c],
                                    clientState[c], keyFramesCached, cachedKeyFrames, flat)
<1>1. KnowsValues(c) <=> Knows(replica[c], down[c])
  <2>1. DOMAIN down[c] = 1 .. Len(down[c])
    BY LenProperties
  <2> QED BY <2>1 DEF KnowsValues, Knows
<1>2. \A r : (SameIds(r) <=> Ids(r, flat)) /\ (SameValues(r) <=> Vals(r, flat))
  BY DEF SameIds, SameValues, Ids, Vals
<1>3. /\ CacheIsEmpty <=> EmptyCache(keyFramesCached, cachedKeyFrames)
      /\ AsksForKeys(c) <=> Asks(up[c])
      /\ CacheCurrent <=> CacheOf(keyFramesCached, cachedKeyFrames, flat)
      /\ Drained(c) = End(replica[c], down[c])
  BY DEF CacheIsEmpty, EmptyCache, AsksForKeys, Asks, CacheCurrent, CacheOf, Registrations,
         Drained, End
<1>4. ChannelOK(c) <=> ChannelAt(session[c], live[c], down[c], up[c], clientState[c],
                                 keyFramesCached)
  BY DEF ChannelOK, ChannelAt
<1>5. SynchronizingOK(c) <=> SyncingAt(session[c], live[c], gap[c], down[c], up[c],
                                       keyFramesCached, cachedKeyFrames, flat)
  BY <1>3 DEF SynchronizingOK, SyncingAt
<1>6. FollowingOK(c) <=> FollowAt(session[c], live[c], gap[c], replica[c], down[c], up[c],
                                  keyFramesCached, cachedKeyFrames, flat)
  BY <1>1, <1>2, <1>3 DEF FollowingOK, FollowAt
<1> QED BY <1>4, <1>5, <1>6 DEF ClientOK, ClientAt

(* ... and in the next state about that one.                               *)
LEMMA ClientNext ==
    ASSUME NEW c \in Clients, down'[c] \in Seq(DownFrames)
    PROVE  ClientOK(c)' <=> ClientAt(session'[c], live'[c], gap'[c], replica'[c], down'[c],
                                     up'[c], clientState'[c], keyFramesCached',
                                     cachedKeyFrames', flat')
<1>1. KnowsValues(c)' <=> Knows(replica'[c], down'[c])
  <2>1. DOMAIN down'[c] = 1 .. Len(down'[c])
    BY LenProperties
  <2> QED BY <2>1 DEF KnowsValues, Knows
<1>2. /\ SameIds(Drained(c))' <=> Ids(Drained(c)', flat')
      /\ SameValues(Drained(c))' <=> Vals(Drained(c)', flat')
  BY DEF SameIds, SameValues, Ids, Vals
<1>3. /\ CacheIsEmpty' <=> EmptyCache(keyFramesCached', cachedKeyFrames')
      /\ AsksForKeys(c)' <=> Asks(up'[c])
      /\ CacheCurrent' <=> CacheOf(keyFramesCached', cachedKeyFrames', flat')
      /\ Drained(c)' = End(replica'[c], down'[c])
  BY DEF CacheIsEmpty, EmptyCache, AsksForKeys, Asks, CacheCurrent, CacheOf, Registrations,
         Drained, End
<1>4. ChannelOK(c)' <=> ChannelAt(session'[c], live'[c], down'[c], up'[c], clientState'[c],
                                  keyFramesCached')
  BY DEF ChannelOK, ChannelAt
<1>5. SynchronizingOK(c)' <=> SyncingAt(session'[c], live'[c], gap'[c], down'[c], up'[c],
                                        keyFramesCached', cachedKeyFrames', flat')
  BY <1>3 DEF SynchronizingOK, SyncingAt
<1>6. FollowingOK(c)' <=> FollowAt(session'[c], live'[c], gap'[c], replica'[c], down'[c],
                                   up'[c], keyFramesCached', cachedKeyFrames', flat')
  BY <1>1, <1>2, <1>3 DEF FollowingOK, FollowAt
<1> QED BY <1>4, <1>5, <1>6 DEF ClientOK, ClientAt

(* A step that leaves a client's session, connection and replica alone, as *)
(* well as the store, and builds the cache at most once.                   *)
LEMMA Untouched ==
    ASSUME SyncInv, SyncTypeOK', NEW c \in Clients,
           session'[c] = session[c], live'[c] = live[c], gap'[c] = gap[c],
           replica'[c] = replica[c], down'[c] = down[c], up'[c] = up[c],
           clientState'[c] = clientState[c], flat' = flat,
           keyFramesCached => keyFramesCached' /\ cachedKeyFrames' = cachedKeyFrames
    PROVE  ClientOK(c)'
<1>1. down[c] \in Seq(DownFrames) /\ down'[c] \in Seq(DownFrames)
  BY DEF SyncInv, SyncTypeOK
<1>2. ClientAt(session[c], live[c], gap[c], replica[c], down[c], up[c], clientState[c],
               keyFramesCached, cachedKeyFrames, flat)
  BY <1>1, ClientNow DEF SyncInv, ClientOK
<1>3. ClientAt(session[c], live[c], gap[c], replica[c], down[c], up[c], clientState[c],
               keyFramesCached', cachedKeyFrames', flat)
  <2>1. CASE session[c] = "None"
    BY <1>2, <2>1 DEF ClientAt, ChannelAt, SyncingAt, FollowAt
  <2>2. CASE session[c] # "None"
    <3>1. keyFramesCached
      BY <1>2, <2>2 DEF ClientAt, ChannelAt
    <3>2. keyFramesCached' = keyFramesCached /\ cachedKeyFrames' = cachedKeyFrames
      BY <3>1 DEF SyncInv, SyncTypeOK, PrincipalTypeOK
    <3> QED BY <1>2, <3>2
  <2> QED BY <2>1, <2>2
<1> QED BY <1>1, <1>3, ClientNext

-----------------------------------------------------------------------------
(* The application's calls.                                                *)

(* No frame of a set() is a reset.                                         *)
LEMMA SetNeverResets ==
    ASSUME NEW fs \in FlatStates(Keys, KeyIds), NEW k \in Keys, NEW v \in Values, NEW id
    PROVE  LET gs == SetFrames(fs, "", k, v, id) IN
           \A i \in 1 .. Len(gs) : gs[i].frameType # "ServerReset"
<1> DEFINE dt == DetectDataType[v]
           x == ServerKeyDelete(fs.entries[k].keyId)
           f == ServerKeyRegistration(id, dt, k)
           h == ServerValue(id, dt, v)
           o == ServerValue(fs.entries[k].keyId, dt, v)
<1>1. /\ x.frameType = "ServerKeyDelete" /\ f.frameType = "ServerKeyRegistration"
      /\ h.frameType = "ServerValue" /\ o.frameType = "ServerValue"
      /\ ServerSync.frameType = "ServerSync"
  BY DEF ServerKeyDelete, KeySignal, ServerKeyRegistration, ServerValue, ServerSync, Signal,
         Frame
<1> HIDE DEF x, f, h, o
<1> DEFINE three == << f, ServerSync, h >>
<1>2. \/ SetFrames(fs, "", k, v, id) = << o >>
      \/ SetFrames(fs, "", k, v, id) = three
      \/ SetFrames(fs, "", k, v, id) = << x >> \o three
  <2>1. << >> \o three = three
    OBVIOUS
  <2> QED BY <2>1 DEF SetFrames, WirePath, x, f, h, o
<1>3. \A i \in 1 .. Len(<< o >>) : << o >>[i].frameType # "ServerReset"
  BY <1>1
<1>4. \A i \in 1 .. Len(three) : three[i].frameType # "ServerReset"
  BY <1>1
<1>5. \A i \in 1 .. Len(<< x >> \o three) : (<< x >> \o three)[i].frameType # "ServerReset"
  <2> DEFINE S == {x, f, ServerSync, h}
  <2>1. << x >> \in Seq(S) /\ three \in Seq(S)
    OBVIOUS
  <2>2. \A y \in S : y.frameType # "ServerReset"
    BY <1>1
  <2> HIDE DEF S, three
  <2>3. PICK one : one = << x >>
    OBVIOUS
  <2>4. one \o three \in Seq(S)
    BY <2>1, <2>3, ConcatProperties
  <2>5. \A i \in 1 .. Len(one \o three) : (one \o three)[i] \in S
    BY <2>4, ElementOfSeq
  <2> QED BY <2>2, <2>3, <2>5
<1> HIDE DEF three
<1> QED BY <1>2, <1>3, <1>4, <1>5

(* set(): a session that is Ready is told of it, one that is Synchronizing *)
(* only misses it when the key set changes.                                *)
LEMMA AppSetStep ==
    ASSUME SyncInv, SyncTypeOK', NEW k \in Keys, NEW v \in Values, AppSet(k, v),
           NEW c \in Clients
    PROVE  ClientOK(c)'
<1> DEFINE gs == SetFrames(flat, "", k, v, nextKeyId)
           gt == SetLeaf(flat, k, v, nextKeyId)
           s == session[c]
           lv == live[c]
           g == gap[c]
           r == replica[c]
           dn == down[c]
           cc == keyFramesCached
           ck == cachedKeyFrames
           D == End(r, dn)
           new == NeedsNewId(flat, k, v)
<1>0. /\ flat \in FlatStates(Keys, KeyIds) /\ Exact(flat)
      /\ dn \in Seq(DownFrames) /\ r \in Reps /\ down \in [Clients -> Seq(DownFrames)]
      /\ down'[c] \in Seq(DownFrames)
  BY DEF SyncInv, SyncTypeOK, PrincipalInv, PrincipalTypeOK, KeyIdIndexExact, Exact, Reps
<1>1. new => nextKeyId \in KeyIds /\ nextKeyId \notin DOMAIN flat.byKeyId
  <2>1. nextKeyId \in 1 .. KeyIdBound + 1 /\ (new => nextKeyId <= KeyIdBound)
    BY DEF AppSet, Set, SyncInv, PrincipalInv, PrincipalTypeOK
  <2>2. new => nextKeyId \in KeyIds
    BY <2>1, KeyIdBoundAssumption DEF KeyIds
  <2>3. ASSUME nextKeyId \in DOMAIN flat.byKeyId PROVE FALSE
    <3>1. flat.byKeyId[nextKeyId] \in DOMAIN flat.entries
          /\ flat.entries[flat.byKeyId[nextKeyId]].keyId = nextKeyId
      BY <1>0, <2>3 DEF Exact
    <3>2. nextKeyId < nextKeyId
      BY <3>1 DEF SyncInv, PrincipalInv, LiveIdsAllocated
    <3> QED BY <2>1, <3>2, KeyIdBoundAssumption
  <2> QED BY <2>2, <2>3
<1>2. gs \in Seq(DownFrames)
  BY <1>0, <1>1, SetFramesType
<1>3. /\ session' = session /\ live' = live /\ replica' = replica /\ up' = up
      /\ clientState' = clientState /\ flat' = gt /\ keyFramesCached' = cc
      /\ cachedKeyFrames' = ck
      /\ down'[c] = (IF s = "Ready" /\ lv THEN dn \o gs ELSE dn)
      /\ gap'[c] = (IF new /\ s = "Synchronizing" THEN g \cup {"missedChange"} ELSE g)
  <2>1. down' = Broadcast(gs)
    BY DEF AppSet
  <2>2. down'[c] = (IF s = "Ready" /\ lv THEN dn \o gs ELSE dn)
    <3> HIDE DEF gs
    <3> QED BY <1>0, <1>2, <2>1, BroadcastEffect
  <2>3. gap'[c] = (IF new /\ s = "Synchronizing" THEN g \cup {"missedChange"} ELSE g)
    BY DEF AppSet, MissedBy
  <2> QED BY <2>2, <2>3 DEF AppSet, Set, clientVars
<1>4. ClientAt(s, lv, g, r, dn, up[c], clientState[c], cc, ck, flat)
  BY <1>0, ClientNow DEF SyncInv, ClientOK
<1>5. /\ ~new => Registrations(gt) = Registrations(flat) /\ \A q : Ids(q, flat) <=> Ids(q, gt)
  <2> HIDE DEF gt
  <2> QED BY <1>0, LeafSameIds DEF gt
<1>6. D \in Reps
  BY <1>0, <1>2, EndConcat
<1>7. s = "Ready" /\ lv => End(r, down'[c]) = End(D, gs)
      /\ (Knows(r, dn) /\ Knows(D, gs) => Knows(r, down'[c]))
  <2> HIDE DEF gs
  <2> QED BY <1>0, <1>2, <1>3, EndConcat
<1>8. D.refused => End(D, gs).refused
  <2>1. \A i \in 1 .. Len(gs) : gs[i].frameType # "ServerReset"
    BY <1>0, SetNeverResets
  <2> HIDE DEF gs, D
  <2> QED BY <1>2, <1>6, <2>1, EndRefused
<1>9. Ids(D, flat) /\ Vals(D, flat) =>
         \/ End(D, gs).refused
         \/ Ids(End(D, gs), gt) /\ Vals(End(D, gs), gt) /\ Knows(D, gs)
  <2> HIDE DEF D
  <2>1. CASE new
    BY <1>0, <1>1, <1>6, <2>1, FollowNewId
  <2>2. CASE ~new
    BY <1>0, <1>6, <2>2, FollowValue
  <2> QED BY <2>1, <2>2
<1> DEFINE g2 == gap'[c]
           d2 == down'[c]
<1>10. g2 = {} => g = {} /\ (s = "Synchronizing" => ~new)
  BY <1>3
<1>11. ~(s = "Ready" /\ lv) => d2 = dn
  BY <1>3
<1> HIDE DEF gs, gt, D, g2, d2, new
<1>12. ChannelAt(s, lv, d2, up[c], clientState[c], cc)
  BY <1>4, <1>11 DEF ClientAt, ChannelAt
<1>13. SyncingAt(s, lv, g2, d2, up[c], cc, ck, gt)
  <2> SUFFICES ASSUME s = "Synchronizing", lv, g2 = {}
               PROVE  /\ CacheOf(cc, ck, gt)
                      /\ \/ EmptyCache(cc, ck)
                         \/ /\ ~Asks(up[c])
                            /\ \A i \in DOMAIN d2 : d2[i].frameType # "ServerValue"
    BY DEF SyncingAt
  <2> QED BY <1>4, <1>5, <1>10, <1>11 DEF ClientAt, SyncingAt, CacheOf
<1>14. FollowAt(s, lv, g2, r, d2, up[c], cc, ck, gt)
  <2> SUFFICES ASSUME s # "None", lv, g2 = {}, ~End(r, d2).refused
               PROVE  /\ Ids(End(r, d2), gt)
                      /\ s = "Ready" =>
                            /\ Vals(End(r, d2), gt)
                            /\ EmptyCache(cc, ck) \/ (~Asks(up[c]) /\ Knows(r, d2))
    BY DEF FollowAt
  <2>1. CASE s = "Ready"
    <3>1. End(r, d2) = End(D, gs) /\ ~D.refused
          /\ (Knows(r, dn) /\ Knows(D, gs) => Knows(r, d2))
      BY <1>7, <1>8, <2>1 DEF d2
    <3>2. Ids(D, flat) /\ Vals(D, flat) /\ (EmptyCache(cc, ck) \/ (~Asks(up[c]) /\ Knows(r, dn)))
      BY <1>4, <1>10, <2>1, <3>1 DEF ClientAt, FollowAt, D
    <3> QED BY <1>9, <2>1, <3>1, <3>2
  <2>2. CASE s # "Ready"
    <3>1. d2 = dn /\ g = {} /\ ~new
      <4>1. s = "Synchronizing"
        BY <2>2 DEF SyncInv, SyncTypeOK, SessionStates
      <4> QED BY <1>10, <1>11, <2>2, <4>1
    <3>2. Ids(D, flat)
      BY <1>4, <3>1 DEF ClientAt, FollowAt, D
    <3> QED BY <1>5, <2>2, <3>1, <3>2 DEF D
  <2> QED BY <2>1, <2>2
<1>15. ClientAt(s, lv, g2, r, d2, up[c], clientState[c], cc, ck, gt)
  BY <1>12, <1>13, <1>14 DEF ClientAt
<1> QED BY <1>0, <1>3, <1>15, ClientNext DEF g2, d2

(* clear(key): a session that is Ready deletes the key, one that is        *)
(* Synchronizing misses the change.                                        *)
LEMMA AppClearKeyStep ==
    ASSUME SyncInv, SyncTypeOK', NEW k \in Keys, AppClearKey(k), NEW c \in Clients
    PROVE  ClientOK(c)'
<1> DEFINE f == ServerKeyDelete(flat.entries[k].keyId)
           gs == << f >>
           gt == ClearKey(flat, k)
           s == session[c]
           lv == live[c]
           g == gap[c]
           r == replica[c]
           dn == down[c]
           cc == keyFramesCached
           ck == cachedKeyFrames
           D == End(r, dn)
           q == ReplicaApply(D, f)
           g2 == gap'[c]
           d2 == down'[c]
<1>0. /\ flat \in FlatStates(Keys, KeyIds) /\ Exact(flat) /\ k \in DOMAIN flat.entries
      /\ dn \in Seq(DownFrames) /\ r \in Reps /\ down \in [Clients -> Seq(DownFrames)]
      /\ d2 \in Seq(DownFrames) /\ s \in SessionStates
  BY DEF SyncInv, SyncTypeOK, PrincipalInv, PrincipalTypeOK, KeyIdIndexExact, Exact, Reps,
         AppClearKey, ClearOne, HasKey
<1>1. /\ f \in DownFrames /\ f.frameType = "ServerKeyDelete" /\ gs \in Seq(DownFrames)
  BY <1>0, EntryType, DownMembers DEF ServerKeyDelete, KeySignal, Frame
<1>2. /\ session' = session /\ live' = live /\ replica' = replica /\ up' = up
      /\ clientState' = clientState /\ flat' = gt /\ keyFramesCached' = cc
      /\ cachedKeyFrames' = ck
      /\ d2 = (IF s = "Ready" /\ lv THEN dn \o gs ELSE dn)
      /\ g2 = (IF s = "Synchronizing" THEN g \cup {"missedChange"} ELSE g)
  <2>1. down' = Broadcast(gs)
    BY DEF AppClearKey, ClearKeyFrames
  <2>2. d2 = (IF s = "Ready" /\ lv THEN dn \o gs ELSE dn)
    <3> HIDE DEF gs
    <3> QED BY <1>0, <1>1, <2>1, BroadcastEffect
  <2>3. g2 = (IF s = "Synchronizing" THEN g \cup {"missedChange"} ELSE g)
    BY DEF AppClearKey, MissedBy
  <2> QED BY <2>2, <2>3 DEF AppClearKey, ClearOne, clientVars
<1>3. ClientAt(s, lv, g, r, dn, up[c], clientState[c], cc, ck, flat)
  BY <1>0, ClientNow DEF SyncInv, ClientOK
<1>4. D \in Reps
  BY <1>0, <1>1, EndConcat
<1> HIDE DEF D, f, g2, d2
<1>5. End(D, gs) = q /\ Knows(D, gs)
  BY <1>1, <1>4, EndOne
<1>6. Ids(D, flat) /\ Vals(D, flat) => Ids(q, gt) /\ Vals(q, gt)
  <2> HIDE DEF gt
  <2> QED BY <1>0, <1>4, FollowDelete DEF f, gt
<1>7. D.refused => q.refused
  BY <1>1, <1>4, RefusedStays
<1>8. s = "Ready" /\ lv => End(r, d2) = q /\ (Knows(r, dn) => Knows(r, d2))
  <2>1. End(r, dn \o gs) = End(D, gs) /\ (Knows(r, dn) /\ Knows(D, gs) => Knows(r, dn \o gs))
    <3> HIDE DEF gs
    <3> QED BY <1>0, <1>1, EndConcat DEF D
  <2> HIDE DEF gs
  <2> QED BY <1>2, <1>5, <2>1
<1>9. g2 = {} => g = {} /\ s # "Synchronizing"
  BY <1>2
<1>10. ~(s = "Ready" /\ lv) => d2 = dn
  BY <1>2
<1> HIDE DEF gs, gt, q
<1>11. ChannelAt(s, lv, d2, up[c], clientState[c], cc)
  BY <1>3, <1>10 DEF ClientAt, ChannelAt
<1>12. SyncingAt(s, lv, g2, d2, up[c], cc, ck, gt)
  BY <1>9 DEF SyncingAt
<1>13. FollowAt(s, lv, g2, r, d2, up[c], cc, ck, gt)
  <2> SUFFICES ASSUME s # "None", lv, g2 = {}, ~End(r, d2).refused
               PROVE  /\ Ids(End(r, d2), gt) /\ Vals(End(r, d2), gt)
                      /\ EmptyCache(cc, ck) \/ (~Asks(up[c]) /\ Knows(r, d2))
    BY DEF FollowAt
  <2>1. s = "Ready" /\ g = {}
    BY <1>0, <1>9 DEF SessionStates
  <2>2. End(r, d2) = q /\ ~D.refused
    BY <1>7, <1>8, <2>1
  <2>3. Ids(D, flat) /\ Vals(D, flat) /\ (EmptyCache(cc, ck) \/ (~Asks(up[c]) /\ Knows(r, dn)))
    BY <1>3, <2>1, <2>2 DEF ClientAt, FollowAt, D
  <2> QED BY <1>6, <1>8, <2>1, <2>2, <2>3
<1>14. ClientAt(s, lv, g2, r, d2, up[c], clientState[c], cc, ck, gt)
  BY <1>11, <1>12, <1>13 DEF ClientAt
<1> QED BY <1>0, <1>2, <1>14, ClientNext DEF g2, d2

(* clear(): whatever was missed, the reset and the empty key set put every *)
(* connected session right.                                                *)
LEMMA AppClearStep ==
    ASSUME SyncInv, SyncTypeOK', AppClear, NEW c \in Clients
    PROVE  ClientOK(c)'
<1> DEFINE gs == << ServerSync >>
           s == session[c]
           lv == live[c]
           g == gap[c]
           r == replica[c]
           dn == down[c]
           D == End(r, dn)
           g2 == gap'[c]
           d2 == down'[c]
<1>0. /\ dn \in Seq(DownFrames) /\ r \in Reps /\ down \in [Clients -> Seq(DownFrames)]
      /\ d2 \in Seq(DownFrames)
  BY DEF SyncInv, SyncTypeOK, Reps
<1>1. CASE ClearWhenEmpty /\ UNCHANGED <<down, gap, session, up, live, clientVars>>
  BY <1>1, Untouched DEF ClearWhenEmpty, clientVars
<1>2. CASE /\ ClearAll /\ down' = Resync(cachedKeyFrames')
           /\ gap' = [d \in Clients |-> IF session[d] = "None" THEN gap[d] ELSE {}]
           /\ UNCHANGED <<session, up, live, clientVars>>
  <2>1. /\ session' = session /\ live' = live /\ replica' = replica /\ up' = up
        /\ clientState' = clientState /\ flat' = EmptyFlat /\ keyFramesCached' = TRUE
        /\ cachedKeyFrames' = gs
    BY <1>2 DEF ClearAll, clientVars
  <2>2. gs \in Seq(DownFrames) /\ << ServerReset >> \in Seq(DownFrames)
    BY DownMembers
  <2>3. d2 = IF s # "None" /\ lv THEN (dn \o << ServerReset >>) \o gs ELSE dn
    <3> HIDE DEF gs
    <3> QED BY <1>0, <1>2, <2>1, <2>2, ResyncEffect
  <2>4. ClientAt(s, lv, g, r, dn, up[c], clientState[c], keyFramesCached, cachedKeyFrames, flat)
    BY <1>0, ClientNow DEF SyncInv, ClientOK
  <2>5. ASSUME s # "None", lv PROVE End(r, d2) = EmptyReplica
    <3>1. ServerReset \in DownFrames /\ ServerReset.frameType = "ServerReset"
          /\ ServerSync \in DownFrames /\ ServerSync.frameType = "ServerSync"
      BY DownMembers DEF ServerReset, ServerSync, Signal, Frame
    <3>2. D \in Reps /\ End(r, dn \o << ServerReset >>) = End(D, << ServerReset >>)
          /\ dn \o << ServerReset >> \in Seq(DownFrames)
      <4>1. PICK x \in Seq(DownFrames) : x = << ServerReset >>
        BY <2>2
      <4>2. D \in Reps /\ End(r, dn \o x) = End(D, x) /\ dn \o x \in Seq(DownFrames)
        BY <1>0, EndConcat
      <4> QED BY <4>1, <4>2
    <3> HIDE DEF D
    <3>3. End(D, << ServerReset >>) = EmptyReplica
      BY <3>1, <3>2, EndOne, ApplyKinds
    <3>4. End(EmptyReplica, gs) = EmptyReplica
      BY <3>1, EndOne, ApplyKinds, EmptyReplicaType
    <3> HIDE DEF gs
    <3>5. End(r, (dn \o << ServerReset >>) \o gs) = End(End(r, dn \o << ServerReset >>), gs)
      BY <1>0, <2>2, <3>2, EndConcat
    <3> QED BY <2>3, <2>5, <3>2, <3>3, <3>4, <3>5
  <2>6. Ids(EmptyReplica, EmptyFlat) /\ Vals(EmptyReplica, EmptyFlat)
    BY DEF Ids, Vals, EmptyReplica, EmptyRegistry, EmptyFlat, EmptyMap
  <2>7. EmptyCache(TRUE, gs) /\ CacheOf(TRUE, gs, EmptyFlat)
    <3>1. Registrations(EmptyFlat) = {}
      BY DEF Registrations, EmptyFlat, EmptyMap
    <3>2. ToSet(gs) = {ServerSync}
      BY DEF ToSet
    <3> QED BY <3>1, <3>2 DEF EmptyCache, CacheOf
  <2> HIDE DEF d2, g2, gs
  <2>8. ClientAt(s, lv, g2, r, d2, up[c], clientState[c], TRUE, gs, EmptyFlat)
    <3>1. ChannelAt(s, lv, d2, up[c], clientState[c], TRUE)
      BY <2>3, <2>4 DEF ClientAt, ChannelAt
    <3>2. SyncingAt(s, lv, g2, d2, up[c], TRUE, gs, EmptyFlat)
      BY <2>7 DEF SyncingAt
    <3>3. FollowAt(s, lv, g2, r, d2, up[c], TRUE, gs, EmptyFlat)
      BY <2>5, <2>6, <2>7 DEF FollowAt
    <3> QED BY <3>1, <3>2, <3>3 DEF ClientAt
  <2> QED BY <1>0, <2>1, <2>8, ClientNext DEF d2, g2, gs
<1> QED BY <1>1, <1>2 DEF AppClear

-----------------------------------------------------------------------------
(* Connections and clients.                                                *)

(* A frame put on an up channel.                                           *)
LEMMA PutOn ==
    ASSUME NEW u \in Seq(UpFrames), NEW x \in UpFrames
    PROVE  /\ Asks(Append(u, x)) => Asks(u) \/ x.frameType = "ClientKeyRequest"
           /\ (\A i \in DOMAIN u : u[i].frameType # "Identify") /\ x.frameType # "Identify"
                 => \A i \in DOMAIN Append(u, x) : Append(u, x)[i].frameType # "Identify"
<1> DEFINE z == Append(u, x)
           n == Len(u)
<1>1. /\ z \in Seq(UpFrames) /\ Len(z) = n + 1
      /\ \A i \in 1 .. n : z[i] = u[i]
      /\ z[n + 1] = x
  BY AppendProperties
<1>2. n \in Nat /\ DOMAIN u = 1 .. n /\ DOMAIN z = 1 .. n + 1
  BY <1>1, LenProperties
<1> HIDE DEF z, n
<1>3. \A i \in DOMAIN z : (i \in DOMAIN u /\ z[i] = u[i]) \/ z[i] = x
  BY <1>1, <1>2
<1> QED BY <1>3 DEF Asks, z

(* Opening and losing a connection, on either side.                        *)
LEMMA ConnectionStep ==
    ASSUME SyncInv, SyncTypeOK', NEW c \in Clients,
           Connect(c) \/ HandleOpen(c) \/ HandleClose(c) \/ SessionDisconnect(c)
           \/ RequestResync(c),
           NEW d \in Clients
    PROVE  ClientOK(d)'
<1>0. /\ session \in [Clients -> SessionStates] /\ down \in [Clients -> Seq(DownFrames)]
      /\ up \in [Clients -> Seq(UpFrames)] /\ live \in [Clients -> BOOLEAN]
      /\ clientState \in [Clients -> ClientStates] /\ replica \in [Clients -> Reps]
      /\ gap \in [Clients -> SUBSET Gaps] /\ down'[d] \in Seq(DownFrames)
  BY DEF SyncInv, SyncTypeOK, Reps
<1>1. UNCHANGED txVars
  BY DEF Connect, HandleOpen, HandleClose, SessionDisconnect, RequestResync
<1>2. flat' = flat /\ keyFramesCached' = keyFramesCached /\ cachedKeyFrames' = cachedKeyFrames
  BY <1>1 DEF txVars
<1>3. CASE d # c
  <2>1. /\ session'[d] = session[d] /\ live'[d] = live[d] /\ gap'[d] = gap[d]
        /\ replica'[d] = replica[d] /\ down'[d] = down[d] /\ up'[d] = up[d]
        /\ clientState'[d] = clientState[d]
    BY <1>0, <1>3 DEF Connect, HandleOpen, HandleClose, SessionDisconnect, RequestResync,
                      clientVars
  <2> QED BY <1>2, <2>1, Untouched
<1>4. CASE d = c
  <2> DEFINE cc == keyFramesCached
             ck == cachedKeyFrames
  <2>1. ClientAt(session[c], live[c], gap[c], replica[c], down[c], up[c], clientState[c],
                 cc, ck, flat)
    BY <1>0, ClientNow DEF SyncInv, ClientOK
  <2>2. SUFFICES ClientAt(session'[c], live'[c], gap'[c], replica'[c], down'[c], up'[c],
                          clientState'[c], cc, ck, flat)
    BY <1>0, <1>2, <1>4, ClientNext
  <2> USE DEF ClientAt, ChannelAt, SyncingAt, FollowAt
  <2>3. CASE Connect(c)
    <3>1. /\ session' = session /\ live' = live /\ gap' = gap /\ replica' = replica
          /\ down' = down /\ up' = up /\ clientState[c] # "Identifying"
      BY <2>3 DEF Connect
    <3> QED BY <2>1, <3>1
  <2>4. CASE HandleOpen(c)
    <3>1. /\ session[c] = "None" /\ session' = session /\ down' = down
          /\ up'[c] = << Identify >> /\ clientState'[c] = "Identifying"
      BY <1>0, <2>4 DEF HandleOpen
    <3> QED BY <2>1, <3>1
  <2>5. CASE HandleClose(c)
    <3>1. ~live'[c] /\ down'[c] = << >> /\ session' = session /\ up' = up
      BY <1>0, <2>5 DEF HandleClose
    <3> QED BY <2>1, <3>1
  <2>6. CASE SessionDisconnect(c)
    <3>1. /\ ~live[c] /\ live' = live /\ session'[c] = "None" /\ up'[c] = << >>
          /\ down' = down
      BY <1>0, <2>6 DEF SessionDisconnect
    <3> QED BY <2>1, <3>1
  <2>7. CASE RequestResync(c)
    <3>1. /\ session' = session /\ live' = live /\ gap' = gap /\ replica' = replica
          /\ down' = down /\ clientState' = clientState
          /\ clientState[c] # "Identifying" /\ live[c]
          /\ up'[c] = Append(up[c], ClientResyncReq)
      BY <1>0, <2>7 DEF RequestResync
    <3>2. session[c] # "None"
      BY <2>1, <3>1
    <3>3. ClientResyncReq.frameType = "ClientResyncReq"
      BY DEF ClientResyncReq, Signal, Frame
    <3>4. (Asks(up'[c]) => Asks(up[c]))
          /\ ((\A i \in DOMAIN up[c] : up[c][i].frameType # "Identify")
                 => \A i \in DOMAIN up'[c] : up'[c][i].frameType # "Identify")
      <4>1. ClientResyncReq \in UpFrames
        BY DEF UpFrames
      <4> QED BY <1>0, <3>1, <3>3, <4>1, PutOn
    <3> QED BY <2>1, <3>1, <3>2, <3>4
  <2> QED BY <2>3, <2>4, <2>5, <2>6, <2>7
<1> QED BY <1>3, <1>4

(* Handling a frame leads the client where it was led to before, and a     *)
(* client that follows asks for no key.                                    *)
LEMMA ClientFrameStep ==
    ASSUME SyncInv, SyncTypeOK', NEW c \in Clients, ClientStep(c), NEW d \in Clients
    PROVE  ClientOK(d)'
<1> DEFINE f == Head(down[c])
           cc == keyFramesCached
           ck == cachedKeyFrames
           s == session[c]
           lv == live[c]
           g == gap[c]
           r == replica[c]
           dn == down[c]
           q == ReplicaApply(r, f)
           rest == Tail(dn)
<1>0. /\ session \in [Clients -> SessionStates] /\ down \in [Clients -> Seq(DownFrames)]
      /\ up \in [Clients -> Seq(UpFrames)] /\ replica \in [Clients -> Reps]
      /\ down'[d] \in Seq(DownFrames) /\ SyncTypeOK
  BY DEF SyncInv, SyncTypeOK, Reps
<1>1. /\ dn # << >> /\ down' = [down EXCEPT ![c] = Tail(@)]
      /\ replica' = [replica EXCEPT ![c] = ReplicaApply(@, f)]
      /\ \/ up' = up
         \/ up' = [up EXCEPT ![c] = Append(@, ClientReady)]
         \/ /\ f.frameType = "ServerValue"
            /\ ~HasKeyId(r.registry, f.keyId)
            /\ up' = [up EXCEPT ![c] = Append(@, ClientKeyRequest(f.keyId))]
      /\ \A x \in Clients : x # c => clientState'[x] = clientState[x]
      /\ UNCHANGED <<txVars, session, live, gap>>
  BY <1>0, ClientStepShape
<1>2. flat' = flat /\ keyFramesCached' = cc /\ cachedKeyFrames' = ck
  BY <1>1 DEF txVars
<1>3. CASE d # c
  <2>1. /\ session'[d] = session[d] /\ live'[d] = live[d] /\ gap'[d] = gap[d]
        /\ replica'[d] = replica[d] /\ down'[d] = down[d] /\ up'[d] = up[d]
        /\ clientState'[d] = clientState[d]
    BY <1>0, <1>1, <1>3
  <2> QED BY <1>2, <2>1, Untouched
<1>4. CASE d = c
  <2>1. ClientAt(s, lv, g, r, dn, up[c], clientState[c], cc, ck, flat)
    BY <1>0, ClientNow DEF SyncInv, ClientOK
  <2>2. /\ session'[c] = s /\ live'[c] = lv /\ gap'[c] = g /\ replica'[c] = q
        /\ down'[c] = rest
    BY <1>0, <1>1
  <2>3. s # "None" /\ lv
    BY <1>1, <2>1 DEF ClientAt, ChannelAt
  <2>4. /\ q \in Reps /\ End(q, rest) = End(r, dn)
        /\ Knows(r, dn) => /\ Knows(q, rest)
                           /\ f.frameType = "ServerValue" => HasKeyId(r.registry, f.keyId)
    BY <1>0, <1>1, EndFirst
  <2>5. /\ 1 \in DOMAIN dn /\ dn[1] = f
        /\ (\A i \in DOMAIN dn : dn[i].frameType # "ServerValue")
              => \A i \in DOMAIN rest : rest[i].frameType # "ServerValue"
    <3>1. dn \in Seq(DownFrames) /\ dn # << >>
      BY <1>0, <1>1
    <3>2. /\ Len(dn) \in Nat \ {0} /\ DOMAIN dn = 1 .. Len(dn) /\ f = dn[1]
          /\ rest \in Seq(DownFrames) /\ Len(rest) = Len(dn) - 1
          /\ \A i \in 1 .. Len(dn) - 1 : rest[i] = dn[i + 1]
      BY <3>1, HeadTailProperties, EmptySeq, LenProperties
    <3>3. DOMAIN rest = 1 .. Len(dn) - 1
      BY <3>2, LenProperties
    <3> HIDE DEF dn, rest, f
    <3> QED BY <3>2, <3>3
  <2>6. /\ Asks(up'[c]) => \/ Asks(up[c])
                           \/ f.frameType = "ServerValue" /\ ~HasKeyId(r.registry, f.keyId)
        /\ (\A i \in DOMAIN up[c] : up[c][i].frameType # "Identify")
              => \A i \in DOMAIN up'[c] : up'[c][i].frameType # "Identify"
    <3>1. up[c] \in Seq(UpFrames)
      BY <1>0
    <3>2. ClientReady.frameType = "ClientReady"
          /\ \A id : ClientKeyRequest(id).frameType = "ClientKeyRequest"
      BY DEF ClientReady, ClientKeyRequest, KeySignal, Signal, Frame
    <3>3. \/ up'[c] = up[c]
          \/ up'[c] = Append(up[c], ClientReady)
          \/ /\ f.frameType = "ServerValue" /\ ~HasKeyId(r.registry, f.keyId)
             /\ up'[c] = Append(up[c], ClientKeyRequest(f.keyId))
      BY <1>0, <1>1
    <3>4. ClientReady \in UpFrames
          /\ (f.frameType = "ServerValue" => ClientKeyRequest(f.keyId) \in UpFrames)
      <4>1. f \in DownFrames
        BY <1>0, <1>1, HeadTailProperties, EmptySeq
      <4> QED BY <4>1, DownKinds DEF UpFrames
    <3> HIDE DEF f
    <3>5. CASE up'[c] = up[c]
      BY <3>5
    <3>6. CASE up'[c] = Append(up[c], ClientReady)
      BY <3>1, <3>2, <3>4, <3>6, PutOn
    <3>7. CASE /\ f.frameType = "ServerValue" /\ ~HasKeyId(r.registry, f.keyId)
               /\ up'[c] = Append(up[c], ClientKeyRequest(f.keyId))
      BY <3>1, <3>2, <3>4, <3>7, PutOn
    <3> QED BY <3>3, <3>5, <3>6, <3>7
  <2> HIDE DEF f, dn, q, rest
  <2>7. ClientAt(s, lv, g, q, rest, up'[c], clientState'[c], cc, ck, flat)
    <3>1. ChannelAt(s, lv, rest, up'[c], clientState'[c], cc)
      BY <2>1, <2>3, <2>6 DEF ClientAt, ChannelAt
    <3>2. SyncingAt(s, lv, g, rest, up'[c], cc, ck, flat)
      BY <2>1, <2>5, <2>6 DEF ClientAt, SyncingAt
    <3>3. FollowAt(s, lv, g, q, rest, up'[c], cc, ck, flat)
      BY <2>1, <2>4, <2>6 DEF ClientAt, FollowAt
    <3> QED BY <3>1, <3>2, <3>3 DEF ClientAt
  <2> QED BY <1>0, <1>2, <1>4, <2>2, <2>7, ClientNext
<1> QED BY <1>3, <1>4

-----------------------------------------------------------------------------
(* The server's handlers.                                                  *)

(* A frame taken off an up channel.                                        *)
LEMMA TakenOff ==
    ASSUME NEW u \in Seq(UpFrames), u # << >>
    PROVE  /\ 1 \in DOMAIN u /\ u[1] = Head(u)
           /\ Asks(Tail(u)) => Asks(u)
           /\ (\A i \in DOMAIN u : u[i].frameType # "Identify")
                 => \A i \in DOMAIN Tail(u) : Tail(u)[i].frameType # "Identify"
<1>1. /\ Len(u) \in Nat \ {0} /\ DOMAIN u = 1 .. Len(u) /\ Head(u) = u[1]
      /\ Tail(u) \in Seq(UpFrames) /\ Len(Tail(u)) = Len(u) - 1
      /\ \A i \in 1 .. Len(u) - 1 : Tail(u)[i] = u[i + 1]
  BY HeadTailProperties, EmptySeq, LenProperties
<1>2. DOMAIN Tail(u) = 1 .. Len(u) - 1
  BY <1>1, LenProperties
<1> QED BY <1>1, <1>2 DEF Asks

(* The key frames of a store are its registrations and the sync.           *)
LEMMA BuiltFrames ==
    ASSUME NEW fs \in FlatStates(Keys, KeyIds), NEW order \in IterationOrders(fs)
    PROVE  ToSet(Append(KeyFrames(fs, "", order), ServerSync))
              = {ServerSync} \cup Registrations(fs)
<1> DEFINE ks == KeyFrames(fs, "", order)
           n == Len(order)
           e(k) == ServerKeyRegistration(fs.entries[k].keyId, fs.entries[k].type, k)
<1>1. /\ order \in Seq(DOMAIN fs.entries) /\ n \in Nat /\ DOMAIN order = 1 .. n
      /\ \A i \in 1 .. n : order[i] \in DOMAIN fs.entries
      /\ \A k \in DOMAIN fs.entries : \E i \in 1 .. n : order[i] = k
  BY OrderOfKeys, LenProperties, ElementOfSeq
<1>2. ks = [i \in 1 .. n |-> e(order[i])]
  BY <1>1 DEF KeyFrames, WirePath
<1>3. Registrations(fs) = {e(k) : k \in DOMAIN fs.entries}
  BY DEF Registrations
<1> DEFINE E == {e(k) : k \in DOMAIN fs.entries}
<1> HIDE DEF e, n
<1>4. ks \in Seq(E) /\ Len(ks) = n
  <2>1. \A i \in 1 .. n : e(order[i]) \in E
    BY <1>1
  <2> HIDE DEF E, ks
  <2> QED BY <1>1, <1>2, <2>1
<1> HIDE DEF ks
<1>5. /\ DOMAIN Append(ks, ServerSync) = 1 .. n + 1
      /\ \A i \in 1 .. n : Append(ks, ServerSync)[i] = ks[i]
      /\ Append(ks, ServerSync)[n + 1] = ServerSync
  BY <1>1, <1>4
<1>6. \A i \in 1 .. n : ks[i] = e(order[i])
  BY <1>2
<1> DEFINE all == Append(ks, ServerSync)
<1>7. \A i \in DOMAIN all : all[i] \in {ServerSync} \cup {e(k) : k \in DOMAIN fs.entries}
  BY <1>1, <1>5, <1>6
<1>8. \A k \in DOMAIN fs.entries : \E i \in DOMAIN all : all[i] = e(k)
  BY <1>1, <1>5, <1>6
<1>9. \E i \in DOMAIN all : all[i] = ServerSync
  BY <1>1, <1>5
<1> HIDE DEF all
<1>10. ToSet(all) = {ServerSync} \cup {e(k) : k \in DOMAIN fs.entries}
  BY <1>7, <1>8, <1>9 DEF ToSet
<1> QED BY <1>3, <1>10 DEF all, ks

(* Frames of the cache are no values.                                      *)
LEMMA CacheHasNoValues ==
    ASSUME NEW f \in KeyFrameSet
    PROVE  f.frameType \notin {"ServerValue", "ServerReset"}
BY DEF KeyFrameSet, ServerSync, Signal, Frame

(* What the server's handlers leave alone.                                 *)
LEMMA SessionOthers ==
    ASSUME SyncInv, SyncTypeOK', NEW c \in Clients, SessionStep(c),
           NEW d \in Clients, d # c
    PROVE  ClientOK(d)'
<1>0. /\ session \in [Clients -> SessionStates] /\ down \in [Clients -> Seq(DownFrames)]
      /\ up \in [Clients -> Seq(UpFrames)] /\ gap \in [Clients -> SUBSET Gaps]
  BY DEF SyncInv, SyncTypeOK
<1>1. /\ up' = [up EXCEPT ![c] = Tail(@)] /\ UNCHANGED <<live, clientVars>>
      /\ BuildKeyFrames \/ UNCHANGED txVars
  BY DEF SessionStep, HandleIdentify, HandleClientReady, HandleKeyRequest, HandleResyncReq,
         Accepts
<1>2. flat' = flat
      /\ (keyFramesCached => keyFramesCached' /\ cachedKeyFrames' = cachedKeyFrames)
  <2>1. CASE BuildKeyFrames
    BY <2>1 DEF BuildKeyFrames
  <2>2. CASE UNCHANGED txVars
    BY <2>2 DEF txVars
  <2> QED BY <1>1, <2>1, <2>2
<1>3. /\ \/ session' = session \/ \E x : session' = [session EXCEPT ![c] = x]
      /\ \/ gap' = gap \/ \E x : gap' = [gap EXCEPT ![c] = x]
      /\ \/ down' = down \/ \E x : down' = [down EXCEPT ![c] = x]
  <2>1. CASE HandleIdentify(c)
    BY <2>1 DEF HandleIdentify, SendDown
  <2>2. CASE HandleClientReady(c)
    BY <2>2 DEF HandleClientReady, SendDown
  <2>3. CASE HandleKeyRequest(c)
    <3>1. \A gs : \E x : SendDown(down, c, gs) = [down EXCEPT ![c] = x]
      BY DEF SendDown
    <3> QED BY <2>3, <3>1 DEF HandleKeyRequest
  <2>4. CASE HandleResyncReq(c)
    BY <2>4 DEF HandleResyncReq, SendDown
  <2> QED BY <2>1, <2>2, <2>3, <2>4 DEF SessionStep
<1>4. session'[d] = session[d] /\ gap'[d] = gap[d] /\ down'[d] = down[d] /\ up'[d] = up[d]
  BY <1>0, <1>1, <1>3
<1>5. live'[d] = live[d] /\ replica'[d] = replica[d] /\ clientState'[d] = clientState[d]
  BY <1>1 DEF clientVars
<1> QED BY <1>2, <1>4, <1>5, Untouched

(* A new session is given the key set: either one of the two excuses is    *)
(* recorded, or the client will have the server's ids.                     *)
LEMMA IdentifyStep ==
    ASSUME SyncInv, SyncTypeOK', NEW c \in Clients, HandleIdentify(c)
    PROVE  ClientOK(c)'
<1> DEFINE s == session[c]
           lv == live[c]
           r == replica[c]
           gs == cachedKeyFrames'
           g2 == gap'[c]
           d2 == down'[c]
           u2 == up'[c]
<1>0. /\ session \in [Clients -> SessionStates] /\ down \in [Clients -> Seq(DownFrames)]
      /\ up \in [Clients -> Seq(UpFrames)] /\ gap \in [Clients -> SUBSET Gaps]
      /\ flat \in FlatStates(Keys, KeyIds) /\ Exact(flat) /\ r \in Reps
      /\ gs \in Seq(KeyFrameSet) /\ gs \in Seq(DownFrames) /\ d2 \in Seq(DownFrames)
  BY CacheIsDown DEF SyncInv, SyncTypeOK, PrincipalInv, PrincipalTypeOK, KeyIdIndexExact,
         Exact, Reps
<1>1. ClientAt(s, lv, gap[c], r, down[c], up[c], clientState[c], keyFramesCached,
               cachedKeyFrames, flat)
  BY <1>0, ClientNow DEF SyncInv, ClientOK
<1>2. /\ up[c] # << >> /\ Head(up[c]).frameType = "Identify" /\ u2 = Tail(up[c])
      /\ session'[c] = "Synchronizing" /\ live' = live /\ replica' = replica
      /\ clientState' = clientState /\ BuildKeyFrames /\ flat' = flat
      /\ down' = SendDown(down, c, gs)
  BY <1>0 DEF HandleIdentify, Accepts, BuildKeyFrames, clientVars
<1>3. s = "None" /\ up[c] = << Identify >> /\ down[c] = << >>
  BY <1>0, <1>1, <1>2, TakenOff DEF ClientAt, ChannelAt
<1>4. u2 = << >>
  BY <1>2, <1>3
<1>5. d2 = IF lv THEN gs ELSE << >>
  <2> HIDE DEF gs
  <2>1. d2 = IF lv THEN << >> \o gs ELSE << >>
    BY <1>0, <1>2, <1>3, SendDownEffect
  <2> QED BY <1>0, <2>1, ConcatEmptySeq
<1>6. g2 = {} => CacheCurrent /\ ReplicaCurrent(c)
  <2>1. g2 = {g \in {"staleCache", "staleReplica"} :
                 \/ g = "staleCache" /\ ~CacheCurrent
                 \/ g = "staleReplica" /\ ~ReplicaCurrent(c)}
    BY <1>0 DEF HandleIdentify
  <2> QED BY <2>1
<1>7. keyFramesCached' = TRUE
  BY <1>2 DEF BuildKeyFrames
<1>8. g2 = {} => ToSet(gs) = {ServerSync} \cup Registrations(flat)
  <2>1. CASE keyFramesCached
    <3>1. gs = cachedKeyFrames
      BY <1>2, <2>1 DEF BuildKeyFrames
    <3> QED BY <1>6, <2>1, <3>1 DEF CacheCurrent, Registrations
  <2>2. CASE ~keyFramesCached
    <3>1. PICK order \in IterationOrders(flat) :
             gs = Append(KeyFrames(flat, "", order), ServerSync)
      BY <1>2, <2>2 DEF BuildKeyFrames
    <3> QED BY <1>0, <3>1, BuiltFrames
  <2> QED BY <2>1, <2>2
<1>9. g2 = {} => Current(r, flat)
  BY <1>6 DEF ReplicaCurrent, Current, HasKey
<1> HIDE DEF gs, g2, d2, u2
<1>10. ChannelAt("Synchronizing", lv, d2, u2, clientState[c], TRUE)
  BY <1>4, <1>5 DEF ChannelAt
<1>11. SyncingAt("Synchronizing", lv, g2, d2, u2, TRUE, gs, flat)
  <2>1. ASSUME lv, NEW i \in DOMAIN d2 PROVE d2[i].frameType # "ServerValue"
    <3>1. d2 = gs /\ i \in 1 .. Len(gs)
      BY <1>0, <1>5, <2>1, LenProperties
    <3>2. gs[i] \in KeyFrameSet
      BY <1>0, <3>1, ElementOfSeq
    <3> QED BY <3>1, <3>2, CacheHasNoValues
  <2>2. ~Asks(u2)
    BY <1>4 DEF Asks
  <2>3. g2 = {} => CacheOf(TRUE, gs, flat)
    BY <1>8 DEF CacheOf
  <2> QED BY <2>1, <2>2, <2>3 DEF SyncingAt
<1>12. FollowAt("Synchronizing", lv, g2, r, d2, u2, TRUE, gs, flat)
  <2> SUFFICES ASSUME lv, g2 = {}, ~End(r, d2).refused PROVE Ids(End(r, d2), flat)
    BY DEF FollowAt
  <2> QED BY <1>0, <1>5, <1>8, <1>9, RegisterAll
<1>13. ClientAt("Synchronizing", lv, g2, r, d2, u2, clientState[c], TRUE, gs, flat)
  BY <1>10, <1>11, <1>12 DEF ClientAt
<1> QED BY <1>0, <1>2, <1>7, <1>13, ClientNext DEF gs, g2, d2, u2

(* ClientReady: the values of the ids the client has been led to.          *)
LEMMA ReadyStep ==
    ASSUME SyncInv, SyncTypeOK', NEW c \in Clients, HandleClientReady(c)
    PROVE  ClientOK(c)'
<1> DEFINE s == session[c]
           lv == live[c]
           g == gap[c]
           r == replica[c]
           dn == down[c]
           cc == keyFramesCached
           ck == cachedKeyFrames
           D == End(r, dn)
           d2 == down'[c]
           u2 == up'[c]
<1>0. /\ session \in [Clients -> SessionStates] /\ down \in [Clients -> Seq(DownFrames)]
      /\ up \in [Clients -> Seq(UpFrames)] /\ dn \in Seq(DownFrames)
      /\ flat \in FlatStates(Keys, KeyIds) /\ Exact(flat) /\ r \in Reps
      /\ d2 \in Seq(DownFrames)
  BY DEF SyncInv, SyncTypeOK, PrincipalInv, PrincipalTypeOK, KeyIdIndexExact, Exact, Reps
<1>1. ClientAt(s, lv, g, r, dn, up[c], clientState[c], cc, ck, flat)
  BY <1>0, ClientNow DEF SyncInv, ClientOK
<1>2. /\ up[c] # << >> /\ u2 = Tail(up[c]) /\ live' = live /\ replica' = replica
      /\ clientState' = clientState /\ gap' = gap
      /\ flat' = flat /\ keyFramesCached' = cc /\ cachedKeyFrames' = ck
  BY <1>0 DEF HandleClientReady, Accepts, clientVars, txVars
<1>3. /\ Asks(u2) => Asks(up[c])
      /\ (\A i \in DOMAIN up[c] : up[c][i].frameType # "Identify")
            => \A i \in DOMAIN u2 : u2[i].frameType # "Identify"
  BY <1>0, <1>2, TakenOff
<1>4. CASE s = "Ready" /\ UNCHANGED <<session, down>>
  <2> HIDE DEF u2
  <2>1. ClientAt(s, lv, g, r, dn, u2, clientState[c], cc, ck, flat)
    BY <1>1, <1>3, <1>4 DEF ClientAt, ChannelAt, SyncingAt, FollowAt
  <2> QED BY <1>0, <1>2, <1>4, <2>1, ClientNext DEF u2
<1>5. ASSUME s = "Synchronizing", session' = [session EXCEPT ![c] = "Ready"],
             NEW order \in IterationOrders(flat),
             down' = SendDown(down, c, ValueFrames(flat, order))
      PROVE  ClientOK(c)'
  <2> DEFINE gs == ValueFrames(flat, order)
  <2>1. gs \in Seq(DownFrames)
    BY <1>0, ValueFramesType
  <2>2. d2 = IF lv THEN dn \o gs ELSE dn
    <3> HIDE DEF gs
    <3> QED BY <1>0, <1>5, <2>1, SendDownEffect DEF gs
  <2>3. D \in Reps
    BY <1>0, <2>1, EndConcat
  <2>4. lv => /\ End(r, d2) = End(D, gs)
              /\ Knows(r, dn) /\ Knows(D, gs) => Knows(r, d2)
    <3> HIDE DEF gs
    <3> QED BY <1>0, <2>1, <2>2, EndConcat
  <2>5. D.refused => End(D, gs).refused
    <3>1. \A i \in 1 .. Len(gs) : gs[i].frameType # "ServerReset"
      <4>1. \A x, t, v : ServerValue(x, t, v).frameType = "ServerValue"
        BY DEF ServerValue, Frame
      <4> DEFINE e(i) == flat.entries[order[i]]
      <4>2. /\ Len(gs) = Len(order)
            /\ \A i \in 1 .. Len(order) :
                  gs[i] = ServerValue(e(i).keyId, e(i).type, e(i).value)
        BY <1>0, ValueFramesType
      <4> HIDE DEF gs, e
      <4> QED BY <4>1, <4>2
    <3> HIDE DEF gs, D
    <3> QED BY <2>1, <2>3, <3>1, EndRefused
  <2>6. Ids(D, flat) => Ids(End(D, gs), flat) /\ Vals(End(D, gs), flat) /\ Knows(D, gs)
    <3> HIDE DEF D
    <3> QED BY <1>0, <2>3, ValuesAll
  <2>7. (\A i \in DOMAIN dn : dn[i].frameType # "ServerValue") => Knows(r, dn)
    BY <1>0, LenProperties DEF Knows
  <2>8. session'[c] = "Ready"
    BY <1>0, <1>5
  <2> HIDE DEF gs, D, d2, u2
  <2>9. ChannelAt("Ready", lv, d2, u2, clientState[c], cc)
    BY <1>1, <1>3, <1>5, <2>2 DEF ClientAt, ChannelAt
  <2>10. FollowAt("Ready", lv, g, r, d2, u2, cc, ck, flat)
    <3> SUFFICES ASSUME lv, g = {}, ~End(r, d2).refused
                 PROVE  /\ Ids(End(r, d2), flat) /\ Vals(End(r, d2), flat)
                        /\ EmptyCache(cc, ck) \/ (~Asks(u2) /\ Knows(r, d2))
      BY DEF FollowAt
    <3>1. End(r, d2) = End(D, gs) /\ ~D.refused
      BY <2>4, <2>5
    <3>2. Ids(D, flat)
      BY <1>1, <1>5, <3>1 DEF ClientAt, FollowAt, D
    <3>3. \/ EmptyCache(cc, ck)
          \/ ~Asks(up[c]) /\ \A i \in DOMAIN dn : dn[i].frameType # "ServerValue"
      BY <1>1, <1>5 DEF ClientAt, SyncingAt
    <3> QED BY <1>3, <2>4, <2>6, <2>7, <3>1, <3>2, <3>3
  <2>11. ClientAt("Ready", lv, g, r, d2, u2, clientState[c], cc, ck, flat)
    BY <2>9, <2>10 DEF ClientAt, SyncingAt
  <2> QED BY <1>0, <1>2, <2>8, <2>11, ClientNext DEF d2, u2
<1> QED BY <1>4, <1>5 DEF HandleClientReady

(* ClientKeyRequest: a client that misses nothing asks only for what a     *)
(* clear() took away, and the cache, empty since, does not answer.         *)
LEMMA KeyRequestStep ==
    ASSUME SyncInv, SyncTypeOK', NEW c \in Clients, HandleKeyRequest(c)
    PROVE  ClientOK(c)'
<1> DEFINE s == session[c]
           lv == live[c]
           g == gap[c]
           r == replica[c]
           dn == down[c]
           cc == keyFramesCached
           ck == cachedKeyFrames
           D == End(r, dn)
           d2 == down'[c]
           u2 == up'[c]
           id == Head(up[c]).keyId
           e == flat.entries[flat.byKeyId[id]]
           value == IF id \in DOMAIN flat.byKeyId
                    THEN << ServerValue(id, e.type, e.value) >> ELSE << >>
           known == {f \in ToSet(ck) : f.frameType = "ServerKeyRegistration" /\ f.keyId = id}
<1>0. /\ session \in [Clients -> SessionStates] /\ down \in [Clients -> Seq(DownFrames)]
      /\ up \in [Clients -> Seq(UpFrames)] /\ dn \in Seq(DownFrames) /\ r \in Reps
      /\ d2 \in Seq(DownFrames) /\ ck \in Seq(KeyFrameSet) /\ cc \in BOOLEAN
  BY DEF SyncInv, SyncTypeOK, PrincipalTypeOK, Reps
<1>1. ClientAt(s, lv, g, r, dn, up[c], clientState[c], cc, ck, flat)
  BY <1>0, ClientNow DEF SyncInv, ClientOK
<1>2. /\ up[c] # << >> /\ Head(up[c]).frameType = "ClientKeyRequest" /\ u2 = Tail(up[c])
      /\ live' = live /\ replica' = replica /\ clientState' = clientState
      /\ gap' = gap /\ session' = session /\ BuildKeyFrames /\ flat' = flat
  BY <1>0 DEF HandleKeyRequest, Accepts, BuildKeyFrames, clientVars
<1>3. /\ Asks(u2) => Asks(up[c])
      /\ (\A i \in DOMAIN up[c] : up[c][i].frameType # "Identify")
            => \A i \in DOMAIN u2 : u2[i].frameType # "Identify"
      /\ 1 \in DOMAIN up[c] /\ up[c][1] = Head(up[c])
  BY <1>0, <1>2, TakenOff
<1>4. Asks(up[c])
  BY <1>2, <1>3 DEF Asks
<1>5. s # "None"
  <2>1. ASSUME s = "None" PROVE FALSE
    <3>1. up[c] = << Identify >>
      BY <1>1, <1>2, <2>1 DEF ClientAt, ChannelAt
    <3>2. Head(up[c]).frameType = "Identify"
      BY <3>1 DEF Identify, Signal, Frame
    <3> QED BY <1>2, <3>2
  <2> QED BY <2>1
<1>6. cc /\ keyFramesCached' = cc /\ cachedKeyFrames' = ck
  <2>1. cc
    BY <1>1, <1>5 DEF ClientAt, ChannelAt
  <2> QED BY <1>0, <1>2, <2>1 DEF BuildKeyFrames
<1>7. \/ \E f \in known : down' = SendDown(down, c, << f, ServerSync >> \o value)
      \/ down' = down
  BY <1>6 DEF HandleKeyRequest
<1>8. EmptyCache(cc, ck) => known = {}
  <2>1. ToSet(<< ServerSync >>) = {ServerSync} /\ ServerSync.frameType = "ServerSync"
    BY DEF ToSet, ServerSync, Signal, Frame
  <2> QED BY <2>1 DEF EmptyCache
<1>9. \/ d2 = dn
      \/ /\ known # {} /\ lv
         /\ \E f \in known : d2 = dn \o (<< f, ServerSync >> \o value)
  BY <1>0, <1>7 DEF SendDown
<1>10. ASSUME d2 # dn PROVE D.refused => End(r, d2).refused
  <2>1. PICK f \in known : d2 = dn \o (<< f, ServerSync >> \o value)
    BY <1>9, <1>10
  <2>2. \A x \in ToSet(ck) : x \in KeyFrameSet
    BY <1>0, LenProperties, ElementOfSeq DEF ToSet
  <2>3. f \in DownFrames /\ f.frameType = "ServerKeyRegistration" /\ f \in KeyFrameSet
    BY <2>1, <2>2, DownMembers
  <2>4. ServerSync \in DownFrames /\ ServerSync.frameType = "ServerSync"
    BY DownMembers DEF ServerSync, Signal, Frame
  <2>5. << f, ServerSync >> \o value \in Seq(DownFrames)
        /\ \A i \in 1 .. Len(<< f, ServerSync >> \o value) :
              (<< f, ServerSync >> \o value)[i].frameType # "ServerReset"
    <3> DEFINE S == {x \in DownFrames : x.frameType # "ServerReset"}
    <3>1. value \in Seq(S)
      <4>1. CASE id \in DOMAIN flat.byKeyId
        <5> DEFINE k == flat.byKeyId[id]
        <5>1. flat \in FlatStates(Keys, KeyIds) /\ id \in KeyIds /\ k \in DOMAIN flat.entries
          BY <4>1, MapApply DEF SyncInv, PrincipalInv, PrincipalTypeOK, FlatStates,
                                KeyIdIndexExact
        <5> HIDE DEF id, k
        <5>2. flat.entries[k].type \in DataTypes /\ flat.entries[k].value \in Values
          BY <5>1, EntryType
        <5>3. ServerValue(id, flat.entries[k].type, flat.entries[k].value) \in S
          BY <5>1, <5>2, DownMembers DEF ServerValue, Frame
        <5> HIDE DEF S
        <5> QED BY <4>1, <5>3 DEF k
      <4>2. CASE id \notin DOMAIN flat.byKeyId
        BY <4>2
      <4> QED BY <4>1, <4>2
    <3>2. f \in S /\ ServerSync \in S
      BY <2>3, <2>4
    <3> HIDE DEF S, value
    <3>3. << f, ServerSync >> \in Seq(S)
      BY <3>2
    <3>4. << f, ServerSync >> \o value \in Seq(S)
      BY <3>1, <3>3, ConcatProperties
    <3>5. \A i \in 1 .. Len(<< f, ServerSync >> \o value) :
             (<< f, ServerSync >> \o value)[i] \in S
      BY <3>4, ElementOfSeq
    <3> QED BY <3>4, <3>5 DEF S
  <2> DEFINE gs == << f, ServerSync >> \o value
  <2>a. gs \in Seq(DownFrames)
    BY <2>5
  <2> HIDE DEF gs
  <2>6. D \in Reps /\ End(r, dn \o gs) = End(D, gs)
    BY <1>0, <2>a, EndConcat
  <2> HIDE DEF D
  <2>7. D.refused => End(D, gs).refused
    BY <2>5, <2>6, EndRefused DEF gs
  <2> QED BY <2>1, <2>6, <2>7 DEF gs
<1> HIDE DEF D, d2, u2, known, value
<1>11. g = {} /\ lv /\ ~End(r, d2).refused => EmptyCache(cc, ck)
  <2> SUFFICES ASSUME g = {}, lv, ~End(r, d2).refused PROVE EmptyCache(cc, ck)
    OBVIOUS
  <2>1. ~D.refused
    BY <1>10 DEF D
  <2>2. CASE s = "Synchronizing"
    BY <1>1, <1>4, <2>2 DEF ClientAt, SyncingAt
  <2>3. CASE s = "Ready"
    BY <1>1, <1>4, <2>1, <2>3 DEF ClientAt, FollowAt, D
  <2> QED BY <1>0, <1>5, <2>2, <2>3 DEF SessionStates
<1>12. ChannelAt(s, lv, d2, u2, clientState[c], cc)
  BY <1>1, <1>3, <1>5, <1>9 DEF ClientAt, ChannelAt
<1>13. SyncingAt(s, lv, g, d2, u2, cc, ck, flat)
  BY <1>1, <1>4 DEF ClientAt, SyncingAt
<1>14. FollowAt(s, lv, g, r, d2, u2, cc, ck, flat)
  <2> SUFFICES ASSUME s # "None", lv, g = {}, ~End(r, d2).refused
               PROVE  /\ Ids(End(r, d2), flat)
                      /\ s = "Ready" => Vals(End(r, d2), flat) /\ EmptyCache(cc, ck)
    BY DEF FollowAt
  <2>1. EmptyCache(cc, ck) /\ d2 = dn
    BY <1>8, <1>9, <1>11
  <2> QED BY <1>1, <2>1 DEF ClientAt, FollowAt
<1>15. ClientAt(s, lv, g, r, d2, u2, clientState[c], cc, ck, flat)
  BY <1>12, <1>13, <1>14 DEF ClientAt
<1> QED BY <1>0, <1>2, <1>6, <1>15, ClientNext DEF d2, u2

(* ClientResyncReq: the reset and the key set again.  A session that is    *)
(* Ready will not send its values again, which is recorded.                *)
LEMMA ResyncReqStep ==
    ASSUME SyncInv, SyncTypeOK', NEW c \in Clients, HandleResyncReq(c)
    PROVE  ClientOK(c)'
<1> DEFINE s == session[c]
           lv == live[c]
           g == gap[c]
           r == replica[c]
           dn == down[c]
           cc == keyFramesCached
           ck == cachedKeyFrames
           reset == << ServerReset >>
           g2 == gap'[c]
           d2 == down'[c]
           u2 == up'[c]
<1>0. /\ session \in [Clients -> SessionStates] /\ down \in [Clients -> Seq(DownFrames)]
      /\ up \in [Clients -> Seq(UpFrames)] /\ dn \in Seq(DownFrames) /\ r \in Reps
      /\ gap \in [Clients -> SUBSET Gaps] /\ flat \in FlatStates(Keys, KeyIds) /\ Exact(flat)
      /\ d2 \in Seq(DownFrames) /\ ck \in Seq(KeyFrameSet) /\ ck \in Seq(DownFrames)
      /\ cc \in BOOLEAN
  BY CacheIsDown DEF SyncInv, SyncTypeOK, PrincipalInv, PrincipalTypeOK, KeyIdIndexExact,
         Exact, Reps
<1>1. ClientAt(s, lv, g, r, dn, up[c], clientState[c], cc, ck, flat)
  BY <1>0, ClientNow DEF SyncInv, ClientOK
<1>2. /\ up[c] # << >> /\ Head(up[c]).frameType = "ClientResyncReq" /\ u2 = Tail(up[c])
      /\ live' = live /\ replica' = replica /\ clientState' = clientState
      /\ session' = session /\ BuildKeyFrames /\ flat' = flat
      /\ g2 = (IF s = "Ready" THEN g \cup {"lateResync"} ELSE g)
  BY <1>0 DEF HandleResyncReq, Accepts, BuildKeyFrames, clientVars
<1>3. /\ Asks(u2) => Asks(up[c])
      /\ (\A i \in DOMAIN up[c] : up[c][i].frameType # "Identify")
            => \A i \in DOMAIN u2 : u2[i].frameType # "Identify"
  BY <1>0, <1>2, TakenOff
<1>4. s # "None"
  <2>1. ASSUME s = "None" PROVE FALSE
    <3>1. up[c] = << Identify >>
      BY <1>1, <1>2, <2>1 DEF ClientAt, ChannelAt
    <3>2. Head(up[c]).frameType = "Identify"
      BY <3>1 DEF Identify, Signal, Frame
    <3> QED BY <1>2, <3>2
  <2> QED BY <2>1
<1>5. cc /\ keyFramesCached' = cc /\ cachedKeyFrames' = ck
  <2>1. cc
    BY <1>1, <1>4 DEF ClientAt, ChannelAt
  <2> QED BY <1>0, <1>2, <2>1 DEF BuildKeyFrames
<1>6. ServerReset \in DownFrames /\ ServerReset.frameType = "ServerReset"
      /\ reset \in Seq(DownFrames) /\ reset \o ck \in Seq(DownFrames)
  BY <1>0, DownMembers, ConcatProperties DEF ServerReset, Signal, Frame
<1>7. d2 = IF lv THEN dn \o (reset \o ck) ELSE dn
  <2>1. down' = SendDown(down, c, reset \o ck)
    BY <1>5 DEF HandleResyncReq
  <2> HIDE DEF reset
  <2> QED BY <1>0, <1>6, <2>1, SendDownEffect
<1>8. lv => End(r, d2) = End(EmptyReplica, ck)
  <2>1. End(r, dn) \in Reps /\ End(r, dn \o (reset \o ck)) = End(End(r, dn), reset \o ck)
    <3> HIDE DEF reset
    <3> QED BY <1>0, <1>6, EndConcat
  <2>2. End(End(r, dn), reset \o ck) = End(End(End(r, dn), reset), ck)
    <3> HIDE DEF reset
    <3> QED BY <1>0, <1>6, <2>1, EndConcat
  <2>3. End(End(r, dn), reset) = EmptyReplica
    BY <1>6, <2>1, EndOne, ApplyKinds
  <2> HIDE DEF reset
  <2> QED BY <1>7, <2>1, <2>2, <2>3
<1>9. Current(EmptyReplica, flat)
  BY DEF Current, EmptyReplica, EmptyRegistry, EmptyMap
<1>10. ASSUME \A i \in DOMAIN dn : dn[i].frameType # "ServerValue"
       PROVE  \A i \in DOMAIN d2 : d2[i].frameType # "ServerValue"
  <2> DEFINE S == {x \in DownFrames : x.frameType # "ServerValue"}
  <2>1. dn \in Seq(S)
    <3>1. \A i \in 1 .. Len(dn) : dn[i] \in S
      BY <1>0, <1>10, LenProperties, ElementOfSeq
    <3>2. dn = [i \in 1 .. Len(dn) |-> dn[i]] /\ Len(dn) \in Nat
      BY <1>0, LenProperties
    <3> HIDE DEF S
    <3>3. [i \in 1 .. Len(dn) |-> dn[i]] \in Seq(S)
      BY <3>1, <3>2
    <3> QED BY <3>2, <3>3
  <2>2. ck \in Seq(S) /\ reset \in Seq(S)
    <3>1. KeyFrameSet \subseteq S
      BY DownMembers, CacheHasNoValues
    <3>2. ServerReset \in S
      BY <1>6
    <3> HIDE DEF S
    <3> QED BY <1>0, <3>1, <3>2
  <2> HIDE DEF S, reset
  <2>3. reset \o ck \in Seq(S)
    BY <2>2, ConcatProperties
  <2>4. dn \o (reset \o ck) \in Seq(S)
    BY <2>1, <2>3, ConcatProperties
  <2>5. d2 \in Seq(S)
    BY <1>7, <2>1, <2>4
  <2>6. \A i \in DOMAIN d2 : d2[i] \in S
    BY <2>5, LenProperties, ElementOfSeq
  <2> QED BY <2>6 DEF S
<1> HIDE DEF d2, g2, u2
<1>11. ChannelAt(s, lv, d2, u2, clientState[c], cc)
  BY <1>1, <1>3, <1>4, <1>7 DEF ClientAt, ChannelAt
<1>12. g2 = {} => s = "Synchronizing" /\ g = {}
  BY <1>0, <1>2, <1>4 DEF SessionStates
<1>13. SyncingAt(s, lv, g2, d2, u2, cc, ck, flat)
  BY <1>1, <1>3, <1>10, <1>12 DEF ClientAt, SyncingAt
<1>14. FollowAt(s, lv, g2, r, d2, u2, cc, ck, flat)
  <2> SUFFICES ASSUME lv, g2 = {}, ~End(r, d2).refused PROVE Ids(End(r, d2), flat)
    BY <1>12 DEF FollowAt
  <2>1. CacheOf(cc, ck, flat)
    BY <1>1, <1>12 DEF ClientAt, SyncingAt
  <2>2. ToSet(ck) = {ServerSync} \cup Registrations(flat)
    BY <1>5, <2>1 DEF CacheOf
  <2> QED BY <1>0, <1>8, <1>9, <2>2, RegisterAll, EmptyReplicaType
<1>15. ClientAt(s, lv, g2, r, d2, u2, clientState[c], cc, ck, flat)
  BY <1>11, <1>13, <1>14 DEF ClientAt
<1> QED BY <1>0, <1>2, <1>5, <1>15, ClientNext DEF g2, d2, u2

-----------------------------------------------------------------------------
(* The invariant is inductive.                                             *)

(* It holds initially ...                                                  *)
LEMMA SyncInitInv == ASSUME SyncInit PROVE SyncInv
<1>1. PrincipalInv
  BY PrincipalInitInv DEF SyncInit
<1>2. SyncTypeOK
  <2>1. /\ [c \in Clients |-> << >>] \in [Clients -> Seq(DownFrames)]
        /\ [c \in Clients |-> << >>] \in [Clients -> Seq(UpFrames)]
    OBVIOUS
  <2>2. [c \in Clients |-> EmptyReplica] \in [Clients -> Reps]
    BY EmptyReplicaType
  <2>3. 0 \in 0 .. MaxAppCalls /\ 0 \in 0 .. MaxConnects /\ 0 \in 0 .. MaxResyncs
    BY SyncAssumption
  <2>4. PrincipalTypeOK
    BY <1>1 DEF PrincipalInv
  <2> QED BY <2>1, <2>2, <2>3, <2>4
          DEF SyncInit, SyncTypeOK, SessionStates, ClientStates, Reps
<1>3. ASSUME NEW c \in Clients PROVE ChannelOK(c) /\ SynchronizingOK(c) /\ FollowingOK(c)
  <2>1. session[c] = "None" /\ down[c] = << >> /\ up[c] = << >> /\ ~live[c]
    BY DEF SyncInit
  <2> QED BY <2>1 DEF ChannelOK, SynchronizingOK, FollowingOK
<1> QED BY <1>1, <1>2, <1>3 DEF SyncInv

(* ... and every step preserves it.                                        *)
LEMMA SyncInvStep ==
    ASSUME SyncInv, [SyncNext]_vars
    PROVE  SyncInv'
<1>1. SyncTypeOK' /\ PrincipalInv'
  BY SyncTypeStep DEF SyncInv
<1>2. ASSUME NEW d \in Clients PROVE ClientOK(d)'
  <2>1. CASE UNCHANGED vars
    BY <1>1, <2>1, Untouched DEF vars, txVars, clientVars
  <2>2. CASE AppStep
    BY <1>1, <2>2, AppSetStep, AppClearKeyStep, AppClearStep DEF AppStep
  <2>3. ASSUME NEW c \in Clients, SessionStep(c) PROVE ClientOK(d)'
    <3>1. CASE d # c
      BY <1>1, <2>3, <3>1, SessionOthers
    <3>2. CASE d = c
      BY <1>1, <2>3, <3>2, IdentifyStep, ReadyStep, KeyRequestStep, ResyncReqStep
         DEF SessionStep
    <3> QED BY <3>1, <3>2
  <2>4. ASSUME NEW c \in Clients,
               Connect(c) \/ HandleOpen(c) \/ HandleClose(c) \/ SessionDisconnect(c)
               \/ RequestResync(c)
        PROVE  ClientOK(d)'
    BY <1>1, <2>4, ConnectionStep
  <2>5. ASSUME NEW c \in Clients, ClientStep(c) PROVE ClientOK(d)'
    BY <1>1, <2>5, ClientFrameStep
  <2> QED BY <2>1, <2>2, <2>3, <2>4, <2>5 DEF SyncNext
<1> QED BY <1>1, <1>2 DEF SyncInv, ClientOK

(* SyncInv holds in every reachable state.                                 *)
THEOREM SyncInvariant == SyncSpec => []SyncInv
<1>1. SyncInit => SyncInv
  BY SyncInitInv
<1>2. SyncInv /\ [SyncNext]_vars => SyncInv'
  BY SyncInvStep
<1> QED BY <1>1, <1>2, PTL DEF SyncSpec

(* The members of the principal, its sessions, the frames on the channels  *)
(* and the clients' replicas keep their types.                             *)
THEOREM SyncTypeCorrect == SyncSpec => []SyncTypeOK
<1>1. SyncInv => SyncTypeOK
  BY DEF SyncInv
<1> QED BY <1>1, SyncInvariant, PTL

(* A client that has missed nothing is never wrong, between any two steps  *)
(* of the application, the server and any number of clients: what is on    *)
(* its way leads it to exactly the server's keys and values.               *)
THEOREM ReplicaFollowsServer == SyncSpec => []ReplicaFollows
<1>1. ASSUME SyncInv, NEW c \in Clients, Following(c)
      PROVE  ClientView(Drained(c)) = ServerView
  <2> DEFINE D == Drained(c)
  <2>1. SameIds(D) /\ SameValues(D)
    BY <1>1 DEF SyncInv, FollowingOK, Following
  <2>2. KeyIdIndexExact
    BY <1>1 DEF SyncInv, PrincipalInv
  <2> HIDE DEF D
  <2>3. \A k \in DOMAIN flat.entries :
           /\ k \in DOMAIN D.registry.pathToId
           /\ D.registry.pathToId[k] = flat.entries[k].keyId
           /\ flat.entries[k].keyId \in DOMAIN D.registry.byId
    BY <2>1, <2>2 DEF SameIds, KeyIdIndexExact
  <2>4. {p \in DOMAIN D.registry.pathToId :
            Resolves(D.registry, p) /\ ResolvePath(D.registry, p) \in DOMAIN D.store}
          = DOMAIN flat.entries
    <3>1. DOMAIN D.registry.pathToId = DOMAIN flat.entries
      BY <2>1 DEF SameIds
    <3>2. \A k \in DOMAIN flat.entries :
             Resolves(D.registry, k) /\ ResolvePath(D.registry, k) \in DOMAIN D.store
      BY <2>1, <2>3 DEF SameValues, Resolves, ResolvePath, HasPath, HasKeyId
    <3> QED BY <3>1, <3>2
  <2>5. \A k \in DOMAIN flat.entries : D.store[ResolvePath(D.registry, k)] = Get(flat, k)
    BY <2>1, <2>3 DEF SameValues, ResolvePath, Get, HasKey
  <2> QED BY <2>4, <2>5 DEF ClientView, ServerView, D
<1>2. SyncInv => ReplicaFollows
  BY <1>1 DEF ReplicaFollows
<1> QED BY <1>2, SyncInvariant, PTL

(* ... and its registry is then a one-to-one map between the ids and the   *)
(* paths of the server, with no id of a key that was removed or re-typed.  *)
THEOREM ReplicaIdsAreServers == SyncSpec => []ReplicaIdsNotCrossed
<1>1. ASSUME SyncInv, NEW c \in Clients, Following(c)
      PROVE  /\ Bidirectional(Drained(c).registry)
             /\ DOMAIN Drained(c).registry.byId = DOMAIN flat.byKeyId
  <2> DEFINE D == Drained(c)
  <2>1. SameIds(D)
    BY <1>1 DEF SyncInv, FollowingOK, Following
  <2>2. KeyIdIndexExact
    BY <1>1 DEF SyncInv, PrincipalInv
  <2> HIDE DEF D
  <2>3. Bidirectional(D.registry)
    BY <2>1, <2>2 DEF SameIds, KeyIdIndexExact, Bidirectional, HasPath, HasKeyId
  <2> QED BY <2>1, <2>3 DEF SameIds, D
<1>2. SyncInv => ReplicaIdsNotCrossed
  BY <1>1 DEF ReplicaIdsNotCrossed
<1> QED BY <1>2, SyncInvariant, PTL

(* The sessions and clients change nothing of the principal that its own   *)
(* specification does not allow: what is proved of PrincipalTX alone holds *)
(* of it among them.                                                       *)
THEOREM SyncImplementsPrincipal == SyncSpec => PrincipalSpec
<1>1. SyncInit => PrincipalInit
  BY DEF SyncInit
<1>2. [SyncNext]_vars => [PrincipalNext]_txVars
  BY PrincipalStep
<1> QED BY <1>1, <1>2, PTL DEF SyncSpec, PrincipalSpec

(* byKeyId_ is the inverse of entries_ in every state of the system.       *)
THEOREM SyncIndexCorrect == SyncSpec => []KeyIdIndexExact
BY SyncImplementsPrincipal, PrincipalIndexCorrect, PTL

(* allocateKeyId never hands out a live id in the whole system either.     *)
THEOREM SyncIdsAllocated == SyncSpec => []LiveIdsAllocated
BY SyncImplementsPrincipal, PrincipalIdsAllocated, PTL

-----------------------------------------------------------------------------
(* The shared state.                                                       *)

(* The replicas that hold values of ids they know, and of no others.       *)
Tidy == {r \in Reps : DOMAIN r.store \subseteq DOMAIN r.registry.byId}

(* A client holds no value of an id it does not know: what comes for one   *)
(* is parked.                                                              *)
LEMMA TidyClosed == EmptyReplica \in Tidy /\ Closed(Tidy, DownFrames)
<1>1. EmptyReplica \in Tidy
  <2>1. DOMAIN EmptyReplica.store \subseteq DOMAIN EmptyReplica.registry.byId
    BY DEF EmptyReplica, EmptyRegistry
  <2> QED BY <2>1, EmptyReplicaType DEF Tidy
<1>2. ASSUME NEW r \in Tidy, NEW f \in DownFrames
      PROVE  ReplicaApply(r, f) \in Tidy
  <2> DEFINE q == ReplicaApply(r, f)
  <2>1. r \in Reps /\ q \in Reps /\ DOMAIN r.store \subseteq DOMAIN r.registry.byId
    BY RepsClosed DEF Closed, Tidy
  <2> SUFFICES q \in Tidy
    OBVIOUS
  <2> HIDE DEF q
  <2>2. CASE f.frameType = "ServerKeyRegistration"
    <3>1. q = ReplicaRegister(r, f)
      BY <2>2, ApplyKinds DEF q
    <3>2. CASE RegisterThrows(r.registry, f.payload)
      <4>1. q.store = r.store /\ q.registry = r.registry
        BY <2>1, <3>1, <3>2, RepsFields DEF ReplicaRegister, Reps, Replicas
      <4> QED BY <2>1, <4>1 DEF Tidy
    <3>3. CASE ~RegisterThrows(r.registry, f.payload)
      <4>1. /\ q.registry = RegisterOne(r.registry, f.keyId, f.payload, f.dataType)
            /\ q.store = IF f.keyId \in DOMAIN r.pending
                         THEN Put(r.store, f.keyId, r.pending[f.keyId]) ELSE r.store
        BY <2>1, <3>1, <3>3 DEF ReplicaRegister, Reps, Replicas
      <4>2. DOMAIN q.registry.byId = DOMAIN r.registry.byId \cup {f.keyId}
        <5>1. q.registry.byId = Put(r.registry.byId, f.keyId,
                                    [path |-> f.payload, type |-> f.dataType])
          BY <4>1 DEF RegisterOne
        <5> QED BY <5>1 DEF Put
      <4>3. DOMAIN q.store \subseteq DOMAIN r.store \cup {f.keyId}
        <5>1. q.store = r.store \/ q.store = Put(r.store, f.keyId, r.pending[f.keyId])
          BY <4>1
        <5> QED BY <5>1 DEF Put
      <4> QED BY <2>1, <4>2, <4>3 DEF Tidy
    <3> QED BY <3>2, <3>3
  <2>3. CASE f.frameType = "ServerValue"
    <3>1. q = ReplicaValue(r, f)
      BY <2>3, ApplyKinds DEF q
    <3>2. /\ q.registry = r.registry
          /\ q.store = IF HasKeyId(r.registry, f.keyId)
                       THEN Put(r.store, f.keyId, f.payload) ELSE r.store
      BY <2>1, <3>1 DEF ReplicaValue, Reps, Replicas
    <3>3. DOMAIN q.store \subseteq DOMAIN r.store \cup {f.keyId}
          /\ (DOMAIN q.store = DOMAIN r.store \/ f.keyId \in DOMAIN r.registry.byId)
      <4>1. CASE HasKeyId(r.registry, f.keyId)
        BY <3>2, <4>1 DEF HasKeyId, Put
      <4>2. CASE ~HasKeyId(r.registry, f.keyId)
        BY <3>2, <4>2
      <4> QED BY <4>1, <4>2
    <3> QED BY <2>1, <3>2, <3>3 DEF Tidy
  <2>4. CASE f.frameType = "ServerKeyDelete"
    <3>1. /\ q.registry = RemoveByKeyId(r.registry, f.keyId)
          /\ q.store = Erase(r.store, f.keyId)
      BY <2>1, <2>4, DeleteEffect DEF q
    <3>2. DOMAIN q.store = DOMAIN r.store \ {f.keyId}
      BY <3>1 DEF Erase
    <3>3. DOMAIN r.registry.byId \ {f.keyId} \subseteq DOMAIN q.registry.byId
      <4>1. \/ q.registry.byId = Erase(r.registry.byId, f.keyId)
            \/ q.registry.byId = r.registry.byId
        BY <3>1 DEF RemoveByKeyId
      <4> QED BY <4>1 DEF Erase
    <3> QED BY <2>1, <3>2, <3>3 DEF Tidy
  <2>5. CASE f.frameType \in {"ServerReset", "ServerSync"}
    BY <1>1, <2>5, ApplyKinds DEF q
  <2> QED BY <2>2, <2>3, <2>4, <2>5, DownKinds DEF q
<1> QED BY <1>1, <1>2 DEF Closed

(* So do all replicas, ...                                                 *)
LEMMA TidyStep ==
    ASSUME SyncInv, [SyncNext]_vars, replica \in [Clients -> Tidy]
    PROVE  replica' \in [Clients -> Tidy]
<1>1. CASE UNCHANGED replica
  BY <1>1
<1>2. ASSUME NEW c \in Clients, ClientStep(c)
      PROVE  replica' \in [Clients -> Tidy]
  <2>1. /\ Head(down[c]) \in DownFrames
        /\ replica' = [replica EXCEPT ![c] = ReplicaApply(@, Head(down[c]))]
    BY <1>2, ClientStepShape DEF SyncInv
  <2>2. ReplicaApply(replica[c], Head(down[c])) \in Tidy
    BY <2>1, TidyClosed DEF Closed
  <2> QED BY <2>1, <2>2
<1>3. ASSUME NEW c \in Clients,
             Connect(c) \/ HandleOpen(c) \/ HandleClose(c) \/ SessionDisconnect(c)
             \/ RequestResync(c) \/ SessionStep(c)
      PROVE  UNCHANGED replica
  BY <1>3 DEF Connect, HandleOpen, HandleClose, SessionDisconnect, RequestResync, SessionStep,
              HandleIdentify, HandleClientReady, HandleKeyRequest, HandleResyncReq, Accepts,
              clientVars
<1>4. AppStep => UNCHANGED replica
  BY DEF AppStep, AppSet, AppClearKey, AppClear, clientVars
<1> QED BY <1>1, <1>2, <1>3, <1>4 DEF SyncNext, vars, clientVars

(* ... at the end of every replay too.                                     *)
LEMMA TidyEnd ==
    ASSUME NEW r \in Tidy, NEW fs \in Seq(DownFrames)
    PROVE  End(r, fs) \in Tidy
<1>1. Replay(r, fs) \in Seq(Tidy) /\ Len(Replay(r, fs)) = Len(fs) + 1 /\ Len(fs) \in Nat
  BY TidyClosed, ReplayTrace, LenProperties DEF IsTrace
<1> QED BY <1>1, ElementOfSeq DEF End, Last

(* get(key) is the same if the id of the key and its value are.            *)
LEMMA SameGet ==
    ASSUME NEW r, NEW q, NEW j,
           j \in DOMAIN r.registry.pathToId <=> j \in DOMAIN q.registry.pathToId,
           j \in DOMAIN r.registry.pathToId =>
               /\ q.registry.pathToId[j] = r.registry.pathToId[j]
               /\ r.registry.pathToId[j] \in DOMAIN r.registry.byId
                     <=> r.registry.pathToId[j] \in DOMAIN q.registry.byId
               /\ r.registry.pathToId[j] \in DOMAIN r.store
                     <=> r.registry.pathToId[j] \in DOMAIN q.store
               /\ r.registry.pathToId[j] \in DOMAIN r.store =>
                     q.store[r.registry.pathToId[j]] = r.store[r.registry.pathToId[j]]
    PROVE  ReplicaGet(q, j) = ReplicaGet(r, j)
BY DEF ReplicaGet, Resolves, ResolvePath, HasPath, HasKeyId

(* A deletion is seen for the key that is deleted, and no other.           *)
LEMMA GetDelete ==
    ASSUME NEW fs \in FlatStates(Keys, KeyIds), Exact(fs), NEW k \in DOMAIN fs.entries,
           NEW r \in Tidy, Ids(r, fs)
    PROVE  LET f == ServerKeyDelete(fs.entries[k].keyId)
               q == ReplicaApply(r, f)
           IN  /\ f \in DownFrames /\ q \in Tidy /\ q.pending = r.pending
               /\ DOMAIN q.registry.byId \subseteq DOMAIN r.registry.byId
               /\ k \notin DOMAIN q.registry.pathToId
               /\ \A j \in DOMAIN q.registry.pathToId :
                     q.registry.pathToId[j] \in DOMAIN q.registry.byId
               /\ ReplicaGet(q, k) = NoPayload
               /\ \A j : j # k => ReplicaGet(q, j) = ReplicaGet(r, j)
<1> DEFINE f == ServerKeyDelete(fs.entries[k].keyId)
           q == ReplicaApply(r, f)
           id == fs.entries[k].keyId
<1>1. f \in DownFrames /\ f.frameType = "ServerKeyDelete" /\ f.keyId = id
  BY EntryType, DownMembers DEF ServerKeyDelete, KeySignal, Frame
<1> HIDE DEF f
<1>2. r \in Reps /\ q \in Tidy
  BY <1>1, TidyClosed DEF Closed, Tidy
<1>3. /\ q.registry = RemoveByKeyId(r.registry, id) /\ q.store = Erase(r.store, id)
      /\ q.pending = r.pending
  <2>1. q.pending = r.pending
    <3>1. q = ReplicaDelete(r, f)
      BY <1>1, ApplyKinds
    <3> HIDE DEF q
    <3> QED BY <1>2, <3>1 DEF ReplicaDelete, Reps, Replicas
  <2> QED BY <1>1, <1>2, <2>1, DeleteEffect
<1>4. id \in DOMAIN fs.byKeyId /\ fs.byKeyId[id] = k
  BY DEF Exact
<1>5. HasKeyId(r.registry, id) /\ r.registry.byId[id].path = k
  BY <1>4 DEF Ids, HasKeyId
<1> HIDE DEF q
<1>6. /\ q.registry.byId = Erase(r.registry.byId, id)
      /\ q.registry.pathToId = Erase(r.registry.pathToId, k)
  BY <1>3, <1>5 DEF RemoveByKeyId
<1>7. /\ DOMAIN q.registry.byId = DOMAIN r.registry.byId \ {id}
      /\ DOMAIN q.registry.pathToId = DOMAIN r.registry.pathToId \ {k}
      /\ \A x \in DOMAIN q.registry.pathToId : q.registry.pathToId[x] = r.registry.pathToId[x]
      /\ DOMAIN q.store = DOMAIN r.store \ {id}
      /\ \A i \in DOMAIN q.store : q.store[i] = r.store[i]
  BY <1>3, <1>6 DEF Erase
<1>8. \A j \in DOMAIN q.registry.pathToId :
         r.registry.pathToId[j] \in DOMAIN r.registry.byId /\ r.registry.pathToId[j] # id
  BY <1>7 DEF Ids, Exact
<1> HIDE DEF id
<1>9. ReplicaGet(q, k) = NoPayload
  BY <1>7 DEF ReplicaGet, Resolves, HasPath
<1>10. ASSUME NEW j, j # k PROVE ReplicaGet(q, j) = ReplicaGet(r, j)
  <2>1. CASE j \notin DOMAIN r.registry.pathToId
    BY <1>7, <2>1, SameGet
  <2>2. CASE j \in DOMAIN r.registry.pathToId
    <3>1. j \in DOMAIN q.registry.pathToId /\ q.registry.pathToId[j] = r.registry.pathToId[j]
      BY <1>7, <1>10, <2>2
    <3>2. r.registry.pathToId[j] \in DOMAIN r.registry.byId /\ r.registry.pathToId[j] # id
      BY <1>8, <3>1
    <3>3. r.registry.pathToId[j] \in DOMAIN q.registry.byId
      BY <1>7, <3>2
    <3>4. /\ r.registry.pathToId[j] \in DOMAIN r.store <=> r.registry.pathToId[j] \in DOMAIN q.store
          /\ r.registry.pathToId[j] \in DOMAIN r.store =>
                q.store[r.registry.pathToId[j]] = r.store[r.registry.pathToId[j]]
      BY <1>7, <3>2
    <3> QED BY <2>2, <3>1, <3>2, <3>3, <3>4, SameGet
  <2> QED BY <2>1, <2>2
<1> QED BY <1>1, <1>2, <1>3, <1>7, <1>8, <1>9, <1>10 DEF f, q

(* A new key is not seen with its registration, as no value of its id is   *)
(* held or parked, but with its value; other keys are not concerned.       *)
LEMMA GetNew ==
    ASSUME NEW r \in Tidy, r.pending = EmptyMap,
           NEW k \in Keys, k \notin DOMAIN r.registry.pathToId,
           NEW id \in KeyIds, id \notin DOMAIN r.registry.byId,
           NEW dt \in DataTypes, NEW v \in Values,
           \A j \in DOMAIN r.registry.pathToId :
              r.registry.pathToId[j] \in DOMAIN r.registry.byId
    PROVE  LET f == ServerKeyRegistration(id, dt, k)
               h == ServerValue(id, dt, v)
               q == ReplicaApply(r, f)
               z == ReplicaApply(q, h)
           IN  /\ f \in DownFrames /\ h \in DownFrames
               /\ \A j : ReplicaGet(q, j) = ReplicaGet(r, j)
               /\ ReplicaGet(z, k) \in {NoPayload, v}
               /\ \A j : j # k => ReplicaGet(z, j) = ReplicaGet(r, j)
<1> DEFINE f == ServerKeyRegistration(id, dt, k)
           h == ServerValue(id, dt, v)
           q == ReplicaApply(r, f)
           z == ReplicaApply(q, h)
<1>1. /\ f \in DownFrames /\ f.frameType = "ServerKeyRegistration"
      /\ f.keyId = id /\ f.payload = k
  BY DownMembers DEF ServerKeyRegistration, Frame
<1>2. h \in DownFrames /\ h.frameType = "ServerValue" /\ h.keyId = id /\ h.payload = v
  BY DownMembers DEF ServerValue, Frame
<1> HIDE DEF f, h
<1>3. r \in Reps /\ q \in Reps /\ DOMAIN r.store \subseteq DOMAIN r.registry.byId
  BY <1>1, RepsClosed DEF Closed, Tidy
<1>4. id \notin DOMAIN r.store /\ id \notin DOMAIN r.pending
  BY <1>3 DEF EmptyMap
<1>5. q = ReplicaRegister(r, f)
  BY <1>1, ApplyKinds
<1>6. z = ReplicaValue(q, h)
  BY <1>2, ApplyKinds
<1> HIDE DEF q, z
<1>7. /\ z.registry = q.registry
      /\ HasKeyId(q.registry, id) => z.store = Put(q.store, id, v)
      /\ ~HasKeyId(q.registry, id) => z.store = q.store
  BY <1>2, <1>3, <1>6 DEF ReplicaValue, Reps, Replicas
<1>8. ReplicaGet(r, k) = NoPayload
  BY DEF ReplicaGet, Resolves, HasPath
<1>9. CASE RegisterThrows(r.registry, f.payload)
  <2>1. q.registry = r.registry /\ q.store = r.store
    BY <1>3, <1>5, <1>9 DEF ReplicaRegister, Reps, Replicas
  <2>2. z.registry = r.registry /\ z.store = r.store
    BY <1>7, <2>1 DEF HasKeyId
  <2>3. \A j : ReplicaGet(q, j) = ReplicaGet(r, j) /\ ReplicaGet(z, j) = ReplicaGet(r, j)
    BY <2>1, <2>2 DEF ReplicaGet
  <2> QED BY <1>1, <1>2, <1>8, <2>3 DEF f, h, q, z
<1>10. CASE ~RegisterThrows(r.registry, f.payload)
  <2>1. /\ q.registry = RegisterOne(r.registry, id, k, f.dataType)
        /\ q.store = r.store
    BY <1>1, <1>3, <1>4, <1>5, <1>10 DEF ReplicaRegister, Reps, Replicas
  <2>2. /\ q.registry.byId = Put(r.registry.byId, id, [path |-> k, type |-> f.dataType])
        /\ q.registry.pathToId = Put(r.registry.pathToId, k, id)
    BY <2>1 DEF RegisterOne
  <2>3. /\ DOMAIN q.registry.byId = DOMAIN r.registry.byId \cup {id}
        /\ DOMAIN q.registry.pathToId = DOMAIN r.registry.pathToId \cup {k}
        /\ q.registry.pathToId[k] = id
        /\ \A x \in DOMAIN r.registry.pathToId :
              x # k => q.registry.pathToId[x] = r.registry.pathToId[x]
    BY <2>2 DEF Put
  <2>4. z.store = Put(q.store, id, v)
    BY <1>7, <2>3 DEF HasKeyId
  <2>5. /\ DOMAIN z.store = DOMAIN r.store \cup {id} /\ z.store[id] = v
        /\ \A x \in DOMAIN r.store : x # id => z.store[x] = r.store[x]
    BY <2>1, <2>4 DEF Put
  <2>6. ReplicaGet(q, k) = NoPayload
    BY <1>4, <2>1, <2>3 DEF ReplicaGet, ResolvePath
  <2>7. ReplicaGet(z, k) = v
    BY <1>7, <2>3, <2>5 DEF ReplicaGet, Resolves, ResolvePath, HasPath, HasKeyId
  <2>8. ASSUME NEW j, j # k PROVE ReplicaGet(q, j) = ReplicaGet(r, j)
    BY <2>1, <2>3, <2>8, SameGet
  <2>9. ASSUME NEW j, j # k PROVE ReplicaGet(z, j) = ReplicaGet(r, j)
    <3>1. j \in DOMAIN r.registry.pathToId =>
             /\ r.registry.pathToId[j] # id
             /\ r.registry.pathToId[j] \in DOMAIN r.registry.byId
      OBVIOUS
    <3> QED BY <1>7, <2>3, <2>5, <2>9, <3>1, SameGet
  <2> QED BY <1>1, <1>2, <1>8, <2>6, <2>7, <2>8, <2>9 DEF f, h, q, z
<1> QED BY <1>9, <1>10

(* A value is seen for the key that has its id, and no other.              *)
LEMMA GetValue ==
    ASSUME NEW fs \in FlatStates(Keys, KeyIds), Exact(fs), NEW k \in DOMAIN fs.entries,
           NEW r \in Tidy, Ids(r, fs), NEW dt \in DataTypes, NEW v \in Values
    PROVE  LET f == ServerValue(fs.entries[k].keyId, dt, v)
               q == ReplicaApply(r, f)
           IN  /\ f \in DownFrames
               /\ ReplicaGet(q, k) = v
               /\ \A j : j # k => ReplicaGet(q, j) = ReplicaGet(r, j)
<1> DEFINE f == ServerValue(fs.entries[k].keyId, dt, v)
           q == ReplicaApply(r, f)
           id == fs.entries[k].keyId
<1>1. f \in DownFrames /\ f.frameType = "ServerValue" /\ f.keyId = id /\ f.payload = v
  BY EntryType, DownMembers DEF ServerValue, Frame
<1> HIDE DEF f
<1>2. r \in Reps
  BY DEF Tidy
<1>3. k \in DOMAIN r.registry.pathToId /\ r.registry.pathToId[k] = id
      /\ id \in DOMAIN r.registry.byId
  BY DEF Ids, Exact
<1>4. q.registry = r.registry /\ q.store = Put(r.store, id, v)
  BY <1>1, <1>2, <1>3, ValueEffect DEF HasKeyId
<1>5. \A j \in DOMAIN r.registry.pathToId : j # k => r.registry.pathToId[j] # id
  BY DEF Ids, Exact
<1> HIDE DEF q, id
<1>6. /\ DOMAIN q.store = DOMAIN r.store \cup {id} /\ q.store[id] = v
      /\ \A x \in DOMAIN r.store : x # id => q.store[x] = r.store[x]
  BY <1>4 DEF Put
<1>7. ReplicaGet(q, k) = v
  BY <1>3, <1>4, <1>6 DEF ReplicaGet, Resolves, ResolvePath, HasPath, HasKeyId
<1>8. ASSUME NEW j, j # k PROVE ReplicaGet(q, j) = ReplicaGet(r, j)
  BY <1>4, <1>5, <1>6, <1>8, SameGet
<1> QED BY <1>1, <1>7, <1>8 DEF f, q

(* In the course of a replay of gs, key k shows what it did or one of V,   *)
(* the others what they did.                                               *)
OnlySees(r, gs, k, V) ==
    \A i \in 1 .. Len(gs), j \in Keys :
        ReplicaGet(Replay(r, gs)[i + 1], j)
            \in (IF j = k THEN V ELSE {}) \cup {ReplicaGet(r, j)}

(* The frames of set(): the key may be missing until its new value comes,  *)
(* and no other key is concerned.                                          *)
LEMMA SetSees ==
    ASSUME NEW fs \in FlatStates(Keys, KeyIds), Exact(fs),
           NEW k \in Keys, NEW v \in Values, NEW id,
           NeedsNewId(fs, k, v) => id \in KeyIds /\ id \notin DOMAIN fs.byKeyId,
           NEW r \in Tidy, Ids(r, fs), r.pending = EmptyMap
    PROVE  OnlySees(r, SetFrames(fs, "", k, v, id), k, {NoPayload, v})
<1> DEFINE gs == SetFrames(fs, "", k, v, id)
           p == Replay(r, gs)
           dt == DetectDataType[v]
           V == {NoPayload, v}
<1>0. dt \in DataTypes
  BY FlatStateAssumption
<1>1. gs \in Seq(DownFrames)
  BY SetFramesType
<1>2. p[1] = r /\ \A i \in 1 .. Len(gs) : p[i + 1] = ReplicaApply(p[i], gs[i])
  <2> HIDE DEF gs
  <2> QED BY <1>1, TidyClosed, ReplayTrace DEF IsTrace
<1>3. ServerSync \in DownFrames /\ \A q : ReplicaApply(q, ServerSync) = q
  BY DownMembers, ApplyKinds DEF ServerSync, Signal, Frame
<1> DEFINE f == ServerKeyRegistration(id, dt, k)
           h == ServerValue(id, dt, v)
<1>4. CASE ~NeedsNewId(fs, k, v)
  <2> DEFINE x == ServerValue(fs.entries[k].keyId, dt, v)
  <2>1. gs = << x >> /\ k \in DOMAIN fs.entries
    BY <1>4 DEF SetFrames, NeedsNewId, HasKey
  <2>2. /\ ReplicaGet(ReplicaApply(r, x), k) = v
        /\ \A j : j # k => ReplicaGet(ReplicaApply(r, x), j) = ReplicaGet(r, j)
    <3> HIDE DEF gs, p, dt
    <3>1. k \in DOMAIN fs.entries
      BY <2>1
    <3> QED BY ONLY <1>0, <3>1, GetValue, fs \in FlatStates(Keys, KeyIds), Exact(fs),
                    r \in Tidy, Ids(r, fs), v \in Values
  <2> HIDE DEF x, gs, p
  <2>3. Len(gs) = 1 /\ p[2] = ReplicaApply(r, x)
    <3>1. Len(gs) = 1 /\ gs[1] = x
      BY <2>1
    <3>2. p[1 + 1] = ReplicaApply(p[1], gs[1])
      BY <1>2, <3>1
    <3> QED BY <1>2, <3>1, <3>2
  <2>4. \A i \in 1 .. Len(gs) : i + 1 = 2
    BY <2>3
  <2> QED BY <2>2, <2>3, <2>4 DEF OnlySees, gs, p
<1>5. CASE NeedsNewId(fs, k, v) /\ ~HasKey(fs, k)
  <2>1. gs = << f, ServerSync, h >> /\ k \notin DOMAIN fs.entries
    BY <1>5 DEF SetFrames, WirePath, HasKey
  <2>2. /\ k \notin DOMAIN r.registry.pathToId /\ id \notin DOMAIN r.registry.byId
        /\ \A j \in DOMAIN r.registry.pathToId :
              r.registry.pathToId[j] \in DOMAIN r.registry.byId
    BY <1>5, <2>1 DEF Ids, Exact
  <2> DEFINE q == ReplicaApply(r, f)
             z == ReplicaApply(q, h)
  <2>3. /\ \A j : ReplicaGet(q, j) = ReplicaGet(r, j)
        /\ ReplicaGet(z, k) \in {NoPayload, v}
        /\ \A j : j # k => ReplicaGet(z, j) = ReplicaGet(r, j)
    BY <1>0, <1>5, <2>2, GetNew
  <2> HIDE DEF f, h, gs, p, q, z
  <2>4. Len(gs) = 3 /\ p[2] = q /\ p[3] = q /\ p[4] = z
    <3>1. Len(gs) = 3 /\ gs[1] = f /\ gs[2] = ServerSync /\ gs[3] = h
      BY <2>1
    <3>2. /\ p[1 + 1] = ReplicaApply(p[1], gs[1]) /\ p[2 + 1] = ReplicaApply(p[2], gs[2])
          /\ p[3 + 1] = ReplicaApply(p[3], gs[3])
      BY <1>2, <3>1
    <3>3. p[2] = q /\ p[3] = ReplicaApply(p[2], ServerSync) /\ p[4] = ReplicaApply(p[3], h)
      BY <1>2, <3>1, <3>2 DEF q
    <3> QED BY <1>3, <3>1, <3>3 DEF z
  <2>5. \A i \in 1 .. Len(gs) : i + 1 \in {2, 3, 4}
    BY <2>4
  <2> QED BY <2>3, <2>4, <2>5 DEF OnlySees, gs, p
<1>6. CASE NeedsNewId(fs, k, v) /\ HasKey(fs, k)
  <2> DEFINE x == ServerKeyDelete(fs.entries[k].keyId)
             y == ReplicaApply(r, x)
             q == ReplicaApply(y, f)
             z == ReplicaApply(q, h)
  <2>0. k \in DOMAIN fs.entries
    BY <1>6 DEF HasKey
  <2>1. Len(gs) = 4 /\ gs[1] = x /\ gs[2] = f /\ gs[3] = ServerSync /\ gs[4] = h
    <3> DEFINE new == << f, ServerSync, h >>
    <3>1. gs = << x >> \o new
      BY <1>6 DEF SetFrames, WirePath
    <3>2. x \in DownFrames /\ f \in DownFrames /\ h \in DownFrames
      BY <1>0, <1>6, <2>0, EntryType, DownMembers
    <3> HIDE DEF gs, x, f, h
    <3>3. /\ << x >> \in Seq(DownFrames) /\ Len(<< x >>) = 1 /\ << x >>[1] = x
          /\ new \in Seq(DownFrames) /\ Len(new) = 3
          /\ new[1] = f /\ new[2] = ServerSync /\ new[3] = h
      BY <1>3, <3>2
    <3> DEFINE one == << x >>
    <3> HIDE DEF new, one
    <3>4. Len(one \o new) = Len(one) + Len(new)
          /\ \A i \in 1 .. Len(one) + Len(new) :
                (one \o new)[i] = IF i <= Len(one) THEN one[i] ELSE new[i - Len(one)]
      BY <3>3, ConcatProperties DEF one
    <3>5. Len(one) = 1 /\ one[1] = x /\ gs = one \o new
      BY <3>1, <3>3 DEF one
    <3>6. Len(gs) = 4 /\ \A i \in 1 .. 4 : gs[i] = IF i <= 1 THEN one[i] ELSE new[i - 1]
      BY <3>3, <3>4, <3>5
    <3>7. gs[1] = one[1] /\ gs[2] = new[1] /\ gs[3] = new[2] /\ gs[4] = new[3]
      BY <3>6
    <3> QED BY <3>3, <3>5, <3>6, <3>7
  <2>2. /\ y \in Tidy /\ y.pending = r.pending
        /\ DOMAIN y.registry.byId \subseteq DOMAIN r.registry.byId
        /\ k \notin DOMAIN y.registry.pathToId
        /\ \A j \in DOMAIN y.registry.pathToId :
              y.registry.pathToId[j] \in DOMAIN y.registry.byId
        /\ ReplicaGet(y, k) = NoPayload
        /\ \A j : j # k => ReplicaGet(y, j) = ReplicaGet(r, j)
    <3>1. y = ReplicaApply(r, ServerKeyDelete(fs.entries[k].keyId))
      OBVIOUS
    <3> HIDE DEF x, y
    <3> QED BY <2>0, <3>1, GetDelete
  <2> HIDE DEF y
  <2>3. id \notin DOMAIN y.registry.byId
    BY <1>6, <2>2 DEF Ids
  <2>4. /\ \A j : ReplicaGet(q, j) = ReplicaGet(y, j)
        /\ ReplicaGet(z, k) \in {NoPayload, v}
        /\ \A j : j # k => ReplicaGet(z, j) = ReplicaGet(y, j)
    BY <1>0, <1>6, <2>2, <2>3, GetNew
  <2> HIDE DEF x, f, h, gs, p, q, z
  <2>5. Len(gs) = 4 /\ p[2] = y /\ p[3] = q /\ p[4] = q /\ p[5] = z
    <3>2. /\ p[1 + 1] = ReplicaApply(p[1], gs[1]) /\ p[2 + 1] = ReplicaApply(p[2], gs[2])
          /\ p[3 + 1] = ReplicaApply(p[3], gs[3]) /\ p[4 + 1] = ReplicaApply(p[4], gs[4])
      BY <1>2, <2>1
    <3>3. /\ p[2] = y /\ p[3] = ReplicaApply(p[2], f)
          /\ p[4] = ReplicaApply(p[3], ServerSync) /\ p[5] = ReplicaApply(p[4], h)
      BY <1>2, <2>1, <3>2 DEF y
    <3> QED BY <1>3, <2>1, <3>3 DEF q, z
  <2>6. \A i \in 1 .. Len(gs) : i + 1 \in {2, 3, 4, 5}
    BY <2>5
  <2> QED BY <2>2, <2>4, <2>5, <2>6 DEF OnlySees, gs, p
<1> QED BY <1>4, <1>5, <1>6

(* The frame of clear(key): the key is missing.                            *)
LEMMA ClearKeySees ==
    ASSUME NEW fs \in FlatStates(Keys, KeyIds), Exact(fs), NEW k \in DOMAIN fs.entries,
           NEW r \in Tidy, Ids(r, fs)
    PROVE  OnlySees(r, ClearKeyFrames(fs, k), k, {NoPayload})
<1> DEFINE x == ServerKeyDelete(fs.entries[k].keyId)
           gs == ClearKeyFrames(fs, k)
           p == Replay(r, gs)
<1>1. gs = << x >>
  BY DEF ClearKeyFrames
<1>2. /\ x \in DownFrames /\ ReplicaGet(ReplicaApply(r, x), k) = NoPayload
      /\ \A j : j # k => ReplicaGet(ReplicaApply(r, x), j) = ReplicaGet(r, j)
  BY GetDelete
<1> HIDE DEF x, gs, p
<1>3. Len(gs) = 1 /\ gs[1] = x /\ gs \in Seq(DownFrames)
  BY <1>1, <1>2
<1>4. p[1] = r /\ p[1 + 1] = ReplicaApply(p[1], gs[1])
  BY <1>3, TidyClosed, ReplayTrace DEF IsTrace, p
<1>5. p[2] = ReplicaApply(r, x) /\ \A i \in 1 .. Len(gs) : i + 1 = 2
  BY <1>3, <1>4
<1> QED BY <1>2, <1>5 DEF OnlySees, gs, p

(* The frames of clear(): all keys are missing.                            *)
LEMMA ClearSees ==
    ASSUME NEW r \in Reps
    PROVE  LET gs == << ServerReset, ServerSync >>
           IN  /\ gs \in Seq(DownFrames)
               /\ \A i \in 1 .. Len(gs), j \in Keys :
                     ReplicaGet(Replay(r, gs)[i + 1], j) = NoPayload
<1> DEFINE gs == << ServerReset, ServerSync >>
           p == Replay(r, gs)
<1>1. /\ ServerReset \in DownFrames /\ ServerSync \in DownFrames
      /\ \A q : ReplicaApply(q, ServerSync) = q /\ ReplicaApply(q, ServerReset) = EmptyReplica
  BY DownMembers, ApplyKinds DEF ServerSync, ServerReset, Signal, Frame
<1>2. Len(gs) = 2 /\ gs[1] = ServerReset /\ gs[2] = ServerSync /\ gs \in Seq(DownFrames)
  BY <1>1
<1> HIDE DEF gs, p
<1>3. p[1 + 1] = ReplicaApply(p[1], gs[1]) /\ p[2 + 1] = ReplicaApply(p[2], gs[2])
  BY <1>2, RepsClosed, ReplayTrace DEF IsTrace, p
<1>4. p[2] = EmptyReplica /\ p[3] = EmptyReplica /\ \A i \in 1 .. Len(gs) : i + 1 \in {2, 3}
  BY <1>1, <1>2, <1>3
<1>5. \A j \in Keys : ReplicaGet(EmptyReplica, j) = NoPayload
  BY DEF ReplicaGet, Resolves, HasPath, EmptyReplica, EmptyRegistry, EmptyMap
<1> QED BY <1>2, <1>4, <1>5 DEF gs, p

-----------------------------------------------------------------------------
(* The refinement of SharedState.                                          *)

(* What it takes for a sequence to grow.                                   *)
LEMMA GrowsSeq ==
    ASSUME NEW X, NEW a \in Seq(X), NEW b \in Seq(X), NEW V, Len(a) <= Len(b),
           \A i \in 1 .. Len(a) : b[i] = a[i],
           \A i \in Len(a) + 1 .. Len(b) : b[i] \in V \cup {Last(a)}
    PROVE  Shared!Grows(a, b, V)
<1>0. Len(a) \in Nat /\ Len(b) \in Nat
  BY LenProperties
<1>1. IsPrefix(a, b)
  <2>1. /\ SubSeq(a, 1, Len(a)) \in Seq(X) /\ SubSeq(b, 1, Len(a)) \in Seq(X)
        /\ Len(SubSeq(a, 1, Len(a))) = Len(a) /\ Len(SubSeq(b, 1, Len(a))) = Len(a)
        /\ \A i \in 1 .. Len(a) :
              SubSeq(a, 1, Len(a))[i] = a[i] /\ SubSeq(b, 1, Len(a))[i] = b[i]
    BY <1>0
  <2>2. SubSeq(a, 1, Len(a)) = SubSeq(b, 1, Len(a))
    BY <2>1, SeqEqual
  <2> QED BY <2>2 DEF IsPrefix
<1>2. ToSet(SubSeq(b, Len(a) + 1, Len(b))) \subseteq V \cup {Last(a)}
  <2> DEFINE t == SubSeq(b, Len(a) + 1, Len(b))
  <2>1. /\ t \in Seq(X) /\ Len(t) = Len(b) - Len(a) /\ DOMAIN t = 1 .. Len(b) - Len(a)
        /\ \A i \in 1 .. Len(b) - Len(a) : t[i] = b[Len(a) + i]
    BY <1>0
  <2>2. ASSUME NEW i \in DOMAIN t PROVE t[i] \in V \cup {Last(a)}
    <3>1. i \in 1 .. Len(b) - Len(a) /\ Len(a) + i \in Len(a) + 1 .. Len(b)
      BY <1>0, <2>1
    <3> QED BY <2>1, <3>1
  <2> HIDE DEF t
  <2> QED BY <2>2 DEF ToSet, t
<1> QED BY <1>1, <1>2 DEF Shared!Grows, Shared!IsPrefix, Shared!ToSet, Shared!Last,
              IsPrefix, ToSet, Last

(* get(key) is a value or nothing.                                         *)
LEMMA GetType ==
    ASSUME NEW r \in Reps, NEW k
    PROVE  ReplicaGet(r, k) \in Values \cup {NoPayload}
<1>1. r.store \in Maps(KeyIds, Values)
  BY RepsFields
<1>2. \A i \in DOMAIN r.store : r.store[i] \in Values
  BY <1>1, MapApply
<1> QED BY <1>2 DEF ReplicaGet

(* What a client shows while it handles frames.                            *)
LEMMA ShowsType ==
    ASSUME NEW r \in Reps, NEW fs \in Seq(DownFrames), NEW k \in Keys
    PROVE  LET a == Shows(Replay(r, fs))[k] IN
           /\ a \in Seq(Values \cup {NoPayload}) /\ Len(a) = Len(fs) + 1 /\ Len(fs) \in Nat
           /\ \A i \in 1 .. Len(fs) + 1 : a[i] = ReplicaGet(Replay(r, fs)[i], k)
           /\ a # << >> /\ Last(a) = ReplicaGet(End(r, fs), k)
<1> DEFINE p == Replay(r, fs)
           n == Len(fs)
           a == Shows(p)[k]
<1>1. p \in Seq(Reps) /\ Len(p) = n + 1 /\ n \in Nat
  BY RepsClosed, ReplayTrace, LenProperties DEF IsTrace
<1>2. End(r, fs) = p[n + 1]
  BY <1>1 DEF End, Last
<1> HIDE DEF p, n
<1>3. DOMAIN p = 1 .. n + 1 /\ \A i \in 1 .. n + 1 : p[i] \in Reps
  BY <1>1, ElementOfSeq, LenProperties
<1>4. a = [i \in 1 .. n + 1 |-> ReplicaGet(p[i], k)]
  BY <1>3 DEF Shows
<1>5. \A i \in 1 .. n + 1 : ReplicaGet(p[i], k) \in Values \cup {NoPayload}
  BY <1>3, GetType
<1> HIDE DEF a
<1>6. a \in Seq(Values \cup {NoPayload}) /\ Len(a) = n + 1
  <2>1. a \in [1 .. n + 1 -> Values \cup {NoPayload}] /\ n + 1 \in Nat
    BY <1>1, <1>4, <1>5
  <2> QED BY <2>1
<1>7. \A i \in 1 .. n + 1 : a[i] = ReplicaGet(p[i], k)
  BY <1>4
<1>8. a # << >>
  BY <1>1, <1>6
<1>9. Last(a) = ReplicaGet(End(r, fs), k)
  BY <1>1, <1>2, <1>6, <1>7 DEF Last
<1> QED BY <1>1, <1>6, <1>7, <1>8, <1>9 DEF a, p, n

(* Frames that are sent add to what a client will show.                    *)
LEMMA ShowsMore ==
    ASSUME NEW r \in Reps, NEW fs \in Seq(DownFrames), NEW gs \in Seq(DownFrames),
           NEW k \in Keys, NEW V,
           \A i \in 1 .. Len(gs) :
               ReplicaGet(Replay(End(r, fs), gs)[i + 1], k) \in V \cup {ReplicaGet(End(r, fs), k)}
    PROVE  Shared!Grows(Shows(Replay(r, fs))[k], Shows(Replay(r, fs \o gs))[k], V)
<1> DEFINE a == Shows(Replay(r, fs))[k]
           b == Shows(Replay(r, fs \o gs))[k]
           m == Len(fs)
           n == Len(gs)
           all == Replay(r, fs \o gs)
           X == Values \cup {NoPayload}
<1>1. fs \o gs \in Seq(DownFrames) /\ Len(fs \o gs) = m + n /\ m \in Nat /\ n \in Nat
  BY LenProperties, ConcatProperties
<1>2. /\ \A i \in 1 .. m + 1 : all[i] = Replay(r, fs)[i]
      /\ \A i \in 1 .. n + 1 : all[m + i] = Replay(End(r, fs), gs)[i]
  BY ReplayConcat, RepsClosed DEF End
<1>3. /\ a \in Seq(X) /\ Len(a) = m + 1
      /\ \A i \in 1 .. m + 1 : a[i] = ReplicaGet(Replay(r, fs)[i], k)
      /\ Last(a) = ReplicaGet(End(r, fs), k)
  BY ShowsType
<1>4. /\ b \in Seq(X) /\ Len(b) = m + n + 1
      /\ \A i \in 1 .. m + n + 1 : b[i] = ReplicaGet(all[i], k)
  BY <1>1, ShowsType
<1> HIDE DEF a, b, m, n, all, X
<1>5. \A i \in 1 .. Len(a) : b[i] = a[i]
  BY <1>1, <1>2, <1>3, <1>4
<1>6. ASSUME NEW i \in Len(a) + 1 .. Len(b) PROVE b[i] \in V \cup {Last(a)}
  <2>1. i - m - 1 \in 1 .. n /\ i - m \in 1 .. n + 1 /\ i \in 1 .. m + n + 1
        /\ m + (i - m) = i /\ (i - m - 1) + 1 = i - m
    BY <1>1, <1>3, <1>4
  <2>2. b[i] = ReplicaGet(Replay(End(r, fs), gs)[i - m], k)
    BY <1>2, <1>4, <2>1
  <2>3. ReplicaGet(Replay(End(r, fs), gs)[i - m], k) \in V \cup {ReplicaGet(End(r, fs), k)}
    BY <2>1 DEF n
  <2> QED BY <1>3, <2>2, <2>3
<1>7. Len(a) <= Len(b)
  BY <1>1, <1>3, <1>4
<1> QED BY <1>3, <1>4, <1>5, <1>6, <1>7, GrowsSeq DEF a, b, all

(* A frame that is handled takes the first of what a client shows.         *)
LEMMA ShowsTail ==
    ASSUME NEW r \in Reps, NEW fs \in Seq(DownFrames), fs # << >>, NEW k \in Keys
    PROVE  Shows(Replay(ReplicaApply(r, Head(fs)), Tail(fs)))[k]
              = Tail(Shows(Replay(r, fs))[k])
<1> DEFINE q == ReplicaApply(r, Head(fs))
           a == Shows(Replay(r, fs))[k]
           b == Shows(Replay(q, Tail(fs)))[k]
           m == Len(fs)
           X == Values \cup {NoPayload}
<1>1. /\ q \in Reps /\ \A i \in 1 .. m : Replay(q, Tail(fs))[i] = Replay(r, fs)[i + 1]
  BY ReplayFirst, RepsClosed
<1>2. Tail(fs) \in Seq(DownFrames) /\ Len(Tail(fs)) = m - 1 /\ m \in Nat \ {0}
  BY HeadTailProperties, EmptySeq, LenProperties
<1>3. /\ a \in Seq(X) /\ Len(a) = m + 1 /\ a # << >>
      /\ \A i \in 1 .. m + 1 : a[i] = ReplicaGet(Replay(r, fs)[i], k)
  BY ShowsType
<1> HIDE DEF q
<1>4. /\ b \in Seq(X) /\ Len(b) = m
      /\ \A i \in 1 .. m : b[i] = ReplicaGet(Replay(q, Tail(fs))[i], k)
  <2>1. /\ b \in Seq(X) /\ Len(b) = Len(Tail(fs)) + 1
        /\ \A i \in 1 .. Len(Tail(fs)) + 1 : b[i] = ReplicaGet(Replay(q, Tail(fs))[i], k)
    BY <1>1, <1>2, ShowsType
  <2> HIDE DEF b
  <2> QED BY <1>2, <2>1
<1> HIDE DEF a, b, m, X
<1>5. /\ Tail(a) \in Seq(X) /\ Len(Tail(a)) = m
      /\ \A i \in 1 .. m : Tail(a)[i] = a[i + 1]
  BY <1>2, <1>3
<1>6. \A i \in 1 .. m : b[i] = Tail(a)[i]
  <2> SUFFICES ASSUME NEW i \in 1 .. m PROVE b[i] = Tail(a)[i]
    OBVIOUS
  <2>1. i + 1 \in 1 .. m + 1
    BY <1>2
  <2> QED BY <1>1, <1>3, <1>4, <1>5, <2>1
<1> QED BY <1>4, <1>5, <1>6, SeqEqual DEF a, b, q

(* A client that tracks the store, and what it shows, as facts about the   *)
(* state s of its session, its connection lv, the gap g, its replica r and *)
(* the frames dn under way.                                                *)
TracksAt(s, lv, g, r, dn) ==
    /\ s = "Ready" /\ lv /\ g = {}
    /\ ~End(r, dn).refused /\ End(r, dn).pending = EmptyMap

ViewAt(s, lv, g, r, dn) ==
    IF TracksAt(s, lv, g, r, dn) THEN Shows(Replay(r, dn)) ELSE NotFollowing

TracksNow(c) == TracksAt(session[c], live[c], gap[c], replica[c], down[c])
TracksNext(c) == TracksAt(session'[c], live'[c], gap'[c], replica'[c], down'[c])

(* The mapped variables are these, now ...                                 *)
LEMMA SharedNow ==
    ASSUME NEW c \in Clients
    PROVE  /\ c \in Followers <=> TracksNow(c)
           /\ Ahead[c] = ViewAt(session[c], live[c], gap[c], replica[c], down[c])
<1>1. Tracks(c) <=> TracksNow(c)
  BY DEF Tracks, Following, Drained, TracksNow, TracksAt, End
<1>2. The({Shows(rs) : rs \in {Replay(replica[c], down[c])}}) = Shows(Replay(replica[c], down[c]))
  <2>1. {Shows(rs) : rs \in {Replay(replica[c], down[c])}} = {Shows(Replay(replica[c], down[c]))}
    OBVIOUS
  <2> QED BY <2>1, TheOne
<1>3. Ahead[c] = IF Tracks(c) THEN Shows(Replay(replica[c], down[c])) ELSE NotFollowing
  BY <1>2 DEF Ahead
<1> QED BY <1>1, <1>3 DEF Followers, ViewAt, TracksNow

(* ... and after a step.                                                   *)
LEMMA SharedThen ==
    ASSUME NEW c \in Clients
    PROVE  /\ c \in Followers' <=> TracksNext(c)
           /\ Ahead'[c] = ViewAt(session'[c], live'[c], gap'[c], replica'[c], down'[c])
<1>1. Tracks(c)' <=> TracksNext(c)
  BY DEF Tracks, Following, Drained, TracksNext, TracksAt, End
<1>2. The({Shows(rs) : rs \in {Replay(replica'[c], down'[c])}})
         = Shows(Replay(replica'[c], down'[c]))
  <2>1. {Shows(rs) : rs \in {Replay(replica'[c], down'[c])}}
           = {Shows(Replay(replica'[c], down'[c]))}
    OBVIOUS
  <2> QED BY <2>1, TheOne
<1>3. Ahead'[c] = IF Tracks(c)' THEN Shows(Replay(replica'[c], down'[c])) ELSE NotFollowing
  BY <1>2 DEF Ahead
<1> QED BY <1>1, <1>3 DEF Followers, ViewAt, TracksNext

(* What a client will show in the end is the store.                        *)
LEMMA ViewEnds ==
    ASSUME NEW r \in Reps, NEW dn \in Seq(DownFrames), NEW fs, Exact(fs),
           Ids(End(r, dn), fs), Vals(End(r, dn), fs), NEW k \in Keys
    PROVE  /\ Shows(Replay(r, dn))[k] # << >>
           /\ Last(Shows(Replay(r, dn))[k]) = Get(fs, k)
<1> DEFINE D == End(r, dn)
<1>1. Shows(Replay(r, dn))[k] # << >> /\ Last(Shows(Replay(r, dn))[k]) = ReplicaGet(D, k)
  BY ShowsType
<1> HIDE DEF D
<1>2. CASE k \in DOMAIN fs.entries
  <2>1. /\ k \in DOMAIN D.registry.pathToId /\ D.registry.pathToId[k] = fs.entries[k].keyId
        /\ fs.entries[k].keyId \in DOMAIN D.registry.byId
        /\ fs.entries[k].keyId \in DOMAIN D.store
        /\ D.store[fs.entries[k].keyId] = fs.entries[k].value
    BY <1>2 DEF Ids, Vals, Exact, D
  <2>2. ReplicaGet(D, k) = fs.entries[k].value
    BY <2>1 DEF ReplicaGet, Resolves, ResolvePath, HasPath, HasKeyId
  <2> QED BY <1>1, <1>2, <2>2 DEF Get, HasKey
<1>3. CASE k \notin DOMAIN fs.entries
  <2>1. k \notin DOMAIN D.registry.pathToId
    BY <1>3 DEF Ids, D
  <2>2. ReplicaGet(D, k) = NoPayload
    BY <2>1 DEF ReplicaGet, Resolves, HasPath
  <2> QED BY <1>1, <1>3, <2>2 DEF Get, HasKey
<1> QED BY <1>2, <1>3

(* Every step leaves the clients that follow with the server's values to   *)
(* come, and the others with nothing.                                      *)
LEMMA PromiseKept ==
    ASSUME SyncInv'
    PROVE  Shared!Promise
<1>1. ASSUME NEW c \in Followers', NEW k \in Keys
      PROVE  Ahead'[c][k] # << >> /\ Last(Ahead'[c][k]) = SharedStore'[k]
  <2>0. c \in Clients
    BY <1>1 DEF Followers
  <2>1. TracksNext(c) /\ Ahead'[c] = Shows(Replay(replica'[c], down'[c]))
    BY <1>1, <2>0, SharedThen DEF ViewAt, TracksNext
  <2>2. /\ down'[c] \in Seq(DownFrames) /\ replica'[c] \in Reps /\ Exact(flat')
    BY <2>0 DEF SyncInv, SyncTypeOK, PrincipalInv, KeyIdIndexExact, Exact, Reps
  <2>3. FollowAt(session'[c], live'[c], gap'[c], replica'[c], down'[c], up'[c],
                 keyFramesCached', cachedKeyFrames', flat')
    <3>1. ClientOK(c)'
      BY <2>0 DEF SyncInv, ClientOK
    <3> QED BY <2>0, <2>2, <3>1, ClientNext DEF ClientAt
  <2>4. Ids(End(replica'[c], down'[c]), flat') /\ Vals(End(replica'[c], down'[c]), flat')
    BY <2>1, <2>3 DEF FollowAt, TracksNext, TracksAt
  <2>5. SharedStore'[k] = Get(flat', k)
    BY DEF SharedStore
  <2> QED BY <2>1, <2>2, <2>4, <2>5, ViewEnds
<1>2. ASSUME NEW c \in Clients \ Followers'
      PROVE  Ahead'[c] = Shared!NotFollowing
  BY <1>2, SharedThen DEF ViewAt, TracksNext, NotFollowing, Shared!NotFollowing
<1> QED BY <1>1, <1>2 DEF Shared!Promise, Shared!UpToDate, Shared!Last, Last

(* A step that concerns one client: it begins to follow, ceases to, or     *)
(* sees the next of its values, or nothing changes.                        *)
LEMMA OneClient ==
    ASSUME SyncInv', NEW c \in Clients, flat' = flat,
           \A d \in Clients \ {c} :
               /\ session'[d] = session[d] /\ live'[d] = live[d] /\ gap'[d] = gap[d]
               /\ replica'[d] = replica[d] /\ down'[d] = down[d],
           TracksNow(c) /\ TracksNext(c) =>
               \A k \in Keys :
                   Shows(Replay(replica'[c], down'[c]))[k]
                       \in {Shows(Replay(replica[c], down[c]))[k],
                            Tail(Shows(Replay(replica[c], down[c]))[k])}
    PROVE  [Shared!SharedNext]_(Shared!sharedVars)
<1>1. ASSUME NEW d \in Clients \ {c}
      PROVE  Ahead'[d] = Ahead[d] /\ (d \in Followers' <=> d \in Followers)
  BY SharedNow, SharedThen DEF TracksNow, TracksNext
<1>2. SharedStore' = SharedStore
  BY DEF SharedStore
<1>3. Shared!OnlyClient(c)
  BY <1>1, <1>2, PromiseKept DEF Shared!OnlyClient
<1>4. CASE TracksNow(c) /\ TracksNext(c)
  <2>1. c \in Followers /\ c \in Followers'
    BY <1>4, SharedNow, SharedThen
  <2>2. \A k \in Keys : Ahead'[c][k] \in {Ahead[c][k], Tail(Ahead[c][k])}
    <3>1. Ahead[c] = Shows(Replay(replica[c], down[c]))
      BY <1>4, SharedNow DEF ViewAt, TracksNow
    <3>2. Ahead'[c] = Shows(Replay(replica'[c], down'[c]))
      BY <1>4, SharedThen DEF ViewAt, TracksNext
    <3> QED BY <1>4, <3>1, <3>2
  <2>3. Shared!See(c)
    BY <1>3, <2>1, <2>2 DEF Shared!See
  <2> QED BY <2>3 DEF Shared!SharedNext
<1>5. CASE ~TracksNow(c) /\ TracksNext(c)
  <2>1. Shared!Follow(c)
    BY <1>3, <1>5, SharedNow, SharedThen DEF Shared!Follow
  <2> QED BY <2>1 DEF Shared!SharedNext
<1>6. CASE TracksNow(c) /\ ~TracksNext(c)
  <2>1. Shared!Leave(c)
    BY <1>3, <1>6, SharedNow, SharedThen DEF Shared!Leave
  <2> QED BY <2>1 DEF Shared!SharedNext
<1>7. CASE ~TracksNow(c) /\ ~TracksNext(c)
  <2>1. Ahead'[c] = Ahead[c]
    BY <1>7, SharedNow, SharedThen DEF ViewAt, TracksNow, TracksNext
  <2>2. c \notin Followers /\ c \notin Followers'
    BY <1>7, SharedNow, SharedThen
  <2>3. Followers' = Followers
    <3>1. Followers \subseteq Clients /\ Followers' \subseteq Clients
      BY DEF Followers
    <3> QED BY <1>1, <2>2, <3>1
  <2>4. Ahead' = Ahead
    <3>1. \A d \in Clients : Ahead'[d] = Ahead[d]
      BY <1>1, <2>1
    <3>2. Ahead = [d \in Clients |-> Ahead[d]] /\ Ahead' = [d \in Clients |-> Ahead'[d]]
      BY DEF Ahead
    <3> QED BY <3>1, <3>2
  <2> QED BY <1>2, <2>3, <2>4 DEF Shared!sharedVars
<1> QED BY <1>4, <1>5, <1>6, <1>7

(* The frames gs, broadcast by the server, on a client that tracks the     *)
(* store before and after: the keys grow by what gs lets it see.           *)
LEMMA BroadcastGrows ==
    ASSUME SyncInv, NEW c \in Clients, c \in Followers, c \in Followers',
           NEW gs \in Seq(DownFrames), down'[c] = down[c] \o gs, replica' = replica,
           NEW j \in Keys, NEW V,
           \A i \in 1 .. Len(gs) :
               ReplicaGet(Replay(End(replica[c], down[c]), gs)[i + 1], j)
                   \in V \cup {ReplicaGet(End(replica[c], down[c]), j)}
    PROVE  Shared!Grows(Ahead[c][j], Ahead'[c][j], V)
<1>1. Ahead[c] = Shows(Replay(replica[c], down[c]))
  BY SharedNow DEF ViewAt, TracksNow
<1>2. Ahead'[c] = Shows(Replay(replica[c], down[c] \o gs))
  BY SharedThen DEF ViewAt, TracksNext
<1>3. replica[c] \in Reps /\ down[c] \in Seq(DownFrames)
  BY DEF SyncInv, SyncTypeOK, Reps
<1> QED BY <1>1, <1>2, <1>3, ShowsMore

(* The drained replica of a client that tracks the store.                  *)
LEMMA FollowerHas ==
    ASSUME SyncInv, replica \in [Clients -> Tidy], NEW c \in Clients, c \in Followers
    PROVE  LET D == End(replica[c], down[c]) IN
           /\ session[c] = "Ready" /\ live[c]
           /\ D \in Tidy /\ Ids(D, flat) /\ D.pending = EmptyMap
           /\ CacheIsEmpty \/ ~AsksForKeys(c)
<1>1. TracksAt(session[c], live[c], gap[c], replica[c], down[c])
  BY SharedNow DEF TracksNow
<1>2. replica[c] \in Tidy /\ down[c] \in Seq(DownFrames)
  BY DEF SyncInv, SyncTypeOK
<1>3. FollowingOK(c) /\ Drained(c) = End(replica[c], down[c])
  BY DEF SyncInv, Drained, End
<1>4. SameIds(Drained(c)) /\ (CacheIsEmpty \/ ~AsksForKeys(c))
  BY <1>1, <1>3 DEF FollowingOK, TracksAt
<1>5. Ids(End(replica[c], down[c]), flat)
  BY <1>3, <1>4 DEF SameIds, Ids
<1> QED BY <1>1, <1>2, <1>4, <1>5, TidyEnd DEF TracksAt

(* set() writes the value.                                                 *)
LEMMA AppSetWrites ==
    ASSUME SyncInv, SyncInv', replica \in [Clients -> Tidy],
           NEW k \in Keys, NEW v \in Values, AppSet(k, v)
    PROVE  Shared!Write(k, v)
<1> DEFINE gs == SetFrames(flat, "", k, v, nextKeyId)
           new == NeedsNewId(flat, k, v)
           V(j) == IF j = k THEN {NoPayload, v} ELSE {}
<1>0. /\ flat \in FlatStates(Keys, KeyIds) /\ Exact(flat) /\ down \in [Clients -> Seq(DownFrames)]
  BY DEF SyncInv, SyncTypeOK, PrincipalInv, PrincipalTypeOK, KeyIdIndexExact, Exact
<1>1. new => nextKeyId \in KeyIds /\ nextKeyId \notin DOMAIN flat.byKeyId
  <2>1. nextKeyId \in 1 .. KeyIdBound + 1 /\ (new => nextKeyId <= KeyIdBound)
    BY DEF AppSet, Set, SyncInv, PrincipalInv, PrincipalTypeOK
  <2>2. new => nextKeyId \in KeyIds
    BY <2>1, KeyIdBoundAssumption DEF KeyIds
  <2>3. ASSUME nextKeyId \in DOMAIN flat.byKeyId PROVE FALSE
    <3>1. flat.byKeyId[nextKeyId] \in DOMAIN flat.entries
          /\ flat.entries[flat.byKeyId[nextKeyId]].keyId = nextKeyId
      BY <1>0, <2>3 DEF Exact
    <3>2. nextKeyId < nextKeyId
      BY <3>1 DEF SyncInv, PrincipalInv, LiveIdsAllocated
    <3> QED BY <2>1, <3>2, KeyIdBoundAssumption
  <2> QED BY <2>2, <2>3
<1>2. gs \in Seq(DownFrames)
  BY <1>0, <1>1, SetFramesType
<1>3. replica' = replica /\ flat' = SetLeaf(flat, k, v, nextKeyId) /\ down' = Broadcast(gs)
  BY DEF AppSet, Set, clientVars
<1>4. SharedStore' = [SharedStore EXCEPT ![k] = v]
  <2> DEFINE gt == SetLeaf(flat, k, v, nextKeyId)
  <2>1. /\ \A j \in Keys : j # k => Get(gt, j) = Get(flat, j)
        /\ Get(gt, k) = v
    <3>1. CASE new
      <4>1. gt.entries = Put(flat.entries, k,
                [keyId |-> nextKeyId, type |-> DetectDataType[v], value |-> v])
        BY <3>1 DEF SetLeaf
      <4> HIDE DEF gt
      <4>2. /\ DOMAIN gt.entries = DOMAIN flat.entries \cup {k} /\ gt.entries[k].value = v
            /\ \A j \in DOMAIN flat.entries : j # k => gt.entries[j] = flat.entries[j]
        BY <4>1 DEF Put
      <4> QED BY <4>2 DEF Get, HasKey
    <3>2. CASE ~new
      <4>1. /\ k \in DOMAIN flat.entries /\ DOMAIN gt.entries = DOMAIN flat.entries
            /\ \A x \in DOMAIN flat.entries :
                  gt.entries[x].value = IF x = k THEN v ELSE flat.entries[x].value
        BY <1>0, <3>2, LeafValue
      <4> HIDE DEF gt
      <4> QED BY <4>1 DEF Get, HasKey
    <3> QED BY <3>1, <3>2
  <2> HIDE DEF gt
  <2>2. flat' = gt
    BY <1>3 DEF gt
  <2> QED BY <2>1, <2>2 DEF SharedStore
<1> HIDE DEF gs
<1>5. ASSUME NEW c \in Followers \cap Followers', NEW j \in Keys
      PROVE  Shared!Grows(Ahead[c][j], Ahead'[c][j], V(j))
  <2> DEFINE D == End(replica[c], down[c])
  <2>0. c \in Clients
    BY DEF Followers
  <2>1. session[c] = "Ready" /\ live[c] /\ D \in Tidy /\ Ids(D, flat) /\ D.pending = EmptyMap
    BY <2>0, FollowerHas
  <2>2. down'[c] = down[c] \o gs
    BY <1>0, <1>2, <1>3, <2>0, <2>1, BroadcastEffect
  <2>3. \A i \in 1 .. Len(gs) : ReplicaGet(Replay(D, gs)[i + 1], j) \in V(j) \cup {ReplicaGet(D, j)}
    <3> HIDE DEF D
    <3>1. OnlySees(D, gs, k, {NoPayload, v})
      BY <1>0, <1>1, <2>1, SetSees DEF gs
    <3> QED BY <3>1 DEF OnlySees
  <2> HIDE DEF V
  <2> QED BY <1>2, <1>3, <2>0, <2>2, <2>3, BroadcastGrows
<1> QED BY <1>4, <1>5, PromiseKept DEF Shared!Write

(* clear(key) removes the key.                                             *)
LEMMA AppClearKeyWrites ==
    ASSUME SyncInv, SyncInv', replica \in [Clients -> Tidy], NEW k \in Keys, AppClearKey(k)
    PROVE  Shared!Write(k, NoPayload)
<1> DEFINE gs == ClearKeyFrames(flat, k)
           V(j) == IF j = k THEN {NoPayload, NoPayload} ELSE {}
<1>0. /\ flat \in FlatStates(Keys, KeyIds) /\ Exact(flat) /\ down \in [Clients -> Seq(DownFrames)]
  BY DEF SyncInv, SyncTypeOK, PrincipalInv, PrincipalTypeOK, KeyIdIndexExact, Exact
<1>1. k \in DOMAIN flat.entries
  BY DEF AppClearKey, ClearOne, HasKey
<1>2. gs \in Seq(DownFrames)
  <2>1. ServerKeyDelete(flat.entries[k].keyId) \in DownFrames
    BY <1>0, <1>1, EntryType, DownMembers
  <2> QED BY <2>1 DEF ClearKeyFrames
<1>3. replica' = replica /\ flat' = ClearKey(flat, k) /\ down' = Broadcast(gs)
  BY DEF AppClearKey, ClearOne, clientVars
<1>4. SharedStore' = [SharedStore EXCEPT ![k] = NoPayload]
  <2>1. flat'.entries = Erase(flat.entries, k)
    BY <1>3 DEF ClearKey
  <2>2. /\ DOMAIN flat'.entries = DOMAIN flat.entries \ {k}
        /\ \A j \in DOMAIN flat'.entries : flat'.entries[j] = flat.entries[j]
    BY <2>1 DEF Erase
  <2> QED BY <2>2 DEF SharedStore, Get, HasKey
<1> HIDE DEF gs
<1>5. ASSUME NEW c \in Followers \cap Followers', NEW j \in Keys
      PROVE  Shared!Grows(Ahead[c][j], Ahead'[c][j], V(j))
  <2> DEFINE D == End(replica[c], down[c])
  <2>0. c \in Clients
    BY DEF Followers
  <2>1. session[c] = "Ready" /\ live[c] /\ D \in Tidy /\ Ids(D, flat)
    BY <2>0, FollowerHas
  <2>2. down'[c] = down[c] \o gs
    BY <1>0, <1>2, <1>3, <2>0, <2>1, BroadcastEffect
  <2>3. \A i \in 1 .. Len(gs) : ReplicaGet(Replay(D, gs)[i + 1], j) \in V(j) \cup {ReplicaGet(D, j)}
    <3> HIDE DEF D
    <3>1. OnlySees(D, gs, k, {NoPayload})
      BY <1>0, <1>1, <2>1, ClearKeySees DEF gs
    <3> QED BY <3>1 DEF OnlySees
  <2> HIDE DEF V
  <2> QED BY <1>2, <1>3, <2>0, <2>2, <2>3, BroadcastGrows
<1> QED BY <1>4, <1>5, PromiseKept DEF Shared!Write

(* clear() removes all keys.                                               *)
LEMMA ClearAllWrites ==
    ASSUME SyncInv, SyncInv', replica \in [Clients -> Tidy], AppClear, ClearAll,
           down' = Resync(cachedKeyFrames')
    PROVE  Shared!WriteNone
<1> DEFINE gs == << ServerReset, ServerSync >>
<1>0. down \in [Clients -> Seq(DownFrames)]
  BY DEF SyncInv, SyncTypeOK
<1>1. replica' = replica /\ flat' = EmptyFlat /\ cachedKeyFrames' = << ServerSync >>
  BY DEF AppClear, ClearAll, clientVars
<1>2. SharedStore' = [k \in Keys |-> NoPayload]
  BY <1>1 DEF SharedStore, Get, HasKey, EmptyFlat, EmptyMap
<1>3. ASSUME NEW c \in Followers \cap Followers', NEW k \in Keys
      PROVE  Shared!Grows(Ahead[c][k], Ahead'[c][k], {NoPayload})
  <2> DEFINE D == End(replica[c], down[c])
  <2>0. c \in Clients
    BY DEF Followers
  <2>1. session[c] = "Ready" /\ live[c] /\ D \in Reps
    <3>1. D \in Tidy
      BY <2>0, FollowerHas
    <3> QED BY <2>0, <3>1, FollowerHas DEF Tidy
  <2>2. gs \in Seq(DownFrames)
        /\ \A i \in 1 .. Len(gs) : ReplicaGet(Replay(D, gs)[i + 1], k) = NoPayload
    <3> HIDE DEF D
    <3> QED BY <2>1, ClearSees
  <2>3. down'[c] = down[c] \o gs
    <3>1. down'[c] = (down[c] \o << ServerReset >>) \o << ServerSync >>
      <4>1. << ServerSync >> \in Seq(DownFrames)
        BY DownMembers
      <4> QED BY <1>0, <1>1, <2>0, <2>1, <4>1, ResyncEffect
    <3>2. (down[c] \o << ServerReset >>) \o << ServerSync >> = down[c] \o gs
      <4>1. down[c] \in Seq(DownFrames) /\ ServerReset \in DownFrames /\ ServerSync \in DownFrames
        BY <1>0, <2>0, DownMembers
      <4> DEFINE a == << ServerReset >>
                 b == << ServerSync >>
      <4>2. /\ a \in Seq(DownFrames) /\ b \in Seq(DownFrames) /\ gs \in Seq(DownFrames)
            /\ Len(a) = 1 /\ Len(b) = 1 /\ Len(gs) = 2
            /\ gs[1] = a[1] /\ gs[2] = b[1]
        BY <4>1
      <4> HIDE DEF a, b, gs
      <4>3. a \o b = gs
        <5>1. /\ a \o b \in Seq(DownFrames) /\ Len(a \o b) = Len(a) + Len(b)
              /\ \A i \in 1 .. Len(a) + Len(b) :
                    (a \o b)[i] = IF i <= Len(a) THEN a[i] ELSE b[i - Len(a)]
          BY <4>2, ConcatProperties
        <5>2. Len(a \o b) = 2 /\ (a \o b)[1] = gs[1] /\ (a \o b)[2] = gs[2]
          BY <4>2, <5>1
        <5> QED BY <4>2, <5>1, <5>2, SeqEqual
      <4>4. \A d \in Seq(DownFrames) : (d \o a) \o b = d \o (a \o b)
        BY <4>2
      <4> QED BY <4>1, <4>3, <4>4 DEF a, b
    <3> QED BY <3>1, <3>2
  <2> HIDE DEF gs
  <2> QED BY <1>1, <2>0, <2>2, <2>3, BroadcastGrows
<1> QED BY <1>2, <1>3, PromiseKept DEF Shared!WriteNone

(* A step that changes nothing of sessions, channels and replicas.         *)
LEMMA SharedStutters ==
    ASSUME UNCHANGED <<flat, session, live, gap, replica, down>>
    PROVE  [Shared!SharedNext]_(Shared!sharedVars)
<1>1. \A c \in Clients : Tracks(c)' <=> Tracks(c)
  BY DEF Tracks, Following, Drained
<1>2. SharedStore' = SharedStore
  BY DEF SharedStore
<1>3. Followers' = Followers
  BY <1>1 DEF Followers
<1>4. Ahead' = Ahead
  BY <1>1 DEF Ahead
<1> QED BY <1>2, <1>3, <1>4 DEF Shared!sharedVars

(* The application's calls.                                                *)
LEMMA AppShares ==
    ASSUME SyncInv, SyncInv', replica \in [Clients -> Tidy], AppStep
    PROVE  [Shared!SharedNext]_(Shared!sharedVars)
<1>1. ASSUME NEW k \in Keys, NEW v \in Values, AppSet(k, v)
      PROVE  Shared!SharedNext
  BY <1>1, AppSetWrites DEF Shared!SharedNext
<1>2. ASSUME NEW k \in Keys, AppClearKey(k)
      PROVE  Shared!SharedNext
  BY <1>2, AppClearKeyWrites DEF Shared!SharedNext
<1>3. ASSUME AppClear
      PROVE  [Shared!SharedNext]_(Shared!sharedVars)
  <2>1. CASE ClearAll /\ down' = Resync(cachedKeyFrames')
    BY <1>3, <2>1, ClearAllWrites DEF Shared!SharedNext
  <2>2. CASE ClearWhenEmpty /\ UNCHANGED <<down, gap>>
    <3>1. UNCHANGED <<flat, session, live, gap, replica, down>>
      BY <1>3, <2>2 DEF AppClear, ClearWhenEmpty, clientVars
    <3> QED BY <3>1, SharedStutters
  <2> QED BY <1>3, <2>1, <2>2 DEF AppClear
<1> QED BY <1>1, <1>2, <1>3 DEF AppStep

(* The connection of a client: to lose it is to cease to follow.           *)
LEMMA ConnectionShares ==
    ASSUME SyncInv, SyncInv', NEW c \in Clients,
           Connect(c) \/ HandleOpen(c) \/ HandleClose(c) \/ SessionDisconnect(c)
           \/ RequestResync(c)
    PROVE  [Shared!SharedNext]_(Shared!sharedVars)
<1>1. /\ session \in [Clients -> SessionStates] /\ live \in [Clients -> BOOLEAN]
      /\ down \in [Clients -> Seq(DownFrames)]
  BY DEF SyncInv, SyncTypeOK
<1>2. CASE Connect(c) \/ RequestResync(c)
  <2>1. UNCHANGED <<flat, session, live, gap, replica, down>>
    BY <1>2 DEF Connect, RequestResync, txVars
  <2> QED BY <2>1, SharedStutters
<1>3. CASE HandleOpen(c)
  <2>1. flat' = flat /\ session' = session /\ gap' = gap /\ replica' = replica /\ down' = down
        /\ live' = [live EXCEPT ![c] = TRUE] /\ session[c] = "None"
    BY <1>3 DEF HandleOpen, txVars
  <2>2. ~TracksNow(c) /\ \A d \in Clients \ {c} : live'[d] = live[d]
    BY <1>1, <2>1 DEF TracksNow, TracksAt
  <2> QED BY <2>1, <2>2, OneClient
<1>4. CASE HandleClose(c)
  <2>1. flat' = flat /\ session' = session /\ gap' = gap /\ replica' = replica
        /\ live' = [live EXCEPT ![c] = FALSE] /\ down' = [down EXCEPT ![c] = << >>]
    BY <1>4 DEF HandleClose, txVars
  <2>2. ~TracksNext(c) /\ \A d \in Clients \ {c} : live'[d] = live[d] /\ down'[d] = down[d]
    BY <1>1, <2>1 DEF TracksNext, TracksAt
  <2> QED BY <2>1, <2>2, OneClient
<1>5. CASE SessionDisconnect(c)
  <2>1. flat' = flat /\ live' = live /\ gap' = gap /\ replica' = replica /\ down' = down
        /\ session' = [session EXCEPT ![c] = "None"] /\ ~live[c]
    BY <1>5 DEF SessionDisconnect, txVars, clientVars
  <2>2. ~TracksNow(c) /\ \A d \in Clients \ {c} : session'[d] = session[d]
    BY <1>1, <2>1 DEF TracksNow, TracksAt
  <2> QED BY <2>1, <2>2, OneClient
<1> QED BY <1>2, <1>3, <1>4, <1>5

(* A frame that a client handles lets it see the next of its values.       *)
LEMMA ClientShares ==
    ASSUME SyncInv, SyncInv', NEW c \in Clients, ClientStep(c)
    PROVE  [Shared!SharedNext]_(Shared!sharedVars)
<1>1. /\ down \in [Clients -> Seq(DownFrames)] /\ replica \in [Clients -> Reps]
  BY DEF SyncInv, SyncTypeOK, Reps
<1>2. /\ down[c] # << >> /\ down' = [down EXCEPT ![c] = Tail(@)]
      /\ replica' = [replica EXCEPT ![c] = ReplicaApply(@, Head(down[c]))]
      /\ flat' = flat /\ session' = session /\ live' = live /\ gap' = gap
  BY ClientStepShape DEF SyncInv, txVars
<1>3. \A d \in Clients \ {c} : replica'[d] = replica[d] /\ down'[d] = down[d]
  BY <1>1, <1>2
<1>4. replica'[c] = ReplicaApply(replica[c], Head(down[c])) /\ down'[c] = Tail(down[c])
  BY <1>1, <1>2
<1>5. \A k \in Keys : Shows(Replay(replica'[c], down'[c]))[k]
                         = Tail(Shows(Replay(replica[c], down[c]))[k])
  BY <1>1, <1>2, <1>4, ShowsTail
<1> QED BY <1>2, <1>3, <1>5, OneClient

(* The server's handlers: a client that has been sent its values begins to *)
(* follow, one that asks for a resync afterwards ceases to.                *)
LEMMA SessionShares ==
    ASSUME SyncInv, SyncInv', replica \in [Clients -> Tidy], NEW c \in Clients, SessionStep(c)
    PROVE  [Shared!SharedNext]_(Shared!sharedVars)
<1>0. /\ session \in [Clients -> SessionStates] /\ gap \in [Clients -> SUBSET Gaps]
      /\ down \in [Clients -> Seq(DownFrames)] /\ up \in [Clients -> Seq(UpFrames)]
  BY DEF SyncInv, SyncTypeOK
<1>1. live' = live /\ replica' = replica /\ flat' = flat
  BY DEF SessionStep, HandleIdentify, HandleClientReady, HandleKeyRequest, HandleResyncReq,
         Accepts, BuildKeyFrames, txVars, clientVars
<1>2. \A gs : \A d \in Clients : d # c => SendDown(down, c, gs)[d] = down[d]
  BY <1>0 DEF SendDown
<1>3. CASE HandleIdentify(c)
  <2>1. /\ session' = [session EXCEPT ![c] = "Synchronizing"]
        /\ down' = SendDown(down, c, cachedKeyFrames')
    BY <1>3 DEF HandleIdentify
  <2>2. \A d \in Clients \ {c} : gap'[d] = gap[d]
    BY <1>0, <1>3 DEF HandleIdentify
  <2>3. ~TracksNext(c)
    BY <1>0, <2>1 DEF TracksNext, TracksAt
  <2>4. \A d \in Clients \ {c} : session'[d] = session[d] /\ down'[d] = down[d]
    BY <1>0, <1>2, <2>1
  <2> QED BY <1>1, <2>2, <2>3, <2>4, OneClient
<1>4. CASE HandleClientReady(c)
  <2>1. gap' = gap
    BY <1>4 DEF HandleClientReady
  <2>2. CASE session[c] = "Ready" /\ UNCHANGED <<session, down>>
    BY <1>1, <2>1, <2>2, SharedStutters
  <2>3. CASE session[c] = "Synchronizing"
    <3>1. ~TracksNow(c)
      BY <2>3 DEF TracksNow, TracksAt
    <3>2. /\ session' = [session EXCEPT ![c] = "Ready"]
          /\ \E gs : down' = SendDown(down, c, gs)
      BY <1>4, <2>3 DEF HandleClientReady
    <3>3. \A d \in Clients \ {c} : session'[d] = session[d] /\ down'[d] = down[d]
      BY <1>0, <1>2, <3>2
    <3> QED BY <1>1, <2>1, <3>1, <3>3, OneClient
  <2> QED BY <1>4, <2>2, <2>3 DEF HandleClientReady
<1>5. CASE HandleKeyRequest(c)
  <2>1. session' = session /\ gap' = gap
    BY <1>5 DEF HandleKeyRequest
  <2>2. \A d \in Clients \ {c} : down'[d] = down[d]
    BY <1>2, <1>5 DEF HandleKeyRequest
  <2>3. ASSUME TracksNow(c) PROVE down' = down
    <3>1. CacheIsEmpty
      <4>1. AsksForKeys(c)
        <5>1. up[c] # << >> /\ up[c] \in Seq(UpFrames) /\ Head(up[c]).frameType = "ClientKeyRequest"
          BY <1>0, <1>5 DEF HandleKeyRequest, Accepts
        <5>2. 1 \in DOMAIN up[c] /\ up[c][1] = Head(up[c])
          BY <5>1, TakenOff
        <5> QED BY <5>1, <5>2 DEF AsksForKeys
      <4>2. c \in Followers
        BY <2>3, SharedNow
      <4> QED BY <4>1, <4>2, FollowerHas
    <3>2. cachedKeyFrames' = << ServerSync >>
      BY <1>5, <3>1 DEF HandleKeyRequest, BuildKeyFrames, CacheIsEmpty
    <3>3. {f \in ToSet(cachedKeyFrames') :
              f.frameType = "ServerKeyRegistration" /\ f.keyId = Head(up[c]).keyId} = {}
      <4>1. ToSet(<< ServerSync >>) = {ServerSync}
        BY DEF ToSet
      <4>2. ServerSync.frameType = "ServerSync"
        BY DEF ServerSync, Signal, Frame
      <4> QED BY <3>2, <4>1, <4>2
    <3> QED BY <1>5, <3>3 DEF HandleKeyRequest
  <2>4. TracksNow(c) =>
           \A k \in Keys : Shows(Replay(replica'[c], down'[c]))[k]
                              = Shows(Replay(replica[c], down[c]))[k]
    BY <1>1, <2>3
  <2> QED BY <1>1, <2>1, <2>2, <2>4, OneClient
<1>6. CASE HandleResyncReq(c)
  <2>1. /\ session' = session
        /\ \E gs : down' = SendDown(down, c, gs)
        /\ gap' = [gap EXCEPT ![c] = IF session[c] = "Ready" THEN @ \cup {"lateResync"} ELSE @]
    BY <1>6 DEF HandleResyncReq
  <2>2. \A d \in Clients \ {c} : down'[d] = down[d] /\ gap'[d] = gap[d]
    BY <1>0, <1>2, <2>1
  <2>3. TracksNow(c) => ~TracksNext(c)
    BY <1>0, <2>1 DEF TracksNow, TracksNext, TracksAt
  <2> QED BY <1>1, <2>1, <2>2, <2>3, OneClient
<1> QED BY <1>3, <1>4, <1>5, <1>6 DEF SessionStep

(* In the beginning nobody follows.                                        *)
LEMMA SharedInitially == ASSUME SyncInit PROVE Shared!SharedInit
<1>1. SharedStore = [k \in Keys |-> NoPayload]
  BY DEF SyncInit, PrincipalInit, SharedStore, Get, HasKey, EmptyFlat, EmptyMap
<1>2. \A c \in Clients : ~Tracks(c)
  BY DEF SyncInit, Tracks, Following
<1>3. Followers = {}
  BY <1>2 DEF Followers
<1>4. Ahead = [c \in Clients |-> Shared!NotFollowing]
  BY <1>2 DEF Ahead, NotFollowing, Shared!NotFollowing
<1> QED BY <1>1, <1>3, <1>4 DEF Shared!SharedInit

(* A client that follows sees the values of every key in the order in      *)
(* which the application set them, none that is not the server's or that   *)
(* belongs to another key, and none twice, for any number of clients and   *)
(* connections and any interleaving of calls, broadcasts, the frames of    *)
(* the initial sync, resyncs and reconnections.                            *)
THEOREM SyncImplementsSharedState == SyncSpec => ImplementsSharedState
<1> DEFINE Held == replica \in [Clients -> Tidy]
<1>1. SyncInit => Held /\ Shared!SharedInit
  BY TidyClosed, SharedInitially DEF SyncInit
<1>2. SyncInv /\ Held /\ [SyncNext]_vars => Held'
  BY TidyStep
<1>3. SyncInv /\ SyncInv' /\ Held /\ [SyncNext]_vars => [Shared!SharedNext]_(Shared!sharedVars)
  <2> SUFFICES ASSUME SyncInv, SyncInv', Held, [SyncNext]_vars
               PROVE  [Shared!SharedNext]_(Shared!sharedVars)
    OBVIOUS
  <2>1. CASE UNCHANGED vars
    BY <2>1, SharedStutters DEF vars, txVars, clientVars
  <2>2. CASE AppStep
    BY <2>2, AppShares
  <2>3. ASSUME NEW c \in Clients,
               Connect(c) \/ HandleOpen(c) \/ HandleClose(c) \/ SessionDisconnect(c)
               \/ RequestResync(c)
        PROVE  [Shared!SharedNext]_(Shared!sharedVars)
    BY <2>3, ConnectionShares
  <2>4. ASSUME NEW c \in Clients, ClientStep(c) \/ SessionStep(c)
        PROVE  [Shared!SharedNext]_(Shared!sharedVars)
    BY <2>4, ClientShares, SessionShares
  <2> QED BY <2>1, <2>2, <2>3, <2>4 DEF SyncNext
<1> HIDE DEF Held
<1> QED BY <1>1, <1>2, <1>3, SyncInvariant, PTL
        DEF SyncSpec, ImplementsSharedState, Shared!SharedSpec
=============================================================================
