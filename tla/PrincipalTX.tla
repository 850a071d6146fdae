---------------------------- MODULE PrincipalTX -----------------------------
(***************************************************************************)
(* PrincipalTX (src/api/principal_tx.cpp): the state all sessions of one   *)
(* principal share.  It owns a FlatState, allocates its key ids and caches *)
(* the key frames that introduce the state to a new session.               *)
(*                                                                         *)
(* The server binds both callbacks of every principal as it is created     *)
(* (bindPrincipalTX), so triggerResync always calls _buildKeyFrames again. *)
(***************************************************************************)
EXTENDS FlatState

CONSTANT KeyIdBound    \* bound: no id above it is allocated (uint32_t in C++)

ASSUME KeyIdBoundAssumption == KeyIdBound \in Nat \ {0}

VARIABLES
    flat,              \* flatState_
    nextKeyId,         \* nextKeyId_
    keyFramesCached,   \* keyFramesCached_
    cachedKeyFrames    \* cachedKeyFrames_

txVars == <<flat, nextKeyId, keyFramesCached, cachedKeyFrames>>

KeyIds == 1 .. KeyIdBound

KeyFrameSet ==
    [frameType : {"ServerKeyRegistration"}, keyId : KeyIds,
     dataType : DataTypes, payload : Keys] \cup {ServerSync}

(* Type invariant of PrincipalTX's members.                                *)
PrincipalTypeOK ==
    /\ flat \in FlatStates(Keys, KeyIds)
    /\ nextKeyId \in 1 .. KeyIdBound + 1
    /\ keyFramesCached \in BOOLEAN
    /\ cachedKeyFrames \in Seq(KeyFrameSet)

-----------------------------------------------------------------------------
PrincipalInit ==
    /\ flat = EmptyFlat
    /\ nextKeyId = 1
    /\ keyFramesCached = FALSE
    /\ cachedKeyFrames = << >>

(* Mutant: the id handed out is the incremented counter, ++nextKeyId_.     *)
MutSetPreIncrement(k, v) ==
    /\ NeedsNewId(flat, k, v) => nextKeyId <= KeyIdBound
    /\ flat' = SetLeaf(flat, k, v, nextKeyId + 1)
    /\ nextKeyId' = IF NeedsNewId(flat, k, v) THEN nextKeyId + 1 ELSE nextKeyId
    /\ UNCHANGED <<keyFramesCached, cachedKeyFrames>>

(* set(key, value)                                                         *)
Set(k, v) ==
    /\ NeedsNewId(flat, k, v) => nextKeyId <= KeyIdBound
    /\ flat' = SetLeaf(flat, k, v, nextKeyId)
    /\ nextKeyId' = IF NeedsNewId(flat, k, v) THEN nextKeyId + 1 ELSE nextKeyId
    /\ UNCHANGED <<keyFramesCached, cachedKeyFrames>>

(* Mutant: clear(key) also restarts the ids, as clear() does.              *)
MutClearKeyRestartsIds(k) ==
    /\ HasKey(flat, k)
    /\ flat' = ClearKey(flat, k)
    /\ nextKeyId' = 1
    /\ UNCHANGED <<keyFramesCached, cachedKeyFrames>>

(* clear(key); a key that is absent is ignored.                            *)
ClearOne(k) ==
    /\ HasKey(flat, k)
    /\ flat' = ClearKey(flat, k)
    /\ UNCHANGED <<nextKeyId, keyFramesCached, cachedKeyFrames>>

(* clear() on a non-empty store: triggerResync drops the cache and the     *)
(* server's onResync callback builds it again, from the empty store; only  *)
(* then are the ids restarted.                                             *)
ClearAll ==
    /\ DOMAIN flat.entries # {}
    /\ flat' = EmptyFlat
    /\ cachedKeyFrames' = << ServerSync >>
    /\ keyFramesCached' = TRUE
    /\ nextKeyId' = 1

(* clear() on an empty store returns before the resync, but the ids are    *)
(* restarted all the same, and the cache is kept.                          *)
ClearWhenEmpty ==
    /\ DOMAIN flat.entries = {}
    /\ nextKeyId' = 1
    /\ UNCHANGED <<flat, keyFramesCached, cachedKeyFrames>>

(* _buildKeyFrames(): after the step, cachedKeyFrames is what it returned. *)
BuildKeyFrames ==
    /\ UNCHANGED <<flat, nextKeyId>>
    /\ keyFramesCached' = TRUE
    /\ \/ /\ keyFramesCached
          /\ UNCHANGED cachedKeyFrames
       \/ /\ ~keyFramesCached
          /\ \E order \in IterationOrders(flat) :
                cachedKeyFrames' = Append(KeyFrames(flat, "", order), ServerSync)

PrincipalNext ==
    \/ \E k \in Keys, v \in Values : Set(k, v)
    \/ \E k \in Keys : ClearOne(k)
    \/ ClearAll
    \/ ClearWhenEmpty
    \/ BuildKeyFrames

PrincipalSpec == PrincipalInit /\ [][PrincipalNext]_txVars

-----------------------------------------------------------------------------
(* byKeyId_ is exactly the inverse of entries_: the ids of two live keys   *)
(* differ, every live key is found by its id, and no id of a removed or    *)
(* re-typed key is left behind for getByKeyId and handleKeyRequest.        *)
KeyIdIndexExact ==
    /\ \A k \in DOMAIN flat.entries :
          /\ flat.entries[k].keyId \in DOMAIN flat.byKeyId
          /\ flat.byKeyId[flat.entries[k].keyId] = k
    /\ \A id \in DOMAIN flat.byKeyId :
          /\ flat.byKeyId[id] \in DOMAIN flat.entries
          /\ flat.entries[flat.byKeyId[id]].keyId = id

(* No live key has an id that allocateKeyId is still to hand out, although *)
(* clear() restarts the counter.                                           *)
LiveIdsAllocated == \A k \in DOMAIN flat.entries : flat.entries[k].keyId < nextKeyId

(* Every key's recorded type is the one its value has: a type change never *)
(* goes through the value-only path of setLeaf.                            *)
TypesMatchValues ==
    \A k \in DOMAIN flat.entries :
        flat.entries[k].type = DetectDataType[flat.entries[k].value]

(* The inductive invariant of the proofs.                                  *)
PrincipalInv ==
    PrincipalTypeOK /\ KeyIdIndexExact /\ LiveIdsAllocated /\ TypesMatchValues
=============================================================================
