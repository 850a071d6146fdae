---------------------------- MODULE ClientArray -----------------------------
(***************************************************************************)
(* An array of a client's replica: the key "a.length" and the keys "a.0",  *)
(* "a.1", ... of its elements, and the frames ArrayShiftLeft and           *)
(* ArrayShiftRight that move its elements within store_                    *)
(* (src/api/client.cpp, handleFrame).  The frames come through the codec.  *)
(* No code of this repository sends a shift: the frames sent are any that  *)
(* the handler takes.                                                      *)
(***************************************************************************)
EXTENDS FrameCodec, Protocol

CONSTANTS
    Slots,          \* the elements 0 .. Slots - 1 have keys in registry_
    ArrayFrames     \* bound: the frames sent for the array

ASSUME SlotsAssumption == Slots \in Nat

VARIABLES
    store,      \* store_, for the keys of the array
    announced   \* the length last given to onReceive or to a topic handle

arrayVars == <<codecVars, store, announced>>

LengthId == 1
ElementId(i) == i + 2
ArrayIds == {LengthId} \cup {ElementId(i) : i \in 0 .. Slots - 1}

(* An int32_t, or 0 for any other payload.                                 *)
IntOf(p) == IF p.kind = "int32" THEN p.data ELSE 0
CurrentLength == IF LengthId \in DOMAIN store THEN IntOf(store[LengthId]) ELSE 0
AtMost(a, b) == IF a < b THEN a ELSE b
AtLeast(a, b) == IF a < b THEN b ELSE a
ShiftCount(f) == AtLeast(0, AtMost(IntOf(f.payload), CurrentLength))

(* One element is copied if both have keys and it has a value.             *)
Move(st, i, j) ==
    IF i < Slots /\ j < Slots /\ ElementId(i) \in DOMAIN st
    THEN Put(st, ElementId(j), st[ElementId(i)]) ELSE st

Ascending(n)  == [i \in 1 .. n |-> i - 1]
Descending(n) == [i \in 1 .. n |-> n - i]

ShiftLeft(k) ==
    FoldLeft(LAMBDA st, i : Move(st, i + k, i), store, Ascending(CurrentLength - k))

(* Mutant: the elements are moved from the first on, over those to come.   *)
MutShiftRight(k) ==
    FoldLeft(LAMBDA st, i : Move(st, i, i + k), store, Ascending(CurrentLength))

ShiftRight(k) ==
    FoldLeft(LAMBDA st, i : Move(st, i, i + k), store, Descending(CurrentLength))

-----------------------------------------------------------------------------
ArrayInit ==
    /\ CodecInit /\ receiver = "client"
    /\ store = EmptyMap /\ announced = 0

(* A frame for the array is handled, and another may be sent.              *)
Arrives(types, f) ==
    /\ wire = << >> /\ Len(got) = 1
    /\ f = ParseFrame(got[1]) /\ f.frameType \in types /\ f.keyId \in ArrayIds
    /\ sent' = << >> /\ got' = << >> /\ frame' \in ArrayFrames
    /\ UNCHANGED <<receiver, state, buffer, wire, connections>>

HandleValue(f) ==
    /\ Arrives({"ServerValue"}, f)
    /\ store' = Put(store, f.keyId, f.payload)
    /\ announced' = IF f.keyId = LengthId THEN IntOf(f.payload) ELSE announced

HandleShiftLeft(f) ==
    /\ Arrives({"ArrayShiftLeft"}, f)
    /\ LET k == ShiftCount(f) IN
       /\ store' = Put(ShiftLeft(k), LengthId, Payload("int32", CurrentLength - k))
       /\ announced' = CurrentLength - k

(* The length stays: the sender follows with the new elements and length.  *)
HandleShiftRight(f) ==
    /\ Arrives({"ArrayShiftRight"}, f)
    /\ store' = ShiftRight(ShiftCount(f))
    /\ announced' = CurrentLength

ArrayNext ==
    \/ EncodeFrame /\ UNCHANGED <<store, announced>>
    \/ ParserFeed /\ UNCHANGED <<store, announced>>
    \/ \E f \in {ParseFrame(got[i]) : i \in DOMAIN got} :
        HandleValue(f) \/ HandleShiftLeft(f) \/ HandleShiftRight(f)

ArraySpec == ArrayInit /\ [][ArrayNext]_arrayVars

-----------------------------------------------------------------------------
(* A shift moves the elements of the array as if all at once, although it  *)
(* copies them in place: the element at j is the one that was k to the     *)
(* right, or to the left, of it if that one was in the array and had a     *)
(* value, and else is as before.  The length follows a left shift only.    *)
ShiftsAtOnce ==
    [][ \A i \in DOMAIN got :
        LET f == ParseFrame(got[i])
            k == ShiftCount(f)
            Source(j) == IF f.frameType = "ArrayShiftLeft" THEN j + k ELSE j - k
            moves(j) == /\ Source(j) \in 0 .. AtMost(CurrentLength, Slots) - 1
                        /\ ElementId(Source(j)) \in DOMAIN store
            From(j) == ElementId(IF moves(j) THEN Source(j) ELSE j)
            Same(id, was) == IF was \in DOMAIN store
                             THEN id \in DOMAIN store' /\ store'[id] = store[was]
                             ELSE id \notin DOMAIN store'
        IN  got' = << >> /\ f.frameType \in {"ArrayShiftLeft", "ArrayShiftRight"} =>
                /\ \A j \in 0 .. Slots - 1 : Same(ElementId(j), From(j))
                /\ CurrentLength' = IF f.frameType = "ArrayShiftLeft"
                                    THEN CurrentLength - k ELSE CurrentLength
                /\ announced' = CurrentLength' ]_arrayVars
=============================================================================
