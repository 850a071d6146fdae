----------------------------- MODULE FrameCodec -----------------------------
(***************************************************************************)
(* A frame from encode (src/protocol/codec.cpp) at one end to parseFrame   *)
(* (src/protocol/stream_parser.cpp) at the other: the serializer, the      *)
(* layout of the body and the framing together.  A behaviour sends one     *)
(* frame and feeds its bytes to the parser.  A key id has WordBytes bytes. *)
(***************************************************************************)
EXTENDS BatchDecode, Serializer

CONSTANT Frames    \* bound: the frames that are sent

VARIABLE frame     \* the Frame given to encode

codecVars == <<vars, frame>>

FrameCode ==
    [ServerKeyRegistration |-> 0, ServerValue |-> 1, ClientKeyRegistration |-> 2,
     ClientValue |-> 3, ServerSync |-> 4, ClientReady |-> 5, ClientSync |-> 6,
     ServerReady |-> 7, Error |-> 8, ServerReset |-> 9, ClientResyncReq |-> 10,
     ClientReset |-> 11, ServerResyncReq |-> 12, Identify |-> 13, Auth |-> 14, AuthOk |-> 15,
     AuthFail |-> 17, ArrayShiftLeft |-> 32, ArrayShiftRight |-> 33, ServerKeyDelete |-> 34,
     ClientKeyRequest |-> 35, ServerFlushEnd |-> 255]

IsSignalFrame(ft) ==
    ft \in {"ServerSync", "ClientReady", "ClientSync", "ServerReady", "ServerReset",
            "ClientResyncReq", "ClientReset", "ServerResyncReq", "AuthOk", "ServerFlushEnd",
            "ServerKeyDelete", "ClientKeyRequest"}
IsKeyRegistrationFrame(ft) == ft \in {"ServerKeyRegistration", "ClientKeyRegistration"}

WireFrame(ft, id, dt, p) == [frameType |-> ft, keyId |-> id, dataType |-> dt, payload |-> p]

-----------------------------------------------------------------------------
(* encode: the path of a registration, nothing for a signal, or the value  *)
(* by its type, whose type of a registration is only in the header.        *)
RawPayloads(f) ==
    CASE IsKeyRegistrationFrame(f.frameType) -> {f.payload.data}
      [] IsSignalFrame(f.frameType)          -> {<< >>}
      [] OTHER                               -> Serialize(f.dataType, f.payload)

RawBody(f, raw) ==
    << FrameCode[f.frameType] >> \o WriteBE(f.keyId, WordBytes)
    \o << TypeCode(f.dataType) >> \o raw

(* parseFrame, and the same in decode.                                     *)
ParseFrame(body) ==
    LET ft  == CHOOSE t \in DOMAIN FrameCode : FrameCode[t] = body[1]
        dt  == DataTypes[body[HeaderSize] + 1]
        raw == SubSeq(body, HeaderSize + 1, Len(body))
    IN  WireFrame(ft, ReadBE(SubSeq(body, 2, WordBytes + 1)), dt,
            CASE IsKeyRegistrationFrame(ft) -> Payload("string", raw)
              [] IsSignalFrame(ft)          -> Payload("monostate", 0)
              [] OTHER                      -> Deserialize(dt, raw))

-----------------------------------------------------------------------------
CodecInit == ParserInit /\ frame \in Frames

EncodeFrame ==
    /\ sent = << >>
    /\ \E raw \in RawPayloads(frame) : SendFrame(RawBody(frame, raw))
    /\ UNCHANGED frame

ParserFeed ==
    /\ FeedIdle \/ FeedAfterDLE \/ FeedInFrame \/ FeedInFrameAfterDLE
    /\ UNCHANGED frame

CodecNext == EncodeFrame \/ ParserFeed
CodecSpec == CodecInit /\ [][CodecNext]_codecVars

-----------------------------------------------------------------------------
(* What becomes of the alternative of the variant: a VarInteger that fits  *)
(* is an int32_t, a VarFloat a double.                                     *)
Received(f) ==
    CASE IsSignalFrame(f.frameType) -> [f EXCEPT !.payload = Payload("monostate", 0)]
      [] IsKeyRegistrationFrame(f.frameType) -> f
      [] OTHER ->
            CASE f.dataType = "VarInteger" -> [f EXCEPT !.payload = VarInteger(f.payload.data)]
              [] f.dataType = "VarFloat"   -> [f EXCEPT !.payload.kind = "double"]
              [] OTHER                     -> f

(* The numbers that serializeVarDouble loses: printed with an exponent and *)
(* no point, and below 10^-4 or too large for a uint64_t.                  *)
Lost(f) ==
    /\ f.dataType \in {"VarDouble", "VarFloat"}
    /\ f.payload.kind \in {"double", "float"}
    /\ LET v == f.payload.data IN
       /\ v.finite /\ Scientific(v) /\ ~HasPoint(v)
       /\ v.e < 0 \/ v.m * 10 ^ v.e >= LongMod

(* Every frame arrives with its type, its key id, its data type and the    *)
(* value it was given, whatever its bytes: integers at the ends of their   *)
(* ranges, numbers at the limit of a mantissa, bytes that look like        *)
(* control bytes; batch decoding gives the same frame.                     *)
FrameArrives ==
    sent # << >> /\ wire = << >> /\ ~Lost(frame) =>
        /\ Len(got) = 1 /\ ParseFrame(got[1]) = Received(frame)
        /\ Decode(EncodeBatch(sent)) = got
=============================================================================
