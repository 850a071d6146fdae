---------------------------- MODULE StreamParser ----------------------------
(***************************************************************************)
(* The framing of DanProtocol: encode (src/protocol/codec.cpp) at one end  *)
(* of a connection and the byte-wise StreamParser::feed                    *)
(* (src/protocol/stream_parser.cpp) at the other.                          *)
(*                                                                         *)
(* A frame is its body, the header and payload bytes before escaping; what *)
(* they mean (parseFrame after its length check) plays no part in the      *)
(* framing and is in FrameCodec.  The frames sent are made of the four     *)
(* control bytes and one other.                                            *)
(* feed may be given any piece of the stream, and treats it byte by byte,  *)
(* so bytes are fed singly.  A connection may be lost between any two.     *)
(***************************************************************************)
EXTENDS Naturals, SequencesExt

CONSTANTS
    HeaderSize,      \* the 6 bytes of frame type, key id and data type
    MaxBufferSize,   \* maxBufferSize_
    MaxBodySize,     \* bound: the bodies that are sent
    MaxItems,        \* bound: frames and heartbeats sent on one connection
    MaxConnections   \* bound: connections, one after the other

ASSUME ParserAssumption ==
    /\ HeaderSize \in Nat \ {0} /\ MaxBufferSize \in Nat /\ MaxBodySize \in Nat
    /\ MaxItems \in Nat /\ MaxConnections \in Nat \ {0}

VARIABLES
    receiver,      \* the end that is fed: the server's or the client's
    state,         \* state_
    buffer,        \* buffer_
    wire,          \* the bytes sent and not yet fed
    sent,          \* history: what was sent on this connection
    got,           \* history: the callbacks of this connection, errors aside
    connections    \* connections so far

vars == <<receiver, state, buffer, wire, sent, got, connections>>

Bytes == 0 .. 255
DLE == 16
STX == 2
ETX == 3
ENQ == 5
Plain == 65

Bodies == UNION {[1 .. n -> {DLE, STX, ETX, ENQ, Plain}] : n \in HeaderSize .. MaxBodySize}
Heartbeat == << >>    \* as an item sent or got: no frame has an empty body

(* dleEncode: every DLE byte is doubled.                                   *)
DleEncode(body) ==
    FlattenSeq([i \in DOMAIN body |-> IF body[i] = DLE THEN << DLE, DLE >>
                                                       ELSE << body[i] >>])

(* Mutant: DLE bytes are not doubled.                                      *)
MutEncode(body) == << DLE, STX >> \o body \o << DLE, ETX >>

(* encode and encodeHeartbeat                                              *)
Encode(body) == << DLE, STX >> \o DleEncode(body) \o << DLE, ETX >>
EncodeHeartbeat == << DLE, ENQ >>

(* Type invariant of the parser and the stream.                            *)
ParserTypeOK ==
    /\ receiver \in {"server", "client"}
    /\ state \in {"Idle", "AfterDLE", "InFrame", "InFrameAfterDLE"}
    /\ buffer \in Seq(Bytes)
    /\ state \in {"Idle", "AfterDLE"} => buffer = << >>
    /\ wire \in Seq(Bytes)
    /\ sent \in Seq(Seq(Bytes))
    /\ got \in Seq(Seq(Bytes))
    /\ connections \in 1 .. MaxConnections

ParserInit ==
    /\ receiver \in {"server", "client"}
    /\ state = "Idle" /\ buffer = << >>
    /\ wire = << >> /\ sent = << >> /\ got = << >>
    /\ connections = 1

-----------------------------------------------------------------------------
(* feed: one byte, by the state it finds.                                  *)

Byte == Head(wire)
Takes(s) ==
    /\ wire # << >> /\ state = s
    /\ wire' = Tail(wire)
    /\ UNCHANGED <<receiver, sent, connections>>

(* A byte outside a frame is an error.                                     *)
FeedIdle ==
    /\ Takes("Idle")
    /\ state' = IF Byte = DLE THEN "AfterDLE" ELSE "Idle"
    /\ UNCHANGED <<buffer, got>>

FeedAfterDLE ==
    /\ Takes("AfterDLE")
    /\ buffer' = IF Byte = STX THEN << >> ELSE buffer
    /\ state' = IF Byte = STX THEN "InFrame" ELSE "Idle"
    /\ got' = IF Byte = ENQ THEN Append(got, Heartbeat) ELSE got

(* A byte beyond the limit drops the frame.                                *)
FeedInFrame ==
    /\ Takes("InFrame")
    /\ \/ /\ Byte = DLE
          /\ state' = "InFrameAfterDLE"
          /\ UNCHANGED buffer
       \/ /\ Byte # DLE /\ Len(buffer) >= MaxBufferSize
          /\ state' = "Idle" /\ buffer' = << >>
       \/ /\ Byte # DLE /\ Len(buffer) < MaxBufferSize
          /\ buffer' = Append(buffer, Byte)
          /\ UNCHANGED state
    /\ UNCHANGED got

(* Mutant: the parser stays in the frame after an invalid sequence.        *)
MutFeedInFrameAfterDLE ==
    /\ Takes("InFrameAfterDLE")
    /\ \/ /\ Byte = ETX
          /\ got' = IF Len(buffer) < HeaderSize THEN got ELSE Append(got, buffer)
          /\ state' = "Idle"
          /\ UNCHANGED buffer
       \/ /\ Byte = DLE
          /\ buffer' = Append(buffer, DLE)
          /\ state' = "InFrame"
          /\ UNCHANGED got
       \/ /\ Byte \notin {ETX, DLE}
          /\ state' = "InFrame"
          /\ UNCHANGED <<buffer, got>>

(* The end of the frame, with parseFrame's check of its length, an escaped *)
(* DLE, which the limit does not apply to, or an invalid sequence.         *)
FeedInFrameAfterDLE ==
    /\ Takes("InFrameAfterDLE")
    /\ \/ /\ Byte = ETX
          /\ got' = IF Len(buffer) < HeaderSize THEN got ELSE Append(got, buffer)
          /\ state' = "Idle" /\ buffer' = << >>
       \/ /\ Byte = DLE
          /\ buffer' = Append(buffer, DLE)
          /\ state' = "InFrame"
          /\ UNCHANGED got
       \/ /\ Byte \notin {ETX, DLE}
          /\ state' = "Idle" /\ buffer' = << >>
          /\ UNCHANGED got

-----------------------------------------------------------------------------
Sends(item, bytes) ==
    /\ Len(sent) < MaxItems
    /\ sent' = Append(sent, item)
    /\ wire' = wire \o bytes
    /\ UNCHANGED <<receiver, state, buffer, got, connections>>

SendFrame(body) == Sends(body, Encode(body))
SendHeartbeat == Sends(Heartbeat, EncodeHeartbeat)

(* The connection is lost with what is on the wire, and a new one made:    *)
(* handleConnection makes a new parser, DanWebSocketClient keeps parser_.  *)
Reconnect ==
    /\ connections < MaxConnections
    /\ connections' = connections + 1
    /\ wire' = << >> /\ sent' = << >> /\ got' = << >>
    /\ state' = IF receiver = "server" THEN "Idle" ELSE state
    /\ buffer' = IF receiver = "server" THEN << >> ELSE buffer
    /\ UNCHANGED receiver

ParserNext ==
    \/ FeedIdle \/ FeedAfterDLE \/ FeedInFrame \/ FeedInFrameAfterDLE
    \/ \E body \in Bodies : SendFrame(body)
    \/ SendHeartbeat
    \/ Reconnect

ParserSpec == ParserInit /\ [][ParserNext]_vars

-----------------------------------------------------------------------------
(* A body is kept if no byte other than DLE goes beyond the limit.         *)
Kept(item) == \A i \in DOMAIN item : i > MaxBufferSize => item[i] = DLE

KeptOf(items) ==
    FlattenSeq([i \in DOMAIN items |-> IF Kept(items[i]) THEN << items[i] >> ELSE << >>])

(* The parser was made for this connection.                                *)
FreshParser == receiver = "server" \/ connections = 1

(* Every frame and heartbeat arrives once, in order and unchanged, however *)
(* its bytes look and wherever the stream is cut into pieces; a frame over *)
(* the limit is dropped, and the parser is back in step for the next one.  *)
(* So it is for the server, and for the client's first connection.         *)
FramesIntact ==
    FreshParser =>
        /\ IsPrefix(got, KeptOf(sent))
        /\ wire = << >> => got = KeptOf(sent)

(* The parser is self-synchronizing: wherever an earlier connection left   *)
(* it, at most two items of a new one are lost or damaged, and from the    *)
(* third on every one arrives.                                             *)
ParserResyncs ==
    wire = << >> =>
        IsSuffix(KeptOf(SubSeq(sent, 3, Len(sent))), got)

-----------------------------------------------------------------------------
(* The inductive invariant of FramesIntact and ParserResyncs.              *)

TailFrom(s, n) == SubSeq(s, n, Len(s))

EncodeItem(item) == IF item = Heartbeat THEN EncodeHeartbeat ELSE Encode(item)
Stream(items) == FlattenSeq([i \in DOMAIN items |-> EncodeItem(items[i])])

(* What follows the first j bytes of a body, and the first n items.        *)
Rest(body, j) == DleEncode(TailFrom(body, j + 1)) \o << DLE, ETX >>
Later(n) == Stream(TailFrom(sent, n + 1))

(* The items from lost + 1 to n have arrived, after what became of those   *)
(* that were lost.                                                         *)
Arrived(lost, n) ==
    \E h \in 0 .. Len(got) :
        /\ lost = 0 => h = 0
        /\ TailFrom(got, h + 1) = KeptOf(SubSeq(sent, lost + 1, n))

(* The parser is between items n and n + 1, after the first byte of item   *)
(* n + 1, inside its frame, or skips the rest of it.                       *)
Between(n) == state = "Idle" /\ wire = Later(n)

Opening(n) ==
    /\ n < Len(sent) /\ state = "AfterDLE"
    /\ wire = Tail(EncodeItem(sent[n + 1])) \o Later(n + 1)

WireAt(n, j, s1, s2) ==
    LET rest == Rest(sent[n + 1], j) IN
    \/ state = s1 /\ wire = rest \o Later(n + 1)
    \/ state = s2 /\ Head(rest) = DLE /\ wire = Tail(rest) \o Later(n + 1)

Reading(n) ==
    LET j == Len(buffer) IN
    /\ n < Len(sent) /\ sent[n + 1] # Heartbeat
    /\ j <= Len(sent[n + 1]) /\ buffer = SubSeq(sent[n + 1], 1, j) /\ Kept(buffer)
    /\ WireAt(n, j, "InFrame", "InFrameAfterDLE")

Skipping(n) ==
    /\ n < Len(sent) /\ sent[n + 1] # Heartbeat
    /\ \E j \in 0 .. Len(sent[n + 1]) : WireAt(n, j, "Idle", "AfterDLE")

InStep(n, lost) ==
    /\ lost <= 2 /\ (FreshParser => lost = 0)
    /\ Arrived(lost, n)
    /\ \/ lost <= n /\ (Between(n) \/ Opening(n) \/ Reading(n))
       \/ (lost = n + 1 \/ (lost <= n /\ ~Kept(sent[n + 1]))) /\ Skipping(n)

(* The client's parser has come out of an earlier connection, and has not  *)
(* yet returned to Idle between two items: it is before item n + 1, after  *)
(* the first byte of it, or takes it to be part of the frame that was cut. *)
Astray(n) ==
    /\ ~FreshParser /\ n <= 1 /\ n <= Len(sent)
    /\ \/ /\ wire = Later(n)
          /\ IF n = 0 THEN got = << >> ELSE state = "InFrame"
       \/ /\ n < Len(sent)
          /\ wire = Tail(EncodeItem(sent[n + 1])) \o Later(n + 1)
          /\ state = "InFrameAfterDLE" \/ (n = 0 /\ state \in {"Idle", "InFrame"})
       \/ /\ n = 0 /\ n < Len(sent) /\ sent[n + 1] # Heartbeat
          /\ \E j \in 0 .. Len(sent[n + 1]) : WireAt(n, j, "InFrame", "InFrameAfterDLE")

ParserInv ==
    /\ ParserTypeOK
    /\ sent \in Seq(Bodies \cup {Heartbeat})
    /\ \E n \in 0 .. Len(sent) : Astray(n) \/ \E lost \in 0 .. 2 : InStep(n, lost)
=============================================================================
