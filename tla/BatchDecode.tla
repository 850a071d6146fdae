---------------------------- MODULE BatchDecode -----------------------------
(***************************************************************************)
(* decode and encodeBatch (src/protocol/codec.cpp): a whole buffer of      *)
(* frames is taken apart at once, in two passes over each frame, where the *)
(* StreamParser works byte by byte.  The buffer decoded here is what the   *)
(* parser has been fed so far, so the two meet at every cut of a stream.   *)
(***************************************************************************)
EXTENDS StreamParser

Exception == << << >> >>    \* a DanWSError: no frame has an empty body

(* encodeBatch, with the heartbeats of the stream among its frames.        *)
EncodeBatch(items) ==
    FlattenSeq([i \in DOMAIN items |->
                    IF items[i] = Heartbeat THEN EncodeHeartbeat ELSE Encode(items[i])])

(* The position of the DLE ETX that ends the body from i on, or 0 when the *)
(* data ends before it or has an invalid sequence.                         *)
RECURSIVE BodyEnd(_, _)
BodyEnd(data, i) ==
    CASE i > Len(data)                               -> 0
      [] i <= Len(data) /\ data[i] # DLE             -> BodyEnd(data, i + 1)
      [] i < Len(data) /\ data[i] = DLE              ->
            CASE data[i + 1] = ETX -> i
              [] data[i + 1] = DLE -> BodyEnd(data, i + 2)
              [] OTHER             -> 0
      [] OTHER                                       -> 0

(* Mutant: both bytes of an escaped DLE are kept.                          *)
RECURSIVE MutDleDecode(_)
MutDleDecode(data) ==
    CASE data = << >>                       -> << >>
      [] data # << >> /\ Head(data) # DLE   -> << Head(data) >> \o MutDleDecode(Tail(data))
      [] OTHER                              -> << DLE >> \o MutDleDecode(Tail(data))

(* dleDecode: a DLE is dropped and the byte after it kept.                 *)
RECURSIVE DleDecode(_)
DleDecode(data) ==
    CASE data = << >>                       -> << >>
      [] data # << >> /\ Head(data) # DLE   -> << Head(data) >> \o DleDecode(Tail(data))
      [] Len(data) > 1 /\ Head(data) = DLE  ->
            << data[2] >> \o DleDecode(SubSeq(data, 3, Len(data)))
      [] OTHER                              -> << >>

(* decode: the bodies of the frames, or an exception for all of them.      *)
RECURSIVE Decode(_)
Decode(data) ==
    LET end  == BodyEnd(data, 3)
        body == DleDecode(SubSeq(data, 3, end - 1))
        rest == Decode(SubSeq(data, end + 2, Len(data)))
    IN  CASE data = << >>                                      -> << >>
          [] data # << >> /\ ~IsPrefix(<< DLE, STX >>, data)   -> Exception
          [] IsPrefix(<< DLE, STX >>, data) /\ end = 0         -> Exception
          [] OTHER -> IF Len(body) < HeaderSize \/ rest = Exception
                      THEN Exception ELSE << body >> \o rest

(* The two decoders agree at every cut of a stream without frames over the *)
(* limit: decode gives the frames the parser has called back when the cut  *)
(* is between two frames, and an exception otherwise or after a heartbeat. *)
BatchDecodeAgrees ==
    LET stream == EncodeBatch(sent)
        fed    == SubSeq(stream, 1, Len(stream) - Len(wire))
    IN  /\ receiver = "server" \/ connections = 1
        /\ \A i \in DOMAIN sent : Kept(sent[i])
        => Decode(fed) = IF state = "Idle" /\ ~Contains(got, Heartbeat)
                         THEN got ELSE Exception
=============================================================================
