---------------------------- MODULE MCFrameCodec ----------------------------
(***************************************************************************)
(* The frames of the codec run: values of every data type around the       *)
(* powers of two and the limits of the number formats, texts with control  *)
(* bytes, key ids with a DLE, and every signal; and the frames of an       *)
(* array of three elements.                                                *)
(***************************************************************************)
EXTENDS ClientArray

Powers(bits) == {2 ^ k : k \in 0 .. bits - 1}
Around(S)    == UNION {{n - 1, n, n + 1} : n \in S} \cup {0, DLE}

Unsigneds(bits) == Around(Powers(bits)) \cup {2 ^ bits - 1}
Signeds(bits)   ==
    {n \in Around(Powers(bits)) \cup {-k : k \in Around(Powers(bits))} :
        n \in -(2 ^ (bits - 1)) .. 2 ^ (bits - 1) - 1}

Mantissas == {1, 3, 25, 125, 314, 511, 512, 999, 1234, 2047}
Decimals  ==
    {Double(neg, m, e) : neg \in BOOLEAN, m \in Mantissas, e \in -7 .. 7}
    \cup {Double(neg, 0, 0) : neg \in BOOLEAN}
    \cup {[finite |-> FALSE, neg |-> neg, m |-> m, e |-> 0] : neg \in BOOLEAN, m \in {0, 1}}

Texts == UNION {[1 .. n -> {DLE, STX, ETX, Plain}] : n \in 0 .. 2}

Of(kind, S) == {Payload(kind, d) : d \in S}

Word == 8 * WordBytes
Long == 8 * LongBytes

Payloads ==
    Of("monostate", {0}) \cup Of("bool", BOOLEAN)
    \cup Of("uint8", Unsigneds(8)) \cup Of("uint16", Unsigneds(16))
    \cup Of("uint32", Unsigneds(Word)) \cup Of("uint64", Unsigneds(Long))
    \cup Of("int32", Signeds(Word)) \cup Of("int64", Signeds(Long))
    \cup Of("float", Decimals) \cup Of("double", Decimals)
    \cup Of("string", Texts) \cup Of("binary", Texts)

(* The types that serialize takes for a payload: the one that the state    *)
(* gives it, and those an application may put in a frame.                  *)
TypesFor(p) ==
    {DetectDataType(p)}
    \cup CASE p.kind = "int32"  -> {"Int32"}
           [] p.kind = "int64"  -> {"Timestamp", "VarInteger"}
           [] p.kind = "float"  -> {"Float32"}
           [] p.kind = "double" -> {"Float64"}
           [] OTHER             -> {}

MCFrames ==
    UNION {{WireFrame("ServerValue", Slots + 3, dt, p) : dt \in TypesFor(p)} : p \in Payloads}
    \cup {WireFrame(ft, id, dt, Payload("string", t)) :
            ft \in {"ServerKeyRegistration", "ClientKeyRegistration"},
            id \in {1, DLE, 256 * DLE + DLE}, dt \in {"Null", "VarInteger", "String"},
            t \in Texts}
    \cup {WireFrame(ft, id, "Null", Payload("monostate", 0)) :
            ft \in {t \in DOMAIN FrameCode : IsSignalFrame(t)}, id \in {0, DLE}}
    \cup {WireFrame(ft, 0, "String", Payload("string", t)) :
            ft \in {"Auth", "AuthFail", "Error"}, t \in Texts}
    \cup {WireFrame("Identify", 0, "Binary", Payload("binary", t)) : t \in Texts}
    \cup {WireFrame(ft, DLE, "Int32", Payload("int32", n)) :
            ft \in {"ArrayShiftLeft", "ArrayShiftRight"}, n \in {1, DLE}}

Int32(n) == Payload("int32", n)

MCArrayFrames ==
    {WireFrame("ServerValue", LengthId, "VarInteger", Int32(n)) : n \in 0 .. Slots + 1}
    \cup {WireFrame("ServerValue", ElementId(i), "VarInteger", Int32(n)) :
            i \in 0 .. Slots - 1, n \in 1 .. 2}
    \cup {WireFrame(ft, LengthId, "VarInteger", Int32(n)) :
            ft \in {"ArrayShiftLeft", "ArrayShiftRight"}, n \in {-1, 1, 2, Slots + 2}}

AllFrames == MCFrames \cup MCArrayFrames
=============================================================================
