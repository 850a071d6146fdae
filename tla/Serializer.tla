----------------------------- MODULE Serializer -----------------------------
(***************************************************************************)
(* serialize and deserialize (src/protocol/serializer.cpp): the bytes of a *)
(* payload of each data type.  A payload is a record of the alternative    *)
(* its std::variant holds and of its data:                                 *)
(*     integers         the number                                         *)
(*     string, binary   the sequence of bytes                              *)
(*     float, double    [finite, neg, m, e]: the decimal number m * 10^e   *)
(*                      that std::setprecision(17) prints, and its sign;   *)
(*                      m has no trailing zero                             *)
(* Words are narrower than in the code: 32 bits stand as 8 * WordBytes, 64 *)
(* as 8 * LongBytes, and the 17 digits and the limit 2^53 - 1 of a double  *)
(* as Precision and MaxSafe.  A float is never given a number it has no    *)
(* bits for: detectDataType sends no double as a VarFloat.                 *)
(***************************************************************************)
EXTENDS Integers, SequencesExt

CONSTANTS WordBytes, LongBytes, Precision, MaxSafe

ASSUME SerializerAssumption ==
    /\ WordBytes \in Nat \ {0} /\ LongBytes \in Nat /\ WordBytes < LongBytes
    /\ Precision \in Nat \ {0}
    /\ MaxSafe \in 10 ^ (Precision - 2) .. 10 ^ (Precision - 1)

Payload(kind, data) == [kind |-> kind, data |-> data]
Throws == Payload("exception", 0)    \* a DanWSError instead of a payload

LongMod == 2 ^ (8 * LongBytes)       \* uint64_t is taken modulo 2^64
Unsigned(n, bytes) == n % (2 ^ (8 * bytes))
Signed(n, bytes) ==
    IF n >= 2 ^ (8 * bytes - 1) THEN n - 2 ^ (8 * bytes) ELSE n

(* writeBE16, writeBE32 and writeBE64; readBE16, readBE32 and readBE64     *)
WriteBE(n, bytes) == [i \in 1 .. bytes |-> (n \div (256 ^ (bytes - i))) % 256]
ReadBE(bs) == FoldLeft(LAMBDA n, b : 256 * n + b, 0, bs)

-----------------------------------------------------------------------------
(* VarInt: seven bits to a byte, the lowest first.                         *)

VarIntLength(n) == CHOOSE l \in 1 .. 8 : n < 128 ^ l /\ \A k \in 1 .. l - 1 : n >= 128 ^ k

EncodeVarInt(n) ==
    LET l == VarIntLength(n)
    IN  [i \in 1 .. l |-> ((n \div (128 ^ (i - 1))) % 128) + (IF i < l THEN 128 ELSE 0)]

(* decodeVarInt reads up to the first byte without the high bit, or to the *)
(* end of the data.                                                        *)
DecodeVarInt(bs) ==
    LET ends == {i \in DOMAIN bs : bs[i] < 128}
        last == IF ends = {} THEN Len(bs) ELSE CHOOSE i \in ends : \A j \in ends : i <= j
        acc  == FoldLeft(LAMBDA a, b : [sum  |-> (a.sum + (b % 128) * a.mult) % LongMod,
                                        mult |-> (a.mult * 128) % LongMod],
                         [sum |-> 0, mult |-> 1], SubSeq(bs, 1, last))
    IN  acc.sum

(* Mutant: the bits of a negative number are not shifted by one.           *)
MutZigzag(n) == IF n >= 0 THEN Unsigned(2 * n, LongBytes)
                          ELSE Unsigned(Unsigned(-n, LongBytes) * 2, LongBytes)

(* The zigzag of serializeVarInteger.  -value overflows for the least      *)
(* number, to itself.                                                      *)
Zigzag(n) == IF n >= 0 THEN Unsigned(2 * n, LongBytes)
                       ELSE Unsigned(Unsigned(-n, LongBytes) * 2 - 1, LongBytes)

Unzigzag(z) == IF z % 2 = 1 THEN -(z \div 2) - 1 ELSE z \div 2

(* deserialize, VarInteger: as an int32_t if it fits.                      *)
VarInteger(n) ==
    Payload(IF n \in -(2 ^ (8 * WordBytes - 1)) .. 2 ^ (8 * WordBytes - 1) - 1
            THEN "int32" ELSE "int64", n)

-----------------------------------------------------------------------------
(* VarDouble and VarFloat: a scale and a VarInt mantissa, or the bits of   *)
(* the number after the byte 128.                                          *)

Double(neg, m, e) == [finite |-> TRUE, neg |-> neg, m |-> m, e |-> e]

Digits(m) == CHOOSE d \in 1 .. 9 : m < 10 ^ d /\ (d = 1 \/ m >= 10 ^ (d - 1))

(* How the absolute value is printed: with an exponent when the number is  *)
(* small or large, and with a point when there are digits to follow it.    *)
Exponent(v)   == Digits(v.m) + v.e - 1
Scientific(v) == v.m # 0 /\ (Exponent(v) < -4 \/ Exponent(v) >= Precision)
HasPoint(v)   == IF Scientific(v) THEN Digits(v.m) > 1 ELSE v.e < 0

(* static_cast<uint64_t>(absVal): undefined where it does not fit, and     *)
(* then 0 or the highest bit.                                              *)
Casts(v) ==
    IF v.e < 0 THEN {v.m \div (10 ^ (-v.e))}
    ELSE IF v.m * 10 ^ v.e < LongMod THEN {v.m * 10 ^ v.e} ELSE {0, LongMod \div 2}

(* External: the bits of an IEEE 754 number, of which it only matters that *)
(* they tell numbers apart.                                                *)
FloatBits(v, bytes) ==
    (IF v.neg THEN 2 ^ (8 * bytes - 1) ELSE 0) + v.m * 16 + (IF v.finite THEN v.e + 8 ELSE 0)
BitsToFloat(bits, bytes) ==
    LET abs == bits % (2 ^ (8 * bytes - 1)) IN
    [finite |-> abs % 16 # 0, neg |-> bits >= 2 ^ (8 * bytes - 1), m |-> abs \div 16,
     e |-> IF abs % 16 = 0 THEN 0 ELSE (abs % 16) - 8]

(* writeFloat32BE and writeFloat64BE; readFloat32BE and readFloat64BE      *)
WriteFloat(v, bytes) == WriteBE(FloatBits(v, bytes), bytes)
ReadFloat(bs)        == BitsToFloat(ReadBE(bs), Len(bs))

Fallback(v, bytes) == << 128 >> \o WriteFloat(v, bytes)

Decimal(v, mantissa, scale, bytes) ==
    IF mantissa > MaxSafe THEN Fallback(v, bytes)
    ELSE << IF v.neg THEN scale + 64 ELSE scale >> \o EncodeVarInt(mantissa)

(* serializeVarDouble and serializeVarFloat, with a fallback of that many  *)
(* bytes.  A number printed with an exponent and no point is not told from *)
(* an integer.  The scale is at most Precision + 3, below the 64 of the sign, and *)
(* the mantissa has at most Precision digits, which stoull always takes.   *)
SerializeDecimal(v, bytes) ==
    CASE ~v.finite \/ (v.m = 0 /\ v.neg)  -> {Fallback(v, bytes)}
      [] HasPoint(v) /\ Scientific(v)     -> {Fallback(v, bytes)}
      [] HasPoint(v) /\ ~Scientific(v)    -> {Decimal(v, v.m, -v.e, bytes)}
      [] OTHER                            -> {Decimal(v, c, 0, bytes) : c \in Casts(v)}

(* mantissa / 10^scale: both are exact, and the division rounds once.      *)
Normal(neg, m, e) ==
    IF m = 0 THEN Double(neg, 0, 0)
    ELSE LET z == CHOOSE i \in 0 .. 9 : m % (10 ^ i) = 0 /\ m % (10 ^ (i + 1)) # 0
         IN  Double(neg, m \div (10 ^ z), e + z)

DeserializeDecimal(bs, bytes) ==
    IF bs = << >> \/ (Head(bs) = 128 /\ Len(bs) < bytes + 1) THEN Throws
    ELSE Payload("double",
            IF Head(bs) = 128 THEN ReadFloat(SubSeq(bs, 2, bytes + 1))
            ELSE Normal(Head(bs) >= 64, DecodeVarInt(Tail(bs)),
                        -(IF Head(bs) >= 64 THEN Head(bs) - 64 ELSE Head(bs))))

-----------------------------------------------------------------------------
(* The data types in the order of their codes.                             *)

DataTypes ==
    << "Null", "Bool", "Uint8", "Uint16", "Uint32", "Uint64", "Int32", "Int64", "Float32",
       "Float64", "String", "Binary", "Timestamp", "VarInteger", "VarDouble", "VarFloat" >>
TypeCode(dt) == (CHOOSE i \in DOMAIN DataTypes : DataTypes[i] = dt) - 1

(* dataTypeSize, -1 for a variable length; Uint16 keeps its two bytes.     *)
DataTypeSize(dt) ==
    CASE dt = "Null"                                              -> 0
      [] dt \in {"Bool", "Uint8"}                                 -> 1
      [] dt = "Uint16"                                            -> 2
      [] dt \in {"Uint32", "Int32", "Float32"}                    -> WordBytes
      [] dt \in {"Uint64", "Int64", "Float64", "Timestamp"}       -> LongBytes
      [] dt \in {"String", "Binary", "VarInteger", "VarDouble", "VarFloat"} -> -1

DetectDataType(p) ==
    CASE p.kind = "monostate" -> "Null"        [] p.kind = "bool"   -> "Bool"
      [] p.kind = "uint8"     -> "Uint8"       [] p.kind = "uint16" -> "Uint16"
      [] p.kind = "uint32"    -> "Uint32"      [] p.kind = "uint64" -> "Uint64"
      [] p.kind = "int32"     -> "VarInteger"  [] p.kind = "int64"  -> "Int64"
      [] p.kind = "float"     -> "VarFloat"    [] p.kind = "double" -> "VarDouble"
      [] p.kind = "string"    -> "String"      [] p.kind = "binary" -> "Binary"

(* The alternative of the variant that a type of its own takes and gives.  *)
KindOf(dt) ==
    CASE dt = "Null"   -> "monostate"  [] dt = "Bool"    -> "bool"
      [] dt = "Uint8"  -> "uint8"      [] dt = "Uint16"  -> "uint16"
      [] dt = "Uint32" -> "uint32"     [] dt = "Uint64"  -> "uint64"
      [] dt = "Int32"  -> "int32"      [] dt \in {"Int64", "Timestamp"} -> "int64"
      [] dt = "Float32" -> "float"     [] dt = "Float64" -> "double"
      [] dt = "String" -> "string"     [] dt = "Binary"  -> "binary"

(* serialize: the bytes the build may produce, one sequence but for a cast *)
(* that is undefined.  std::get takes only the alternative of the type.    *)
Serialize(dt, p) ==
    CASE dt = "Null"                           -> {<< >>}
      [] dt = "Bool"                           -> {<< IF p.data THEN 1 ELSE 0 >>}
      [] dt \in {"Uint8", "Uint16", "Uint32", "Uint64", "Int32", "Int64", "Timestamp"} ->
            {WriteBE(Unsigned(p.data, DataTypeSize(dt)), DataTypeSize(dt))}
      [] dt \in {"Float32", "Float64"}         -> {WriteFloat(p.data, DataTypeSize(dt))}
      [] dt \in {"String", "Binary"}           -> {p.data}
      [] dt = "VarInteger"                     -> {EncodeVarInt(Zigzag(p.data))}
      [] dt = "VarDouble"                      -> SerializeDecimal(p.data, LongBytes)
      [] dt = "VarFloat"                       -> SerializeDecimal(p.data, WordBytes)

Deserialize(dt, bs) ==
    IF DataTypeSize(dt) \notin {-1, Len(bs)} THEN Throws ELSE
    CASE dt = "Null"       -> Payload("monostate", 0)
      [] dt = "Bool"       -> IF bs[1] \in {0, 1} THEN Payload("bool", bs[1] = 1) ELSE Throws
      [] dt \in {"Uint8", "Uint16", "Uint32", "Uint64"} -> Payload(KindOf(dt), ReadBE(bs))
      [] dt \in {"Int32", "Int64", "Timestamp"} ->
            Payload(KindOf(dt), Signed(ReadBE(bs), DataTypeSize(dt)))
      [] dt \in {"Float32", "Float64"} -> Payload(KindOf(dt), ReadFloat(bs))
      [] dt \in {"String", "Binary"}   -> Payload(KindOf(dt), bs)
      [] dt = "VarInteger" -> IF bs = << >> THEN Throws ELSE VarInteger(Unzigzag(DecodeVarInt(bs)))
      [] dt = "VarDouble"  -> DeserializeDecimal(bs, LongBytes)
      [] dt = "VarFloat"   -> DeserializeDecimal(bs, WordBytes)
=============================================================================
