------------------------ MODULE StreamParserProofs --------------------------
(***************************************************************************)
(* Proofs about StreamParser, for every header size, buffer limit and      *)
(* length of bodies, and any number of items and connections.              *)
(***************************************************************************)
EXTENDS StreamParser, ProtocolProofs

-----------------------------------------------------------------------------
(* The three flattened sequences of StreamParser apply a function to every *)
(* element and join the results.                                           *)
Joined(F, s) == FlattenSeq([i \in DOMAIN s |-> F[s[i]]])

MapsTo(F, E, A) == F \in [E -> Seq(A)]

(* The sequences that are joined.                                          *)
LEMMA MappedType ==
    ASSUME NEW E, NEW A, NEW F, MapsTo(F, E, A), NEW s \in Seq(E)
    PROVE  /\ [i \in DOMAIN s |-> F[s[i]]] \in Seq(Seq(A))
           /\ Len([i \in DOMAIN s |-> F[s[i]]]) = Len(s)
<1>1. Len(s) \in Nat /\ DOMAIN s = 1 .. Len(s)
  BY LenProperties
<1>2. \A i \in 1 .. Len(s) : F[s[i]] \in Seq(A)
  BY ElementOfSeq DEF MapsTo
<1> DEFINE m == [i \in 1 .. Len(s) |-> F[s[i]]]
<1>3. m \in [1 .. Len(s) -> Seq(A)]
  BY <1>2
<1>4. m \in Seq(Seq(A)) /\ Len(m) = Len(s)
  BY <1>1, <1>3, SeqDef
<1> QED BY <1>1, <1>4

(* Nothing joined is nothing; two sequences are joined one after the       *)
(* other, and a single element is mapped.                                  *)
LEMMA JoinedNone == ASSUME NEW F PROVE Joined(F, << >>) = << >>
<1> DEFINE m == [i \in DOMAIN << >> |-> F[<< >>[i]]]
<1>1. m = << >>
  OBVIOUS
<1> QED BY <1>1, FlattenNone DEF Joined

(* A joined sequence is one of the elements of the parts.                  *)
LEMMA JoinedType ==
    ASSUME NEW E, NEW A, NEW F, MapsTo(F, E, A), NEW s \in Seq(E)
    PROVE  Joined(F, s) \in Seq(A)
<1> DEFINE m == [i \in DOMAIN s |-> F[s[i]]]
<1>1. m \in Seq(Seq(A))
  BY MappedType
<1>2. << >> \in Seq(A)
  BY EmptySeq
<1> HIDE DEF m
<1>3. FlattenSeq(m) \in Seq(A)
  BY <1>1, <1>2, FlattenAppend
<1> QED BY <1>3 DEF Joined, m

(* Two sequences, one after the other.                                     *)
LEMMA JoinedConcat ==
    ASSUME NEW E, NEW A, NEW F, MapsTo(F, E, A), NEW s \in Seq(E), NEW t \in Seq(E)
    PROVE  Joined(F, s \o t) = Joined(F, s) \o Joined(F, t)
<1> DEFINE ms == [i \in DOMAIN s |-> F[s[i]]]
           mt == [i \in DOMAIN t |-> F[t[i]]]
           mu == [i \in DOMAIN (s \o t) |-> F[(s \o t)[i]]]
<1>0. /\ s \o t \in Seq(E) /\ Len(s \o t) = Len(s) + Len(t)
      /\ Len(s) \in Nat /\ Len(t) \in Nat
      /\ DOMAIN s = 1 .. Len(s) /\ DOMAIN t = 1 .. Len(t)
      /\ DOMAIN (s \o t) = 1 .. Len(s) + Len(t)
      /\ \A i \in 1 .. Len(s) + Len(t) : (s \o t)[i] =
                     IF i <= Len(s) THEN s[i] ELSE t[i - Len(s)]
  BY ConcatProperties, LenProperties
<1>1. /\ ms \in Seq(Seq(A)) /\ Len(ms) = Len(s)
      /\ mt \in Seq(Seq(A)) /\ Len(mt) = Len(t)
      /\ mu \in Seq(Seq(A)) /\ Len(mu) = Len(s) + Len(t)
  <2>1. ms \in Seq(Seq(A)) /\ Len(ms) = Len(s)
    BY MappedType
  <2>2. mt \in Seq(Seq(A)) /\ Len(mt) = Len(t)
    BY MappedType
  <2> DEFINE u == s \o t
  <2>3. u \in Seq(E)
    BY <1>0
  <2> HIDE DEF u
  <2>4. [i \in DOMAIN u |-> F[u[i]]] \in Seq(Seq(A)) /\ Len([i \in DOMAIN u |-> F[u[i]]]) = Len(u)
    BY <2>3, MappedType
  <2> USE DEF u
  <2> QED BY <1>0, <2>1, <2>2, <2>4
<1>2. \A i \in 1 .. Len(s) : ms[i] = F[s[i]]
  BY <1>0
<1>3. \A i \in 1 .. Len(t) : mt[i] = F[t[i]]
  BY <1>0
<1>4. \A i \in 1 .. Len(s) + Len(t) : mu[i] = F[(s \o t)[i]]
  BY <1>0
<1> HIDE DEF ms, mt, mu
<1>5. mu = ms \o mt
  <2>1. /\ ms \o mt \in Seq(Seq(A)) /\ Len(ms \o mt) = Len(s) + Len(t)
        /\ \A i \in 1 .. Len(s) + Len(t) : (ms \o mt)[i] =
                     IF i <= Len(s) THEN ms[i] ELSE mt[i - Len(s)]
    <3>1. /\ ms \o mt \in Seq(Seq(A)) /\ Len(ms \o mt) = Len(ms) + Len(mt)
          /\ \A i \in 1 .. Len(ms) + Len(mt) : (ms \o mt)[i] =
                       IF i <= Len(ms) THEN ms[i] ELSE mt[i - Len(ms)]
      <4> DEFINE B == Seq(A)
      <4>1. ms \in Seq(B) /\ mt \in Seq(B)
        BY <1>1
      <4> HIDE DEF B
      <4>2. /\ ms \o mt \in Seq(B) /\ Len(ms \o mt) = Len(ms) + Len(mt)
            /\ \A i \in 1 .. Len(ms) + Len(mt) : (ms \o mt)[i] =
                         IF i <= Len(ms) THEN ms[i] ELSE mt[i - Len(ms)]
        BY <4>1, ConcatProperties
      <4> QED BY <4>2 DEF B
    <3> QED BY <1>1, <3>1
  <2>2. ASSUME NEW i \in 1 .. Len(s) + Len(t) PROVE mu[i] = (ms \o mt)[i]
    <3>1. CASE i <= Len(s)
      <4>1. i \in 1 .. Len(s)
        BY <1>0, <3>1
      <4>2. ms[i] = F[s[i]]
        BY <1>2, <4>1
      <4>3. (ms \o mt)[i] = ms[i]
        BY <2>1, <3>1
      <4>4. (s \o t)[i] = s[i]
        BY <1>0, <3>1
      <4>5. mu[i] = F[(s \o t)[i]]
        BY <1>4
      <4> QED BY <4>2, <4>3, <4>4, <4>5
    <3>2. CASE ~(i <= Len(s))
      <4>1. i - Len(s) \in 1 .. Len(t)
        BY <1>0, <3>2
      <4>2. mt[i - Len(s)] = F[t[i - Len(s)]]
        BY <1>3, <4>1
      <4>3. (ms \o mt)[i] = mt[i - Len(s)]
        BY <2>1, <3>2
      <4>4. (s \o t)[i] = t[i - Len(s)]
        BY <1>0, <3>2
      <4>5. mu[i] = F[(s \o t)[i]]
        BY <1>4
      <4> QED BY <4>2, <4>3, <4>4, <4>5
    <3> QED BY <3>1, <3>2
  <2> QED BY <1>1, <2>1, <2>2, SeqEqual
<1>6. FlattenSeq(ms \o mt) = FlattenSeq(ms) \o FlattenSeq(mt)
  BY <1>1, FlattenConcat
<1> QED BY <1>5, <1>6 DEF Joined, ms, mt, mu

(* Joining three sequences.                                                *)
LEMMA Regroup ==
    ASSUME NEW S, NEW s \in Seq(S), NEW t \in Seq(S), NEW u \in Seq(S)
    PROVE  (s \o t) \o u = s \o (t \o u) /\ s \o t \in Seq(S)
<1>1. (s \o t) \o u = s \o (t \o u)
  OBVIOUS
<1>2. s \o t \in Seq(S)
  OBVIOUS
<1> QED BY <1>1, <1>2

(* A single element.                                                       *)
LEMMA JoinedOne ==
    ASSUME NEW E, NEW A, NEW F, MapsTo(F, E, A), NEW x \in E
    PROVE  Joined(F, << x >>) = F[x]
<1> DEFINE m == [i \in DOMAIN << x >> |-> F[<< x >>[i]]]
<1>1. F[x] \in Seq(A) /\ << >> \in Seq(Seq(A)) /\ << >> \in Seq(A)
  BY EmptySeq DEF MapsTo
<1>2. m = << F[x] >>
  OBVIOUS
<1>3. << F[x] >> = Append(<< >>, F[x])
  OBVIOUS
<1> HIDE DEF m
<1>4. FlattenSeq(Append(<< >>, F[x])) = << >> \o F[x]
  BY <1>1, FlattenAppend, FlattenNone
<1>5. << >> \o F[x] = F[x]
  BY <1>1, ConcatEmptySeq
<1>6. FlattenSeq(m) = F[x]
  BY <1>2, <1>3, <1>4, <1>5
<1> QED BY <1>6 DEF Joined, m
-----------------------------------------------------------------------------
(* Items, their bytes, and what is left of a body.                         *)

Items == Bodies \cup {Heartbeat}

EscapeOf == [b \in Bytes |-> IF b = DLE THEN << DLE, DLE >> ELSE << b >>]
EncodedOf == [x \in Items |-> EncodeItem(x)]
KeptPart == [x \in Items |-> IF Kept(x) THEN << x >> ELSE << >>]

(* A body is a sequence of at least HeaderSize bytes.                      *)
LEMMA BodyType ==
    ASSUME NEW x \in Bodies
    PROVE  x \in Seq(Bytes) /\ Len(x) \in Nat /\ Len(x) >= HeaderSize /\ x # Heartbeat
<1>1. PICK n \in HeaderSize .. MaxBodySize : x \in [1 .. n -> {DLE, STX, ETX, ENQ, Plain}]
  BY DEF Bodies
<1>2. n \in Nat /\ n >= HeaderSize /\ n # 0
  BY ParserAssumption
<1>3. x \in [1 .. n -> Bytes]
  BY <1>1 DEF Bytes, DLE, STX, ETX, ENQ, Plain
<1>4. x \in Seq(Bytes) /\ Len(x) = n
  BY <1>2, <1>3, SeqDef
<1>5. Len(Heartbeat) = 0
  BY DEF Heartbeat
<1> QED BY <1>2, <1>4, <1>5

(* An item is a sequence of bytes.                                         *)
LEMMA ItemType == ASSUME NEW x \in Items PROVE x \in Seq(Bytes)
<1>1. Heartbeat \in Seq(Bytes)
  BY EmptySeq DEF Heartbeat
<1> QED BY <1>1, BodyType DEF Items

(* The escape of a byte.                                                   *)
LEMMA EscapeType == MapsTo(EscapeOf, Bytes, Bytes)
<1>1. DLE \in Bytes
  BY DEF Bytes, DLE
<1>2. \A b \in Bytes : << b >> \in Seq(Bytes) /\ << DLE, DLE >> \in Seq(Bytes)
  BY <1>1
<1> QED BY <1>2 DEF EscapeOf, MapsTo

(* dleEncode joins the escapes of the bytes.                               *)
LEMMA EncodeIsJoined ==
    ASSUME NEW s \in Seq(Bytes)
    PROVE  DleEncode(s) = Joined(EscapeOf, s) /\ DleEncode(s) \in Seq(Bytes)
<1>1. DOMAIN s = 1 .. Len(s) /\ \A i \in 1 .. Len(s) : s[i] \in Bytes
  BY LenProperties, ElementOfSeq
<1>2. \A i \in DOMAIN s : EscapeOf[s[i]] = IF s[i] = DLE THEN << DLE, DLE >> ELSE << s[i] >>
  BY <1>1 DEF EscapeOf
<1>3. [i \in DOMAIN s |-> EscapeOf[s[i]]]
        = [i \in DOMAIN s |-> IF s[i] = DLE THEN << DLE, DLE >> ELSE << s[i] >>]
  BY <1>2
<1>4. DleEncode(s) = Joined(EscapeOf, s)
  BY <1>3 DEF DleEncode, Joined
<1>5. Joined(EscapeOf, s) \in Seq(Bytes)
  BY EscapeType, JoinedType
<1> QED BY <1>4, <1>5

(* The bytes are escaped one after the other.                              *)
LEMMA EncodeFirst ==
    ASSUME NEW b \in Bytes, NEW t \in Seq(Bytes)
    PROVE  /\ DleEncode(<< b >> \o t) = EscapeOf[b] \o DleEncode(t)
           /\ EscapeOf[b] \in Seq(Bytes)
<1>1. MapsTo(EscapeOf, Bytes, Bytes)
  BY EscapeType
<1>2. Joined(EscapeOf, << b >> \o t) = EscapeOf[b] \o Joined(EscapeOf, t)
  <2> DEFINE s == << b >>
  <2>1. s \in Seq(Bytes)
    OBVIOUS
  <2>2. Joined(EscapeOf, s) = EscapeOf[b]
    BY <1>1, JoinedOne
  <2> HIDE DEF s
  <2>3. Joined(EscapeOf, s \o t) = Joined(EscapeOf, s) \o Joined(EscapeOf, t)
    BY <1>1, <2>1, JoinedConcat
  <2> QED BY <2>2, <2>3 DEF s
<1>3. << b >> \o t \in Seq(Bytes)
  OBVIOUS
<1>4. DleEncode(<< b >> \o t) = Joined(EscapeOf, << b >> \o t)
  BY <1>3, EncodeIsJoined
<1>5. DleEncode(t) = Joined(EscapeOf, t)
  BY EncodeIsJoined
<1>6. EscapeOf[b] \in Seq(Bytes)
  BY <1>1 DEF MapsTo
<1> QED BY <1>2, <1>4, <1>5, <1>6

(* The first byte of a sequence, and the first of several.                 *)
LEMMA ConsParts ==
    ASSUME NEW A, NEW a \in A, NEW s \in Seq(A)
    PROVE  << a >> \o s # << >> /\ Head(<< a >> \o s) = a /\ Tail(<< a >> \o s) = s
           /\ << a >> \o s \in Seq(A)
OBVIOUS

(* ... in front of more.                                                   *)
LEMMA ConsConcat ==
    ASSUME NEW A, NEW a \in A, NEW s \in Seq(A), NEW t \in Seq(A)
    PROVE  (<< a >> \o s) \o t = << a >> \o (s \o t)
OBVIOUS

(* The facts about sequences of bytes that the rest of the proof uses.     *)
(* They are stated for Cat and One, which stay folded: so the provers see  *)
(* these facts and not the definition of \o.                               *)
ByteSeq == Seq(Bytes)
Cat(s, t) == s \o t
One(b) == << b >>

(* Joining sequences of bytes.                                             *)
LEMMA CatFacts ==
    /\ << >> \in ByteSeq
    /\ \A s, t \in ByteSeq : Cat(s, t) \in ByteSeq
    /\ \A s, t, u \in ByteSeq : Cat(Cat(s, t), u) = Cat(s, Cat(t, u))
    /\ \A s \in ByteSeq : Cat(s, << >>) = s /\ Cat(<< >>, s) = s
<1>1. \A s, t, u \in Seq(Bytes) : (s \o t) \o u = s \o (t \o u)
  OBVIOUS
<1>2. \A s, t \in Seq(Bytes) : s \o t \in Seq(Bytes)
  OBVIOUS
<1>3. \A s \in Seq(Bytes) : s \o << >> = s /\ << >> \o s = s
  OBVIOUS
<1> QED BY <1>1, <1>2, <1>3, EmptySeq DEF Cat, ByteSeq

(* What is left of a body begins with its next byte, or with the escape of *)
(* it, and is the end of the frame after the last.                         *)
LEMMA RestCases ==
    ASSUME NEW body \in Seq(Bytes), NEW j \in 0 .. Len(body)
    PROVE  /\ Rest(body, j) \in Seq(Bytes)
           /\ j = Len(body) => Rest(body, j) = << DLE >> \o << ETX >>
           /\ j < Len(body) /\ body[j + 1] = DLE =>
                 Rest(body, j) = << DLE >> \o (<< DLE >> \o Rest(body, j + 1))
           /\ j < Len(body) /\ body[j + 1] # DLE =>
                 Rest(body, j) = << body[j + 1] >> \o Rest(body, j + 1)
<1> DEFINE end == << DLE, ETX >>
<1>0. Len(body) \in Nat /\ end \in Seq(Bytes) /\ end = << DLE >> \o << ETX >>
      /\ DLE \in Bytes /\ ETX \in Bytes
  BY LenProperties DEF Bytes, DLE, ETX
<1>1. \A i \in 1 .. Len(body) + 1 : TailFrom(body, i) \in Seq(Bytes)
  <2> TAKE i \in 1 .. Len(body) + 1
  <2>1. \A l \in i .. Len(body) : body[l] \in Bytes
    BY <1>0, ElementOfSeq
  <2> QED BY <1>0, <2>1, SubSeqProperties DEF TailFrom
<1>2. \A i \in 0 .. Len(body) : DleEncode(TailFrom(body, i + 1)) \in Seq(Bytes)
  BY <1>0, <1>1, EncodeIsJoined
<1>3. \A i \in 0 .. Len(body) : Rest(body, i) \in Seq(Bytes)
  BY <1>0, <1>2, ConcatProperties DEF Rest
<1>4. ASSUME j = Len(body) PROVE Rest(body, j) = end
  <2>1. TailFrom(body, j + 1) = << >>
    BY <1>0, <1>4, SubSeqEmpty DEF TailFrom
  <2>2. DleEncode(<< >>) = << >>
    BY EncodeIsJoined, JoinedNone, EmptySeq
  <2>3. << >> \o end = end
    BY <1>0, ConcatEmptySeq
  <2> QED BY <2>1, <2>2, <2>3 DEF Rest
<1>5. ASSUME j < Len(body)
      PROVE  /\ j + 1 \in 0 .. Len(body) /\ body[j + 1] \in Bytes
             /\ Rest(body, j) = EscapeOf[body[j + 1]] \o Rest(body, j + 1)
  <2> DEFINE b == body[j + 1]
             rest == TailFrom(body, j + 2)
             d == DleEncode(rest)
  <2>1. j + 1 \in 1 .. Len(body) /\ j + 1 \in 0 .. Len(body) /\ b \in Bytes
        /\ rest \in Seq(Bytes) /\ << b >> \in Seq(Bytes) /\ (j + 1) + 1 = j + 2
    BY <1>0, <1>1, <1>5, ElementOfSeq
  <2>2. TailFrom(body, j + 1) = << b >> \o rest
    <3>1. Len(body) \in j + 1 .. Len(body)
      BY <1>0, <1>5
    <3> QED BY <2>1, <3>1, SubSeqRecursiveFirst DEF TailFrom
  <2>3. DleEncode(<< b >> \o rest) = EscapeOf[b] \o d /\ d \in Seq(Bytes)
        /\ EscapeOf[b] \in Seq(Bytes)
    <3> HIDE DEF b, rest
    <3> QED BY <2>1, EncodeFirst, EncodeIsJoined
  <2>4. (EscapeOf[b] \o d) \o end = EscapeOf[b] \o (d \o end)
    <3> DEFINE e == EscapeOf[b]
    <3>1. e \in Seq(Bytes) /\ d \in Seq(Bytes) /\ end \in Seq(Bytes)
      BY <1>0, <2>3
    <3> HIDE DEF e, d, end
    <3>2. Cat(Cat(e, d), end) = Cat(e, Cat(d, end))
      BY <3>1, CatFacts DEF ByteSeq
    <3> QED BY <3>2 DEF e, Cat
  <2> QED BY <2>1, <2>2, <2>3, <2>4 DEF Rest
<1> HIDE DEF end
<1>6. ASSUME j < Len(body), body[j + 1] = DLE
      PROVE  Rest(body, j) = << DLE >> \o (<< DLE >> \o Rest(body, j + 1))
  <2> DEFINE r == Rest(body, j + 1)
  <2>1. EscapeOf[DLE] = << DLE >> \o << DLE >> /\ r \in Seq(Bytes)
    BY <1>0, <1>3, <1>5, <1>6 DEF EscapeOf
  <2>2. Rest(body, j) = (<< DLE >> \o << DLE >>) \o r
    BY <1>5, <1>6, <2>1
  <2> HIDE DEF r
  <2>3. (<< DLE >> \o << DLE >>) \o r = << DLE >> \o (<< DLE >> \o r)
    BY <1>0, <2>1, ConsConcat
  <2> QED BY <2>2, <2>3 DEF r
<1>7. ASSUME j < Len(body), body[j + 1] # DLE
      PROVE  Rest(body, j) = << body[j + 1] >> \o Rest(body, j + 1)
  <2>1. EscapeOf[body[j + 1]] = << body[j + 1] >>
    BY <1>5, <1>7 DEF EscapeOf
  <2> QED BY <1>5, <1>7, <2>1
<1> QED BY <1>0, <1>3, <1>4, <1>6, <1>7

(* A sequence of two.                                                      *)
LEMMA Pair ==
    ASSUME NEW a \in Bytes, NEW b \in Bytes
    PROVE  << a, b >> = << a >> \o << b >>
<1>1. /\ << a >> \in Seq(Bytes) /\ << b >> \in Seq(Bytes) /\ << a, b >> \in Seq(Bytes)
      /\ Len(<< a >>) = 1 /\ Len(<< b >>) = 1 /\ Len(<< a, b >>) = 2
  OBVIOUS
<1>2. << a, b >> = Append(<< a >>, b)
  OBVIOUS
<1>3. Append(<< a >>, b) = << a >> \o << b >>
  BY <1>1, AppendIsConcat
<1> QED BY <1>2, <1>3

(* The first of some bytes.                                                *)
LEMMA ConsFacts ==
    /\ \A b \in Bytes : One(b) \in ByteSeq
    /\ \A b \in Bytes, s \in ByteSeq :
          /\ Cat(One(b), s) # << >>
          /\ Head(Cat(One(b), s)) = b
          /\ Tail(Cat(One(b), s)) = s
<1>1. \A b \in Bytes : << b >> \in Seq(Bytes)
  OBVIOUS
<1>2. \A b \in Bytes, s \in Seq(Bytes) :
          << b >> \o s # << >> /\ Head(<< b >> \o s) = b /\ Tail(<< b >> \o s) = s
  BY ConsParts
<1> QED BY <1>1, <1>2 DEF Cat, One, ByteSeq

(* w is the byte b and then t.                                             *)
Starts(w, b, t) == w # << >> /\ Head(w) = b /\ Tail(w) = t

(* The first byte of two sequences of bytes.                               *)
LEMMA CatStarts ==
    ASSUME NEW b \in Bytes, NEW t \in ByteSeq, NEW l \in ByteSeq
    PROVE  /\ Starts(Cat(Cat(One(b), t), l), b, Cat(t, l))
           /\ Head(Cat(One(b), t)) = b /\ Tail(Cat(One(b), t)) = t
           /\ Starts(Cat(One(b), l), b, l)
           /\ Cat(One(b), t) \in ByteSeq /\ One(b) \in ByteSeq
<1>1. One(b) \in ByteSeq /\ Cat(t, l) \in ByteSeq /\ Cat(One(b), t) \in ByteSeq
  BY CatFacts, ConsFacts
<1>2. Cat(Cat(One(b), t), l) = Cat(One(b), Cat(t, l))
  BY <1>1, CatFacts
<1>3. Starts(Cat(One(b), Cat(t, l)), b, Cat(t, l)) /\ Starts(Cat(One(b), l), b, l)
      /\ Starts(Cat(One(b), t), b, t)
  BY <1>1, ConsFacts DEF Starts
<1>4. Head(Cat(One(b), t)) = b /\ Tail(Cat(One(b), t)) = t
  BY <1>3 DEF Starts
<1> QED BY <1>1, <1>2, <1>3, <1>4

(* The control bytes.                                                      *)
LEMMA Controls ==
    /\ DLE \in Bytes /\ STX \in Bytes /\ ETX \in Bytes /\ ENQ \in Bytes
    /\ DLE # STX /\ DLE # ETX /\ DLE # ENQ /\ STX # ETX /\ STX # ENQ /\ ETX # ENQ
BY DEF Bytes, DLE, STX, ETX, ENQ

(* What is left of a body.                                                 *)
LEMMA RestFacts ==
    ASSUME NEW body \in Seq(Bytes), NEW j \in 0 .. Len(body)
    PROVE  /\ Rest(body, j) \in ByteSeq
           /\ j = Len(body) => Rest(body, j) = Cat(One(DLE), One(ETX))
           /\ j < Len(body) /\ body[j + 1] = DLE =>
                 /\ Rest(body, j) = Cat(One(DLE), Cat(One(DLE), Rest(body, j + 1)))
                 /\ Rest(body, j + 1) \in ByteSeq
           /\ j < Len(body) /\ body[j + 1] # DLE =>
                 /\ Rest(body, j) = Cat(One(body[j + 1]), Rest(body, j + 1))
                 /\ Rest(body, j + 1) \in ByteSeq /\ body[j + 1] \in Bytes
<1>1. ASSUME j < Len(body) PROVE Rest(body, j + 1) \in Seq(Bytes) /\ body[j + 1] \in Bytes
  <2>1. j + 1 \in 0 .. Len(body) /\ j + 1 \in 1 .. Len(body)
    BY <1>1, LenProperties
  <2>2. Rest(body, j + 1) \in Seq(Bytes)
    BY <2>1, RestCases
  <2>3. body[j + 1] \in Bytes
    BY <2>1, ElementOfSeq
  <2> QED BY <2>2, <2>3
<1> QED BY <1>1, RestCases DEF Cat, One, ByteSeq

(* An item begins with a DLE.                                              *)
LEMMA ItemBytes ==
    ASSUME NEW x \in Items
    PROVE  /\ x = Heartbeat => EncodeItem(x) = Cat(One(DLE), One(ENQ))
           /\ x # Heartbeat => /\ EncodeItem(x) = Cat(One(DLE), Cat(One(STX), Rest(x, 0)))
                               /\ Rest(x, 0) \in ByteSeq /\ x \in Bodies
           /\ EncodeItem(x) \in ByteSeq
<1>1. CASE x = Heartbeat
  <2>1. EncodeItem(x) = Cat(One(DLE), One(ENQ))
    BY <1>1 DEF EncodeItem, EncodeHeartbeat, Cat, One
  <2> QED BY <1>1, <2>1, CatFacts, ConsFacts, Controls
<1>2. CASE x # Heartbeat
  <2> DEFINE d == DleEncode(x)
             r == Rest(x, 0)
             end == << DLE, ETX >>
             begin == << DLE, STX >>
  <2>1. x \in Bodies /\ x \in Seq(Bytes) /\ 0 \in 0 .. Len(x)
    BY <1>2, BodyType DEF Items
  <2>2. r \in ByteSeq
    BY <2>1, RestFacts
  <2>3. d \in ByteSeq
    BY <2>1, EncodeIsJoined DEF ByteSeq
  <2>4. end \in ByteSeq
    BY Controls DEF ByteSeq
  <2>5. r = Cat(d, end)
    <3>1. TailFrom(x, 0 + 1) = x
      BY <2>1, SubSeqFull DEF TailFrom
    <3> QED BY <3>1 DEF Rest, Cat
  <2>6. EncodeItem(x) = Cat(Cat(begin, d), end)
    BY <1>2 DEF EncodeItem, Encode, Cat
  <2>7. begin = Cat(One(DLE), One(STX))
    BY Pair, Controls DEF Cat, One
  <2> HIDE DEF d, r, end, begin
  <2>8. EncodeItem(x) = Cat(One(DLE), Cat(One(STX), r))
    <3> DEFINE o == One(DLE)
               s == One(STX)
    <3>1. o \in ByteSeq /\ s \in ByteSeq
      BY ConsFacts, Controls
    <3> HIDE DEF o, s
    <3>2. Cat(Cat(o, s), d) = Cat(o, Cat(s, d)) /\ Cat(s, d) \in ByteSeq
      BY <2>3, <3>1, CatFacts
    <3>3. Cat(Cat(o, Cat(s, d)), end) = Cat(o, Cat(Cat(s, d), end))
      BY <2>4, <3>1, <3>2, CatFacts
    <3>4. Cat(Cat(s, d), end) = Cat(s, Cat(d, end))
      BY <2>3, <2>4, <3>1, CatFacts
    <3>5. EncodeItem(x) = Cat(Cat(Cat(o, s), d), end)
      BY <2>6, <2>7 DEF o, s
    <3> QED BY <2>5, <3>2, <3>3, <3>4, <3>5 DEF o, s
  <2>9. EncodeItem(x) \in ByteSeq
    BY <2>2, <2>8, CatFacts, ConsFacts, Controls
  <2> QED BY <1>2, <2>1, <2>2, <2>8, <2>9 DEF r
<1> QED BY <1>1, <1>2

(* The first byte of what is left of a body, and of an item, with more     *)
(* after it.                                                               *)
LEMMA RestStarts ==
    ASSUME NEW body \in Seq(Bytes), NEW j \in 0 .. Len(body), NEW l \in ByteSeq
    PROVE  LET r == Rest(body, j)
               q == Rest(body, j + 1)
           IN
           /\ j = Len(body) => /\ Head(r) = DLE /\ Starts(Cat(r, l), DLE, Cat(Tail(r), l))
                               /\ Starts(Cat(Tail(r), l), ETX, l)
           /\ j < Len(body) /\ body[j + 1] = DLE =>
                 /\ Head(r) = DLE /\ Starts(Cat(r, l), DLE, Cat(Tail(r), l))
                 /\ Starts(Cat(Tail(r), l), DLE, Cat(q, l))
           /\ j < Len(body) /\ body[j + 1] # DLE =>
                 /\ Head(r) # DLE /\ body[j + 1] \in Bytes
                 /\ Starts(Cat(r, l), body[j + 1], Cat(q, l))
<1> DEFINE r == Rest(body, j)
           q == Rest(body, j + 1)
           b == body[j + 1]
<1>1. /\ j = Len(body) => r = Cat(One(DLE), One(ETX))
      /\ j < Len(body) /\ b = DLE => r = Cat(One(DLE), Cat(One(DLE), q)) /\ q \in ByteSeq
      /\ j < Len(body) /\ b # DLE => r = Cat(One(b), q) /\ q \in ByteSeq /\ b \in Bytes
  BY RestFacts
<1> HIDE DEF r, q, b
<1>2. ASSUME j = Len(body)
      PROVE  /\ Head(r) = DLE /\ Starts(Cat(r, l), DLE, Cat(Tail(r), l))
             /\ Starts(Cat(Tail(r), l), ETX, l)
  <2>1. One(ETX) \in ByteSeq
    BY CatStarts, Controls
  <2>2. Starts(Cat(Cat(One(DLE), One(ETX)), l), DLE, Cat(One(ETX), l))
        /\ Head(Cat(One(DLE), One(ETX))) = DLE /\ Tail(Cat(One(DLE), One(ETX))) = One(ETX)
    BY <2>1, CatStarts, Controls
  <2>3. Starts(Cat(One(ETX), l), ETX, l)
    BY CatStarts, Controls
  <2> QED BY <1>1, <1>2, <2>2, <2>3
<1>3. ASSUME j < Len(body), b = DLE
      PROVE  /\ Head(r) = DLE /\ Starts(Cat(r, l), DLE, Cat(Tail(r), l))
             /\ Starts(Cat(Tail(r), l), DLE, Cat(q, l))
  <2> DEFINE t == Cat(One(DLE), q)
  <2>1. t \in ByteSeq /\ Starts(Cat(t, l), DLE, Cat(q, l))
    BY <1>1, <1>3, CatStarts, Controls
  <2> HIDE DEF t
  <2>2. Starts(Cat(Cat(One(DLE), t), l), DLE, Cat(t, l))
        /\ Head(Cat(One(DLE), t)) = DLE /\ Tail(Cat(One(DLE), t)) = t
    BY <2>1, CatStarts, Controls
  <2>3. r = Cat(One(DLE), t)
    BY <1>1, <1>3 DEF t
  <2> QED BY <2>1, <2>2, <2>3
<1>4. ASSUME j < Len(body), b # DLE
      PROVE  Head(r) # DLE /\ b \in Bytes /\ Starts(Cat(r, l), b, Cat(q, l))
  BY <1>1, <1>4, CatStarts
<1> QED BY <1>2, <1>3, <1>4 DEF r, q, b

(* The first byte of an item, and of what follows it.                      *)
LEMMA ItemStarts ==
    ASSUME NEW x \in Items, NEW l \in ByteSeq
    PROVE  LET t == Tail(EncodeItem(x)) IN
           /\ Starts(Cat(EncodeItem(x), l), DLE, Cat(t, l))
           /\ x = Heartbeat => Starts(Cat(t, l), ENQ, l)
           /\ x # Heartbeat => Starts(Cat(t, l), STX, Cat(Rest(x, 0), l))
<1>1. CASE x = Heartbeat
  <2>1. EncodeItem(x) = Cat(One(DLE), One(ENQ))
    BY <1>1, ItemBytes
  <2>2. One(ENQ) \in ByteSeq /\ Starts(Cat(One(ENQ), l), ENQ, l)
    BY CatStarts, Controls
  <2>3. /\ Starts(Cat(Cat(One(DLE), One(ENQ)), l), DLE, Cat(One(ENQ), l))
        /\ Tail(Cat(One(DLE), One(ENQ))) = One(ENQ)
    BY <2>2, CatStarts, Controls
  <2> QED BY <1>1, <2>1, <2>2, <2>3
<1>2. CASE x # Heartbeat
  <2> DEFINE r == Rest(x, 0)
             t == Cat(One(STX), r)
  <2>1. EncodeItem(x) = Cat(One(DLE), t) /\ r \in ByteSeq
    BY <1>2, ItemBytes
  <2> HIDE DEF r
  <2>2. t \in ByteSeq /\ Starts(Cat(t, l), STX, Cat(r, l))
    BY <2>1, CatStarts, Controls
  <2> HIDE DEF t
  <2>3. Starts(Cat(Cat(One(DLE), t), l), DLE, Cat(t, l)) /\ Tail(Cat(One(DLE), t)) = t
    BY <2>2, CatStarts, Controls
  <2> QED BY <1>2, <2>1, <2>2, <2>3 DEF r
<1> QED BY <1>1, <1>2

(* The streams of items, and the items that are kept, as joined sequences. *)
LEMMA StreamIsJoined ==
    ASSUME NEW s \in Seq(Items)
    PROVE  Stream(s) = Joined(EncodedOf, s) /\ Stream(s) \in Seq(Bytes)
           /\ MapsTo(EncodedOf, Items, Bytes)
<1>1. DOMAIN s = 1 .. Len(s) /\ \A i \in 1 .. Len(s) : s[i] \in Items
  BY LenProperties, ElementOfSeq
<1>2. MapsTo(EncodedOf, Items, Bytes)
  BY ItemBytes DEF EncodedOf, MapsTo, ByteSeq
<1>3. [i \in DOMAIN s |-> EncodedOf[s[i]]] = [i \in DOMAIN s |-> EncodeItem(s[i])]
  BY <1>1 DEF EncodedOf
<1>4. Stream(s) = Joined(EncodedOf, s)
  BY <1>3 DEF Stream, Joined
<1>5. Joined(EncodedOf, s) \in Seq(Bytes)
  BY <1>2, JoinedType
<1> QED BY <1>2, <1>4, <1>5

(* The items that are kept.                                                *)
LEMMA KeptIsJoined ==
    ASSUME NEW s \in Seq(Items)
    PROVE  KeptOf(s) = Joined(KeptPart, s) /\ KeptOf(s) \in Seq(Items)
           /\ MapsTo(KeptPart, Items, Items)
<1>1. DOMAIN s = 1 .. Len(s) /\ \A i \in 1 .. Len(s) : s[i] \in Items
  BY LenProperties, ElementOfSeq
<1>2. MapsTo(KeptPart, Items, Items)
  <2>1. \A x \in Items : << x >> \in Seq(Items) /\ << >> \in Seq(Items)
    BY EmptySeq
  <2>2. \A x \in Items : (IF Kept(x) THEN << x >> ELSE << >>) \in Seq(Items)
    BY <2>1
  <2> QED BY <2>2 DEF KeptPart, MapsTo
<1>3. \A i \in DOMAIN s : KeptPart[s[i]] = IF Kept(s[i]) THEN << s[i] >> ELSE << >>
  BY <1>1 DEF KeptPart
<1>4. [i \in DOMAIN s |-> KeptPart[s[i]]]
        = [i \in DOMAIN s |-> IF Kept(s[i]) THEN << s[i] >> ELSE << >>]
  BY <1>3
<1>5. KeptOf(s) = Joined(KeptPart, s)
  BY <1>4 DEF KeptOf, Joined
<1>6. Joined(KeptPart, s) \in Seq(Items)
  BY <1>2, JoinedType
<1> QED BY <1>2, <1>5, <1>6

(* Streams one after the other, and the stream of one item.                *)
LEMMA StreamConcat ==
    ASSUME NEW s \in Seq(Items), NEW t \in Seq(Items)
    PROVE  Stream(s \o t) = Stream(s) \o Stream(t)
<1>1. s \o t \in Seq(Items)
  BY ConcatProperties
<1>2. MapsTo(EncodedOf, Items, Bytes)
  BY StreamIsJoined
<1>3. Joined(EncodedOf, s \o t) = Joined(EncodedOf, s) \o Joined(EncodedOf, t)
  BY <1>2, JoinedConcat
<1>4. Stream(s) = Joined(EncodedOf, s) /\ Stream(t) = Joined(EncodedOf, t)
  BY StreamIsJoined
<1>5. Stream(s \o t) = Joined(EncodedOf, s \o t)
  BY <1>1, StreamIsJoined
<1> QED BY <1>3, <1>4, <1>5

(* The stream of one item.                                                 *)
LEMMA StreamOne ==
    ASSUME NEW x \in Items
    PROVE  Stream(<< x >>) = EncodeItem(x)
<1>1. << x >> \in Seq(Items)
  OBVIOUS
<1>2. MapsTo(EncodedOf, Items, Bytes) /\ Stream(<< x >>) = Joined(EncodedOf, << x >>)
  BY <1>1, StreamIsJoined
<1>3. Joined(EncodedOf, << x >>) = EncodedOf[x]
  BY <1>2, JoinedOne
<1> QED BY <1>2, <1>3 DEF EncodedOf

(* What is kept of sequences one after the other, and of one item.         *)
LEMMA KeptConcat ==
    ASSUME NEW s \in Seq(Items), NEW t \in Seq(Items)
    PROVE  KeptOf(s \o t) = KeptOf(s) \o KeptOf(t)
<1>1. s \o t \in Seq(Items)
  BY ConcatProperties
<1>2. MapsTo(KeptPart, Items, Items)
  BY KeptIsJoined
<1>3. Joined(KeptPart, s \o t) = Joined(KeptPart, s) \o Joined(KeptPart, t)
  BY <1>2, JoinedConcat
<1>4. KeptOf(s) = Joined(KeptPart, s) /\ KeptOf(t) = Joined(KeptPart, t)
  BY KeptIsJoined
<1>5. KeptOf(s \o t) = Joined(KeptPart, s \o t)
  BY <1>1, KeptIsJoined
<1> QED BY <1>3, <1>4, <1>5

(* What is kept of one item.                                               *)
LEMMA KeptOne ==
    ASSUME NEW x \in Items
    PROVE  KeptOf(<< x >>) = IF Kept(x) THEN << x >> ELSE << >>
<1>1. << x >> \in Seq(Items)
  OBVIOUS
<1>2. MapsTo(KeptPart, Items, Items) /\ KeptOf(<< x >>) = Joined(KeptPart, << x >>)
  BY <1>1, KeptIsJoined
<1>3. Joined(KeptPart, << x >>) = KeptPart[x]
  BY <1>2, JoinedOne
<1> QED BY <1>2, <1>3 DEF KeptPart
-----------------------------------------------------------------------------
(* Parts of the sequence of items sent.                                    *)

(* A part of a sequence of items is one.                                   *)
LEMMA PartType ==
    ASSUME NEW s \in Seq(Items), NEW a \in Nat \ {0}, NEW n \in 0 .. Len(s)
    PROVE  SubSeq(s, a, n) \in Seq(Items)
<1>1. \A i \in a .. n : s[i] \in Items
  <2> TAKE i \in a .. n
  <2>1. i \in 1 .. Len(s)
    BY LenProperties
  <2> QED BY <2>1, ElementOfSeq
<1>2. a \in Int /\ n \in Int
  BY LenProperties
<1> QED BY <1>1, <1>2, SubSeqProperties

(* The bytes of the items that are yet to come.                            *)
LEMMA LaterSplit ==
    ASSUME NEW s \in Seq(Items), NEW n \in 0 .. Len(s)
    PROVE  /\ Stream(TailFrom(s, n + 1)) \in ByteSeq
           /\ n = Len(s) => Stream(TailFrom(s, n + 1)) = << >>
           /\ n < Len(s) =>
                 /\ s[n + 1] \in Items
                 /\ Stream(TailFrom(s, n + 1)) = Cat(EncodeItem(s[n + 1]), Stream(TailFrom(s, n + 1 + 1)))
<1>0. Len(s) \in Nat /\ n \in Nat
  BY LenProperties
<1>1. Stream(TailFrom(s, n + 1)) \in ByteSeq
  <2>1. TailFrom(s, n + 1) \in Seq(Items)
    <3>1. n + 1 \in Nat \ {0} /\ Len(s) \in 0 .. Len(s)
      BY <1>0
    <3> QED BY <3>1, PartType DEF TailFrom
  <2> QED BY <2>1, StreamIsJoined DEF ByteSeq
<1>2. ASSUME n = Len(s) PROVE Stream(TailFrom(s, n + 1)) = << >>
  <2>1. TailFrom(s, n + 1) = << >>
    BY <1>0, <1>2, SubSeqEmpty DEF TailFrom
  <2>2. << >> \in Seq(Items)
    BY EmptySeq
  <2>3. Stream(<< >>) = Joined(EncodedOf, << >>)
    BY <2>2, StreamIsJoined
  <2>4. Joined(EncodedOf, << >>) = << >>
    BY JoinedNone
  <2> QED BY <2>1, <2>3, <2>4
<1>3. ASSUME n < Len(s)
      PROVE  /\ s[n + 1] \in Items
             /\ Stream(TailFrom(s, n + 1)) = Cat(EncodeItem(s[n + 1]), Stream(TailFrom(s, n + 1 + 1)))
  <2> DEFINE x == s[n + 1]
             o == << x >>
             t == TailFrom(s, n + 1 + 1)
  <2>1. n + 1 \in 1 .. Len(s) /\ Len(s) \in n + 1 .. Len(s) /\ n + 1 + 1 \in Nat \ {0}
        /\ Len(s) \in 0 .. Len(s)
    BY <1>0, <1>3
  <2>2. x \in Items
    BY <2>1, ElementOfSeq
  <2>3. TailFrom(s, n + 1) = o \o t
    BY <2>1, SubSeqRecursiveFirst DEF TailFrom
  <2>4. t \in Seq(Items)
    BY <2>1, PartType DEF TailFrom
  <2>5. o \in Seq(Items)
    BY <2>2
  <2>6. Stream(o) = EncodeItem(x)
    BY <2>2, StreamOne
  <2> HIDE DEF o, t
  <2>7. Stream(o \o t) = Stream(o) \o Stream(t)
    BY <2>4, <2>5, StreamConcat
  <2> QED BY <2>2, <2>3, <2>6, <2>7 DEF Cat, t
<1> QED BY <1>1, <1>2, <1>3

(* Adding to a sequence leaves its parts, and adds to what follows its     *)
(* first h elements.                                                       *)
LEMMA PartSame ==
    ASSUME NEW S, NEW g \in Seq(S), NEW x \in S, NEW a \in Nat \ {0}, NEW n \in 0 .. Len(g)
    PROVE  SubSeq(Append(g, x), a, n) = SubSeq(g, a, n)
<1> DEFINE u == Append(g, x)
<1>0. Len(g) \in Nat /\ n \in Nat /\ \A i \in 1 .. Len(g) : u[i] = g[i]
  BY LenProperties, AppendProperties
<1>1. \A i \in a .. n : u[i] = g[i] /\ g[i] \in S /\ u[i] \in S
  <2> TAKE i \in a .. n
  <2>1. i \in 1 .. Len(g)
    BY <1>0
  <2> QED BY <1>0, <2>1, ElementOfSeq
<1>2. u \in Seq(S)
  BY AppendProperties
<1> HIDE DEF u
<1>3. /\ SubSeq(u, a, n) \in Seq(S)
      /\ Len(SubSeq(u, a, n)) = IF a <= n THEN n - a + 1 ELSE 0
      /\ \A i \in 1 .. n - a + 1 : SubSeq(u, a, n)[i] = u[a + i - 1]
  BY <1>0, <1>1, <1>2, SubSeqProperties
<1>4. /\ SubSeq(g, a, n) \in Seq(S)
      /\ Len(SubSeq(g, a, n)) = IF a <= n THEN n - a + 1 ELSE 0
      /\ \A i \in 1 .. n - a + 1 : SubSeq(g, a, n)[i] = g[a + i - 1]
  BY <1>0, <1>1, SubSeqProperties
<1>5. \A i \in 1 .. Len(SubSeq(g, a, n)) : SubSeq(u, a, n)[i] = SubSeq(g, a, n)[i]
  <2> TAKE i \in 1 .. Len(SubSeq(g, a, n))
  <2>1. i \in 1 .. n - a + 1 /\ a + i - 1 \in a .. n
    BY <1>0, <1>4
  <2> QED BY <1>1, <1>3, <1>4, <2>1
<1>6. SubSeq(u, a, n) = SubSeq(g, a, n)
  BY <1>3, <1>4, <1>5, SeqEqual
<1> QED BY <1>6 DEF u

LEMMA FromMore ==
    ASSUME NEW S, NEW g \in Seq(S), NEW x \in S, NEW h \in 0 .. Len(g)
    PROVE  /\ h \in 0 .. Len(Append(g, x))
           /\ TailFrom(Append(g, x), h + 1) = TailFrom(g, h + 1) \o << x >>
<1> DEFINE l == Len(g)
           u == Append(g, x)
<1>0. l \in Nat /\ h \in Nat /\ u \in Seq(S) /\ Len(u) = l + 1 /\ u[l + 1] = x
  BY LenProperties, AppendProperties
<1>1. /\ h + 1 \in 1 .. Len(u) /\ Len(u) \in h + 1 .. Len(u) /\ Len(u) - 1 = l
      /\ u[Len(u)] = x /\ h \in 0 .. Len(u) /\ h + 1 \in Nat \ {0} /\ l \in 0 .. l
  BY <1>0
<1>2. TailFrom(u, h + 1) = SubSeq(u, h + 1, l) \o << u[Len(u)] >>
  <2> HIDE DEF u, l
  <2>1. SubSeq(u, h + 1, Len(u)) = SubSeq(u, h + 1, Len(u) - 1) \o << u[Len(u)] >>
    BY <1>0, <1>1, SubSeqRecursiveSecond
  <2> QED BY <1>1, <2>1 DEF TailFrom
<1>3. SubSeq(u, h + 1, l) = TailFrom(g, h + 1)
  BY <1>1, PartSame DEF TailFrom
<1> QED BY <1>1, <1>2, <1>3

(* Sending an item adds its bytes at the end.                              *)
LEMMA LaterMore ==
    ASSUME NEW s \in Seq(Items), NEW x \in Items, NEW n \in 0 .. Len(s)
    PROVE  Stream(TailFrom(Append(s, x), n + 1)) = Cat(Stream(TailFrom(s, n + 1)), EncodeItem(x))
<1> DEFINE t == TailFrom(s, n + 1)
           o == << x >>
<1>1. t \in Seq(Items)
  <2>1. n + 1 \in Nat \ {0} /\ Len(s) \in 0 .. Len(s)
    BY LenProperties
  <2> QED BY <2>1, PartType DEF TailFrom
<1>2. o \in Seq(Items) /\ Stream(o) = EncodeItem(x)
  BY StreamOne
<1>3. TailFrom(Append(s, x), n + 1) = t \o o
  BY FromMore
<1> HIDE DEF t, o
<1>4. Stream(t \o o) = Stream(t) \o Stream(o)
  BY <1>1, <1>2, StreamConcat
<1> QED BY <1>2, <1>3, <1>4 DEF Cat, t

(* What is kept of a part and of the item after it.                        *)
LEMMA KeptNext ==
    ASSUME NEW s \in Seq(Items), NEW n \in 0 .. Len(s), n < Len(s), NEW a \in 1 .. n + 1
    PROVE  /\ KeptOf(SubSeq(s, a, n + 1)) = KeptOf(SubSeq(s, a, n))
                \o IF Kept(s[n + 1]) THEN << s[n + 1] >> ELSE << >>
           /\ KeptOf(SubSeq(s, a, n)) \in Seq(Items) /\ s[n + 1] \in Items
<1> DEFINE x == s[n + 1]
           o == << x >>
           t == SubSeq(s, a, n)
<1>0. Len(s) \in Nat /\ n \in Nat /\ n + 1 \in 1 .. Len(s) /\ a \in Nat \ {0}
      /\ a \in 1 .. Len(s) /\ n + 1 \in a .. Len(s) /\ (n + 1) - 1 = n
  BY LenProperties
<1>1. x \in Items
  BY <1>0, ElementOfSeq
<1>2. t \in Seq(Items)
  BY <1>0, PartType
<1>3. SubSeq(s, a, n + 1) = t \o o
  BY <1>0, SubSeqRecursiveSecond
<1>4. o \in Seq(Items)
  BY <1>1
<1>5. KeptOf(o) = IF Kept(x) THEN << x >> ELSE << >>
  BY <1>1, KeptOne
<1>6. KeptOf(t) \in Seq(Items)
  BY <1>2, KeptIsJoined
<1> HIDE DEF o, t
<1>7. KeptOf(t \o o) = KeptOf(t) \o KeptOf(o)
  BY <1>2, <1>4, KeptConcat
<1> QED BY <1>1, <1>3, <1>5, <1>6, <1>7 DEF t

(* What is kept of a part and of all that follows it.                      *)
LEMMA KeptSplit ==
    ASSUME NEW s \in Seq(Items), NEW n \in 0 .. Len(s), NEW a \in 1 .. n + 1
    PROVE  /\ KeptOf(TailFrom(s, a)) = KeptOf(SubSeq(s, a, n)) \o KeptOf(TailFrom(s, n + 1))
           /\ KeptOf(SubSeq(s, a, n)) \in Seq(Items) /\ KeptOf(TailFrom(s, n + 1)) \in Seq(Items)
<1> DEFINE p == SubSeq(s, a, n)
           q == TailFrom(s, n + 1)
<1>0. Len(s) \in Nat /\ n \in Nat /\ n + 1 \in Nat \ {0} /\ a \in Nat \ {0} /\ Len(s) \in 0 .. Len(s)
      /\ a \in 1 .. Len(s) + 1 /\ n \in a - 1 .. Len(s) /\ Len(s) \in n .. Len(s)
  BY LenProperties
<1>1. p \in Seq(Items)
  BY <1>0, PartType
<1>2. q \in Seq(Items)
  BY <1>0, PartType DEF TailFrom
<1>3. TailFrom(s, a) = p \o q
  BY <1>0, ConcatAdjacentSubSeq DEF TailFrom
<1>4. KeptOf(p) \in Seq(Items) /\ KeptOf(q) \in Seq(Items)
  BY <1>1, <1>2, KeptIsJoined
<1> HIDE DEF p, q
<1>5. KeptOf(p \o q) = KeptOf(p) \o KeptOf(q)
  BY <1>1, <1>2, KeptConcat
<1> QED BY <1>3, <1>4, <1>5 DEF p, q
-----------------------------------------------------------------------------
(* What the parser finds on the wire.                                      *)

(* The bytes of the items yet to come.                                     *)
LEMMA LaterFacts ==
    ASSUME sent \in Seq(Items), NEW n \in 0 .. Len(sent)
    PROVE  /\ Later(n) \in ByteSeq
           /\ n = Len(sent) => Later(n) = << >>
           /\ n < Len(sent) => /\ sent[n + 1] \in Items
                               /\ Later(n) = Cat(EncodeItem(sent[n + 1]), Later(n + 1))
                               /\ Later(n + 1) \in ByteSeq /\ n + 1 \in 0 .. Len(sent)
<1>1. ASSUME n < Len(sent) PROVE n + 1 \in 0 .. Len(sent)
  BY <1>1, LenProperties
<1>2. /\ Stream(TailFrom(sent, n + 1)) \in ByteSeq
      /\ n = Len(sent) => Stream(TailFrom(sent, n + 1)) = << >>
      /\ n < Len(sent) =>
            /\ sent[n + 1] \in Items
            /\ Stream(TailFrom(sent, n + 1))
                 = Cat(EncodeItem(sent[n + 1]), Stream(TailFrom(sent, n + 1 + 1)))
  BY LaterSplit
<1>3. ASSUME n < Len(sent) PROVE Stream(TailFrom(sent, n + 1 + 1)) \in ByteSeq
  BY <1>1, <1>3, LaterSplit
<1> QED BY <1>1, <1>2, <1>3 DEF Later

(* Between two items: a DLE, or nothing more.                              *)
LEMMA BetweenBytes ==
    ASSUME sent \in Seq(Items), NEW n \in 0 .. Len(sent), wire = Later(n), wire # << >>
    PROVE  /\ n < Len(sent) /\ Head(wire) = DLE
           /\ Tail(wire) = Tail(EncodeItem(sent[n + 1])) \o Later(n + 1)
<1>1. n < Len(sent)
  BY LaterFacts, LenProperties
<1>2. /\ sent[n + 1] \in Items /\ Later(n + 1) \in ByteSeq
      /\ wire = Cat(EncodeItem(sent[n + 1]), Later(n + 1))
  BY <1>1, LaterFacts
<1>3. Starts(wire, DLE, Cat(Tail(EncodeItem(sent[n + 1])), Later(n + 1)))
  BY <1>2, ItemStarts
<1> QED BY <1>1, <1>3 DEF Starts, Cat

(* After the DLE: ENQ, or STX and a body.                                  *)
LEMMA OpeningBytes ==
    ASSUME sent \in Seq(Items), NEW n \in 0 .. Len(sent), n < Len(sent),
           wire = Tail(EncodeItem(sent[n + 1])) \o Later(n + 1)
    PROVE  /\ wire # << >>
           /\ sent[n + 1] = Heartbeat => Head(wire) = ENQ /\ Tail(wire) = Later(n + 1)
           /\ sent[n + 1] # Heartbeat =>
                 Head(wire) = STX /\ Tail(wire) = Rest(sent[n + 1], 0) \o Later(n + 1)
<1>1. sent[n + 1] \in Items /\ Later(n + 1) \in ByteSeq
  BY LaterFacts
<1>2. wire = Cat(Tail(EncodeItem(sent[n + 1])), Later(n + 1))
  BY DEF Cat
<1>3. /\ sent[n + 1] = Heartbeat => Starts(wire, ENQ, Later(n + 1))
      /\ sent[n + 1] # Heartbeat => Starts(wire, STX, Cat(Rest(sent[n + 1], 0), Later(n + 1)))
  BY <1>1, <1>2, ItemStarts
<1> QED BY <1>3 DEF Starts, Cat

(* Inside a frame, or skipping one.                                        *)
LEMMA WireBytes ==
    ASSUME sent \in Seq(Items), NEW n \in 0 .. Len(sent), n < Len(sent),
           sent[n + 1] # Heartbeat, NEW j \in 0 .. Len(sent[n + 1]),
           NEW s1, NEW s2, WireAt(n, j, s1, s2)
    PROVE  LET x == sent[n + 1] IN
           /\ x \in Bodies /\ wire # << >>
           /\ \/ /\ state = s1 /\ j < Len(x) /\ x[j + 1] # DLE /\ x[j + 1] \in Bytes
                 /\ Head(wire) = x[j + 1]
                 /\ Tail(wire) = Rest(x, j + 1) \o Later(n + 1)
              \/ /\ state = s1 /\ Head(Rest(x, j)) = DLE /\ Head(wire) = DLE
                 /\ Tail(wire) = Tail(Rest(x, j)) \o Later(n + 1)
              \/ /\ state = s2 /\ j < Len(x) /\ x[j + 1] = DLE /\ Head(wire) = DLE
                 /\ Tail(wire) = Rest(x, j + 1) \o Later(n + 1)
              \/ /\ state = s2 /\ j = Len(x) /\ Head(wire) = ETX
                 /\ Tail(wire) = Later(n + 1)
<1> DEFINE x == sent[n + 1]
           l == Later(n + 1)
           r == Rest(x, j)
           q == Rest(x, j + 1)
<1>1. x \in Items /\ l \in ByteSeq
  BY LaterFacts
<1>2. x \in Bodies /\ x \in Seq(Bytes) /\ Len(x) \in Nat
  BY <1>1, BodyType DEF Items
<1>3. /\ j = Len(x) => /\ Head(r) = DLE /\ Starts(Cat(r, l), DLE, Cat(Tail(r), l))
                       /\ Starts(Cat(Tail(r), l), ETX, l)
      /\ j < Len(x) /\ x[j + 1] = DLE =>
            /\ Head(r) = DLE /\ Starts(Cat(r, l), DLE, Cat(Tail(r), l))
            /\ Starts(Cat(Tail(r), l), DLE, Cat(q, l))
      /\ j < Len(x) /\ x[j + 1] # DLE =>
            /\ Head(r) # DLE /\ x[j + 1] \in Bytes
            /\ Starts(Cat(r, l), x[j + 1], Cat(q, l))
  BY <1>1, <1>2, RestStarts
<1>4. j = Len(x) \/ j < Len(x)
  BY <1>2
<1>5. (state = s1 /\ wire = Cat(r, l)) \/ (state = s2 /\ Head(r) = DLE /\ wire = Cat(Tail(r), l))
  BY DEF WireAt, Cat
<1> HIDE DEF x, l, r, q
<1>6. \/ state = s1 /\ j < Len(x) /\ x[j + 1] # DLE /\ x[j + 1] \in Bytes
         /\ Starts(wire, x[j + 1], Cat(q, l))
      \/ state = s1 /\ Head(r) = DLE /\ Starts(wire, DLE, Cat(Tail(r), l))
      \/ state = s2 /\ j < Len(x) /\ x[j + 1] = DLE /\ Starts(wire, DLE, Cat(q, l))
      \/ state = s2 /\ j = Len(x) /\ Starts(wire, ETX, l)
  BY <1>3, <1>4, <1>5
<1> USE DEF x, l, r, q
<1> QED BY <1>2, <1>6 DEF Starts, Cat
-----------------------------------------------------------------------------
(* Feeding a byte.                                                         *)

Feed == FeedIdle \/ FeedAfterDLE \/ FeedInFrame \/ FeedInFrameAfterDLE

Sane == ParserTypeOK /\ sent \in Seq(Items)

(* The beginnings of a body.                                               *)
LEMMA PrefixMore ==
    ASSUME NEW x \in Seq(Bytes), NEW j \in 0 .. Len(x)
    PROVE  /\ Len(SubSeq(x, 1, j)) = j
           /\ \A i \in 1 .. j : SubSeq(x, 1, j)[i] = x[i]
           /\ DOMAIN SubSeq(x, 1, j) = 1 .. j
           /\ j < Len(x) => Append(SubSeq(x, 1, j), x[j + 1]) = SubSeq(x, 1, j + 1)
<1>0. Len(x) \in Nat /\ j \in Nat
  BY LenProperties
<1>1. /\ SubSeq(x, 1, j) \in Seq(Bytes)
      /\ Len(SubSeq(x, 1, j)) = IF 1 <= j THEN j - 1 + 1 ELSE 0
      /\ \A i \in 1 .. j - 1 + 1 : SubSeq(x, 1, j)[i] = x[1 + i - 1]
  <2>1. \A i \in 1 .. j : x[i] \in Bytes
    BY <1>0, ElementOfSeq
  <2>2. 1 \in Int /\ j \in Int
    BY <1>0
  <2> QED BY <2>1, <2>2, SubSeqProperties
<1>2. Len(SubSeq(x, 1, j)) = j /\ \A i \in 1 .. j : SubSeq(x, 1, j)[i] = x[i]
  BY <1>0, <1>1
<1>3. DOMAIN SubSeq(x, 1, j) = 1 .. j
  BY <1>1, <1>2, LenProperties
<1>4. ASSUME j < Len(x) PROVE Append(SubSeq(x, 1, j), x[j + 1]) = SubSeq(x, 1, j + 1)
  <2>1. 1 \in 1 .. Len(x) /\ j + 1 \in 1 .. Len(x) /\ (j + 1) - 1 = j
    BY <1>0, <1>4
  <2>2. SubSeq(x, 1, j + 1) = SubSeq(x, 1, j) \o << x[j + 1] >>
    BY <2>1, SubSeqRecursiveSecond
  <2>3. x[j + 1] \in Bytes
    BY <2>1, ElementOfSeq
  <2>4. Append(SubSeq(x, 1, j), x[j + 1]) = SubSeq(x, 1, j) \o << x[j + 1] >>
    BY <1>1, <2>3, AppendIsConcat
  <2> QED BY <2>2, <2>4
<1> QED BY <1>2, <1>3, <1>4

(* Feeding changes the parser and takes a byte off the wire.               *)
LEMMA FeedTakes ==
    ASSUME Feed
    PROVE  /\ wire # << >> /\ wire' = Tail(wire) /\ sent' = sent
           /\ receiver' = receiver /\ connections' = connections
           /\ \A k : Later(k)' = Later(k)
<1>1. /\ wire # << >> /\ wire' = Tail(wire) /\ sent' = sent
      /\ receiver' = receiver /\ connections' = connections
  BY DEF Feed, FeedIdle, FeedAfterDLE, FeedInFrame, FeedInFrameAfterDLE, Takes
<1>2. \A k : Later(k)' = Later(k)
  BY <1>1 DEF Later
<1> QED BY <1>1, <1>2

(* By state.                                                               *)
LEMMA FeedByState ==
    ASSUME Feed
    PROVE  /\ state = "Idle" => FeedIdle
           /\ state = "AfterDLE" => FeedAfterDLE
           /\ state = "InFrame" => FeedInFrame
           /\ state = "InFrameAfterDLE" => FeedInFrameAfterDLE
BY DEF Feed, FeedIdle, FeedAfterDLE, FeedInFrame, FeedInFrameAfterDLE, Takes

(* Between items the next one begins.                                      *)
LEMMA BetweenFeeds ==
    ASSUME Sane, NEW n \in 0 .. Len(sent), Between(n), Feed
    PROVE  n < Len(sent) /\ Opening(n)' /\ got' = got
<1>1. /\ n < Len(sent) /\ Head(wire) = DLE
      /\ Tail(wire) = Tail(EncodeItem(sent[n + 1])) \o Later(n + 1)
  BY BetweenBytes, FeedTakes DEF Between, Sane
<1>2. state' = "AfterDLE" /\ got' = got
  BY <1>1, FeedByState DEF FeedIdle, Byte, Between
<1>3. Opening(n)'
  BY <1>1, <1>2, FeedTakes DEF Opening
<1> QED BY <1>1, <1>2, <1>3

(* After its first byte it is a heartbeat, or its frame begins.            *)
LEMMA OpeningFeeds ==
    ASSUME Sane, NEW n \in 0 .. Len(sent), Opening(n), Feed
    PROVE  \/ sent[n + 1] = Heartbeat /\ Between(n + 1)' /\ got' = Append(got, Heartbeat)
           \/ sent[n + 1] # Heartbeat /\ Reading(n)' /\ got' = got
<1> DEFINE x == sent[n + 1]
<1>0. n < Len(sent) /\ state = "AfterDLE" /\ sent \in Seq(Items)
  BY DEF Opening, Sane
<1>1. /\ x = Heartbeat => Head(wire) = ENQ /\ Tail(wire) = Later(n + 1)
      /\ x # Heartbeat => Head(wire) = STX /\ Tail(wire) = Rest(x, 0) \o Later(n + 1)
  BY <1>0, OpeningBytes DEF Opening
<1>2. /\ buffer' = IF Byte = STX THEN << >> ELSE buffer
      /\ state' = IF Byte = STX THEN "InFrame" ELSE "Idle"
      /\ got' = IF Byte = ENQ THEN Append(got, Heartbeat) ELSE got
  BY <1>0, FeedByState DEF FeedAfterDLE
<1>3. CASE x = Heartbeat
  <2>1. state' = "Idle" /\ got' = Append(got, Heartbeat) /\ wire' = Later(n + 1)
    BY <1>1, <1>2, <1>3, FeedTakes, Controls DEF Byte
  <2>2. Between(n + 1)'
    BY <2>1, FeedTakes DEF Between
  <2> QED BY <1>3, <2>1, <2>2
<1>4. CASE x # Heartbeat
  <2>1. state' = "InFrame" /\ got' = got /\ buffer' = << >> /\ wire' = Rest(x, 0) \o Later(n + 1)
    BY <1>1, <1>2, <1>4, FeedTakes, Controls DEF Byte
  <2>2. x \in Bodies /\ x \in Seq(Bytes) /\ Len(x) \in Nat
    <3>1. x \in Items
      BY <1>0, LaterFacts
    <3> QED BY <1>4, <3>1, BodyType DEF Items
  <2>3. Len(<< >>) = 0 /\ << >> = SubSeq(x, 1, 0) /\ Kept(<< >>)
    BY SubSeqEmpty DEF Kept
  <2>4. WireAt(n, 0, "InFrame", "InFrameAfterDLE")'
    BY <2>1, FeedTakes DEF WireAt
  <2>5. Reading(n)'
    BY <1>0, <1>4, <2>1, <2>2, <2>3, <2>4, FeedTakes DEF Reading
  <2> QED BY <1>4, <2>1, <2>5
<1> QED BY <1>3, <1>4

(* The bytes of a frame that is skipped.                                   *)
LEMMA SkippingFeeds ==
    ASSUME Sane, NEW n \in 0 .. Len(sent), Skipping(n), Feed
    PROVE  got' = got /\ (Skipping(n)' \/ Between(n + 1)')
<1> DEFINE x == sent[n + 1]
<1>0. n < Len(sent) /\ x # Heartbeat /\ sent \in Seq(Items)
  BY DEF Skipping, Sane
<1>1. PICK j \in 0 .. Len(x) : WireAt(n, j, "Idle", "AfterDLE")
  BY DEF Skipping
<1>2. /\ x \in Bodies
      /\ \/ /\ state = "Idle" /\ j < Len(x) /\ x[j + 1] # DLE
            /\ Head(wire) = x[j + 1]
            /\ Tail(wire) = Rest(x, j + 1) \o Later(n + 1)
         \/ /\ state = "Idle" /\ Head(Rest(x, j)) = DLE /\ Head(wire) = DLE
            /\ Tail(wire) = Tail(Rest(x, j)) \o Later(n + 1)
         \/ /\ state = "AfterDLE" /\ j < Len(x) /\ Head(wire) = DLE
            /\ Tail(wire) = Rest(x, j + 1) \o Later(n + 1)
         \/ /\ state = "AfterDLE" /\ Head(wire) = ETX
            /\ Tail(wire) = Later(n + 1)
  BY <1>0, <1>1, WireBytes
<1>3. Len(x) \in Nat /\ (j < Len(x) => j + 1 \in 0 .. Len(x))
  BY <1>2, BodyType
<1>4. /\ sent' = sent /\ n < Len(sent') /\ sent'[n + 1] # Heartbeat
      /\ wire' = Tail(wire) /\ Later(n + 1)' = Later(n + 1)
  BY <1>0, FeedTakes
<1>5. CASE state = "Idle" /\ j < Len(x) /\ Head(wire) # DLE
           /\ Tail(wire) = Rest(x, j + 1) \o Later(n + 1)
  <2>1. state' = "Idle" /\ got' = got
    BY <1>5, FeedByState DEF FeedIdle, Byte
  <2>2. WireAt(n, j + 1, "Idle", "AfterDLE")'
    BY <1>4, <1>5, <2>1 DEF WireAt
  <2> QED BY <1>3, <1>4, <1>5, <2>1, <2>2 DEF Skipping
<1>6. CASE state = "Idle" /\ Head(Rest(x, j)) = DLE /\ Head(wire) = DLE
           /\ Tail(wire) = Tail(Rest(x, j)) \o Later(n + 1)
  <2>1. state' = "AfterDLE" /\ got' = got
    BY <1>6, FeedByState DEF FeedIdle, Byte
  <2>2. WireAt(n, j, "Idle", "AfterDLE")'
    BY <1>4, <1>6, <2>1 DEF WireAt
  <2> QED BY <1>4, <2>1, <2>2 DEF Skipping
<1>7. CASE state = "AfterDLE" /\ j < Len(x) /\ Head(wire) = DLE
           /\ Tail(wire) = Rest(x, j + 1) \o Later(n + 1)
  <2>1. state' = "Idle" /\ got' = got
    BY <1>7, FeedByState, Controls DEF FeedAfterDLE, Byte
  <2>2. WireAt(n, j + 1, "Idle", "AfterDLE")'
    BY <1>4, <1>7, <2>1 DEF WireAt
  <2> QED BY <1>3, <1>4, <1>7, <2>1, <2>2 DEF Skipping
<1>8. CASE state = "AfterDLE" /\ Head(wire) = ETX /\ Tail(wire) = Later(n + 1)
  <2>1. state' = "Idle" /\ got' = got
    BY <1>8, FeedByState, Controls DEF FeedAfterDLE, Byte
  <2> QED BY <1>4, <1>8, <2>1 DEF Between
<1> QED BY <1>2, <1>5, <1>6, <1>7, <1>8

(* The bytes of a frame that is read.                                      *)
LEMMA ReadingFeeds ==
    ASSUME Sane, NEW n \in 0 .. Len(sent), Reading(n), Feed
    PROVE  \/ got' = got /\ Reading(n)'
           \/ got' = got /\ Skipping(n)' /\ ~Kept(sent[n + 1])
           \/ got' = Append(got, sent[n + 1]) /\ Kept(sent[n + 1]) /\ Between(n + 1)'
<1> DEFINE x == sent[n + 1]
<1>j. PICK j \in Nat : j = Len(buffer)
  BY LenProperties DEF Sane, ParserTypeOK
<1>0. /\ n < Len(sent) /\ x # Heartbeat /\ sent \in Seq(Items)
      /\ j <= Len(x) /\ buffer = SubSeq(x, 1, j) /\ Kept(buffer)
      /\ WireAt(n, j, "InFrame", "InFrameAfterDLE")
  BY <1>j DEF Reading, Sane
<1>1. x \in Bodies /\ x \in Seq(Bytes) /\ Len(x) \in Nat /\ Len(x) >= HeaderSize
  <2>1. x \in Items
    BY <1>0, LaterFacts
  <2> QED BY <1>0, <2>1, BodyType DEF Items
<1>2. j \in 0 .. Len(x) /\ MaxBufferSize \in Nat /\ HeaderSize \in Nat
  BY <1>0, <1>1, ParserAssumption
<1>3. \/ /\ state = "InFrame" /\ j < Len(x) /\ x[j + 1] # DLE
         /\ Head(wire) = x[j + 1]
         /\ Tail(wire) = Rest(x, j + 1) \o Later(n + 1)
      \/ /\ state = "InFrame" /\ Head(Rest(x, j)) = DLE /\ Head(wire) = DLE
         /\ Tail(wire) = Tail(Rest(x, j)) \o Later(n + 1)
      \/ /\ state = "InFrameAfterDLE" /\ j < Len(x) /\ x[j + 1] = DLE /\ Head(wire) = DLE
         /\ Tail(wire) = Rest(x, j + 1) \o Later(n + 1)
      \/ /\ state = "InFrameAfterDLE" /\ j = Len(x) /\ Head(wire) = ETX
         /\ Tail(wire) = Later(n + 1)
  BY <1>0, <1>2, WireBytes
<1>4. /\ sent' = sent /\ n < Len(sent') /\ sent'[n + 1] = x
      /\ wire' = Tail(wire) /\ Later(n + 1)' = Later(n + 1)
  BY <1>0, FeedTakes
<1>5. /\ DOMAIN buffer = 1 .. j /\ \A i \in 1 .. j : buffer[i] = x[i]
      /\ j < Len(x) => /\ Append(buffer, x[j + 1]) = SubSeq(x, 1, j + 1)
                       /\ Len(SubSeq(x, 1, j + 1)) = j + 1
                       /\ DOMAIN SubSeq(x, 1, j + 1) = 1 .. j + 1
                       /\ \A i \in 1 .. j + 1 : SubSeq(x, 1, j + 1)[i] = x[i]
  <2>1. ASSUME j < Len(x) PROVE j + 1 \in 0 .. Len(x)
    BY <1>1, <1>2, <2>1
  <2> QED BY <1>0, <1>1, <1>2, <2>1, PrefixMore
<1>6. CASE /\ state = "InFrame" /\ j < Len(x) /\ x[j + 1] # DLE
           /\ Head(wire) = x[j + 1]
           /\ Tail(wire) = Rest(x, j + 1) \o Later(n + 1)
  <2>1. /\ got' = got
        /\ \/ j >= MaxBufferSize /\ state' = "Idle"
           \/ j < MaxBufferSize /\ buffer' = Append(buffer, x[j + 1]) /\ state' = "InFrame"
    BY <1>j, <1>6, FeedByState DEF FeedInFrame, Byte
  <2>2. CASE j >= MaxBufferSize /\ state' = "Idle"
    <3>1. WireAt(n, j + 1, "Idle", "AfterDLE")'
      BY <1>4, <1>6, <2>2 DEF WireAt
    <3>2. j + 1 \in 0 .. Len(x) /\ j + 1 \in DOMAIN x /\ j + 1 > MaxBufferSize
      BY <1>1, <1>2, <1>6, <2>2, LenProperties
    <3>3. Skipping(n)'
      BY <1>0, <1>4, <3>1, <3>2 DEF Skipping
    <3>4. ~Kept(x)
      BY <1>6, <3>2 DEF Kept
    <3> QED BY <2>1, <3>3, <3>4
  <2>3. CASE j < MaxBufferSize /\ buffer' = Append(buffer, x[j + 1]) /\ state' = "InFrame"
    <3>1. buffer' = SubSeq(x, 1, j + 1) /\ Len(buffer') = j + 1 /\ j + 1 <= Len(x)
      BY <1>1, <1>2, <1>5, <1>6, <2>3
    <3>2. Kept(buffer')
      <4>1. \A i \in DOMAIN buffer' : ~(i > MaxBufferSize)
        BY <1>2, <1>5, <1>6, <2>3, <3>1
      <4> QED BY <4>1 DEF Kept
    <3>3. WireAt(n, j + 1, "InFrame", "InFrameAfterDLE")'
      BY <1>4, <1>6, <2>3 DEF WireAt
    <3>4. Reading(n)'
      BY <1>0, <1>4, <3>1, <3>2, <3>3 DEF Reading
    <3> QED BY <2>1, <3>4
  <2> QED BY <2>1, <2>2, <2>3
<1>7. CASE /\ state = "InFrame" /\ Head(Rest(x, j)) = DLE /\ Head(wire) = DLE
           /\ Tail(wire) = Tail(Rest(x, j)) \o Later(n + 1)
  <2>1. got' = got /\ state' = "InFrameAfterDLE" /\ buffer' = buffer
    BY <1>7, FeedByState DEF FeedInFrame, Byte
  <2>2. WireAt(n, j, "InFrame", "InFrameAfterDLE")'
    BY <1>4, <1>7, <2>1 DEF WireAt
  <2>3. Reading(n)'
    BY <1>j, <1>0, <1>4, <2>1, <2>2 DEF Reading
  <2> QED BY <2>1, <2>3
<1>8. CASE /\ state = "InFrameAfterDLE" /\ j < Len(x) /\ x[j + 1] = DLE /\ Head(wire) = DLE
           /\ Tail(wire) = Rest(x, j + 1) \o Later(n + 1)
  <2>1. got' = got /\ state' = "InFrame" /\ buffer' = Append(buffer, x[j + 1])
    BY <1>8, FeedByState, Controls DEF FeedInFrameAfterDLE, Byte
  <2>2. buffer' = SubSeq(x, 1, j + 1) /\ Len(buffer') = j + 1 /\ j + 1 <= Len(x)
    <3>1. buffer' = SubSeq(x, 1, j + 1) /\ Len(SubSeq(x, 1, j + 1)) = j + 1
      BY <1>5, <1>8, <2>1
    <3>2. j + 1 <= Len(x)
      BY <1>1, <1>2, <1>8
    <3> QED BY <3>1, <3>2
  <2>3. Kept(buffer')
    <3> SUFFICES ASSUME NEW i \in DOMAIN buffer', i > MaxBufferSize
                 PROVE  buffer'[i] = DLE
      BY DEF Kept
    <3>1. i \in 1 .. j + 1 /\ buffer'[i] = x[i]
      BY <1>5, <1>8, <2>2
    <3>2. CASE i = j + 1
      BY <1>8, <3>1, <3>2
    <3>3. CASE i \in 1 .. j
      BY <1>0, <1>5, <3>1, <3>3 DEF Kept
    <3> QED BY <1>2, <3>1, <3>2, <3>3
  <2>4. WireAt(n, j + 1, "InFrame", "InFrameAfterDLE")'
    BY <1>4, <1>8, <2>1 DEF WireAt
  <2>5. Reading(n)'
    BY <1>0, <1>4, <2>2, <2>3, <2>4 DEF Reading
  <2> QED BY <2>1, <2>5
<1>9. CASE /\ state = "InFrameAfterDLE" /\ j = Len(x) /\ Head(wire) = ETX
           /\ Tail(wire) = Later(n + 1)
  <2>1. buffer = x
    BY <1>0, <1>1, <1>9, SubSeqFull
  <2>2. got' = Append(got, x) /\ state' = "Idle"
    <3>1. ~(Len(buffer) < HeaderSize)
      BY <1>j, <1>1, <1>2, <1>9
    <3> QED BY <1>9, <2>1, <3>1, FeedByState, Controls DEF FeedInFrameAfterDLE, Byte
  <2>3. Between(n + 1)'
    BY <1>4, <1>9, <2>2 DEF Between
  <2> QED BY <1>0, <2>1, <2>2, <2>3
<1> QED BY <1>3, <1>6, <1>7, <1>8, <1>9

-----------------------------------------------------------------------------
(* What has arrived.                                                       *)

(* The next item arrives, unless it is over the limit.                     *)
LEMMA ArrivedNext ==
    ASSUME Sane, NEW n \in 0 .. Len(sent), n < Len(sent), NEW lost \in 0 .. n,
           Arrived(lost, n), sent' = sent,
           got' = IF Kept(sent[n + 1]) THEN Append(got, sent[n + 1]) ELSE got
    PROVE  Arrived(lost, n + 1)'
<1> DEFINE x == sent[n + 1]
           k == KeptOf(SubSeq(sent, lost + 1, n))
<1>1. PICK h \in 0 .. Len(got) : (lost = 0 => h = 0) /\ TailFrom(got, h + 1) = k
  BY DEF Arrived
<1>2. got \in Seq(ByteSeq) /\ sent \in Seq(Items)
  BY DEF Sane, ParserTypeOK, ByteSeq
<1>3. lost + 1 \in 1 .. n + 1
  BY LenProperties
<1>4. /\ KeptOf(SubSeq(sent, lost + 1, n + 1)) = k \o IF Kept(x) THEN << x >> ELSE << >>
      /\ k \in Seq(Items) /\ x \in Items
  BY <1>2, <1>3, KeptNext
<1> HIDE DEF x, k
<1>5. CASE Kept(x)
  <2>1. x \in ByteSeq
    BY <1>4, ItemType DEF ByteSeq
  <2>2. /\ h \in 0 .. Len(Append(got, x))
        /\ TailFrom(Append(got, x), h + 1) = TailFrom(got, h + 1) \o << x >>
    BY <1>2, <2>1, FromMore
  <2>3. got' = Append(got, x)
    BY <1>5 DEF x
  <2>4. KeptOf(SubSeq(sent, lost + 1, n + 1)) = k \o << x >>
    BY <1>4, <1>5
  <2> QED BY <1>1, <2>2, <2>3, <2>4 DEF Arrived
<1>6. CASE ~Kept(x)
  <2>1. KeptOf(SubSeq(sent, lost + 1, n + 1)) = k
    <3>1. KeptOf(SubSeq(sent, lost + 1, n + 1)) = k \o << >>
      BY <1>4, <1>6
    <3>2. k \o << >> = k
      BY <1>4, ConcatEmptySeq
    <3> QED BY <3>1, <3>2
  <2>2. got' = got
    BY <1>6 DEF x
  <2> QED BY <1>1, <2>1, <2>2 DEF Arrived
<1> QED BY <1>5, <1>6

(* Nothing has to have arrived of the items that may be lost.              *)
LEMMA ArrivedNone ==
    ASSUME NEW g, NEW s, NEW S, g \in Seq(S), NEW lost \in Nat, NEW n \in Nat, n <= lost
    PROVE  /\ TailFrom(g, Len(g) + 1) = KeptOf(SubSeq(s, lost + 1, n))
           /\ Len(g) \in 0 .. Len(g)
<1>1. Len(g) \in Nat
  BY LenProperties
<1>2. TailFrom(g, Len(g) + 1) = << >>
  BY <1>1, SubSeqEmpty DEF TailFrom
<1>3. SubSeq(s, lost + 1, n) = << >>
  BY SubSeqEmpty
<1>4. << >> \in Seq(Items)
  BY EmptySeq
<1>5. KeptOf(<< >>) = << >>
  BY <1>4, KeptIsJoined, JoinedNone
<1>6. Len(g) \in 0 .. Len(g)
  BY <1>1
<1>7. TailFrom(g, Len(g) + 1) = KeptOf(SubSeq(s, lost + 1, n))
  BY <1>2, <1>3, <1>5
<1> QED BY <1>6, <1>7

-----------------------------------------------------------------------------
(* The type invariant.                                                     *)

(* Feeding keeps it.                                                       *)
LEMMA FeedType == ASSUME Sane, Feed PROVE Sane'
<1>1. /\ wire # << >> /\ wire' = Tail(wire) /\ sent' = sent
      /\ receiver' = receiver /\ connections' = connections
  BY FeedTakes
<1>2. /\ state \in {"Idle", "AfterDLE", "InFrame", "InFrameAfterDLE"}
      /\ buffer \in Seq(Bytes) /\ (state \in {"Idle", "AfterDLE"} => buffer = << >>)
      /\ wire \in Seq(Bytes) /\ got \in Seq(Seq(Bytes))
  BY DEF Sane, ParserTypeOK
<1>3. Head(wire) \in Bytes /\ Tail(wire) \in Seq(Bytes)
  BY <1>1, <1>2, HeadTailProperties
<1>4. /\ << >> \in Seq(Bytes) /\ Append(buffer, Head(wire)) \in Seq(Bytes)
      /\ Append(buffer, DLE) \in Seq(Bytes)
      /\ Append(got, Heartbeat) \in Seq(Seq(Bytes)) /\ Append(got, buffer) \in Seq(Seq(Bytes))
  BY <1>2, <1>3, AppendProperties, EmptySeq, Controls DEF Heartbeat
<1>5. /\ state' \in {"Idle", "AfterDLE", "InFrame", "InFrameAfterDLE"}
      /\ buffer' \in Seq(Bytes) /\ (state' \in {"Idle", "AfterDLE"} => buffer' = << >>)
      /\ got' \in Seq(Seq(Bytes))
  <2>1. CASE state = "Idle"
    BY <1>2, <2>1, FeedByState DEF FeedIdle
  <2>2. CASE state = "AfterDLE"
    BY <1>2, <1>4, <2>2, FeedByState DEF FeedAfterDLE
  <2>3. CASE state = "InFrame"
    BY <1>2, <1>4, <2>3, FeedByState DEF FeedInFrame, Byte
  <2>4. CASE state = "InFrameAfterDLE"
    BY <1>2, <1>4, <2>4, FeedByState DEF FeedInFrameAfterDLE, Byte
  <2> QED BY <1>2, <2>1, <2>2, <2>3, <2>4
<1> QED BY <1>1, <1>3, <1>5 DEF Sane, ParserTypeOK
-----------------------------------------------------------------------------
(* Feeding keeps the parser in step.                                       *)

(* One step, and the item is done with, or not yet.                        *)
LEMMA InStepFeeds ==
    ASSUME Sane, NEW n \in 0 .. Len(sent), NEW lost \in 0 .. 2, InStep(n, lost), Feed
    PROVE  \E m \in 0 .. Len(sent') : InStep(m, lost)'
<1> DEFINE x == sent[n + 1]
<1>1. /\ sent' = sent /\ receiver' = receiver /\ connections' = connections
      /\ Len(sent) \in Nat /\ n \in 0 .. Len(sent')
  BY FeedTakes, LenProperties DEF Sane
<1>2. /\ lost <= 2 /\ (FreshParser' => lost = 0) /\ Arrived(lost, n)
      /\ \/ lost <= n /\ (Between(n) \/ Opening(n) \/ Reading(n))
         \/ (lost = n + 1 \/ (lost <= n /\ ~Kept(x))) /\ Skipping(n)
  BY <1>1 DEF InStep, FreshParser
<1>3. got' = got => Arrived(lost, n)'
  BY <1>1, <1>2 DEF Arrived
<1>4. ASSUME n < Len(sent), Between(n + 1)', Arrived(lost, n + 1)', lost <= n + 1
      PROVE  InStep(n + 1, lost)' /\ n + 1 \in 0 .. Len(sent')
  BY <1>1, <1>2, <1>4 DEF InStep
<1>5. ASSUME n < Len(sent), lost <= n,
             got' = IF Kept(x) THEN Append(got, x) ELSE got
      PROVE  Arrived(lost, n + 1)'
  <2>1. lost \in 0 .. n
    BY <1>5
  <2> QED BY <1>1, <1>2, <1>5, <2>1, ArrivedNext
<1>6. CASE lost <= n /\ Between(n)
  <2>1. Opening(n)' /\ got' = got
    BY <1>6, BetweenFeeds
  <2>2. InStep(n, lost)'
    BY <1>2, <1>3, <1>6, <2>1 DEF InStep
  <2> QED BY <1>1, <2>2
<1>7. CASE lost <= n /\ Opening(n)
  <2>1. CASE x = Heartbeat /\ Between(n + 1)' /\ got' = Append(got, Heartbeat)
    <3>1. Kept(x)
      BY <2>1 DEF Kept, Heartbeat
    <3>2. n < Len(sent)
      BY <1>7 DEF Opening
    <3>3. Arrived(lost, n + 1)'
      BY <1>5, <1>7, <2>1, <3>1, <3>2
    <3> QED BY <1>4, <1>7, <2>1, <3>2, <3>3
  <2>2. CASE Reading(n)' /\ got' = got
    <3>1. InStep(n, lost)'
      BY <1>2, <1>3, <1>7, <2>2 DEF InStep
    <3> QED BY <1>1, <3>1
  <2> QED BY <1>7, <2>1, <2>2, OpeningFeeds
<1>8. CASE lost <= n /\ Reading(n)
  <2>0. n < Len(sent)
    BY <1>8 DEF Reading
  <2>1. CASE Reading(n)' /\ got' = got
    <3>1. InStep(n, lost)'
      BY <1>2, <1>3, <1>8, <2>1 DEF InStep
    <3> QED BY <1>1, <3>1
  <2>2. CASE got' = got /\ Skipping(n)' /\ ~Kept(x)
    <3>1. InStep(n, lost)'
      BY <1>1, <1>2, <1>3, <1>8, <2>2 DEF InStep
    <3> QED BY <1>1, <3>1
  <2>3. CASE got' = Append(got, x) /\ Kept(x) /\ Between(n + 1)'
    <3>1. Arrived(lost, n + 1)'
      BY <1>5, <1>8, <2>0, <2>3
    <3> QED BY <1>4, <1>8, <2>0, <2>3, <3>1
  <2> QED BY <1>8, <2>1, <2>2, <2>3, ReadingFeeds
<1>9. CASE (lost = n + 1 \/ (lost <= n /\ ~Kept(x))) /\ Skipping(n)
  <2>0. n < Len(sent)
    BY <1>9 DEF Skipping
  <2>1. got' = got /\ (Skipping(n)' \/ Between(n + 1)')
    BY <1>9, SkippingFeeds
  <2>2. CASE Skipping(n)'
    <3>1. InStep(n, lost)'
      BY <1>1, <1>2, <1>3, <1>9, <2>1, <2>2 DEF InStep
    <3> QED BY <1>1, <3>1
  <2>3. CASE Between(n + 1)'
    <3>1. CASE lost <= n /\ ~Kept(x)
      <4>1. Arrived(lost, n + 1)'
        BY <1>5, <2>0, <2>1, <3>1
      <4> QED BY <1>4, <2>0, <2>3, <3>1, <4>1
    <3>2. CASE lost = n + 1
      <4>1. Arrived(lost, n + 1)'
        <5>1. got \in Seq(ByteSeq) /\ lost \in Nat /\ n + 1 \in Nat /\ n + 1 <= lost /\ lost # 0
          BY <3>2 DEF Sane, ParserTypeOK, ByteSeq
        <5>2. /\ TailFrom(got, Len(got) + 1) = KeptOf(SubSeq(sent, lost + 1, n + 1))
              /\ Len(got) \in 0 .. Len(got)
          BY <5>1, ArrivedNone
        <5> QED BY <1>1, <2>1, <5>1, <5>2 DEF Arrived
      <4> QED BY <1>4, <2>0, <2>3, <3>2, <4>1
    <3> QED BY <1>9, <3>1, <3>2
  <2> QED BY <2>1, <2>2, <2>3
<1> QED BY <1>2, <1>6, <1>7, <1>8, <1>9

(* A byte that a parser gone astray takes: it may end the frame that was   *)
(* cut, or become part of it.                                              *)
LEMMA StrayByte ==
    ASSUME Sane, Feed
    PROVE  /\ state = "Idle" => /\ Byte = DLE => state' = "AfterDLE"
                                /\ Byte # DLE => state' = "Idle"
                                /\ got' = got
           /\ state = "AfterDLE" /\ Byte = DLE => state' = "Idle" /\ got' = got
           /\ state = "InFrame" => /\ Byte = DLE => state' = "InFrameAfterDLE"
                                   /\ Byte # DLE => state' \in {"Idle", "InFrame"}
           /\ state = "InFrameAfterDLE" => /\ Byte = DLE => state' = "InFrame"
                                           /\ Byte # DLE => state' = "Idle"
<1>1. state = "Idle" => /\ Byte = DLE => state' = "AfterDLE"
                        /\ Byte # DLE => state' = "Idle"
                        /\ got' = got
  BY FeedByState DEF FeedIdle
<1>2. state = "AfterDLE" /\ Byte = DLE => state' = "Idle" /\ got' = got
  BY FeedByState, Controls DEF FeedAfterDLE
<1>3. state = "InFrame" => /\ Byte = DLE => state' = "InFrameAfterDLE"
                           /\ Byte # DLE => state' \in {"Idle", "InFrame"}
  BY FeedByState DEF FeedInFrame
<1>4. state = "InFrameAfterDLE" => /\ Byte = DLE => state' = "InFrame"
                                   /\ Byte # DLE => state' = "Idle"
  BY FeedByState, Controls DEF FeedInFrameAfterDLE
<1> QED BY <1>1, <1>2, <1>3, <1>4

(* It comes back into step within the first two items.                     *)
LEMMA AstrayFeeds ==
    ASSUME Sane, NEW n \in 0 .. Len(sent), Astray(n), Feed
    PROVE  \E m \in 0 .. Len(sent') : Astray(m)' \/ \E lost \in 0 .. 2 : InStep(m, lost)'
<1> DEFINE x == sent[n + 1]
           t == Tail(EncodeItem(x)) \o Later(n + 1)
<1>1. /\ sent' = sent /\ receiver' = receiver /\ connections' = connections
      /\ wire # << >> /\ wire' = Tail(wire) /\ Len(sent) \in Nat /\ n \in 0 .. Len(sent')
      /\ sent \in Seq(Items) /\ \A k : Later(k)' = Later(k)
      /\ state \in {"Idle", "AfterDLE", "InFrame", "InFrameAfterDLE"}
  BY FeedTakes, LenProperties DEF Sane, ParserTypeOK
<1>2. n \in {0, 1} /\ ~FreshParser /\ ~FreshParser'
  BY <1>1 DEF Astray, FreshParser
<1>3. got' \in Seq(ByteSeq)
  BY FeedType DEF Sane, ParserTypeOK, ByteSeq
(* Back in step, with item n + 1 lost.                                     *)
<1>4. ASSUME n < Len(sent), Between(n + 1)'
      PROVE  n + 1 \in 0 .. Len(sent') /\ InStep(n + 1, n + 1)' /\ n + 1 \in 0 .. 2
  <2>1. n + 1 \in Nat /\ n + 1 <= n + 1 /\ n + 1 # 0 /\ n + 1 \in 0 .. 2 /\ n + 1 \in 0 .. Len(sent')
    BY <1>1, <1>2, <1>4
  <2>2. /\ TailFrom(got', Len(got') + 1) = KeptOf(SubSeq(sent', n + 1 + 1, n + 1))
        /\ Len(got') \in 0 .. Len(got')
    BY <1>3, <2>1, ArrivedNone
  <2>3. Arrived(n + 1, n + 1)'
    BY <2>1, <2>2 DEF Arrived
  <2> QED BY <1>2, <1>4, <2>1, <2>3 DEF InStep
<1>5. ASSUME n < Len(sent), Skipping(n)'
      PROVE  InStep(n, n + 1)' /\ n + 1 \in 0 .. 2
  <2>1. n + 1 \in Nat /\ n \in Nat /\ n <= n + 1 /\ n + 1 # 0 /\ n + 1 \in 0 .. 2
    BY <1>1, <1>2, <1>5
  <2>2. /\ TailFrom(got', Len(got') + 1) = KeptOf(SubSeq(sent', n + 1 + 1, n))
        /\ Len(got') \in 0 .. Len(got')
    BY <1>3, <2>1, ArrivedNone
  <2>3. Arrived(n + 1, n)'
    BY <2>1, <2>2 DEF Arrived
  <2> QED BY <1>2, <1>5, <2>1, <2>3 DEF InStep
(* Before the item.                                                        *)
<1>6. CASE wire = Later(n) /\ IF n = 0 THEN got = << >> ELSE state = "InFrame"
  <2>1. n < Len(sent) /\ Byte = DLE /\ wire' = t
    BY <1>1, <1>6, BetweenBytes DEF Byte
  <2>2. CASE state = "Idle"
    <3>1. n = 0 /\ got' = << >> /\ state' = "AfterDLE"
      BY <1>2, <1>6, <2>1, <2>2, StrayByte
    <3>2. Opening(0)'
      BY <1>1, <2>1, <3>1 DEF Opening
    <3>3. Arrived(0, 0)'
      <4>1. << >> \in Seq(ByteSeq) /\ Len(<< >>) = 0 /\ 0 \in Nat /\ 0 <= 0
        BY EmptySeq
      <4>2. TailFrom(<< >>, Len(<< >>) + 1) = KeptOf(SubSeq(sent', 0 + 1, 0))
        BY <4>1, ArrivedNone
      <4>3. Len(got') = 0 /\ 0 \in 0 .. Len(got')
        BY <3>1, <4>1
      <4> QED BY <3>1, <4>1, <4>2, <4>3 DEF Arrived
    <3>4. InStep(0, 0)'
      BY <3>2, <3>3 DEF InStep
    <3> QED BY <1>1, <3>1, <3>4
  <2>3. CASE state # "Idle"
    <3>1. state' = "InFrameAfterDLE" \/ (n = 0 /\ state' \in {"Idle", "InFrame"})
      BY <1>1, <1>2, <1>6, <2>1, <2>3, StrayByte
    <3>2. Astray(n)'
      BY <1>1, <1>2, <2>1, <3>1 DEF Astray
    <3> QED BY <1>1, <3>2
  <2> QED BY <2>2, <2>3
(* After its first byte.                                                   *)
<1>7. CASE /\ n < Len(sent) /\ wire = t
           /\ state = "InFrameAfterDLE" \/ (n = 0 /\ state \in {"Idle", "InFrame"})
  <2>1. /\ x = Heartbeat => Byte = ENQ /\ wire' = Later(n + 1)
        /\ x # Heartbeat => Byte = STX /\ wire' = Rest(x, 0) \o Later(n + 1)
    BY <1>1, <1>7, OpeningBytes DEF Byte
  <2>2. state' = "Idle" \/ (n = 0 /\ state' = "InFrame")
    BY <1>7, <2>1, StrayByte, Controls
  <2>3. CASE x = Heartbeat
    <3>1. CASE state' = "Idle"
      <4>1. Between(n + 1)'
        BY <1>1, <2>1, <2>3, <3>1 DEF Between
      <4> QED BY <1>4, <1>7, <4>1
    <3>2. CASE n = 0 /\ state' = "InFrame"
      <4>1. n + 1 \in 0 .. Len(sent') /\ n + 1 <= 1 /\ n + 1 <= Len(sent') /\ n + 1 # 0
        BY <1>1, <1>7, <3>2
      <4>2. Astray(n + 1)'
        BY <1>1, <1>2, <2>1, <2>3, <3>2, <4>1 DEF Astray
      <4> QED BY <4>1, <4>2
    <3> QED BY <2>2, <3>1, <3>2
  <2>4. CASE x # Heartbeat
    <3>1. Len(x) \in Nat /\ 0 \in 0 .. Len(x)
      <4>1. x \in Items
        BY <1>1, <1>7, LaterFacts
      <4> QED BY <2>4, <4>1, BodyType DEF Items
    <3>2. CASE state' = "Idle"
      <4>1. WireAt(n, 0, "Idle", "AfterDLE")'
        BY <1>1, <2>1, <2>4, <3>2 DEF WireAt
      <4>2. Skipping(n)'
        BY <1>1, <1>7, <2>4, <3>1, <4>1 DEF Skipping
      <4> QED BY <1>1, <1>5, <1>7, <4>2
    <3>3. CASE n = 0 /\ state' = "InFrame"
      <4>1. WireAt(n, 0, "InFrame", "InFrameAfterDLE")'
        BY <1>1, <2>1, <2>4, <3>3 DEF WireAt
      <4>2. Astray(n)'
        BY <1>1, <1>2, <1>7, <2>4, <3>1, <3>3, <4>1 DEF Astray
      <4> QED BY <1>1, <4>2
    <3> QED BY <2>2, <3>2, <3>3
  <2> QED BY <2>3, <2>4
(* Inside its frame.                                                       *)
<1>8. CASE /\ n = 0 /\ n < Len(sent) /\ x # Heartbeat
           /\ \E j \in 0 .. Len(x) : WireAt(n, j, "InFrame", "InFrameAfterDLE")
  <2>1. PICK j \in 0 .. Len(x) : WireAt(n, j, "InFrame", "InFrameAfterDLE")
    BY <1>8
  <2>2. /\ x \in Bodies
        /\ \/ /\ state = "InFrame" /\ j < Len(x) /\ x[j + 1] # DLE
              /\ Byte = x[j + 1]
              /\ wire' = Rest(x, j + 1) \o Later(n + 1)
           \/ /\ state = "InFrame" /\ Head(Rest(x, j)) = DLE /\ Byte = DLE
              /\ wire' = Tail(Rest(x, j)) \o Later(n + 1)
           \/ /\ state = "InFrameAfterDLE" /\ j < Len(x) /\ Byte = DLE
              /\ wire' = Rest(x, j + 1) \o Later(n + 1)
           \/ /\ state = "InFrameAfterDLE" /\ Byte = ETX
              /\ wire' = Later(n + 1)
    <3>1. sent \in Seq(Items) /\ n < Len(sent) /\ x # Heartbeat
      BY <1>1, <1>8
    <3>2. Byte = Head(wire) /\ wire' = Tail(wire)
      BY <1>1 DEF Byte
    <3> QED BY <2>1, <3>1, <3>2, WireBytes
  <2>3. Len(x) \in Nat /\ (j < Len(x) => j + 1 \in 0 .. Len(x))
    BY <2>2, BodyType
  <2>4. ASSUME NEW k \in 0 .. Len(x), WireAt(n, k, "InFrame", "InFrameAfterDLE")'
        PROVE  Astray(n)'
    <3>1. \E i \in 0 .. Len(sent'[n + 1]) : WireAt(n, i, "InFrame", "InFrameAfterDLE")'
      BY <1>1, <2>4
    <3>2. n <= 1 /\ n <= Len(sent') /\ n < Len(sent') /\ sent'[n + 1] # Heartbeat
      BY <1>1, <1>8
    <3> QED BY <1>2, <1>8, <3>1, <3>2 DEF Astray
  <2>5. CASE j < Len(x) /\ state' \in {"Idle", "InFrame"} /\ wire' = Rest(x, j + 1) \o Later(n + 1)
    <3>1. CASE state' = "Idle"
      <4>1. WireAt(n, j + 1, "Idle", "AfterDLE")'
        BY <1>1, <2>5, <3>1 DEF WireAt
      <4>2. Skipping(n)'
        BY <1>1, <1>8, <2>3, <2>5, <4>1 DEF Skipping
      <4> QED BY <1>1, <1>5, <1>8, <4>2
    <3>2. CASE state' = "InFrame"
      <4>1. WireAt(n, j + 1, "InFrame", "InFrameAfterDLE")'
        BY <1>1, <2>5, <3>2 DEF WireAt
      <4> QED BY <1>1, <2>3, <2>4, <2>5, <4>1
    <3> QED BY <2>5, <3>1, <3>2
  <2>6. CASE /\ state' = "InFrameAfterDLE" /\ Head(Rest(x, j)) = DLE
             /\ wire' = Tail(Rest(x, j)) \o Later(n + 1)
    <3>1. WireAt(n, j, "InFrame", "InFrameAfterDLE")'
      BY <1>1, <2>6 DEF WireAt
    <3> QED BY <1>1, <2>4, <3>1
  <2>7. CASE state' = "Idle" /\ wire' = Later(n + 1)
    <3>1. Between(n + 1)'
      BY <1>1, <2>7 DEF Between
    <3> QED BY <1>4, <1>8, <3>1
  <2> QED BY <2>2, <2>5, <2>6, <2>7, StrayByte, Controls
<1> QED BY <1>6, <1>7, <1>8 DEF Astray

-----------------------------------------------------------------------------
(* Sending: the item's bytes come after all that is on the wire.           *)

(* What is left of an item, or of a body, after a byte.                    *)
LEMMA TailBytes ==
    /\ \A x \in Items : Tail(EncodeItem(x)) \in ByteSeq
    /\ \A x \in Seq(Bytes) : \A j \in 0 .. Len(x) :
          Rest(x, j) \in ByteSeq /\ Tail(Rest(x, j)) \in ByteSeq
<1>1. ASSUME NEW x \in Items PROVE Tail(EncodeItem(x)) \in ByteSeq
  <2>1. CASE x = Heartbeat
    <3>1. EncodeItem(x) = Cat(One(DLE), One(ENQ))
      BY <2>1, ItemBytes
    <3>2. One(ENQ) \in ByteSeq
      BY ConsFacts, Controls
    <3>3. Tail(Cat(One(DLE), One(ENQ))) = One(ENQ)
      BY <3>2, ConsFacts, Controls
    <3> QED BY <3>1, <3>2, <3>3
  <2>2. CASE x # Heartbeat
    <3>1. EncodeItem(x) = Cat(One(DLE), Cat(One(STX), Rest(x, 0))) /\ Rest(x, 0) \in ByteSeq
      BY <2>2, ItemBytes
    <3>2. Cat(One(STX), Rest(x, 0)) \in ByteSeq
      BY <3>1, CatFacts, ConsFacts, Controls
    <3>3. Tail(Cat(One(DLE), Cat(One(STX), Rest(x, 0)))) = Cat(One(STX), Rest(x, 0))
      BY <3>2, ConsFacts, Controls
    <3> QED BY <3>1, <3>2, <3>3
  <2> QED BY <2>1, <2>2
<1>2. ASSUME NEW x \in Seq(Bytes), NEW j \in 0 .. Len(x)
      PROVE  Rest(x, j) \in ByteSeq /\ Tail(Rest(x, j)) \in ByteSeq
  <2> DEFINE r == Rest(x, j)
             q == Rest(x, j + 1)
             b == x[j + 1]
  <2>1. /\ r \in ByteSeq
        /\ j = Len(x) => r = Cat(One(DLE), One(ETX))
        /\ j < Len(x) /\ b = DLE => r = Cat(One(DLE), Cat(One(DLE), q)) /\ q \in ByteSeq
        /\ j < Len(x) /\ b # DLE => r = Cat(One(b), q) /\ q \in ByteSeq /\ b \in Bytes
    BY RestFacts
  <2>2. j = Len(x) \/ j < Len(x)
    BY LenProperties
  <2> HIDE DEF r, q, b
  <2>3. CASE j = Len(x)
    <3>1. One(ETX) \in ByteSeq
      BY ConsFacts, Controls
    <3>2. Tail(Cat(One(DLE), One(ETX))) = One(ETX)
      BY <3>1, ConsFacts, Controls
    <3> QED BY <2>1, <2>3, <3>1, <3>2 DEF r
  <2>4. CASE j < Len(x) /\ b = DLE
    <3>1. Cat(One(DLE), q) \in ByteSeq
      BY <2>1, <2>4, CatFacts, ConsFacts, Controls
    <3>2. Tail(Cat(One(DLE), Cat(One(DLE), q))) = Cat(One(DLE), q)
      BY <3>1, ConsFacts, Controls
    <3> QED BY <2>1, <2>4, <3>1, <3>2 DEF r
  <2>5. CASE j < Len(x) /\ b # DLE
    <3>1. Tail(Cat(One(b), q)) = q
      BY <2>1, <2>5, ConsFacts
    <3> QED BY <2>1, <2>5, <3>1 DEF r
  <2> QED BY <2>2, <2>3, <2>4, <2>5
<1> QED BY <1>1, <1>2

(* What a send leaves alone, and what it adds.                             *)
LEMMA SendFacts ==
    ASSUME Sane, NEW x \in Items, Sends(x, EncodeItem(x))
    PROVE  /\ Sane'
           /\ receiver' = receiver /\ connections' = connections
           /\ state' = state /\ buffer' = buffer /\ got' = got
           /\ Len(sent) \in Nat /\ Len(sent') = Len(sent) + 1
           /\ \A k \in 0 .. Len(sent) :
                 /\ k \in 0 .. Len(sent')
                 /\ k < Len(sent) => k < Len(sent') /\ sent'[k + 1] = sent[k + 1]
                 /\ \A a \in Nat \ {0} : SubSeq(sent', a, k) = SubSeq(sent, a, k)
                 /\ wire = Later(k) => wire' = Later(k)'
                 /\ \A p \in ByteSeq : wire = p \o Later(k) => wire' = p \o Later(k)'
<1>1. /\ sent' = Append(sent, x) /\ wire' = wire \o EncodeItem(x)
      /\ receiver' = receiver /\ connections' = connections
      /\ state' = state /\ buffer' = buffer /\ got' = got
      /\ sent \in Seq(Items) /\ wire \in ByteSeq
  BY DEF Sends, Sane, ParserTypeOK, ByteSeq
<1>2. /\ Len(sent) \in Nat /\ Len(sent') = Len(sent) + 1 /\ sent' \in Seq(Items)
      /\ \A i \in 1 .. Len(sent) : sent'[i] = sent[i]
  BY <1>1, LenProperties, AppendProperties
<1>3. EncodeItem(x) \in ByteSeq /\ x \in Seq(Bytes)
  BY ItemBytes, ItemType
<1>4. Sane'
  <2>1. wire' \in Seq(Bytes)
    BY <1>1, <1>3, CatFacts DEF Cat, ByteSeq
  <2>2. sent' \in Seq(Seq(Bytes))
    BY <1>1, <1>3, AppendProperties DEF Sane, ParserTypeOK
  <2> QED BY <1>1, <1>2, <2>1, <2>2 DEF Sane, ParserTypeOK
<1>5. ASSUME NEW k \in 0 .. Len(sent)
      PROVE  /\ k \in 0 .. Len(sent')
             /\ k < Len(sent) => k < Len(sent') /\ sent'[k + 1] = sent[k + 1]
             /\ \A a \in Nat \ {0} : SubSeq(sent', a, k) = SubSeq(sent, a, k)
             /\ wire = Later(k) => wire' = Later(k)'
             /\ \A p \in ByteSeq : wire = p \o Later(k) => wire' = p \o Later(k)'
  <2>1. k \in 0 .. Len(sent') /\ (k < Len(sent) => k < Len(sent') /\ sent'[k + 1] = sent[k + 1])
    BY <1>2
  <2>2. \A a \in Nat \ {0} : SubSeq(sent', a, k) = SubSeq(sent, a, k)
    BY <1>1, PartSame
  <2>3. Later(k)' = Cat(Later(k), EncodeItem(x)) /\ Later(k) \in ByteSeq
    BY <1>1, LaterMore, LaterFacts DEF Later
  <2>4. wire = Later(k) => wire' = Later(k)'
    BY <1>1, <2>3 DEF Cat
  <2>5. ASSUME NEW p \in ByteSeq, wire = Cat(p, Later(k)) PROVE wire' = Cat(p, Later(k)')
    <3>1. wire' = Cat(Cat(p, Later(k)), EncodeItem(x))
      BY <1>1, <2>5 DEF Cat
    <3> QED BY <1>3, <2>3, <3>1, CatFacts
  <2> QED BY <2>1, <2>2, <2>4, <2>5 DEF Cat
<1> QED BY <1>1, <1>2, <1>4, <1>5

(* A send leaves the parser where it is.                                   *)
LEMMA SendKeeps ==
    ASSUME Sane, NEW x \in Items, Sends(x, EncodeItem(x)), NEW n \in 0 .. Len(sent)
    PROVE  /\ Between(n) => Between(n)'
           /\ Opening(n) => Opening(n)'
           /\ Reading(n) => Reading(n)'
           /\ Skipping(n) => Skipping(n)'
           /\ \A lost \in 0 .. 2 : Arrived(lost, n) => Arrived(lost, n)'
           /\ Astray(n) => Astray(n)'
<1> DEFINE y == sent[n + 1]
<1>1. /\ receiver' = receiver /\ connections' = connections
      /\ state' = state /\ buffer' = buffer /\ got' = got
      /\ Len(sent) \in Nat /\ Len(sent') = Len(sent) + 1
      /\ n < Len(sent) => n < Len(sent') /\ sent'[n + 1] = y
      /\ \A a \in Nat \ {0} : SubSeq(sent', a, n) = SubSeq(sent, a, n)
      /\ wire = Later(n) => wire' = Later(n)'
      /\ sent \in Seq(Items)
  BY SendFacts DEF Sane
<1>2. ASSUME n < Len(sent)
      PROVE  /\ \A p \in ByteSeq : wire = p \o Later(n + 1) => wire' = p \o Later(n + 1)'
             /\ y \in Items
  <2>1. n + 1 \in 0 .. Len(sent)
    BY <1>1, <1>2
  <2> QED BY <1>1, <1>2, <2>1, SendFacts, LaterFacts
<1>3. ASSUME NEW j, n < Len(sent), y # Heartbeat, j \in 0 .. Len(y),
             NEW s1, NEW s2, WireAt(n, j, s1, s2)
      PROVE  WireAt(n, j, s1, s2)'
  <2>1. y \in Seq(Bytes)
    BY <1>2, <1>3, ItemType
  <2>2. Rest(y, j) \in ByteSeq /\ Tail(Rest(y, j)) \in ByteSeq
    BY <1>3, <2>1, TailBytes
  <2>3. \/ state = s1 /\ wire = Rest(y, j) \o Later(n + 1)
        \/ state = s2 /\ Head(Rest(y, j)) = DLE /\ wire = Tail(Rest(y, j)) \o Later(n + 1)
    BY <1>3 DEF WireAt
  <2>4. \/ state' = s1 /\ wire' = Rest(y, j) \o Later(n + 1)'
        \/ state' = s2 /\ Head(Rest(y, j)) = DLE /\ wire' = Tail(Rest(y, j)) \o Later(n + 1)'
    BY <1>1, <1>2, <1>3, <2>2, <2>3
  <2>5. sent'[n + 1] = y
    BY <1>1, <1>3
  <2> QED BY <2>4, <2>5 DEF WireAt
<1>4. ASSUME n < Len(sent), wire = Tail(EncodeItem(y)) \o Later(n + 1)
      PROVE  wire' = Tail(EncodeItem(sent'[n + 1])) \o Later(n + 1)'
  <2>1. Tail(EncodeItem(y)) \in ByteSeq
    BY <1>2, <1>4, TailBytes
  <2> QED BY <1>1, <1>2, <1>4, <2>1
<1>5. Between(n) => Between(n)'
  BY <1>1 DEF Between
<1>6. Opening(n) => Opening(n)'
  BY <1>1, <1>4 DEF Opening
<1>7. ASSUME Reading(n) PROVE Reading(n)'
  <2>1. /\ n < Len(sent) /\ y # Heartbeat
        /\ Len(buffer) <= Len(y) /\ buffer = SubSeq(y, 1, Len(buffer)) /\ Kept(buffer)
        /\ WireAt(n, Len(buffer), "InFrame", "InFrameAfterDLE")
    BY <1>7 DEF Reading
  <2>2. PICK j : j = Len(buffer) /\ j \in 0 .. Len(y)
    <3>1. Len(buffer) \in Nat /\ Len(y) \in Nat
      BY <1>2, <2>1, ItemType, LenProperties DEF Sane, ParserTypeOK
    <3> QED BY <2>1, <3>1
  <2>3. WireAt(n, j, "InFrame", "InFrameAfterDLE")'
    BY <1>3, <2>1, <2>2
  <2>4. n < Len(sent') /\ sent'[n + 1] = y /\ buffer' = buffer
    BY <1>1, <2>1
  <2> QED BY <2>1, <2>2, <2>3, <2>4 DEF Reading
<1>8. ASSUME Skipping(n) PROVE Skipping(n)'
  <2>1. n < Len(sent) /\ y # Heartbeat
    BY <1>8 DEF Skipping
  <2>2. PICK j \in 0 .. Len(y) : WireAt(n, j, "Idle", "AfterDLE")
    BY <1>8 DEF Skipping
  <2>3. WireAt(n, j, "Idle", "AfterDLE")'
    BY <1>3, <2>1, <2>2
  <2>4. n < Len(sent') /\ sent'[n + 1] = y
    BY <1>1, <2>1
  <2> QED BY <2>1, <2>2, <2>3, <2>4 DEF Skipping
<1>9. ASSUME NEW lost \in 0 .. 2, Arrived(lost, n) PROVE Arrived(lost, n)'
  <2>1. SubSeq(sent', lost + 1, n) = SubSeq(sent, lost + 1, n)
    BY <1>1
  <2> QED BY <1>1, <1>9, <2>1 DEF Arrived
<1>10. ASSUME Astray(n) PROVE Astray(n)'
  <2>1. ~FreshParser' /\ n <= 1 /\ n <= Len(sent')
    BY <1>1, <1>10 DEF Astray, FreshParser
  <2>2. CASE wire = Later(n) /\ IF n = 0 THEN got = << >> ELSE state = "InFrame"
    BY <1>1, <2>1, <2>2 DEF Astray
  <2>3. CASE /\ n < Len(sent)
             /\ wire = Tail(EncodeItem(y)) \o Later(n + 1)
             /\ state = "InFrameAfterDLE" \/ (n = 0 /\ state \in {"Idle", "InFrame"})
    BY <1>1, <1>4, <2>1, <2>3 DEF Astray
  <2>4. CASE /\ n = 0 /\ n < Len(sent) /\ y # Heartbeat
             /\ \E j \in 0 .. Len(y) : WireAt(n, j, "InFrame", "InFrameAfterDLE")
    <3>1. PICK j \in 0 .. Len(y) : WireAt(n, j, "InFrame", "InFrameAfterDLE")
      BY <2>4
    <3>2. WireAt(n, j, "InFrame", "InFrameAfterDLE")'
      BY <1>3, <2>4, <3>1
    <3>3. n < Len(sent') /\ sent'[n + 1] = y
      BY <1>1, <2>4
    <3> QED BY <2>1, <2>4, <3>1, <3>2, <3>3 DEF Astray
  <2> QED BY <1>10, <2>2, <2>3, <2>4 DEF Astray
<1> QED BY <1>5, <1>6, <1>7, <1>8, <1>9, <1>10

(* So it stays in step, or astray.                                         *)
LEMMA SendStep ==
    ASSUME ParserInv, NEW x \in Items, Sends(x, EncodeItem(x))
    PROVE  ParserInv'
<1>1. Sane
  BY DEF ParserInv, Sane, Items
<1>2. PICK n \in 0 .. Len(sent) : Astray(n) \/ \E lost \in 0 .. 2 : InStep(n, lost)
  BY DEF ParserInv
<1>3. /\ Sane' /\ n \in 0 .. Len(sent') /\ receiver' = receiver /\ connections' = connections
      /\ n < Len(sent) => sent'[n + 1] = sent[n + 1]
  BY <1>1, SendFacts
<1>4. ASSUME NEW lost \in 0 .. 2, InStep(n, lost) PROVE InStep(n, lost)'
  <2>1. /\ lost <= 2 /\ (FreshParser' => lost = 0) /\ Arrived(lost, n)'
    BY <1>1, <1>3, <1>4, SendKeeps DEF InStep, FreshParser
  <2>2. CASE lost <= n /\ (Between(n) \/ Opening(n) \/ Reading(n))
    <3>1. Between(n)' \/ Opening(n)' \/ Reading(n)'
      BY <1>1, <2>2, SendKeeps
    <3> QED BY <2>1, <2>2, <3>1 DEF InStep
  <2>3. CASE (lost = n + 1 \/ (lost <= n /\ ~Kept(sent[n + 1]))) /\ Skipping(n)
    <3>1. Skipping(n)'
      BY <1>1, <2>3, SendKeeps
    <3>2. sent'[n + 1] = sent[n + 1]
      BY <1>3, <2>3 DEF Skipping
    <3> QED BY <2>1, <2>3, <3>1, <3>2 DEF InStep
  <2> QED BY <1>4, <2>2, <2>3 DEF InStep
<1>5. Astray(n) => Astray(n)'
  BY <1>1, SendKeeps
<1>6. \E m \in 0 .. Len(sent') : Astray(m)' \/ \E lost \in 0 .. 2 : InStep(m, lost)'
  BY <1>2, <1>3, <1>4, <1>5
<1> QED BY <1>3, <1>6 DEF ParserInv, Sane, Items
-----------------------------------------------------------------------------
(* The inductive invariant.                                                *)

(* Feeding a byte keeps it.                                                *)
LEMMA FeedStep == ASSUME ParserInv, Feed PROVE ParserInv'
<1>1. Sane
  BY DEF ParserInv, Sane, Items
<1>2. PICK n \in 0 .. Len(sent) : Astray(n) \/ \E lost \in 0 .. 2 : InStep(n, lost)
  BY DEF ParserInv
<1>3. CASE Astray(n)
  BY <1>1, <1>3, FeedType, AstrayFeeds DEF ParserInv, Sane, Items
<1>4. CASE \E lost \in 0 .. 2 : InStep(n, lost)
  <2>1. PICK lost \in 0 .. 2 : InStep(n, lost)
    BY <1>4
  <2>2. \E m \in 0 .. Len(sent') : InStep(m, lost)'
    BY <1>1, <2>1, InStepFeeds
  <2>3. Sane'
    BY <1>1, FeedType
  <2> QED BY <2>2, <2>3 DEF ParserInv, Sane, Items
<1> QED BY <1>2, <1>3, <1>4

(* At the start of a connection nothing has been sent, and a parser made   *)
(* for it is in step.                                                      *)
AtStart == wire = << >> /\ sent = << >> /\ got = << >>
Placed == 
    /\ sent \in Seq(Items)
    /\ \E n \in 0 .. Len(sent) : Astray(n) \/ \E lost \in 0 .. 2 : InStep(n, lost)

LEMMA NothingSent == AtStart /\ (state = "Idle" \/ ~FreshParser) => Placed
<1> SUFFICES ASSUME AtStart, state = "Idle" \/ ~FreshParser PROVE Placed
  OBVIOUS
<1>1. wire = << >> /\ sent = << >> /\ got = << >>
  BY DEF AtStart
<1>2. sent \in Seq(Items) /\ 0 \in 0 .. Len(sent) /\ Len(sent) = 0
  BY <1>1, EmptySeq
<1>3. wire = Later(0)
  BY <1>1, <1>2, LaterFacts
<1>4. ASSUME state = "Idle" PROVE InStep(0, 0)
  <2>1. << >> \in Seq(Items) /\ Len(<< >>) = 0 /\ 0 \in Nat /\ 0 <= 0 /\ 0 \in 0 .. 0
    BY EmptySeq
  <2>2. TailFrom(<< >>, Len(<< >>) + 1) = KeptOf(SubSeq(sent, 0 + 1, 0))
    BY <2>1, ArrivedNone
  <2>3. Arrived(0, 0)
    BY <1>1, <2>1, <2>2 DEF Arrived
  <2> QED BY <1>3, <1>4, <2>3 DEF InStep, Between
<1>5. ~FreshParser => Astray(0)
  BY <1>1, <1>2, <1>3 DEF Astray
<1>6. 0 \in 0 .. 2
  OBVIOUS
<1> QED BY <1>2, <1>4, <1>5, <1>6 DEF Placed

(* The initial states satisfy it.                                          *)
LEMMA InitStep == ASSUME ParserInit PROVE ParserInv
<1>1. state = "Idle" /\ AtStart
  BY DEF ParserInit, AtStart
<1>2. << >> \in Seq(Bytes) /\ << >> \in Seq(Seq(Bytes)) /\ 1 \in 1 .. MaxConnections
  BY EmptySeq, ParserAssumption
<1>3. ParserTypeOK
  BY <1>2 DEF ParserInit, ParserTypeOK
<1> QED BY <1>1, <1>3, NothingSent DEF ParserInv, Placed, Items

(* A new connection: the server's parser is new, the client's astray.      *)
LEMMA ReconnectStep == ASSUME ParserInv, Reconnect PROVE ParserInv'
<1>1. /\ connections < MaxConnections /\ connections' = connections + 1
      /\ wire' = << >> /\ sent' = << >> /\ got' = << >> /\ receiver' = receiver
      /\ state' = (IF receiver = "server" THEN "Idle" ELSE state)
      /\ buffer' = (IF receiver = "server" THEN << >> ELSE buffer)
  BY DEF Reconnect
<1>2. << >> \in Seq(Bytes) /\ << >> \in Seq(Seq(Bytes))
  BY EmptySeq
<1>3. connections \in 1 .. MaxConnections /\ connections' \in 1 .. MaxConnections /\ connections' # 1
  BY <1>1, ParserAssumption DEF ParserInv, ParserTypeOK
<1>4. ParserTypeOK'
  BY <1>1, <1>2, <1>3 DEF ParserInv, ParserTypeOK
<1>5. (AtStart /\ (state = "Idle" \/ ~FreshParser))' => Placed'
  BY NothingSent, PTL
<1>6. AtStart'
  BY <1>1 DEF AtStart
<1>7. state' = "Idle" \/ ~FreshParser'
  BY <1>1, <1>3 DEF FreshParser, ParserInv, ParserTypeOK
<1>8. Placed'
  BY <1>5, <1>6, <1>7
<1> QED BY <1>4, <1>8 DEF ParserInv, Placed, Items
-----------------------------------------------------------------------------
(* Every step keeps it.                                                    *)
LEMMA ParserStep == ParserInv /\ [ParserNext]_vars => ParserInv'
<1> SUFFICES ASSUME ParserInv, [ParserNext]_vars PROVE ParserInv'
  OBVIOUS
<1>1. CASE Feed
  BY <1>1, FeedStep
<1>2. ASSUME NEW body \in Bodies, SendFrame(body) PROVE ParserInv'
  <2>1. EncodeItem(body) = Encode(body) /\ body \in Items
    BY <1>2, BodyType DEF EncodeItem, Items
  <2> QED BY <1>2, <2>1, SendStep DEF SendFrame
<1>3. CASE SendHeartbeat
  <2>1. EncodeItem(Heartbeat) = EncodeHeartbeat /\ Heartbeat \in Items
    BY DEF EncodeItem, Items
  <2> QED BY <1>3, <2>1, SendStep DEF SendHeartbeat
<1>4. CASE Reconnect
  BY <1>4, ReconnectStep
<1>5. CASE UNCHANGED vars
  <2>1. /\ receiver' = receiver /\ state' = state /\ buffer' = buffer /\ wire' = wire
        /\ sent' = sent /\ got' = got /\ connections' = connections
    BY <1>5 DEF vars
  <2>2. \A k : Later(k)' = Later(k)
    BY <2>1 DEF Later
  <2>3. ASSUME NEW n, Astray(n) PROVE Astray(n)'
    BY <2>1, <2>2, <2>3 DEF Astray, WireAt, FreshParser
  <2>4. ASSUME NEW n, NEW lost, InStep(n, lost) PROVE InStep(n, lost)'
    <3>1. Between(n)' = Between(n) /\ Opening(n)' = Opening(n)
      BY <2>1, <2>2 DEF Between, Opening
    <3>2. Reading(n)' = Reading(n)
      BY <2>1, <2>2 DEF Reading, WireAt
    <3>3. Skipping(n)' = Skipping(n)
      BY <2>1, <2>2 DEF Skipping, WireAt
    <3>4. Arrived(lost, n)' = Arrived(lost, n) /\ FreshParser' = FreshParser
      BY <2>1 DEF Arrived, FreshParser
    <3> QED BY <2>1, <2>4, <3>1, <3>2, <3>3, <3>4 DEF InStep
  <2>5. PICK n \in 0 .. Len(sent) : Astray(n) \/ \E lost \in 0 .. 2 : InStep(n, lost)
    BY DEF ParserInv
  <2>6. Astray(n)' \/ \E lost \in 0 .. 2 : InStep(n, lost)'
    BY <2>3, <2>4, <2>5
  <2>7. Sane'
    BY <2>1 DEF ParserInv, Sane, ParserTypeOK, Items
  <2> QED BY <2>1, <2>6, <2>7 DEF ParserInv, Sane, Items
<1> QED BY <1>1, <1>2, <1>3, <1>4, <1>5 DEF ParserNext, Feed

(* The inductive invariant is one: what is on the wire is always what is   *)
(* left of what was sent, at the place where feed stands in it.            *)
THEOREM ParserInvariant == ParserSpec => []ParserInv
<1>1. ParserInit => ParserInv
  BY InitStep
<1>2. ParserInv /\ [ParserNext]_vars => ParserInv'
  BY ParserStep
<1> QED BY <1>1, <1>2, PTL DEF ParserSpec

(* Type correctness of feed and of the stream, for every size of body,     *)
(* limit and number of connections.                                        *)
THEOREM ParserTypeIsOK == ParserSpec => []ParserTypeOK
<1>1. ParserInv => ParserTypeOK
  BY DEF ParserInv
<1> QED BY <1>1, ParserInvariant, PTL

(* When the wire is empty the parser is between items, and has seen all.   *)
LEMMA AllFed ==
    ASSUME Sane, wire = << >>, NEW n \in 0 .. Len(sent), NEW lost \in 0 .. 2, InStep(n, lost)
    PROVE  n = Len(sent) /\ lost <= n
<1>0. sent \in Seq(Items) /\ Len(sent) \in Nat
  BY LenProperties DEF Sane
<1>1. ~Opening(n)
  BY <1>0, OpeningBytes DEF Opening
<1>2. ~Reading(n)
  <2> SUFFICES ASSUME Reading(n) PROVE FALSE
    OBVIOUS
  <2>1. /\ n < Len(sent) /\ sent[n + 1] # Heartbeat /\ Len(buffer) <= Len(sent[n + 1])
        /\ WireAt(n, Len(buffer), "InFrame", "InFrameAfterDLE")
    BY DEF Reading
  <2>2. Len(buffer) \in 0 .. Len(sent[n + 1])
    <3>1. sent[n + 1] \in Seq(Bytes)
      BY <1>0, <2>1, LaterFacts, ItemType
    <3>2. Len(buffer) \in Nat /\ Len(sent[n + 1]) \in Nat
      BY <3>1, LenProperties DEF Sane, ParserTypeOK
    <3> QED BY <2>1, <3>2
  <2> QED BY <1>0, <2>1, <2>2, WireBytes
<1>3. ~Skipping(n)
  BY <1>0, WireBytes DEF Skipping
<1>4. lost <= n /\ wire = Later(n)
  BY <1>1, <1>2, <1>3 DEF InStep, Between
<1>5. ~(n < Len(sent))
  <2> SUFFICES ASSUME n < Len(sent) PROVE FALSE
    OBVIOUS
  <2>1. sent[n + 1] \in Items /\ Later(n + 1) \in ByteSeq
        /\ wire = Cat(EncodeItem(sent[n + 1]), Later(n + 1))
    BY <1>0, <1>4, LaterFacts
  <2> QED BY <2>1, ItemStarts DEF Starts
<1> QED BY <1>0, <1>4, <1>5

(* What comes first in a sequence, and what comes last.                    *)
LEMMA ConcatEnds ==
    ASSUME NEW S, NEW p \in Seq(S), NEW q \in Seq(S)
    PROVE  IsPrefix(p, p \o q) /\ IsSuffix(q, p \o q)
<1> DEFINE c == p \o q
           l == Len(p)
           m == Len(q)
<1>1. /\ c \in Seq(S) /\ Len(c) = l + m /\ l \in Nat /\ m \in Nat
      /\ \A i \in 1 .. l : c[i] = p[i]
      /\ \A i \in 1 .. m : c[l + i] = q[i]
  <2>1. l \in Nat /\ m \in Nat
    BY LenProperties
  <2>2. /\ c \in Seq(S) /\ Len(c) = l + m
        /\ \A i \in 1 .. Len(p) + Len(q) : c[i] = IF i <= Len(p) THEN p[i] ELSE q[i - Len(p)]
    BY ConcatProperties
  <2> HIDE DEF c, l, m
  <2>3. \A i \in 1 .. l : c[i] = p[i]
    BY <2>1, <2>2 DEF l, m
  <2>4. ASSUME NEW i \in 1 .. m PROVE c[l + i] = q[i]
    <3>1. l + i \in 1 .. l + m /\ ~(l + i <= l) /\ (l + i) - l = i
      BY <2>1
    <3> QED BY <2>2, <3>1 DEF l, m
  <2> QED BY <2>1, <2>2, <2>3, <2>4
<1> HIDE DEF c, l, m
<1>2. ASSUME NEW u \in Seq(S), NEW v \in Seq(S), NEW k \in Nat, k <= Len(u), k <= Len(v),
             \A i \in 1 .. k : u[i] = v[i]
      PROVE  SubSeq(u, 1, k) = SubSeq(v, 1, k)
  <2>0. Len(u) \in Nat /\ Len(v) \in Nat
    BY LenProperties
  <2>1. \A i \in 1 .. k : u[i] \in S /\ v[i] \in S
    <3> TAKE i \in 1 .. k
    <3>1. i \in 1 .. Len(u) /\ i \in 1 .. Len(v)
      BY <1>2, <2>0
    <3> QED BY <3>1, ElementOfSeq
  <2>2. /\ SubSeq(u, 1, k) \in Seq(S) /\ Len(SubSeq(u, 1, k)) = IF 1 <= k THEN k - 1 + 1 ELSE 0
        /\ \A i \in 1 .. k - 1 + 1 : SubSeq(u, 1, k)[i] = u[1 + i - 1]
    BY <2>1, SubSeqProperties
  <2>3. /\ SubSeq(v, 1, k) \in Seq(S) /\ Len(SubSeq(v, 1, k)) = IF 1 <= k THEN k - 1 + 1 ELSE 0
        /\ \A i \in 1 .. k - 1 + 1 : SubSeq(v, 1, k)[i] = v[1 + i - 1]
    BY <2>1, SubSeqProperties
  <2>4. \A i \in 1 .. Len(SubSeq(v, 1, k)) : SubSeq(u, 1, k)[i] = SubSeq(v, 1, k)[i]
    BY <1>2, <2>2, <2>3
  <2> QED BY <2>2, <2>3, <2>4, SeqEqual
<1>3. IsPrefix(p, c)
  <2>1. l <= Len(p) /\ l <= Len(c) /\ \A i \in 1 .. l : p[i] = c[i]
    BY <1>1 DEF l
  <2>2. SubSeq(p, 1, l) = SubSeq(c, 1, l)
    BY <1>1, <1>2, <2>1
  <2> QED BY <2>1, <2>2 DEF IsPrefix, l
<1>4. IsSuffix(q, c)
  <2> DEFINE u == Reverse(q)
             v == Reverse(c)
  <2>1. ASSUME NEW w \in Seq(S)
        PROVE  /\ Reverse(w) \in Seq(S) /\ Len(Reverse(w)) = Len(w) /\ Len(w) \in Nat
               /\ \A i \in 1 .. Len(w) : Reverse(w)[i] = w[(Len(w) - i) + 1]
    <3>1. Len(w) \in Nat
      BY LenProperties
    <3>2. \A i \in 1 .. Len(w) : w[(Len(w) - i) + 1] \in S
      <4> TAKE i \in 1 .. Len(w)
      <4>1. (Len(w) - i) + 1 \in 1 .. Len(w)
        BY <3>1
      <4> QED BY <4>1, ElementOfSeq
    <3>3. Reverse(w) \in [1 .. Len(w) -> S]
      BY <3>2 DEF Reverse
    <3>4. Reverse(w) \in Seq(S) /\ Len(Reverse(w)) = Len(w)
      BY <3>1, <3>3, SeqDef
    <3> QED BY <3>1, <3>4 DEF Reverse
  <2>2. /\ u \in Seq(S) /\ Len(u) = m /\ \A i \in 1 .. m : u[i] = q[(m - i) + 1]
        /\ v \in Seq(S) /\ Len(v) = l + m /\ \A i \in 1 .. l + m : v[i] = c[((l + m) - i) + 1]
    <3>1. /\ Reverse(q) \in Seq(S) /\ Len(Reverse(q)) = Len(q)
          /\ \A i \in 1 .. Len(q) : Reverse(q)[i] = q[(Len(q) - i) + 1]
      BY <2>1
    <3>2. /\ Reverse(c) \in Seq(S) /\ Len(Reverse(c)) = Len(c)
          /\ \A i \in 1 .. Len(c) : Reverse(c)[i] = c[(Len(c) - i) + 1]
      BY <1>1, <2>1
    <3>3. u \in Seq(S) /\ Len(u) = m /\ \A i \in 1 .. m : u[i] = q[(m - i) + 1]
      BY <3>1 DEF m
    <3>4. v \in Seq(S) /\ Len(v) = l + m /\ \A i \in 1 .. l + m : v[i] = c[((l + m) - i) + 1]
      BY <1>1, <3>2
    <3> QED BY <3>3, <3>4
  <2> HIDE DEF u, v
  <2>3. ASSUME NEW i \in 1 .. m PROVE u[i] = v[i]
    <3>1. /\ i \in 1 .. l + m /\ (m - i) + 1 \in 1 .. m
          /\ ((l + m) - i) + 1 = l + ((m - i) + 1)
      BY <1>1
    <3>2. v[i] = c[l + ((m - i) + 1)]
      BY <2>2, <3>1
    <3> QED BY <1>1, <2>2, <3>1, <3>2
  <2>4. m <= Len(u) /\ m <= Len(v)
    BY <1>1, <2>2
  <2>5. SubSeq(u, 1, m) = SubSeq(v, 1, m)
    <3>1. u \in Seq(S) /\ v \in Seq(S) /\ m \in Nat
      BY <1>1, <2>2
    <3>2. \A i \in 1 .. m : u[i] = v[i]
      BY <2>3
    <3> QED BY <1>2, <2>4, <3>1, <3>2
  <2> QED BY <2>2, <2>4, <2>5 DEF IsSuffix, IsPrefix, u, v
<1> QED BY <1>3, <1>4 DEF c

(* Every frame and heartbeat that feed delivers is one that was sent, in   *)
(* order and unchanged, and none is missing but those over the limit.      *)
THEOREM FramesAreIntact == ParserSpec => []FramesIntact
<1>1. ASSUME ParserInv PROVE FramesIntact
  <2> SUFFICES ASSUME FreshParser
               PROVE  /\ IsPrefix(got, KeptOf(sent))
                      /\ wire = << >> => got = KeptOf(sent)
    BY DEF FramesIntact
  <2>0. /\ Sane /\ sent \in Seq(Items) /\ got \in Seq(ByteSeq) /\ Len(sent) \in Nat
    BY <1>1, LenProperties DEF ParserInv, Sane, Items, ParserTypeOK, ByteSeq
  <2>1. PICK n \in 0 .. Len(sent) : \E lost \in 0 .. 2 : InStep(n, lost)
    BY <1>1 DEF ParserInv, Astray
  <2>2. InStep(n, 0)
    BY <2>1 DEF InStep
  <2>3. got = KeptOf(SubSeq(sent, 1, n))
    <3>1. TailFrom(got, 1) = KeptOf(SubSeq(sent, 1, n))
      BY <2>2 DEF InStep, Arrived
    <3>2. TailFrom(got, 1) = got
      BY <2>0, SubSeqFull DEF TailFrom
    <3> QED BY <3>1, <3>2
  <2>4. TailFrom(sent, 1) = sent
    BY <2>0, SubSeqFull DEF TailFrom
  <2>5. /\ KeptOf(sent) = got \o KeptOf(TailFrom(sent, n + 1))
        /\ got \in Seq(Items) /\ KeptOf(TailFrom(sent, n + 1)) \in Seq(Items)
    <3>1. 1 \in 1 .. n + 1
      OBVIOUS
    <3>2. /\ KeptOf(TailFrom(sent, 1)) = KeptOf(SubSeq(sent, 1, n)) \o KeptOf(TailFrom(sent, n + 1))
          /\ KeptOf(SubSeq(sent, 1, n)) \in Seq(Items) /\ KeptOf(TailFrom(sent, n + 1)) \in Seq(Items)
      BY <2>0, <3>1, KeptSplit
    <3> QED BY <2>3, <2>4, <3>2
  <2>6. IsPrefix(got, KeptOf(sent))
    BY <2>5, ConcatEnds
  <2>7. ASSUME wire = << >> PROVE got = KeptOf(sent)
    <3>1. n = Len(sent)
      BY <2>0, <2>2, <2>7, AllFed
    <3>2. SubSeq(sent, 1, n) = sent
      BY <2>4, <3>1 DEF TailFrom
    <3> QED BY <2>3, <3>2
  <2> QED BY <2>6, <2>7
<1> QED BY <1>1, ParserInvariant, PTL

(* A parser that an earlier connection left inside a frame is back in step *)
(* after at most two items, whatever they are.                             *)
THEOREM ParserDoesResync == ParserSpec => []ParserResyncs
<1>1. ASSUME ParserInv PROVE ParserResyncs
  <2> DEFINE last == KeptOf(TailFrom(sent, 3))
  <2> SUFFICES ASSUME wire = << >> PROVE IsSuffix(last, got)
    BY DEF ParserResyncs, TailFrom
  <2>0. /\ Sane /\ sent \in Seq(Items) /\ got \in Seq(ByteSeq) /\ Len(sent) \in Nat
        /\ Len(got) \in Nat
    BY <1>1, LenProperties DEF ParserInv, Sane, Items, ParserTypeOK, ByteSeq
  <2>1. ASSUME Len(sent) < 2 PROVE IsSuffix(last, got)
    <3>1. TailFrom(sent, 3) = << >>
      BY <2>0, <2>1, SubSeqEmpty DEF TailFrom
    <3>2. << >> \in Seq(Items) /\ << >> \in Seq(ByteSeq)
      BY EmptySeq
    <3>3. last = << >>
      BY <3>1, <3>2, KeptIsJoined, JoinedNone
    <3>4. got \o << >> = got
      BY <2>0, ConcatEmptySeq
    <3>5. IsSuffix(<< >>, got \o << >>)
      BY <2>0, <3>2, ConcatEnds
    <3> QED BY <3>3, <3>4, <3>5
  <2>2. PICK n \in 0 .. Len(sent) : Astray(n) \/ \E lost \in 0 .. 2 : InStep(n, lost)
    BY <1>1 DEF ParserInv
  <2>3. CASE Astray(n)
    <3>1. ~(n < Len(sent) /\ wire = Tail(EncodeItem(sent[n + 1])) \o Later(n + 1))
      BY <2>0, OpeningBytes
    <3>2. ~(/\ n < Len(sent) /\ sent[n + 1] # Heartbeat
            /\ \E j \in 0 .. Len(sent[n + 1]) : WireAt(n, j, "InFrame", "InFrameAfterDLE"))
      BY <2>0, WireBytes
    <3>3. wire = Later(n) /\ n <= 1
      BY <2>3, <3>1, <3>2 DEF Astray
    <3>4. ~(n < Len(sent))
      <4> SUFFICES ASSUME n < Len(sent) PROVE FALSE
        OBVIOUS
      <4>1. sent[n + 1] \in Items /\ Later(n + 1) \in ByteSeq
            /\ wire = Cat(EncodeItem(sent[n + 1]), Later(n + 1))
        BY <2>0, <3>3, LaterFacts
      <4> QED BY <4>1, ItemStarts DEF Starts
    <3>5. Len(sent) < 2
      BY <2>0, <3>3, <3>4
    <3> QED BY <2>1, <3>5
  <2>4. CASE \E lost \in 0 .. 2 : InStep(n, lost)
    <3>1. PICK lost \in 0 .. 2 : InStep(n, lost)
      BY <2>4
    <3>2. n = Len(sent) /\ lost <= n
      BY <2>0, <3>1, AllFed
    <3>3. PICK h \in 0 .. Len(got) : TailFrom(got, h + 1) = KeptOf(TailFrom(sent, lost + 1))
      BY <3>1, <3>2 DEF InStep, Arrived, TailFrom
    <3>4. CASE Len(sent) >= 2
      <4> DEFINE p == SubSeq(got, 1, h)
                 q == KeptOf(SubSeq(sent, lost + 1, 2))
      <4>1. /\ KeptOf(TailFrom(sent, lost + 1)) = q \o last /\ q \in Seq(Items) /\ last \in Seq(Items)
        <5>1. lost + 1 \in 1 .. 2 + 1 /\ 2 \in 0 .. Len(sent) /\ 2 + 1 = 3
          BY <2>0, <3>4
        <5>2. /\ KeptOf(TailFrom(sent, lost + 1)) = q \o KeptOf(TailFrom(sent, 2 + 1))
              /\ q \in Seq(Items) /\ KeptOf(TailFrom(sent, 2 + 1)) \in Seq(Items)
          BY <2>0, <5>1, KeptSplit
        <5> QED BY <5>1, <5>2
      <4>2. got = p \o TailFrom(got, h + 1) /\ p \in Seq(ByteSeq)
        <5>1. /\ 1 \in 1 .. Len(got) + 1 /\ h \in 1 - 1 .. Len(got) /\ Len(got) \in h .. Len(got)
          BY <2>0
        <5>2. SubSeq(got, 1, h) \o SubSeq(got, h + 1, Len(got)) = SubSeq(got, 1, Len(got))
          BY <2>0, <5>1, ConcatAdjacentSubSeq
        <5>3. SubSeq(got, 1, Len(got)) = got
          BY <2>0, SubSeqFull
        <5>4. p \in Seq(ByteSeq)
          <6>1. \A i \in 1 .. h : got[i] \in ByteSeq
            <7> TAKE i \in 1 .. h
            <7>1. i \in 1 .. Len(got)
              BY <2>0
            <7> QED BY <2>0, <7>1, ElementOfSeq
          <6> QED BY <2>0, <6>1, SubSeqProperties
        <5> QED BY <5>2, <5>3, <5>4 DEF TailFrom
      <4>3. q \in Seq(ByteSeq) /\ last \in Seq(ByteSeq)
        <5>1. Items \subseteq ByteSeq
          BY ItemType DEF ByteSeq
        <5>2. \A w \in Seq(Items) : w \in Seq(ByteSeq)
          BY <5>1, SeqSubset
        <5> QED BY <4>1, <5>2
      <4> HIDE DEF p, q, last
      <4>4. got = (p \o q) \o last /\ p \o q \in Seq(ByteSeq)
        <5>1. got = p \o (q \o last)
          BY <3>3, <4>1, <4>2
        <5>2. (p \o q) \o last = p \o (q \o last) /\ p \o q \in Seq(ByteSeq)
          BY <4>2, <4>3, Regroup
        <5> QED BY <5>1, <5>2
      <4>5. IsSuffix(last, (p \o q) \o last)
        BY <4>3, <4>4, ConcatEnds
      <4> QED BY <4>4, <4>5
    <3> QED BY <2>0, <2>1, <3>4
  <2> QED BY <2>2, <2>3, <2>4
<1> QED BY <1>1, ParserInvariant, PTL
=============================================================================
