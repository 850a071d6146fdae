--------------------------- MODULE ProtocolProofs ---------------------------
(***************************************************************************)
(* Lemmas about the maps of Protocol that the other proofs cite, induction *)
(* over the natural numbers, as a fact about sets of them, and FlattenSeq. *)
(***************************************************************************)
EXTENDS Protocol, FiniteSets, SequencesExt, FiniteSetTheorems, SequenceTheorems,
        WellFoundedInduction, TLAPS

(* What Put and Erase do to the set of maps they range over.               *)
LEMMA PutType ==
    ASSUME NEW K, NEW V, NEW m \in Maps(K, V), NEW k \in K, NEW v \in V
    PROVE  Put(m, k, v) \in Maps(K, V)
<1> PICK D \in SUBSET K : m \in [D -> V]
  BY DEF Maps
<1>1. Put(m, k, v) \in [D \cup {k} -> V]
  BY DEF Put
<1> QED BY <1>1 DEF Maps

(* erase keeps a map a map of the same kind.                               *)
LEMMA EraseType ==
    ASSUME NEW K, NEW V, NEW m \in Maps(K, V), NEW k
    PROVE  Erase(m, k) \in Maps(K, V)
<1> PICK D \in SUBSET K : m \in [D -> V]
  BY DEF Maps
<1>1. Erase(m, k) \in [D \ {k} -> V]
  BY DEF Erase
<1> QED BY <1>1 DEF Maps

(* A new map is a map of any kind.                                         *)
LEMMA EmptyType == ASSUME NEW K, NEW V PROVE EmptyMap \in Maps(K, V)
<1>1. EmptyMap \in [{} -> V]
  BY DEF EmptyMap
<1> QED BY <1>1 DEF Maps

(* Applying a map.                                                         *)
LEMMA MapApply ==
    ASSUME NEW K, NEW V, NEW m \in Maps(K, V), NEW x \in DOMAIN m
    PROVE  x \in K /\ m[x] \in V
BY DEF Maps

(* The keys of a map after Put and Erase, and what they are mapped to.     *)
LEMMA PutApply ==
    ASSUME NEW m, NEW k, NEW v
    PROVE  /\ DOMAIN Put(m, k, v) = DOMAIN m \cup {k}
           /\ Put(m, k, v)[k] = v
           /\ \A x \in DOMAIN m : x # k => Put(m, k, v)[x] = m[x]
BY DEF Put

(* The keys of a map after erase, and what they are mapped to.             *)
LEMMA EraseApply ==
    ASSUME NEW m, NEW k
    PROVE  /\ DOMAIN Erase(m, k) = DOMAIN m \ {k}
           /\ \A x \in DOMAIN m : x # k => Erase(m, k)[x] = m[x]
BY DEF Erase

-----------------------------------------------------------------------------
Less == {ss \in Nat \X Nat : ss[1] < ss[2]}

(* The order of the natural numbers.                                       *)
LEMMA LessIsWellFounded == IsWellFoundedOn(Less, Nat)
BY NatLessThanWellFounded DEF OpToRel, Less

(* A set of numbers with 0 and the successor of each of its members.       *)
LEMMA SetInduction ==
    ASSUME NEW S, 0 \in S, \A n \in Nat : n \in S => n + 1 \in S
    PROVE  Nat \subseteq S
<1> DEFINE T == Nat \ S
<1>1. SUFFICES ASSUME T # {} PROVE FALSE
  OBVIOUS
<1>2. PICK x \in T : \A y \in T : ~(<<y, x>> \in Less)
  BY <1>1, WFMin, LessIsWellFounded
<1>3. x \in Nat /\ x # 0 /\ x - 1 \in Nat
  OBVIOUS
<1>4. x - 1 \notin T
  <2>1. <<x - 1, x>> \in Nat \X Nat /\ x - 1 < x
    BY <1>3
  <2>2. <<x - 1, x>> \in Less
    BY <2>1 DEF Less
  <2> QED BY <1>2, <2>2
<1> QED BY <1>3, <1>4

-----------------------------------------------------------------------------
(* A sequence over a set is one over a larger set.                         *)
LEMMA SeqSubset ==
    ASSUME NEW S, NEW T, S \subseteq T, NEW q \in Seq(S)
    PROVE  q \in Seq(T)
<1>1. Len(q) \in Nat /\ q \in [1 .. Len(q) -> S]
  BY LenProperties, ElementOfSeq
<1>2. q \in [1 .. Len(q) -> T]
  BY <1>1
<1> QED BY <1>1, <1>2, SeqDef

-----------------------------------------------------------------------------
(* Flattened sequences.                                                    *)

(* f[i] is the concatenation of the first i of the sequences ss.           *)
Flat(ss, f, n) == f = [i \in 1 .. n |-> IF i = 1 THEN ss[i] ELSE f[i - 1] \o ss[i]]

(* Its values one by one.                                                  *)
LEMMA FlatAt ==
    ASSUME NEW ss, NEW f, NEW n, Flat(ss, f, n), NEW i \in 1 .. n
    PROVE  f[i] = IF i = 1 THEN ss[i] ELSE f[i - 1] \o ss[i]
<1>1. \A j \in 1 .. n : f[j] = IF j = 1 THEN ss[j] ELSE f[j - 1] \o ss[j]
  BY DEF Flat
<1> QED BY <1>1

(* The recursion of FlattenSeq has a solution ...                          *)
LEMMA FlatExists ==
    ASSUME NEW ss, NEW n \in Nat
    PROVE  \E f : Flat(ss, f, n)
<1> DEFINE S == {m \in Nat : \E f : Flat(ss, f, m)}
<1>1. 0 \in S
  <2> DEFINE f == [i \in 1 .. 0 |-> ss[i]]
  <2>1. Flat(ss, f, 0)
    BY DEF Flat
  <2> HIDE DEF f
  <2> QED BY <2>1
<1>2. ASSUME NEW m \in Nat, m \in S PROVE m + 1 \in S
  <2>1. PICK f : Flat(ss, f, m)
    BY <1>2
  <2> DEFINE h == [i \in 1 .. m + 1 |->
                     IF i <= m THEN f[i] ELSE IF i = 1 THEN ss[i] ELSE f[m] \o ss[i]]
  <2>2. \A i \in 1 .. m : f[i] = IF i = 1 THEN ss[i] ELSE f[i - 1] \o ss[i]
    BY <2>1 DEF Flat
  <2>3. ASSUME NEW i \in 1 .. m + 1
        PROVE  h[i] = IF i = 1 THEN ss[i] ELSE h[i - 1] \o ss[i]
    <3>1. CASE i <= m
      <4>1. h[i] = f[i] /\ (i # 1 => h[i - 1] = f[i - 1]) /\ i \in 1 .. m
        BY <3>1
      <4> HIDE DEF h
      <4> QED BY <2>2, <4>1
    <3>2. CASE i = m + 1
      <4>1. ~(i <= m) /\ i - 1 = m /\ (i # 1 => m \in 1 .. m + 1)
        BY <3>2
      <4>2. h[i] = IF i = 1 THEN ss[i] ELSE f[m] \o ss[i]
        BY <4>1
      <4>3. i # 1 => h[m] = f[m]
        BY <4>1
      <4> HIDE DEF h
      <4> QED BY <4>1, <4>2, <4>3
    <3> QED BY <3>1, <3>2
  <2>4. DOMAIN h = 1 .. m + 1 /\ h = [i \in 1 .. m + 1 |-> h[i]]
    OBVIOUS
  <2> HIDE DEF h
  <2>5. Flat(ss, h, m + 1)
    BY <2>3, <2>4 DEF Flat
  <2> QED BY <2>5
<1> HIDE DEF S
<1>3. Nat \subseteq S
  BY <1>1, <1>2, SetInduction
<1> QED BY <1>3 DEF S

(* ... and FlattenSeq is its last value.                                   *)
LEMMA FlattenIsLast ==
    ASSUME NEW ss, Len(ss) \in Nat
    PROVE  /\ Len(ss) = 0 => FlattenSeq(ss) = ss
           /\ Len(ss) # 0 => \E f : Flat(ss, f, Len(ss)) /\ FlattenSeq(ss) = f[Len(ss)]
<1> DEFINE a == CHOOSE f : Flat(ss, f, Len(ss))
<1>1. Flat(ss, a, Len(ss))
  BY FlatExists
<1>2. Len(ss) # 0 => FlattenSeq(ss) = a[Len(ss)]
  BY DEF FlattenSeq, Flat
<1>3. Len(ss) = 0 => FlattenSeq(ss) = ss
  BY DEF FlattenSeq
<1> HIDE DEF a
<1> QED BY <1>1, <1>2, <1>3

(* Nothing flattened is nothing, and one sequence more comes at the end.   *)
LEMMA FlattenNone == FlattenSeq(<< >>) = << >>
<1>1. Len(<< >>) = 0
  OBVIOUS
<1> QED BY <1>1 DEF FlattenSeq

(* The values of the recursion are sequences.                              *)
LEMMA FlatType ==
    ASSUME NEW A, NEW ss \in Seq(Seq(A)), NEW f, NEW n \in Nat, n <= Len(ss), Flat(ss, f, n)
    PROVE  \A i \in 1 .. n : f[i] \in Seq(A)
<1> DEFINE S == {m \in Nat : m \in 1 .. n => f[m] \in Seq(A)}
<1>0. Len(ss) \in Nat /\ \A i \in 1 .. n : ss[i] \in Seq(A)
  BY LenProperties, ElementOfSeq
<1>a. \A i \in 1 .. n : f[i] = IF i = 1 THEN ss[i] ELSE f[i - 1] \o ss[i]
  BY FlatAt
<1>1. 0 \in S
  OBVIOUS
<1>2. ASSUME NEW m \in Nat, m \in S PROVE m + 1 \in S
  <2> SUFFICES ASSUME m + 1 \in 1 .. n PROVE f[m + 1] \in Seq(A)
    OBVIOUS
  <2>1. f[m + 1] = IF m + 1 = 1 THEN ss[m + 1] ELSE f[(m + 1) - 1] \o ss[m + 1]
    BY <1>a
  <2>2. CASE m = 0
    BY <1>0, <2>1, <2>2
  <2>3. CASE m # 0
    <3>1. m \in 1 .. n /\ m + 1 # 1 /\ (m + 1) - 1 = m
      BY <2>3
    <3>2. f[m] \in Seq(A) /\ ss[m + 1] \in Seq(A) /\ f[m + 1] = f[m] \o ss[m + 1]
      BY <1>0, <1>2, <2>1, <3>1
    <3> QED BY <3>2, ConcatProperties
  <2> QED BY <2>2, <2>3
<1> HIDE DEF S
<1>3. Nat \subseteq S
  BY <1>1, <1>2, SetInduction
<1> QED BY <1>3 DEF S

(* It has one solution.                                                    *)
LEMMA FlatUnique ==
    ASSUME NEW l \in Nat, NEW ss, NEW tt, NEW f, NEW g,
           Flat(ss, f, l), Flat(tt, g, l + 1), \A i \in 1 .. l : ss[i] = tt[i]
    PROVE  \A i \in 1 .. l : f[i] = g[i]
<1> DEFINE S == {k \in Nat : k \in 1 .. l => f[k] = g[k]}
<1>1. 0 \in S
  OBVIOUS
<1>2. ASSUME NEW k \in Nat, k \in S PROVE k + 1 \in S
  <2> SUFFICES ASSUME k + 1 \in 1 .. l PROVE f[k + 1] = g[k + 1]
    OBVIOUS
  <2>0. k + 1 \in 1 .. l /\ k + 1 \in 1 .. l + 1
    OBVIOUS
  <2>1. /\ f[k + 1] = IF k + 1 = 1 THEN ss[k + 1] ELSE f[(k + 1) - 1] \o ss[k + 1]
        /\ g[k + 1] = IF k + 1 = 1 THEN tt[k + 1] ELSE g[(k + 1) - 1] \o tt[k + 1]
    BY <2>0, FlatAt
  <2>2. (k + 1) - 1 = k /\ (k = 0 \/ k \in 1 .. l) /\ ss[k + 1] = tt[k + 1]
    OBVIOUS
  <2> QED BY <1>2, <2>1, <2>2
<1> HIDE DEF S
<1>3. Nat \subseteq S
  BY <1>1, <1>2, SetInduction
<1> QED BY <1>3 DEF S

(* What a sequence more adds.                                              *)
LEMMA FlattenAppend ==
    ASSUME NEW A, NEW ss \in Seq(Seq(A)), NEW s \in Seq(A)
    PROVE  /\ FlattenSeq(ss) \in Seq(A)
           /\ FlattenSeq(Append(ss, s)) = FlattenSeq(ss) \o s
<1> DEFINE n == Len(ss)
           tt == Append(ss, s)
<1>0. /\ n \in Nat /\ tt \in Seq(Seq(A)) /\ Len(tt) = n + 1 /\ tt[n + 1] = s
      /\ \A i \in 1 .. n : tt[i] = ss[i]
  BY LenProperties, AppendProperties
<1> HIDE DEF tt
<1>1. PICK g : Flat(tt, g, n + 1) /\ FlattenSeq(tt) = g[n + 1]
  BY <1>0, FlattenIsLast
<1>2. g[n + 1] = IF n + 1 = 1 THEN tt[n + 1] ELSE g[(n + 1) - 1] \o tt[n + 1]
  <2>1. n + 1 \in 1 .. n + 1
    BY <1>0
  <2> QED BY <1>1, <2>1, FlatAt
<1>3. CASE n = 0
  <2>1. ss = << >> /\ FlattenSeq(ss) = << >> /\ FlattenSeq(tt) = s
    BY <1>0, <1>1, <1>2, <1>3, EmptySeq, FlattenNone
  <2>2. << >> \in Seq(A) /\ << >> \o s = s
    BY ConcatEmptySeq, EmptySeq
  <2> QED BY <2>1, <2>2 DEF tt
<1>4. CASE n # 0
  <2>1. PICK f : Flat(ss, f, n) /\ FlattenSeq(ss) = f[n]
    BY <1>0, <1>4, FlattenIsLast
  <2>2. f[n] \in Seq(A)
    <3>1. n <= Len(ss) /\ n \in 1 .. n
      BY <1>0, <1>4
    <3> QED BY <1>0, <2>1, <3>1, FlatType
  <2>3. f[n] = g[n]
    <3>1. n \in Nat /\ n \in 1 .. n /\ \A i \in 1 .. n : ss[i] = tt[i]
      BY <1>0, <1>4
    <3> HIDE DEF n
    <3>2. \A i \in 1 .. n : f[i] = g[i]
      BY <1>1, <2>1, <3>1, FlatUnique
    <3> QED BY <3>1, <3>2
  <2>4. n + 1 # 1 /\ (n + 1) - 1 = n
    BY <1>0, <1>4
  <2> QED BY <1>0, <1>1, <1>2, <2>1, <2>2, <2>3, <2>4 DEF tt
<1> QED BY <1>3, <1>4

(* An element added at the end of the second of two sequences.             *)
LEMMA ConcatAppend ==
    ASSUME NEW B, NEW s \in Seq(B), NEW p \in Seq(B), NEW x \in B
    PROVE  s \o p \in Seq(B) /\ s \o Append(p, x) = Append(s \o p, x)
OBVIOUS

(* Flattening one sequence of sequences after another.                     *)
LEMMA FlattenConcat ==
    ASSUME NEW A, NEW ss \in Seq(Seq(A)), NEW tt \in Seq(Seq(A))
    PROVE  FlattenSeq(ss \o tt) = FlattenSeq(ss) \o FlattenSeq(tt)
<1> DEFINE P(q) == FlattenSeq(ss \o q) = FlattenSeq(ss) \o FlattenSeq(q)
           S == {n \in Nat : \A q \in Seq(Seq(A)) : Len(q) = n => P(q)}
<1>0. ASSUME NEW a \in Seq(A), NEW b \in Seq(A), NEW c \in Seq(A)
      PROVE  (a \o b) \o c = a \o (b \o c)
  OBVIOUS
<1>1. 0 \in S
  <2> SUFFICES ASSUME NEW q \in Seq(Seq(A)), Len(q) = 0 PROVE P(q)
    OBVIOUS
  <2>1. q = << >>
    BY EmptySeq
  <2>2. ss \o q = ss /\ FlattenSeq(ss) \in Seq(A) /\ << >> \in Seq(A)
    BY <2>1, ConcatEmptySeq, FlattenAppend, EmptySeq
  <2>3. FlattenSeq(ss) \o << >> = FlattenSeq(ss)
    BY <2>2, ConcatEmptySeq
  <2> QED BY <2>1, <2>2, <2>3, FlattenNone
<1>2. ASSUME NEW n \in Nat, n \in S PROVE n + 1 \in S
  <2> SUFFICES ASSUME NEW q \in Seq(Seq(A)), Len(q) = n + 1 PROVE P(q)
    OBVIOUS
  <2>1. q # << >>
    BY EmptySeq
  <2>2. PICK p \in Seq(Seq(A)), x \in Seq(A) : q = Append(p, x)
    BY <2>1, SequenceEmptyOrAppend
  <2>3. Len(p) = n
    BY <2>2, AppendProperties, LenProperties
  <2>4. FlattenSeq(ss \o p) = FlattenSeq(ss) \o FlattenSeq(p)
    BY <1>2, <2>3
  <2>5. ss \o p \in Seq(Seq(A)) /\ ss \o q = Append(ss \o p, x)
    BY <2>2, ConcatAppend
  <2>6. /\ FlattenSeq(ss \o q) = FlattenSeq(ss \o p) \o x
        /\ FlattenSeq(q) = FlattenSeq(p) \o x
        /\ FlattenSeq(ss) \in Seq(A) /\ FlattenSeq(p) \in Seq(A)
    BY <2>2, <2>5, FlattenAppend
  <2>7. (FlattenSeq(ss) \o FlattenSeq(p)) \o x = FlattenSeq(ss) \o (FlattenSeq(p) \o x)
    <3> DEFINE a == FlattenSeq(ss)
               b == FlattenSeq(p)
    <3>1. a \in Seq(A) /\ b \in Seq(A)
      BY <2>6
    <3> HIDE DEF a, b
    <3>2. (a \o b) \o x = a \o (b \o x)
      BY <1>0, <3>1
    <3> QED BY <3>2 DEF a, b
  <2> QED BY <2>4, <2>6, <2>7
<1> HIDE DEF S
<1>3. Nat \subseteq S
  BY <1>1, <1>2, SetInduction
<1> QED BY <1>3, LenProperties DEF S
=============================================================================
