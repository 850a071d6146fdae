--------------------------- MODULE TopicSyncProofs --------------------------
(***************************************************************************)
(* Proofs about TopicSync, for every list of topics, set of parameters,    *)
(* keys, values and data types, and every bound.                           *)
(***************************************************************************)
EXTENDS TopicSync, ReplicaProofs

-----------------------------------------------------------------------------
(* KeyRegistry under a disciplined peer, for every set of ids, paths and   *)
(* types and every limit.                                                  *)

(* A registration that respects the discipline keeps the maps inverse.     *)
LEMMA RegisterBidirectional ==
    ASSUME NEW reg, Bidirectional(reg), NEW id, NEW path, NEW type,
           HasKeyId(reg, id) => reg.byId[id].path = path,
           HasPath(reg, path) => reg.pathToId[path] = id
    PROVE  Bidirectional(RegisterOne(reg, id, path, type))
<1> DEFINE new == RegisterOne(reg, id, path, type)
<1>1. /\ new.byId = Put(reg.byId, id, [path |-> path, type |-> type])
      /\ new.pathToId = Put(reg.pathToId, path, id)
  BY DEF RegisterOne
<1> HIDE DEF new
<1>2. /\ DOMAIN new.byId = DOMAIN reg.byId \cup {id}
      /\ new.byId[id].path = path
      /\ \A x \in DOMAIN reg.byId : x # id => new.byId[x] = reg.byId[x]
  BY <1>1 DEF Put
<1>3. /\ DOMAIN new.pathToId = DOMAIN reg.pathToId \cup {path}
      /\ new.pathToId[path] = id
      /\ \A p \in DOMAIN reg.pathToId : p # path => new.pathToId[p] = reg.pathToId[p]
  BY <1>1 DEF Put
<1>4. ASSUME NEW x \in DOMAIN new.byId
      PROVE  HasPath(new, new.byId[x].path) /\ new.pathToId[new.byId[x].path] = x
  BY <1>2, <1>3 DEF Bidirectional, HasPath, HasKeyId
<1>5. ASSUME NEW p \in DOMAIN new.pathToId
      PROVE  HasKeyId(new, new.pathToId[p]) /\ new.byId[new.pathToId[p]].path = p
  BY <1>2, <1>3 DEF Bidirectional, HasPath, HasKeyId
<1> QED BY <1>4, <1>5 DEF new, Bidirectional

(* Removing an id removes exactly its path.                                *)
LEMMA RemoveBidirectional ==
    ASSUME NEW reg, Bidirectional(reg), NEW id, HasKeyId(reg, id)
    PROVE  Bidirectional(RemoveByKeyId(reg, id))
<1> DEFINE new  == RemoveByKeyId(reg, id)
           path == reg.byId[id].path
<1>1. new.byId = Erase(reg.byId, id) /\ new.pathToId = Erase(reg.pathToId, path)
  BY DEF RemoveByKeyId
<1> HIDE DEF new, path
<1>2. /\ DOMAIN new.byId = DOMAIN reg.byId \ {id}
      /\ \A x \in DOMAIN reg.byId : x # id => new.byId[x] = reg.byId[x]
  BY <1>1 DEF Erase
<1>3. /\ DOMAIN new.pathToId = DOMAIN reg.pathToId \ {path}
      /\ \A p \in DOMAIN reg.pathToId : p # path => new.pathToId[p] = reg.pathToId[p]
  BY <1>1 DEF Erase
<1>4. \A x \in DOMAIN new.byId :
          HasPath(new, new.byId[x].path) /\ new.pathToId[new.byId[x].path] = x
  BY <1>2, <1>3 DEF Bidirectional, HasPath, HasKeyId, path
<1>5. \A p \in DOMAIN new.pathToId :
          HasKeyId(new, new.pathToId[p]) /\ new.byId[new.pathToId[p]].path = p
  BY <1>2, <1>3 DEF Bidirectional, HasPath, HasKeyId, path
<1> QED BY <1>4, <1>5 DEF new, Bidirectional

(* A finite set grows by at most one when an element is added.             *)
LEMMA RegisterSize ==
    ASSUME NEW reg, NEW id, NEW path, NEW type, IsFiniteSet(DOMAIN reg.byId)
    PROVE  LET new == RegisterOne(reg, id, path, type)
           IN  /\ IsFiniteSet(DOMAIN new.byId)
               /\ RegistrySize(new) = IF HasKeyId(reg, id) THEN RegistrySize(reg)
                                                          ELSE RegistrySize(reg) + 1
<1>1. DOMAIN RegisterOne(reg, id, path, type).byId = DOMAIN reg.byId \cup {id}
  BY PutApply DEF RegisterOne
<1> QED BY <1>1, FS_AddElement DEF HasKeyId, RegistrySize

(* The inductive invariant: the limit is only tested for new paths, so     *)
(* that it holds depends on the maps being inverse.                        *)
RegistryInv ==
    /\ RegistryBidirectional
    /\ IsFiniteSet(DOMAIN registry.byId)
    /\ RegistryWithinLimit

(* registerOne under the discipline, removeByKeyId and clear preserve the  *)
(* invariant.                                                              *)
LEMMA RegistryStep == ASSUME RegistryInv, [DisciplinedNext]_registry PROVE RegistryInv'
<1> USE DEF RegistryInv, RegistryBidirectional, RegistryWithinLimit
<1>1. ASSUME NEW id \in PeerIds, NEW path \in PeerPaths, NEW type \in PeerTypes,
             Disciplined(id, path), Register(id, path, type)
      PROVE  RegistryInv'
  <2>1. Bidirectional(registry)'
    BY <1>1, RegisterBidirectional DEF Disciplined, Register
  <2>2. /\ IsFiniteSet(DOMAIN registry'.byId)
        /\ RegistrySize(registry') = IF HasKeyId(registry, id)
                                     THEN RegistrySize(registry)
                                     ELSE RegistrySize(registry) + 1
    BY <1>1, RegisterSize DEF Register
  <2>3. RegistrySize(registry) \in Nat
    BY FS_CardinalityType DEF RegistrySize
  <2>4. HasPath(registry, path) => HasKeyId(registry, id)
    BY <1>1 DEF Bidirectional, Disciplined, HasPath
  <2>5. ~HasKeyId(registry, id) => ~(RegistrySize(registry) >= MaxKeys)
    BY <1>1, <2>4 DEF Register, RegisterThrows
  <2>6. RegistrySize(registry') <= MaxKeys
    BY <2>2, <2>3, <2>5, MaxKeysAssumption
  <2> QED BY <2>1, <2>2, <2>6
<1>2. ASSUME NEW id \in PeerIds, RemoveId(id)
      PROVE  RegistryInv'
  <2>1. Bidirectional(registry)'
    BY <1>2, RemoveBidirectional DEF RemoveId
  <2>2. DOMAIN registry'.byId = DOMAIN registry.byId \ {id}
    BY <1>2, EraseApply DEF RemoveId, RemoveByKeyId
  <2>3. /\ IsFiniteSet(DOMAIN registry'.byId)
        /\ RegistrySize(registry') <= RegistrySize(registry)
        /\ RegistrySize(registry) \in Nat /\ RegistrySize(registry') \in Nat
    BY <2>2, FS_Subset, FS_CardinalityType DEF RegistrySize
  <2> QED BY <2>1, <2>3, MaxKeysAssumption
<1>3. EmptyRegistry = registry' => RegistryInv'
  <2> SUFFICES ASSUME registry' = EmptyRegistry PROVE RegistryInv'
    OBVIOUS
  <2>1. DOMAIN registry'.byId = {} /\ DOMAIN registry'.pathToId = {}
    BY DEF EmptyRegistry, EmptyMap
  <2>2. IsFiniteSet(DOMAIN registry'.byId) /\ RegistrySize(registry') = 0
    BY <2>1, FS_EmptySet DEF RegistrySize
  <2> QED BY <2>1, <2>2, MaxKeysAssumption DEF Bidirectional
<1>4. CASE UNCHANGED registry
  BY <1>4
<1> QED BY <1>1, <1>2, <1>3, <1>4 DEF DisciplinedNext, ClearRegistry

(* A new registry satisfies the invariant.                                 *)
LEMMA RegistryInitInv == RegistryInit => RegistryInv
<1> SUFFICES ASSUME RegistryInit PROVE RegistryInv
  OBVIOUS
<1>1. DOMAIN registry.byId = {} /\ DOMAIN registry.pathToId = {}
  BY DEF RegistryInit, EmptyRegistry, EmptyMap
<1>2. IsFiniteSet(DOMAIN registry.byId) /\ RegistrySize(registry) = 0
  BY <1>1, FS_EmptySet DEF RegistrySize
<1> QED BY <1>1, <1>2, MaxKeysAssumption
     DEF RegistryInv, RegistryBidirectional, RegistryWithinLimit, Bidirectional

-----------------------------------------------------------------------------
(* The maps of a disciplined registry are inverse, finite and within the   *)
(* limit in every state.                                                   *)
THEOREM RegistryInvariant == DisciplinedSpec => []RegistryInv
<1>1. RegistryInv /\ [DisciplinedNext]_registry => RegistryInv'
  BY RegistryStep
<1> QED BY <1>1, RegistryInitInv, PTL DEF DisciplinedSpec

(* Fed by a disciplined peer, KeyRegistry is the bidirectional map its     *)
(* header promises.                                                        *)
THEOREM RegistryIsBidirectional == DisciplinedSpec => []RegistryBidirectional
<1>1. RegistryInv => RegistryBidirectional
  BY DEF RegistryInv
<1> QED BY <1>1, RegistryInvariant, PTL

(* Fed by a disciplined peer, KeyRegistry never holds more than maxKeys_   *)
(* entries, though registerOne tests the limit only for unknown paths.     *)
THEOREM RegistryIsWithinLimit == DisciplinedSpec => []RegistryWithinLimit
<1>1. RegistryInv => RegistryWithinLimit
  BY DEF RegistryInv
<1> QED BY <1>1, RegistryInvariant, PTL

-----------------------------------------------------------------------------
(* Flattened sequences.                                                    *)

(* q is made of the first n of the sequences ss: at gives the place of     *)
(* every element, no place twice, and every place is used.                 *)
Places(ss, n) == {w \in (1 .. n) \X Nat : w[2] \in 1 .. Len(ss[w[1]])}
MadeOf(q, ss, n, at) ==
    /\ at \in [1 .. Len(q) -> Places(ss, n)]
    /\ \A i \in 1 .. Len(q) : q[i] = ss[at[i][1]][at[i][2]]
    /\ \A i, j \in 1 .. Len(q) : at[i] = at[j] => i = j
    /\ \A w \in Places(ss, n) : \E i \in 1 .. Len(q) : at[i] = w

(* One sequence more.                                                      *)
LEMMA MadeOfMore ==
    ASSUME NEW A, NEW ss \in Seq(Seq(A)), NEW n \in Nat, n + 1 <= Len(ss),
           NEW q \in Seq(A), NEW at, MadeOf(q, ss, n, at)
    PROVE  /\ q \o ss[n + 1] \in Seq(A)
           /\ Len(q \o ss[n + 1]) = Len(q) + Len(ss[n + 1])
           /\ \E to : MadeOf(q \o ss[n + 1], ss, n + 1, to)
<1> DEFINE b == ss[n + 1]
           r == q \o b
           m == Len(q)
           l == Len(b)
           to == [i \in 1 .. m + l |-> IF i <= m THEN at[i] ELSE <<n + 1, i - m>>]
<1>0. /\ b \in Seq(A) /\ m \in Nat /\ l \in Nat
      /\ r \in Seq(A) /\ Len(r) = m + l
      /\ \A i \in 1 .. m + l : r[i] = IF i <= m THEN q[i] ELSE b[i - m]
  <2>1. n + 1 \in 1 .. Len(ss)
    BY LenProperties
  <2>2. b \in Seq(A)
    BY <2>1, ElementOfSeq
  <2> HIDE DEF b
  <2> QED BY <2>2, ConcatProperties, LenProperties
<1>1. /\ at \in [1 .. m -> Places(ss, n)]
      /\ \A i \in 1 .. m : q[i] = ss[at[i][1]][at[i][2]]
      /\ \A i, j \in 1 .. m : at[i] = at[j] => i = j
      /\ \A w \in Places(ss, n) : \E i \in 1 .. m : at[i] = w
  BY DEF MadeOf
<1>2. /\ Places(ss, n) \subseteq Places(ss, n + 1)
      /\ \A w \in Places(ss, n) : w[1] # n + 1
      /\ \A w \in Places(ss, n + 1) :
            w \in Places(ss, n) \/ (w = <<n + 1, w[2]>> /\ w[2] \in 1 .. l)
      /\ \A j \in 1 .. l : <<n + 1, j>> \in Places(ss, n + 1)
  BY DEF Places
<1> HIDE DEF b, r, m, l
<1>3. \A i \in 1 .. m + l :
         /\ i <= m => to[i] = at[i] /\ to[i] \in Places(ss, n)
         /\ ~(i <= m) => to[i] = <<n + 1, i - m>> /\ i - m \in 1 .. l
  BY <1>0, <1>1
<1>4. to \in [1 .. m + l -> Places(ss, n + 1)]
  <2>1. \A i \in 1 .. m + l : to[i] \in Places(ss, n + 1)
    <3> HIDE DEF to
    <3> QED BY <1>2, <1>3
  <2> QED BY <2>1
<1> HIDE DEF to
<1>5. ASSUME NEW i \in 1 .. m + l PROVE r[i] = ss[to[i][1]][to[i][2]]
  <2>1. CASE i <= m
    <3>1. i \in 1 .. m /\ to[i] = at[i] /\ r[i] = q[i]
      BY <1>0, <1>3, <2>1
    <3> QED BY <1>1, <3>1
  <2>2. CASE ~(i <= m)
    <3>1. r[i] = b[i - m] /\ to[i] = <<n + 1, i - m>>
      BY <1>0, <1>3, <2>2
    <3>2. to[i][1] = n + 1 /\ to[i][2] = i - m
      BY <3>1
    <3> QED BY <3>1, <3>2 DEF b
  <2> QED BY <2>1, <2>2
<1>6. ASSUME NEW i \in 1 .. m + l, NEW j \in 1 .. m + l, to[i] = to[j] PROVE i = j
  <2>1. CASE i <= m /\ j <= m
    <3>1. i \in 1 .. m /\ j \in 1 .. m /\ at[i] = at[j]
      BY <1>0, <1>3, <1>6, <2>1
    <3> QED BY <1>1, <3>1
  <2>2. CASE ~(i <= m) /\ ~(j <= m)
    <3>1. <<n + 1, i - m>> = <<n + 1, j - m>>
      BY <1>3, <1>6, <2>2
    <3>2. i - m = j - m
      BY <3>1
    <3> QED BY <1>0, <3>2
  <2>3. CASE i <= m /\ ~(j <= m)
    BY <1>0, <1>2, <1>3, <1>6, <2>3
  <2>4. CASE ~(i <= m) /\ j <= m
    BY <1>0, <1>2, <1>3, <1>6, <2>4
  <2> QED BY <2>1, <2>2, <2>3, <2>4
<1>7. ASSUME NEW w \in Places(ss, n + 1) PROVE \E i \in 1 .. m + l : to[i] = w
  <2>1. CASE w \in Places(ss, n)
    <3>1. PICK i \in 1 .. m : at[i] = w
      BY <1>1, <2>1
    <3>2. i \in 1 .. m + l /\ to[i] = w
      BY <1>0, <1>3, <3>1
    <3> QED BY <3>2
  <2>2. CASE w = <<n + 1, w[2]>> /\ w[2] \in 1 .. l
    <3>1. m + w[2] \in 1 .. m + l /\ ~(m + w[2] <= m) /\ (m + w[2]) - m = w[2]
      BY <1>0, <2>2
    <3>2. to[m + w[2]] = w
      BY <1>3, <2>2, <3>1
    <3> QED BY <3>1, <3>2
  <2> QED BY <1>2, <2>1, <2>2
<1>8. MadeOf(r, ss, n + 1, to)
  BY <1>0, <1>4, <1>5, <1>6, <1>7 DEF MadeOf
<1> QED BY <1>0, <1>8 DEF r, b, m, l

(* FlattenSeq has exactly the elements of its sequences, each once, and at *)
(* most so many as there are if none is longer than b.                     *)
LEMMA Flattened ==
    ASSUME NEW A, NEW ss \in Seq(Seq(A))
    PROVE  /\ FlattenSeq(ss) \in Seq(A)
           /\ \E at : MadeOf(FlattenSeq(ss), ss, Len(ss), at)
           /\ \A b \in {1, 2} : (\A i \in 1 .. Len(ss) : Len(ss[i]) <= b)
                                    => Len(FlattenSeq(ss)) <= b * Len(ss)
<1> DEFINE N == Len(ss)
<1>0. N \in Nat /\ \A i \in 1 .. N : ss[i] \in Seq(A) /\ Len(ss[i]) \in Nat
  BY LenProperties, ElementOfSeq
<1>1. CASE N = 0
  <2>1. FlattenSeq(ss) = ss /\ ss = << >>
    BY <1>1, FlattenIsLast, EmptySeq
  <2>2. MadeOf(<< >>, ss, 0, << >>)
    BY DEF MadeOf, Places
  <2> QED BY <1>1, <2>1, <2>2
<1>2. CASE N # 0
  <2>1. PICK f : Flat(ss, f, N) /\ FlattenSeq(ss) = f[N]
    BY <1>0, <1>2, FlattenIsLast
  <2>2. \A i \in 1 .. N : f[i] = IF i = 1 THEN ss[i] ELSE f[i - 1] \o ss[i]
    BY <2>1 DEF Flat
  <2> DEFINE Short(b) == \A i \in 1 .. N : Len(ss[i]) <= b
             P(m) == /\ f[m] \in Seq(A) /\ \E at : MadeOf(f[m], ss, m, at)
                     /\ Short(1) => Len(f[m]) <= m
                     /\ Short(2) => Len(f[m]) <= 2 * m
             S == {m \in Nat : m + 1 <= N => P(m + 1)}
  <2>3. 0 \in S
    <3>1. f[1] = ss[1] /\ 1 \in 1 .. N
      BY <1>0, <1>2, <2>2
    <3> DEFINE to == [i \in 1 .. Len(ss[1]) |-> <<1, i>>]
    <3>2. /\ to \in [1 .. Len(ss[1]) -> Places(ss, 1)]
          /\ \A i \in 1 .. Len(ss[1]) : to[i] = <<1, i>>
          /\ \A w \in Places(ss, 1) : w = <<1, w[2]>> /\ w[2] \in 1 .. Len(ss[1])
      BY <1>0, <3>1 DEF Places
    <3> HIDE DEF to
    <3>3. ASSUME NEW i \in 1 .. Len(ss[1]) PROVE ss[1][i] = ss[to[i][1]][to[i][2]]
      BY <3>2
    <3>4. \A i, j \in 1 .. Len(ss[1]) : to[i] = to[j] => i = j
      BY <3>2
    <3>5. \A w \in Places(ss, 1) : \E i \in 1 .. Len(ss[1]) : to[i] = w
      BY <3>2
    <3>6. MadeOf(ss[1], ss, 1, to)
      BY <3>2, <3>3, <3>4, <3>5 DEF MadeOf
    <3> QED BY <1>0, <3>1, <3>6
  <2>4. ASSUME NEW m \in Nat, m \in S PROVE m + 1 \in S
    <3> SUFFICES ASSUME (m + 1) + 1 <= N PROVE P((m + 1) + 1)
      OBVIOUS
    <3> DEFINE k == m + 1
    <3>1. k \in Nat /\ k \in 1 .. N /\ k + 1 \in 1 .. N /\ k + 1 # 1 /\ (k + 1) - 1 = k
      BY <1>0
    <3>2. P(k)
      BY <1>0, <2>4
    <3>3. f[k + 1] = f[k] \o ss[k + 1]
      BY <2>2, <3>1
    <3> HIDE DEF k
    <3>4. PICK at : MadeOf(f[k], ss, k, at)
      BY <3>2
    <3>5. /\ f[k] \o ss[k + 1] \in Seq(A)
          /\ Len(f[k] \o ss[k + 1]) = Len(f[k]) + Len(ss[k + 1])
          /\ \E to : MadeOf(f[k] \o ss[k + 1], ss, k + 1, to)
      <4>1. f[k] \in Seq(A) /\ ss[k + 1] \in Seq(A)
        BY <1>0, <3>1, <3>2
      <4>2. k + 1 <= Len(ss)
        BY <3>1
      <4> HIDE DEF P, S, Short, N
      <4> QED BY <3>1, <3>4, <4>1, <4>2, MadeOfMore
    <3>6. Len(f[k]) \in Nat /\ Len(ss[k + 1]) \in Nat
      BY <1>0, <3>1, <3>2, LenProperties
    <3>7. /\ Short(1) => Len(f[k + 1]) <= k + 1
          /\ Short(2) => Len(f[k + 1]) <= 2 * (k + 1)
      <4> DEFINE a == Len(f[k])
                 c == Len(ss[k + 1])
      <4>1. /\ Short(1) => a <= k /\ c <= 1
            /\ Short(2) => a <= 2 * k /\ c <= 2
        BY <3>1, <3>2
      <4>2. Len(f[k + 1]) = a + c
        BY <3>3, <3>5
      <4> HIDE DEF a, c, Short
      <4>3. a \in Nat /\ c \in Nat
        BY <3>6 DEF a, c
      <4> QED BY <3>1, <4>1, <4>2, <4>3
    <3> QED BY <3>3, <3>5, <3>7 DEF k
  <2> HIDE DEF S, P
  <2>5. Nat \subseteq S
    BY <2>3, <2>4, SetInduction
  <2>6. P(N)
    <3>1. N - 1 \in Nat /\ (N - 1) + 1 = N
      BY <1>0, <1>2
    <3>2. N - 1 \in S /\ (N - 1) + 1 <= N
      BY <1>0, <2>5, <3>1
    <3> HIDE DEF N
    <3> QED BY <3>1, <3>2 DEF S
  <2> QED BY <1>0, <2>1, <2>6 DEF P
<1> QED BY <1>1, <1>2

(* kept[i] is what of the first i elements of q is in S.                   *)
Kept(q, S, f, n) ==
    f = [i \in 0 .. n |-> IF i = 0 THEN << >>
                          ELSE IF q[i] \in S THEN Append(f[i - 1], q[i]) ELSE f[i - 1]]

(* The recursion of Among has a solution.                                  *)
LEMMA KeptExists ==
    ASSUME NEW q, NEW S, NEW n \in Nat
    PROVE  \E f : Kept(q, S, f, n)
<1> DEFINE T == {m \in Nat : \E f : Kept(q, S, f, m)}
           next(x, i) == IF q[i] \in S THEN Append(x, q[i]) ELSE x
<1>1. 0 \in T
  <2> DEFINE f == [i \in 0 .. 0 |-> << >>]
  <2>1. Kept(q, S, f, 0)
    BY DEF Kept
  <2> HIDE DEF f
  <2> QED BY <2>1
<1>2. ASSUME NEW m \in Nat, m \in T PROVE m + 1 \in T
  <2>1. PICK f : Kept(q, S, f, m)
    BY <1>2
  <2> DEFINE h == [i \in 0 .. m + 1 |-> IF i <= m THEN f[i] ELSE next(f[m], i)]
  <2>2. \A i \in 0 .. m : f[i] = IF i = 0 THEN << >> ELSE next(f[i - 1], i)
    BY <2>1 DEF Kept
  <2>3. ASSUME NEW i \in 0 .. m + 1
        PROVE  h[i] = IF i = 0 THEN << >> ELSE next(h[i - 1], i)
    <3> HIDE DEF next
    <3>1. CASE i <= m
      <4>1. h[i] = f[i] /\ (i # 0 => h[i - 1] = f[i - 1]) /\ i \in 0 .. m
        BY <3>1
      <4> HIDE DEF h
      <4> QED BY <2>2, <4>1
    <3>2. CASE i = m + 1
      <4>1. ~(i <= m) /\ i - 1 = m /\ i # 0 /\ m \in 0 .. m + 1 /\ m <= m
        BY <3>2
      <4>2. h[i] = next(f[m], i) /\ h[m] = f[m]
        BY <4>1
      <4> HIDE DEF h
      <4> QED BY <4>1, <4>2
    <3> QED BY <3>1, <3>2
  <2>4. DOMAIN h = 0 .. m + 1 /\ h = [i \in 0 .. m + 1 |-> h[i]]
    OBVIOUS
  <2> HIDE DEF h
  <2>5. Kept(q, S, h, m + 1)
    BY <2>3, <2>4 DEF Kept
  <2> QED BY <2>5
<1> HIDE DEF T
<1>3. Nat \subseteq T
  BY <1>1, <1>2, SetInduction
<1> QED BY <1>3 DEF T

(* One element more.                                                       *)
LEMMA KeptMore ==
    ASSUME NEW A, NEW w \in Seq(A), NEW x \in A, NEW v, v = Append(w, x)
    PROVE  /\ v \in Seq(A) /\ Len(v) = Len(w) + 1
           /\ \A i \in 1 .. Len(v) : v[i] = x \/ \E j \in 1 .. Len(w) : v[i] = w[j]
           /\ \A j \in 1 .. Len(w) : \E i \in 1 .. Len(v) : v[i] = w[j]
           /\ \E i \in 1 .. Len(v) : v[i] = x
<1> DEFINE n == Len(w)
<1>1. /\ n \in Nat /\ v \in Seq(A) /\ Len(v) = n + 1
      /\ (\A i \in 1 .. n : v[i] = w[i]) /\ v[n + 1] = x
  BY AppendProperties, LenProperties
<1> HIDE DEF n
<1>2. \A i \in 1 .. n + 1 : i = n + 1 \/ i \in 1 .. n
  BY <1>1
<1>3. n + 1 \in 1 .. n + 1 /\ \A j \in 1 .. n : j \in 1 .. n + 1
  BY <1>1
<1>4. /\ \A i \in 1 .. Len(v) : v[i] = x \/ \E j \in 1 .. n : v[i] = w[j]
      /\ \A j \in 1 .. n : \E i \in 1 .. Len(v) : v[i] = w[j]
      /\ \E i \in 1 .. Len(v) : v[i] = x
  BY <1>1, <1>2, <1>3
<1> QED BY <1>1, <1>4 DEF n

(* Among keeps what is in S, all of it, and nothing else.                  *)
LEMMA AmongElements ==
    ASSUME NEW A, NEW q \in Seq(A), NEW S
    PROVE  /\ Among(q, S) \in Seq(A)
           /\ Len(Among(q, S)) \in Nat /\ Len(Among(q, S)) <= Len(q)
           /\ \A i \in 1 .. Len(Among(q, S)) : Among(q, S)[i] \in A \cap S
           /\ \A i \in 1 .. Len(q) : q[i] \in S =>
                 \E j \in 1 .. Len(Among(q, S)) : Among(q, S)[j] = q[i]
<1> DEFINE N == Len(q)
           f == CHOOSE g : Kept(q, S, g, N)
           P(w, m) == /\ w \in Seq(A) /\ Len(w) <= m
                      /\ \A i \in 1 .. Len(w) : w[i] \in A \cap S
                      /\ \A i \in 1 .. m : q[i] \in S => \E j \in 1 .. Len(w) : w[j] = q[i]
           T == {m \in Nat : m <= N => P(f[m], m)}
<1>0. N \in Nat /\ \A i \in 1 .. N : q[i] \in A
  BY LenProperties, ElementOfSeq
<1>1. Among(q, S) = f[N]
  BY DEF Among, Kept
<1>2. Kept(q, S, f, N)
  BY <1>0, KeptExists
<1> HIDE DEF f, N
<1>3. \A i \in 0 .. N : f[i] = IF i = 0 THEN << >>
                      ELSE IF q[i] \in S THEN Append(f[i - 1], q[i]) ELSE f[i - 1]
  BY <1>2 DEF Kept
<1>4. 0 \in T
  <2>1. f[0] = << >>
    BY <1>0, <1>3
  <2>2. P(<< >>, 0)
    BY EmptySeq
  <2> HIDE DEF P
  <2> QED BY <2>1, <2>2
<1>5. ASSUME NEW m \in Nat, m \in T PROVE m + 1 \in T
  <2> SUFFICES ASSUME m + 1 <= N PROVE P(f[m + 1], m + 1)
    OBVIOUS
  <2>1. m + 1 \in 0 .. N /\ m + 1 # 0 /\ (m + 1) - 1 = m /\ m + 1 \in 1 .. N /\ m <= N
    BY <1>0
  <2> DEFINE w == f[m]
             x == q[m + 1]
  <2>2. P(w, m)
    <3> HIDE DEF P
    <3> QED BY <1>5, <2>1
  <2>3. f[m + 1] = IF x \in S THEN Append(w, x) ELSE w
    BY <1>3, <2>1
  <2>4. x \in A /\ Len(w) \in Nat
    BY <1>0, <2>1, <2>2, LenProperties
  <2>5. \A i \in 1 .. m + 1 : i \in 1 .. m \/ i = m + 1
    BY <1>5
  <2> HIDE DEF w
  <2>6. CASE x \in S
    <3> DEFINE v == Append(w, x)
    <3>1. /\ v \in Seq(A) /\ Len(v) = Len(w) + 1
          /\ \A i \in 1 .. Len(v) : v[i] = x \/ \E j \in 1 .. Len(w) : v[i] = w[j]
          /\ \A j \in 1 .. Len(w) : \E i \in 1 .. Len(v) : v[i] = w[j]
          /\ \E i \in 1 .. Len(v) : v[i] = x
      <4>1. w \in Seq(A)
        BY <2>2
      <4> HIDE DEF x, P
      <4>2. v = Append(w, x)
        OBVIOUS
      <4> HIDE DEF v
      <4> QED BY <2>4, <4>1, <4>2, KeptMore
    <3> HIDE DEF v
    <3>2. Len(v) <= m + 1
      BY <2>2, <2>4, <3>1
    <3>3. \A i \in 1 .. Len(v) : v[i] \in A \cap S
      BY <2>2, <2>4, <2>6, <3>1
    <3>4. ASSUME NEW i \in 1 .. m + 1, q[i] \in S PROVE \E j \in 1 .. Len(v) : v[j] = q[i]
      <4>1. CASE i \in 1 .. m
        <5>1. PICK j \in 1 .. Len(w) : w[j] = q[i]
          BY <2>2, <3>4, <4>1
        <5> QED BY <3>1, <5>1
      <4>2. CASE i = m + 1
        BY <3>1, <4>2
      <4> QED BY <2>5, <4>1, <4>2
    <3>5. P(v, m + 1)
      BY <3>1, <3>2, <3>3, <3>4
    <3>6. f[m + 1] = v
      BY <2>3, <2>6 DEF v
    <3> HIDE DEF P
    <3> QED BY <3>5, <3>6
  <2>7. CASE x \notin S
    <3>1. Len(w) <= m + 1
      BY <2>2, <2>4
    <3>2. \A i \in 1 .. m + 1 : q[i] \in S => \E j \in 1 .. Len(w) : w[j] = q[i]
      BY <2>2, <2>5, <2>7
    <3> QED BY <2>2, <2>3, <2>7, <3>1, <3>2
  <2> QED BY <2>6, <2>7
<1> HIDE DEF T, P
<1>6. Nat \subseteq T
  BY <1>4, <1>5, SetInduction
<1>7. P(f[N], N)
  BY <1>0, <1>6 DEF T
<1>8. Len(f[N]) \in Nat
  BY <1>7, LenProperties DEF P
<1> QED BY <1>1, <1>7, <1>8 DEF P, N

-----------------------------------------------------------------------------
(* The entries of a topic sync.                                            *)

(* The topics of a set, by their names.                                    *)
Names(S) == Among(TopicOrder, S)

(* Each of them is listed, and nothing else.                               *)
LEMMA NamesElements ==
    ASSUME NEW S \in SUBSET Topics
    PROVE  /\ Names(S) \in Seq(Topics)
           /\ Len(Names(S)) \in Nat /\ Len(Names(S)) <= Len(TopicOrder)
           /\ Len(TopicOrder) \in Nat
           /\ \A i \in 1 .. Len(Names(S)) : Names(S)[i] \in S
           /\ \A t \in S : \E i \in 1 .. Len(Names(S)) : Names(S)[i] = t
<1>1. TopicOrder \in Seq(Topics) /\ Len(TopicOrder) \in Nat
  BY TopicAssumption, LenProperties DEF Topics
<1>2. ASSUME NEW t \in S PROVE \E i \in 1 .. Len(TopicOrder) : TopicOrder[i] = t
  <2>1. t \in {TopicOrder[i] : i \in DOMAIN TopicOrder}
    BY DEF Topics, ToSet
  <2> QED BY <1>1, <2>1, LenProperties
<1>3. \A t \in S : \E i \in 1 .. Len(Names(S)) : Names(S)[i] = t
  BY <1>1, <1>2, AmongElements DEF Names
<1> QED BY <1>1, <1>3, AmongElements DEF Names

(* An entry: the name or the parameter of the topic at an index.           *)
NameEntry(t, n)     == [path |-> <<"name", n>>, type |-> "String", value |-> t]
ParamEntry(t, n, s) == [path |-> <<"param", n>>, type |-> "VarInteger", value |-> s[t]]

(* sendTopicSync gives every topic that it sends one index, an id of its   *)
(* own to its name and another to its parameter.                           *)
LEMMA EntriesOfTopics ==
    ASSUME NEW s, DOMAIN s \subseteq Topics
    PROVE  LET e == TopicEntries(s)
               q == Names(DOMAIN s)
           IN  /\ Len(e) \in Nat /\ DOMAIN e = 1 .. Len(e) /\ Len(e) <= 2 * Len(TopicOrder)
               /\ \A i \in DOMAIN e : \E n \in 1 .. Len(q) :
                     \/ e[i] = NameEntry(q[n], n - 1)
                     \/ e[i] = ParamEntry(q[n], n - 1, s)
               /\ \A i, j \in DOMAIN e : e[i].path = e[j].path => i = j
<1> DEFINE q == Names(DOMAIN s)
           N == Len(q)
           name(i)  == NameEntry(q[i], i - 1)
           param(i) == ParamEntry(q[i], i - 1, s)
           ss == [i \in 1 .. N |->
                    IF s[q[i]] = NoParams THEN << name(i) >> ELSE << name(i), param(i) >>]
           A == {name(i) : i \in 1 .. N} \cup {param(i) : i \in 1 .. N}
           e == TopicEntries(s)
<1>0. q \in Seq(Topics) /\ N \in Nat /\ N <= Len(TopicOrder) /\ Len(TopicOrder) \in Nat
      /\ DOMAIN q = 1 .. N
  BY NamesElements, LenProperties
<1>1. e = FlattenSeq(ss)
  BY <1>0 DEF TopicEntries, Names, NameEntry, ParamEntry
<1> HIDE DEF e, q
<1>2. \A i \in 1 .. N : \/ ss[i] = << name(i) >>
                         \/ ss[i] = << name(i), param(i) >>
  OBVIOUS
<1>3. ss \in Seq(Seq(A)) /\ Len(ss) = N
  <2> HIDE DEF N
  <2>1. \A i \in 1 .. N : name(i) \in A /\ param(i) \in A
    OBVIOUS
  <2> HIDE DEF name, param, A
  <2>2. \A i \in 1 .. N :
           (IF s[q[i]] = NoParams THEN << name(i) >> ELSE << name(i), param(i) >>) \in Seq(A)
    BY <2>1
  <2> QED BY <1>0, <2>2 DEF N
<1> HIDE DEF ss, name, param, N
<1>4. \A i \in 1 .. N : /\ Len(ss[i]) = 1 \/ Len(ss[i]) = 2
                        /\ ss[i][1] = name(i)
                        /\ Len(ss[i]) = 2 => ss[i][2] = param(i)
  <2> TAKE i \in 1 .. N
  <2>1. CASE ss[i] = << name(i) >>
    BY <2>1
  <2>2. CASE ss[i] = << name(i), param(i) >>
    BY <2>2
  <2> QED BY <1>2, <2>1, <2>2
<1>5. /\ e \in Seq(A) /\ \E at : MadeOf(e, ss, N, at)
      /\ (\A i \in 1 .. N : Len(ss[i]) <= 2) => Len(e) <= 2 * N
  BY <1>1, <1>3, Flattened
<1>6. PICK at : MadeOf(e, ss, N, at)
  BY <1>5
<1>7. Len(e) \in Nat /\ DOMAIN e = 1 .. Len(e)
  BY <1>5, LenProperties
<1>8. Len(e) <= 2 * Len(TopicOrder)
  <2>1. ASSUME NEW i \in 1 .. N PROVE Len(ss[i]) <= 2
    <3> DEFINE l == Len(ss[i])
    <3>1. l = 1 \/ l = 2
      BY <1>4
    <3> HIDE DEF l
    <3>2. l <= 2
      BY <3>1
    <3> QED BY <3>2 DEF l
  <2>2. Len(e) <= 2 * N
    BY <1>5, <2>1
  <2> QED BY <1>0, <1>7, <2>2 DEF N
<1>9. \A i \in 1 .. Len(e) : LET w == at[i] IN
         /\ w[1] \in 1 .. N /\ w = <<w[1], w[2]>>
         /\ \/ w[2] = 1 /\ e[i] = name(w[1])
            \/ w[2] = 2 /\ e[i] = param(w[1])
  <2> TAKE i \in 1 .. Len(e)
  <2> DEFINE w == at[i]
  <2>1. w \in Places(ss, N) /\ e[i] = ss[w[1]][w[2]]
    BY <1>6 DEF MadeOf
  <2> HIDE DEF w
  <2>2. w[1] \in 1 .. N /\ w[2] \in 1 .. Len(ss[w[1]]) /\ w = <<w[1], w[2]>>
    BY <2>1 DEF Places
  <2>3. w[2] = 1 \/ (w[2] = 2 /\ Len(ss[w[1]]) = 2)
    <3> DEFINE l == Len(ss[w[1]])
    <3>1. l = 1 \/ l = 2
      BY <1>4, <2>2
    <3>2. w[2] \in 1 .. l
      BY <2>2
    <3> HIDE DEF l
    <3>3. w[2] = 1 \/ (w[2] = 2 /\ l = 2)
      BY <3>1, <3>2
    <3> QED BY <3>3 DEF l
  <2>4. \/ w[2] = 1 /\ e[i] = name(w[1])
        \/ w[2] = 2 /\ e[i] = param(w[1])
    BY <1>4, <2>1, <2>2, <2>3
  <2> QED BY <2>2, <2>4 DEF w
<1>10. \A n \in 1 .. N : name(n).path = <<"name", n - 1>> /\ param(n).path = <<"param", n - 1>>
  BY DEF name, param, NameEntry, ParamEntry
<1>11. ASSUME NEW i \in 1 .. Len(e), NEW j \in 1 .. Len(e), e[i].path = e[j].path
       PROVE  i = j
  <2> DEFINE a == at[i]
             b == at[j]
  <2>1. /\ a[1] \in 1 .. N /\ a = <<a[1], a[2]>> /\ b[1] \in 1 .. N /\ b = <<b[1], b[2]>>
        /\ \/ a[2] = 1 /\ e[i].path = <<"name", a[1] - 1>>
           \/ a[2] = 2 /\ e[i].path = <<"param", a[1] - 1>>
        /\ \/ b[2] = 1 /\ e[j].path = <<"name", b[1] - 1>>
           \/ b[2] = 2 /\ e[j].path = <<"param", b[1] - 1>>
    BY <1>9, <1>10
  <2> HIDE DEF a, b
  <2>2. a[1] - 1 = b[1] - 1 /\ a[2] = b[2]
    BY <1>11, <2>1
  <2>3. a[1] = b[1]
    BY <1>0, <2>1, <2>2 DEF N
  <2>4. at[i] = at[j]
    BY <2>1, <2>2, <2>3 DEF a, b
  <2> QED BY <1>6, <2>4 DEF MadeOf
<1>12. \A i \in 1 .. Len(e) : \E n \in 1 .. N : e[i] = name(n) \/ e[i] = param(n)
  BY <1>9
<1> QED BY <1>7, <1>8, <1>11, <1>12 DEF e, q, N, name, param

(* What a subscription map holds.                                          *)
LEMMA SubscriptionType ==
    ASSUME NEW s \in Subscriptions
    PROVE  /\ DOMAIN s \subseteq Topics /\ s \in Maps(Topics, Params)
           /\ \A t \in DOMAIN s : s[t] \in ParamsOf[t] /\ s[t] \in Params
<1>1. s \in Maps(Topics, Params) /\ \A t \in DOMAIN s : s[t] \in ParamsOf[t]
  BY DEF Subscriptions
<1> QED BY <1>1, MapApply

(* The entries are of the ids, paths, types and values of the peer.        *)
LEMMA EntriesType ==
    ASSUME NEW s \in Subscriptions
    PROVE  LET e == TopicEntries(s) IN
           /\ Len(e) \in Nat /\ DOMAIN e = 1 .. Len(e)
           /\ \A i \in DOMAIN e :
                 /\ i \in PeerIds /\ e[i].path \in PeerPaths /\ e[i].type \in PeerTypes
                 /\ e[i].value \in Topics \cup Params
           /\ \A i, j \in DOMAIN e : e[i].path = e[j].path => i = j
<1> DEFINE e == TopicEntries(s)
           q == Names(DOMAIN s)
<1>0. DOMAIN s \subseteq Topics /\ \A t \in DOMAIN s : s[t] \in Params
  BY SubscriptionType
<1>1. /\ Len(e) \in Nat /\ DOMAIN e = 1 .. Len(e) /\ Len(e) <= 2 * Len(TopicOrder)
      /\ \A i \in DOMAIN e : \E n \in 1 .. Len(q) :
            e[i] = NameEntry(q[n], n - 1) \/ e[i] = ParamEntry(q[n], n - 1, s)
      /\ \A i, j \in DOMAIN e : e[i].path = e[j].path => i = j
  BY <1>0, EntriesOfTopics
<1>2. /\ Len(q) \in Nat /\ Len(q) <= Len(TopicOrder) /\ Len(TopicOrder) \in Nat
      /\ \A n \in 1 .. Len(q) : q[n] \in DOMAIN s
  BY <1>0, NamesElements
<1> HIDE DEF e, q
<1>3. ASSUME NEW i \in DOMAIN e
      PROVE  /\ i \in PeerIds /\ e[i].path \in PeerPaths /\ e[i].type \in PeerTypes
             /\ e[i].value \in Topics \cup Params
  <2>1. i \in PeerIds
    BY <1>1, <1>2, TopicAssumption
  <2>2. PICK n \in 1 .. Len(q) :
           e[i] = NameEntry(q[n], n - 1) \/ e[i] = ParamEntry(q[n], n - 1, s)
    BY <1>1
  <2>3. n - 1 \in 0 .. Len(TopicOrder) - 1
    BY <1>2
  <2>4. q[n] \in Topics /\ s[q[n]] \in Params
    BY <1>0, <1>2
  <2>5. <<"name", n - 1>> \in PeerPaths /\ <<"param", n - 1>> \in PeerPaths
    BY <2>3, TopicAssumption
  <2>6. CASE e[i] = NameEntry(q[n], n - 1)
    BY <2>1, <2>4, <2>5, <2>6, TopicAssumption DEF NameEntry
  <2>7. CASE e[i] = ParamEntry(q[n], n - 1, s)
    BY <2>1, <2>4, <2>5, <2>7, TopicAssumption DEF ParamEntry
  <2> QED BY <2>2, <2>6, <2>7
<1> QED BY <1>1, <1>3 DEF e

(* The parameter at an index is one of the topic whose name is there.      *)
LEMMA ParamOfName ==
    ASSUME NEW s \in Subscriptions, NEW n,
           NEW i \in DOMAIN TopicEntries(s), TopicEntries(s)[i].path = <<"name", n>>
    PROVE  /\ TopicEntries(s)[i].value \in Topics
           /\ \A j \in DOMAIN TopicEntries(s) :
                 TopicEntries(s)[j].path = <<"param", n>>
                    => TopicEntries(s)[j].value \in ParamsOf[TopicEntries(s)[i].value]
<1> DEFINE e == TopicEntries(s)
           q == Names(DOMAIN s)
<1>0. DOMAIN s \subseteq Topics /\ \A t \in DOMAIN s : s[t] \in ParamsOf[t]
  BY SubscriptionType
<1>1. \A x \in DOMAIN e : \E m \in 1 .. Len(q) :
         e[x] = NameEntry(q[m], m - 1) \/ e[x] = ParamEntry(q[m], m - 1, s)
  BY <1>0, EntriesOfTopics
<1>2. Len(q) \in Nat /\ \A m \in 1 .. Len(q) : q[m] \in DOMAIN s
  BY <1>0, NamesElements
<1>3. i \in DOMAIN e /\ e[i].path = <<"name", n>>
  OBVIOUS
<1> HIDE DEF e, q
<1>4. PICK m \in 1 .. Len(q) : n = m - 1 /\ e[i].value = q[m]
  <2>1. PICK m \in 1 .. Len(q) :
           e[i] = NameEntry(q[m], m - 1) \/ e[i] = ParamEntry(q[m], m - 1, s)
    BY <1>1, <1>3
  <2>2. e[i] = NameEntry(q[m], m - 1)
    BY <1>3, <2>1 DEF ParamEntry
  <2> QED BY <1>3, <2>2 DEF NameEntry
<1>5. ASSUME NEW j \in DOMAIN e, e[j].path = <<"param", n>> PROVE e[j].value \in ParamsOf[q[m]]
  <2>1. PICK l \in 1 .. Len(q) :
           e[j] = NameEntry(q[l], l - 1) \/ e[j] = ParamEntry(q[l], l - 1, s)
    BY <1>1
  <2>2. e[j] = ParamEntry(q[l], l - 1, s)
    BY <1>5, <2>1 DEF NameEntry
  <2>3. l - 1 = n /\ e[j].value = s[q[l]]
    BY <1>5, <2>2 DEF ParamEntry
  <2>4. l = m
    BY <1>2, <1>4, <2>3
  <2> QED BY <1>0, <1>2, <2>3, <2>4
<1> QED BY <1>0, <1>2, <1>4, <1>5 DEF e

-----------------------------------------------------------------------------
(* The frames of a topic sync.                                             *)

(* The fields of the frames that a client sends.                           *)
LEMMA UpFields ==
    /\ Identify.frameType = "Identify" /\ AuthFrame.frameType = "Auth"
    /\ ClientReady.frameType = "ClientReady" /\ ClientReset.frameType = "ClientReset"
    /\ ClientSync.frameType = "ClientSync"
    /\ \A id : ClientKeyRequest(id).frameType = "ClientKeyRequest"
                /\ ClientKeyRequest(id).keyId = id
    /\ \A id, dt, p : LET f == ClientKeyRegistration(id, dt, p) IN
          /\ f.frameType = "ClientKeyRegistration"
          /\ f.keyId = id /\ f.dataType = dt /\ f.payload = p
    /\ \A id, dt, v : LET f == ClientValue(id, dt, v) IN
          f.frameType = "ClientValue" /\ f.keyId = id /\ f.payload = v
BY DEF Identify, AuthFrame, ClientReady, ClientReset, ClientSync, ClientKeyRequest,
       ClientKeyRegistration, ClientValue, Signal, KeySignal, Frame

(* A topic sync is a ClientReset and frames that belong to it.             *)
LEMMA SyncFrames ==
    ASSUME NEW s \in Subscriptions
    PROVE  LET g == TopicSyncFrames(s) IN
           /\ g \in Seq(UpFrames) /\ Len(g) \in Nat \ {0}
           /\ g[1] = ClientReset
           /\ \A i \in 1 .. Len(g) : Belongs(g[i], s) /\ g[i].frameType # "Identify"
           /\ \A i \in 2 .. Len(g) : g[i].frameType # "ClientReset"
<1> DEFINE e == TopicEntries(s)
           n == Len(e)
           reg(i) == ClientKeyRegistration(i, e[i].type, e[i].path)
           val(i) == ClientValue(i, e[i].type, e[i].value)
           r == [i \in 1 .. n |-> reg(i)]
           v == [i \in 1 .. n |-> val(i)]
           a == << ClientReset >>
           z == << ClientSync >>
           g == TopicSyncFrames(s)
           T == {f \in UpFrames : /\ Belongs(f, s)
                                  /\ f.frameType \notin {"Identify", "ClientReset"}}
<1>0. /\ n \in Nat /\ DOMAIN e = 1 .. n
      /\ \A i \in 1 .. n :
            /\ i \in PeerIds /\ e[i].path \in PeerPaths /\ e[i].type \in PeerTypes
            /\ e[i].value \in Topics \cup Params
  BY EntriesType
<1>1. g = ((a \o r) \o v) \o z
  BY <1>0 DEF TopicSyncFrames, The
<1> HIDE DEF g, n
<1>2. \A i \in 1 .. n : reg(i) \in T /\ val(i) \in T
  <2> TAKE i \in 1 .. n
  <2>1. /\ reg(i).frameType = "ClientKeyRegistration" /\ reg(i).keyId = i
        /\ reg(i).payload = e[i].path
        /\ val(i).frameType = "ClientValue" /\ val(i).keyId = i /\ val(i).payload = e[i].value
    BY UpFields
  <2>2. reg(i) \in UpFrames /\ val(i) \in UpFrames
    <3> HIDE DEF e
    <3> QED BY <1>0 DEF UpFrames
  <2> HIDE DEF reg, val
  <2> QED BY <1>0, <2>1, <2>2 DEF Belongs
<1>3. /\ ClientReset \in UpFrames /\ Belongs(ClientReset, s)
      /\ ClientReset.frameType # "Identify" /\ ClientSync \in T
  BY UpFields DEF UpFrames, Belongs
<1> HIDE DEF reg, val, e
<1>4. r \in Seq(T) /\ v \in Seq(T) /\ z \in Seq(T)
  <2> HIDE DEF T
  <2> QED BY <1>0, <1>2, <1>3
<1>5. a \in Seq(UpFrames) /\ Len(a) = 1 /\ a[1] = ClientReset
  BY <1>3
<1> HIDE DEF a, z, r, v
<1> DEFINE b == (r \o v) \o z
<1>6. b \in Seq(T) /\ b \in Seq(UpFrames)
  <2>1. b \in Seq(T)
    <3> HIDE DEF T
    <3>1. r \o v \in Seq(T)
      BY <1>4, ConcatProperties
    <3> QED BY <1>4, <3>1, ConcatProperties
  <2>2. T \subseteq UpFrames
    OBVIOUS
  <2> HIDE DEF b, T
  <2> QED BY <2>1, <2>2, SeqSubset
<1>7. g = a \o b
  <2>1. r \in Seq(UpFrames) /\ v \in Seq(UpFrames) /\ z \in Seq(UpFrames)
    <3>1. T \subseteq UpFrames
      OBVIOUS
    <3> HIDE DEF T
    <3> QED BY <1>4, <3>1, SeqSubset
  <2>2. r \o v \in Seq(UpFrames)
    BY <2>1, ConcatProperties
  <2>3. (a \o r) \o v = a \o (r \o v)
    <3>1. a \in Seq(UpFrames)
      BY <1>5
    <3> HIDE DEF T, b
    <3> QED BY <2>1, <3>1, ConcatAssociative
  <2>4. (a \o (r \o v)) \o z = a \o ((r \o v) \o z)
    BY <1>5, <2>1, <2>2, ConcatAssociative
  <2> QED BY <1>1, <2>3, <2>4
<1> HIDE DEF b
<1>8. Len(b) \in Nat /\ \A i \in 1 .. Len(b) : b[i] \in T
  <2> HIDE DEF T
  <2> QED BY <1>6, LenProperties, ElementOfSeq
<1>9. /\ g \in Seq(UpFrames) /\ Len(g) = 1 + Len(b)
      /\ \A i \in 1 .. 1 + Len(b) : g[i] = IF i <= 1 THEN a[i] ELSE b[i - 1]
  <2>1. /\ g \in Seq(UpFrames) /\ Len(g) = Len(a) + Len(b)
        /\ \A i \in 1 .. Len(a) + Len(b) : g[i] = IF i <= Len(a) THEN a[i] ELSE b[i - Len(a)]
    BY <1>5, <1>6, <1>7, ConcatProperties
  <2> QED BY <1>5, <2>1
<1>10. g[1] = ClientReset
  BY <1>5, <1>8, <1>9
<1>11. ASSUME NEW i \in 2 .. Len(g) PROVE g[i] \in T
  <2>1. i \in 1 .. 1 + Len(b) /\ ~(i <= 1) /\ i - 1 \in 1 .. Len(b)
    BY <1>8, <1>9
  <2> QED BY <1>8, <1>9, <2>1
<1>12. \A i \in 1 .. Len(g) : i = 1 \/ i \in 2 .. Len(g)
  BY <1>8, <1>9
<1>13. Len(g) \in Nat \ {0}
  BY <1>8, <1>9
<1>14. \A i \in 1 .. Len(g) : Belongs(g[i], s) /\ g[i].frameType # "Identify"
  BY <1>3, <1>10, <1>11, <1>12
<1> QED BY <1>9, <1>10, <1>11, <1>13, <1>14 DEF g

-----------------------------------------------------------------------------
(* Topic syncs one after the other.                                        *)

(* What SyncsInOrder says of the frames after each ClientReset, and frames *)
(* that may follow those of any topic sync.                                *)
Syncs(u) == \A j \in DOMAIN u : u[j].frameType = "ClientReset" =>
                \E s \in Subscriptions : Continues(u, j, s)
Loose(u) == \A s \in Subscriptions : Continues(u, 0, s)

(* The first frame is handled.                                             *)
LEMMA SyncsTail ==
    ASSUME NEW u \in Seq(UpFrames), u # << >>
    PROVE  /\ \A s : Head(u).frameType # "ClientReset" /\ Continues(u, 0, s)
                        => Belongs(Head(u), s) /\ Continues(Tail(u), 0, s)
           /\ Syncs(u) => Syncs(Tail(u))
           /\ Syncs(u) /\ Head(u).frameType = "ClientReset"
                 => \E s \in Subscriptions : Continues(Tail(u), 0, s)
<1> DEFINE v == Tail(u)
           n == Len(u)
<1>0. /\ n \in Nat \ {0} /\ DOMAIN u = 1 .. n /\ Head(u) = u[1]
      /\ Len(v) = n - 1 /\ DOMAIN v = 1 .. n - 1 /\ \A i \in 1 .. n - 1 : v[i] = u[i + 1]
  BY HeadTailProperties, EmptySeq, LenProperties
<1> HIDE DEF v, n
<1>1. ASSUME NEW s, NEW j \in 0 .. n - 1, Continues(u, j + 1, s)
      PROVE  Continues(v, j, s)
  <2> SUFFICES ASSUME NEW i \in j + 1 .. n - 1,
                      \A m \in j + 1 .. i : v[m].frameType # "ClientReset"
               PROVE  Belongs(v[i], s)
    BY <1>0 DEF Continues
  <2>1. i + 1 \in (j + 1) + 1 .. n /\ v[i] = u[i + 1]
    BY <1>0
  <2>2. ASSUME NEW m \in (j + 1) + 1 .. i + 1 PROVE u[m].frameType # "ClientReset"
    <3>1. m - 1 \in j + 1 .. i /\ m - 1 \in 1 .. n - 1 /\ (m - 1) + 1 = m
      BY <1>0
    <3>2. v[m - 1] = u[m]
      BY <1>0, <3>1
    <3> QED BY <3>1, <3>2
  <2> QED BY <1>1, <2>1, <2>2 DEF Continues, n
<1>2. ASSUME NEW s, u[1].frameType # "ClientReset", Continues(u, 0, s)
      PROVE  Belongs(u[1], s) /\ Continues(u, 1, s)
  <2>1. \A i \in 1 .. n : (\A m \in 1 .. i : u[m].frameType # "ClientReset") => Belongs(u[i], s)
    BY <1>2 DEF Continues, n
  <2>2. Belongs(u[1], s)
    BY <1>0, <1>2, <2>1
  <2>3. ASSUME NEW i \in 2 .. n, \A m \in 2 .. i : u[m].frameType # "ClientReset"
        PROVE  Belongs(u[i], s)
    <3>1. \A m \in 1 .. i : m = 1 \/ m \in 2 .. i
      OBVIOUS
    <3>2. i \in 1 .. n
      BY <1>0
    <3> QED BY <1>2, <2>1, <2>3, <3>1, <3>2
  <2> QED BY <2>2, <2>3 DEF Continues, n
<1>3. ASSUME NEW s, Head(u).frameType # "ClientReset", Continues(u, 0, s)
      PROVE  Belongs(Head(u), s) /\ Continues(v, 0, s)
  BY <1>0, <1>1, <1>2, <1>3
<1>4. ASSUME Syncs(u) PROVE Syncs(v)
  <2> SUFFICES ASSUME NEW j \in 1 .. n - 1, v[j].frameType = "ClientReset"
               PROVE  \E s \in Subscriptions : Continues(v, j, s)
    BY <1>0 DEF Syncs
  <2>1. j + 1 \in 1 .. n /\ u[j + 1].frameType = "ClientReset" /\ j \in 0 .. n - 1
    BY <1>0
  <2>2. PICK s \in Subscriptions : Continues(u, j + 1, s)
    BY <1>0, <1>4, <2>1 DEF Syncs
  <2> QED BY <1>1, <2>1, <2>2
<1>5. ASSUME Syncs(u), Head(u).frameType = "ClientReset"
      PROVE  \E s \in Subscriptions : Continues(v, 0, s)
  <2>1. PICK s \in Subscriptions : Continues(u, 1, s)
    BY <1>0, <1>5 DEF Syncs
  <2>2. 0 \in 0 .. n - 1 /\ 0 + 1 = 1
    BY <1>0
  <2> QED BY <1>1, <2>1, <2>2
<1> QED BY <1>3, <1>4, <1>5 DEF v

(* Frames are sent.                                                        *)
LEMMA SyncsConcat ==
    ASSUME NEW u \in Seq(UpFrames), NEW g \in Seq(UpFrames), Syncs(g), Loose(g)
    PROVE  /\ Syncs(u) => Syncs(u \o g)
           /\ \A s \in Subscriptions : Continues(u, 0, s) => Continues(u \o g, 0, s)
<1> DEFINE w == u \o g
           m == Len(u)
           n == Len(g)
<1>0. /\ m \in Nat /\ n \in Nat /\ DOMAIN u = 1 .. m /\ DOMAIN g = 1 .. n
      /\ w \in Seq(UpFrames) /\ Len(w) = m + n /\ DOMAIN w = 1 .. m + n
      /\ \A i \in 1 .. m + n : w[i] = IF i <= m THEN u[i] ELSE g[i - m]
  BY ConcatProperties, LenProperties
<1> HIDE DEF w, m, n
<1>1. /\ \A i \in 1 .. m : w[i] = u[i] /\ i \in 1 .. m + n
      /\ \A i \in 1 .. n : w[m + i] = g[i] /\ m + i \in 1 .. m + n
  <2>1. ASSUME NEW i \in 1 .. n PROVE w[m + i] = g[i] /\ m + i \in 1 .. m + n
    <3>1. m + i \in 1 .. m + n /\ ~(m + i <= m) /\ (m + i) - m = i
      BY <1>0
    <3> QED BY <1>0, <3>1
  <2>2. ASSUME NEW i \in 1 .. m PROVE w[i] = u[i] /\ i \in 1 .. m + n
    BY <1>0
  <2> QED BY <2>1, <2>2
<1>2. ASSUME NEW s \in Subscriptions, NEW j \in 0 .. m, Continues(u, j, s)
      PROVE  Continues(w, j, s)
  <2> SUFFICES ASSUME NEW i \in j + 1 .. m + n,
                      \A x \in j + 1 .. i : w[x].frameType # "ClientReset"
               PROVE  Belongs(w[i], s)
    BY <1>0 DEF Continues
  <2>1. CASE i <= m
    <3>1. i \in j + 1 .. m /\ \A x \in j + 1 .. i : x \in 1 .. m
      BY <1>0, <2>1
    <3> QED BY <1>1, <1>2, <3>1 DEF Continues, m
  <2>2. CASE ~(i <= m)
    <3>1. i - m \in 1 .. n /\ m + (i - m) = i
      BY <1>0, <2>2
    <3>2. ASSUME NEW x \in 1 .. i - m PROVE g[x].frameType # "ClientReset"
      <4>1. x \in 1 .. n /\ m + x \in j + 1 .. i
        BY <1>0, <3>1
      <4> QED BY <1>1, <4>1
    <3>3. Continues(g, 0, s)
      BY DEF Loose
    <3>4. Belongs(g[i - m], s)
      BY <3>1, <3>2, <3>3 DEF Continues, n
    <3> QED BY <1>1, <3>1, <3>4
  <2> QED BY <2>1, <2>2
<1>3. ASSUME NEW s, NEW j \in 0 .. n, Continues(g, j, s)
      PROVE  Continues(w, m + j, s)
  <2> SUFFICES ASSUME NEW i \in (m + j) + 1 .. m + n,
                      \A x \in (m + j) + 1 .. i : w[x].frameType # "ClientReset"
               PROVE  Belongs(w[i], s)
    BY <1>0 DEF Continues
  <2>1. i - m \in j + 1 .. n /\ i - m \in 1 .. n /\ m + (i - m) = i
    BY <1>0
  <2>2. ASSUME NEW x \in j + 1 .. i - m PROVE g[x].frameType # "ClientReset"
    <3>1. x \in 1 .. n /\ m + x \in (m + j) + 1 .. i
      BY <1>0, <2>1
    <3> QED BY <1>1, <3>1
  <2>3. Belongs(g[i - m], s)
    BY <1>3, <2>1, <2>2 DEF Continues, n
  <2> QED BY <1>1, <2>1, <2>3
<1>4. ASSUME Syncs(u) PROVE Syncs(w)
  <2> SUFFICES ASSUME NEW j \in 1 .. m + n, w[j].frameType = "ClientReset"
               PROVE  \E s \in Subscriptions : Continues(w, j, s)
    BY <1>0 DEF Syncs
  <2>1. CASE j <= m
    <3>1. j \in 1 .. m /\ j \in 0 .. m
      BY <1>0, <2>1
    <3>2. PICK s \in Subscriptions : Continues(u, j, s)
      BY <1>0, <1>1, <1>4, <3>1 DEF Syncs
    <3> QED BY <1>2, <3>1, <3>2
  <2>2. CASE ~(j <= m)
    <3>1. j - m \in 1 .. n /\ j - m \in 0 .. n /\ m + (j - m) = j
      BY <1>0, <2>2
    <3>2. PICK s \in Subscriptions : Continues(g, j - m, s)
      BY <1>0, <1>1, <3>1 DEF Syncs
    <3> QED BY <1>3, <3>1, <3>2
  <2> QED BY <2>1, <2>2
<1>5. ASSUME NEW s \in Subscriptions, Continues(u, 0, s) PROVE Continues(w, 0, s)
  BY <1>0, <1>2, <1>5
<1> QED BY <1>4, <1>5 DEF w

(* A frame that is none of a topic sync, and a whole topic sync.           *)
LEMMA LooseFrames ==
    /\ Syncs(<< >>) /\ Loose(<< >>) /\ << >> \in Seq(UpFrames)
    /\ \A f \in UpFrames :
          f.frameType \in {"Identify", "Auth", "ClientReady", "ClientKeyRequest"} =>
             << f >> \in Seq(UpFrames) /\ Syncs(<< f >>) /\ Loose(<< f >>)
    /\ \A s \in Subscriptions :
          LET g == TopicSyncFrames(s) IN g \in Seq(UpFrames) /\ Syncs(g) /\ Loose(g)
<1>1. Syncs(<< >>) /\ Loose(<< >>) /\ << >> \in Seq(UpFrames)
  BY DEF Syncs, Loose, Continues
<1>2. ASSUME NEW f \in UpFrames,
             f.frameType \in {"Identify", "Auth", "ClientReady", "ClientKeyRequest"}
      PROVE  << f >> \in Seq(UpFrames) /\ Syncs(<< f >>) /\ Loose(<< f >>)
  <2>1. \A s : Belongs(f, s)
    BY <1>2 DEF Belongs
  <2> DEFINE q == << f >>
  <2>2. q \in Seq(UpFrames) /\ Len(q) = 1 /\ DOMAIN q = 1 .. 1 /\ q[1] = f
    OBVIOUS
  <2> HIDE DEF q
  <2>3. Syncs(q)
    <3>1. \A j \in DOMAIN q : q[j].frameType # "ClientReset"
      BY <1>2, <2>2
    <3> QED BY <3>1 DEF Syncs
  <2>4. Loose(q)
    BY <2>1, <2>2 DEF Loose, Continues
  <2> QED BY <2>2, <2>3, <2>4 DEF q
<1>3. ASSUME NEW s \in Subscriptions
      PROVE  LET g == TopicSyncFrames(s) IN g \in Seq(UpFrames) /\ Syncs(g) /\ Loose(g)
  <2> DEFINE g == TopicSyncFrames(s)
  <2>1. /\ g \in Seq(UpFrames) /\ Len(g) \in Nat \ {0} /\ DOMAIN g = 1 .. Len(g)
        /\ g[1] = ClientReset
        /\ \A i \in 1 .. Len(g) : Belongs(g[i], s)
        /\ \A i \in 2 .. Len(g) : g[i].frameType # "ClientReset"
    BY SyncFrames, LenProperties
  <2> HIDE DEF g
  <2>2. \A j \in Nat : Continues(g, j, s)
    BY <2>1 DEF Continues
  <2>3. Syncs(g)
    BY <2>1, <2>2 DEF Syncs
  <2>4. Loose(g)
    <3>1. ASSUME NEW z, NEW i \in 0 + 1 .. Len(g),
                 \A x \in 0 + 1 .. i : g[x].frameType # "ClientReset"
          PROVE  Belongs(g[i], z)
      <4>1. 1 \in 0 + 1 .. i
        BY <2>1
      <4>2. g[1].frameType = "ClientReset"
        BY <2>1, UpFields
      <4> QED BY <3>1, <4>1, <4>2
    <3> QED BY <3>1 DEF Loose, Continues
  <2> QED BY <2>1, <2>3, <2>4 DEF g
<1> QED BY <1>1, <1>2, <1>3

-----------------------------------------------------------------------------
(* The client's topics: what it sends and how it numbers them.             *)

(* Identify is the first frame of a connection that has no session yet.    *)
IdentifyFirst(u, sess) ==
    \A i \in DOMAIN u : u[i].frameType = "Identify" => i = 1 /\ sess = "None"
UpOK(u, sess) == u \in Seq(UpFrames) /\ IdentifyFirst(u, sess) /\ Syncs(u)
Sendable(g) ==
    /\ g \in Seq(UpFrames) /\ Syncs(g) /\ Loose(g)
    /\ \A i \in 1 .. Len(g) : g[i].frameType # "Identify"

(* The client sends.                                                       *)
LEMMA UpSend ==
    ASSUME NEW u, NEW sess, UpOK(u, sess), NEW g, Sendable(g)
    PROVE  /\ UpOK(u \o g, sess)
           /\ \A s \in Subscriptions : Continues(u, 0, s) => Continues(u \o g, 0, s)
<1> DEFINE w == u \o g
<1>0. /\ u \in Seq(UpFrames) /\ IdentifyFirst(u, sess) /\ Syncs(u)
      /\ g \in Seq(UpFrames) /\ Syncs(g) /\ Loose(g)
      /\ \A i \in 1 .. Len(g) : g[i].frameType # "Identify"
  BY DEF UpOK, Sendable
<1>1. Syncs(w) /\ \A s \in Subscriptions : Continues(u, 0, s) => Continues(w, 0, s)
  BY <1>0, SyncsConcat
<1>2. /\ Len(u) \in Nat /\ Len(g) \in Nat /\ DOMAIN u = 1 .. Len(u)
      /\ w \in Seq(UpFrames) /\ DOMAIN w = 1 .. Len(u) + Len(g)
      /\ \A i \in 1 .. Len(u) + Len(g) : w[i] = IF i <= Len(u) THEN u[i] ELSE g[i - Len(u)]
  BY <1>0, ConcatProperties, LenProperties
<1> HIDE DEF w
<1>3. ASSUME NEW i \in DOMAIN w, w[i].frameType = "Identify" PROVE i = 1 /\ sess = "None"
  <2>1. CASE i <= Len(u)
    BY <1>0, <1>2, <1>3, <2>1 DEF IdentifyFirst
  <2>2. CASE ~(i <= Len(u))
    <3>1. i - Len(u) \in 1 .. Len(g) /\ w[i] = g[i - Len(u)]
      BY <1>2, <2>2
    <3> QED BY <1>0, <1>3, <3>1
  <2> QED BY <2>1, <2>2
<1> QED BY <1>1, <1>2, <1>3 DEF UpOK, IdentifyFirst, w

(* The server takes a frame off.                                           *)
LEMMA UpTail ==
    ASSUME NEW u, NEW sess, UpOK(u, sess), u # << >>, NEW next
    PROVE  /\ Head(u) \in UpFrames /\ UpOK(Tail(u), next)
           /\ Head(u).frameType = "Identify" => sess = "None"
<1>0. u \in Seq(UpFrames) /\ IdentifyFirst(u, sess) /\ Syncs(u)
  BY DEF UpOK
<1>1. /\ Len(u) \in Nat \ {0} /\ DOMAIN u = 1 .. Len(u)
      /\ Head(u) = u[1] /\ Head(u) \in UpFrames /\ Tail(u) \in Seq(UpFrames)
      /\ DOMAIN Tail(u) = 1 .. Len(u) - 1 /\ \A i \in 1 .. Len(u) - 1 : Tail(u)[i] = u[i + 1]
  BY <1>0, HeadTailProperties, EmptySeq, LenProperties
<1>2. Syncs(Tail(u))
  BY <1>0, SyncsTail
<1>3. \A i \in DOMAIN Tail(u) : Tail(u)[i].frameType # "Identify"
  <2> TAKE i \in DOMAIN Tail(u)
  <2>1. i + 1 \in DOMAIN u /\ i + 1 # 1 /\ Tail(u)[i] = u[i + 1]
    BY <1>1
  <2> QED BY <1>0, <2>1 DEF IdentifyFirst
<1>4. Head(u).frameType = "Identify" => sess = "None"
  BY <1>0, <1>1 DEF IdentifyFirst
<1> QED BY <1>1, <1>2, <1>3, <1>4 DEF UpOK, IdentifyFirst

(* What the client ever sends: nothing, a frame of no topic sync, and a    *)
(* topic sync.                                                             *)
LEMMA SendableFrames ==
    /\ Sendable(<< >>)
    /\ Sendable(<< ClientReady >>) /\ Sendable(<< AuthFrame >>)
    /\ \A id \in KeyIds : Sendable(<< ClientKeyRequest(id) >>)
    /\ \A s \in Subscriptions : Sendable(TopicSyncFrames(s))
<1>1. ASSUME NEW f \in UpFrames,
             f.frameType \in {"Auth", "ClientReady", "ClientKeyRequest"}
      PROVE  Sendable(<< f >>)
  <2>1. << f >> \in Seq(UpFrames) /\ Syncs(<< f >>) /\ Loose(<< f >>)
    BY <1>1, LooseFrames
  <2>2. \A i \in 1 .. Len(<< f >>) : << f >>[i] = f
    OBVIOUS
  <2> QED BY <1>1, <2>1, <2>2 DEF Sendable
<1>2. /\ ClientReady \in UpFrames /\ AuthFrame \in UpFrames
      /\ \A id \in KeyIds : ClientKeyRequest(id) \in UpFrames
  BY DEF UpFrames
<1>3. Sendable(<< >>)
  BY LooseFrames DEF Sendable
<1>4. \A s \in Subscriptions : Sendable(TopicSyncFrames(s))
  BY SyncFrames, LooseFrames DEF Sendable
<1> QED BY <1>1, <1>2, <1>3, <1>4, UpFields

(* The two indices of a topic, the client's and that of its handle.        *)
Agree(m, h) == \A t \in DOMAIN m \cap DOMAIN h : h[t] = m[t]

(* Positions gives an index to every subscribed topic.                     *)
LEMMA PositionsType ==
    ASSUME NEW s \in Subscriptions
    PROVE  /\ Positions(s) \in Maps(Topics, Indices) /\ DOMAIN Positions(s) = DOMAIN s
           /\ \A t \in DOMAIN s : Positions(s)[t] \in Indices
<1> DEFINE q == Names(DOMAIN s)
<1>0. DOMAIN s \subseteq Topics
  BY SubscriptionType
<1>1. /\ q \in Seq(Topics) /\ Len(q) \in Nat /\ Len(q) <= Len(TopicOrder)
      /\ Len(TopicOrder) \in Nat /\ DOMAIN q = 1 .. Len(q)
      /\ \A t \in DOMAIN s : \E i \in 1 .. Len(q) : q[i] = t
  BY <1>0, NamesElements, LenProperties
<1>2. Positions(s) = [t \in DOMAIN s |-> (CHOOSE i \in DOMAIN q : q[i] = t) - 1]
  BY DEF Positions, Names
<1> HIDE DEF q
<1>3. ASSUME NEW t \in DOMAIN s PROVE Positions(s)[t] \in Indices
  <2> DEFINE c == CHOOSE i \in DOMAIN q : q[i] = t
  <2>1. c \in 1 .. Len(q)
    BY <1>1
  <2>2. Positions(s)[t] = c - 1
    BY <1>2
  <2> HIDE DEF c
  <2> QED BY <1>1, <2>1, <2>2 DEF Indices
<1>4. Positions(s) \in [DOMAIN s -> Indices]
  BY <1>2, <1>3
<1> QED BY <1>0, <1>2, <1>3, <1>4 DEF Maps

(* sendTopicSync numbers the topics, and the handles with them.            *)
LEMMA SendTopicSyncEffect ==
    ASSUME NEW s \in Subscriptions, NEW h \in HandleMaps, NEW sent, SendTopicSync(s, h, sent)
    PROVE  /\ indexMap' \in Maps(Topics, Indices) /\ handleIndex' \in HandleMaps
           /\ Agree(indexMap', handleIndex')
           /\ up' = (up \o sent) \o TopicSyncFrames(s)
<1> DEFINE p == Positions(s)
<1>0. DOMAIN s \subseteq Topics /\ DOMAIN h \subseteq Topics
      /\ \A t \in DOMAIN h : h[t] \in Indices \cup {-1}
  BY SubscriptionType, MapApply DEF HandleMaps
<1>1. p \in Maps(Topics, Indices) /\ DOMAIN p = DOMAIN s /\ \A t \in DOMAIN s : p[t] \in Indices
  BY PositionsType
<1>2. /\ indexMap' = p
      /\ handleIndex' = [t \in DOMAIN h \cup DOMAIN s |-> IF t \in DOMAIN s THEN p[t] ELSE h[t]]
      /\ up' = (up \o sent) \o TopicSyncFrames(s)
  BY DEF SendTopicSync
<1> HIDE DEF p
<1>3. handleIndex' \in [DOMAIN h \cup DOMAIN s -> Indices \cup {-1}]
  BY <1>0, <1>1, <1>2
<1>4. handleIndex' \in HandleMaps
  BY <1>0, <1>3 DEF HandleMaps, Maps
<1>5. Agree(indexMap', handleIndex')
  BY <1>1, <1>2 DEF Agree
<1> QED BY <1>1, <1>2, <1>4, <1>5

(* The client's part of the invariant.                                     *)
TopicsOK ==
    /\ subs \in Subscriptions /\ indexMap \in Maps(Topics, Indices)
    /\ handleIndex \in HandleMaps /\ Agree(indexMap, handleIndex)
    /\ UpOK(up, session)
SyncsGoOn == \A s \in Subscriptions : Continues(up, 0, s) => Continues(up', 0, s)

(* Steps of the client.                                                    *)
ClientMoves ==
    \/ \E t \in Topics :
          (\E p \in ParamsOf[t] : Subscribe(t, p)) \/ Unsubscribe(t) \/ OpenHandle(t)
    \/ Authorize \/ Connect \/ HandleOpen \/ HandleClose \/ ClientStep

(* subscribe and unsubscribe lead to a subscription map again.             *)
LEMMA SubscriptionMoves ==
    ASSUME NEW s \in Subscriptions, NEW t \in Topics
    PROVE  /\ \A p \in ParamsOf[t] : Put(s, t, p) \in Subscriptions
           /\ Erase(s, t) \in Subscriptions
<1>0. s \in Maps(Topics, Params) /\ \A x \in DOMAIN s : s[x] \in ParamsOf[x]
  BY SubscriptionType
<1>1. ASSUME NEW p \in ParamsOf[t] PROVE Put(s, t, p) \in Subscriptions
  <2>1. p \in Params
    BY DEF Params
  <2>2. Put(s, t, p) \in Maps(Topics, Params)
    BY <1>0, <2>1, PutType
  <2>3. \A x \in DOMAIN Put(s, t, p) : Put(s, t, p)[x] \in ParamsOf[x]
    BY <1>0 DEF Put
  <2> QED BY <2>2, <2>3 DEF Subscriptions
<1>2. Erase(s, t) \in Subscriptions
  <2>1. Erase(s, t) \in Maps(Topics, Params)
    BY <1>0, EraseType
  <2>2. \A x \in DOMAIN Erase(s, t) : Erase(s, t)[x] \in ParamsOf[x]
    BY <1>0 DEF Erase
  <2> QED BY <2>1, <2>2 DEF Subscriptions
<1> QED BY <1>1, <1>2

(* A topic sync, after what is sent before it.                             *)
LEMMA SyncSent ==
    ASSUME TopicsOK, NEW s \in Subscriptions, NEW sent, Sendable(sent),
           up' = (up \o sent) \o TopicSyncFrames(s)
    PROVE  UpOK(up', session) /\ SyncsGoOn
<1>1. UpOK(up, session)
  BY DEF TopicsOK
<1>2. /\ UpOK(up \o sent, session)
      /\ \A z \in Subscriptions : Continues(up, 0, z) => Continues(up \o sent, 0, z)
  BY <1>1, UpSend
<1> DEFINE w == up \o sent
<1> HIDE DEF w
<1>3. UpOK(w, session) /\ up' = w \o TopicSyncFrames(s)
  BY <1>2 DEF w
<1>4. /\ UpOK(w \o TopicSyncFrames(s), session)
      /\ \A z \in Subscriptions : Continues(w, 0, z) => Continues(w \o TopicSyncFrames(s), 0, z)
  BY <1>3, UpSend, SendableFrames
<1> QED BY <1>2, <1>3, <1>4 DEF SyncsGoOn, w

(* Frames of no topic sync.                                                *)
LEMMA OthersSent ==
    ASSUME TopicsOK, NEW sent, Sendable(sent), up' = up \o sent
    PROVE  UpOK(up', session) /\ SyncsGoOn
BY UpSend DEF TopicsOK, SyncsGoOn

(* The state becomes Ready.                                                *)
LEMMA ReadySent ==
    ASSUME TopicsOK, NEW sent, Sendable(sent), BecomesReady(sent), subs' = subs,
           session' = session
    PROVE  TopicsOK' /\ SyncsGoOn
<1>1. CASE SendTopicSync(subs, handleIndex, sent)
  <2>1. /\ indexMap' \in Maps(Topics, Indices) /\ handleIndex' \in HandleMaps
        /\ Agree(indexMap', handleIndex') /\ up' = (up \o sent) \o TopicSyncFrames(subs)
    BY <1>1, SendTopicSyncEffect DEF TopicsOK
  <2>2. UpOK(up', session) /\ SyncsGoOn
    BY <2>1, SyncSent DEF TopicsOK
  <2> QED BY <2>1, <2>2 DEF TopicsOK
<1>2. CASE up' = up \o sent /\ KeepsTopics
  <2>1. UpOK(up', session) /\ SyncsGoOn
    BY <1>2, OthersSent
  <2> QED BY <1>2, <2>1 DEF TopicsOK, KeepsTopics
<1> QED BY <1>1, <1>2 DEF BecomesReady

(* Every step of the client keeps its numbering, and what it sends is in   *)
(* the order of the topic syncs.                                           *)
LEMMA ClientTopicsStep ==
    ASSUME TopicsOK, down \in Seq(DownFrames), ClientMoves
    PROVE  TopicsOK' /\ SyncsGoOn
<1>0. /\ subs \in Subscriptions /\ indexMap \in Maps(Topics, Indices)
      /\ handleIndex \in HandleMaps /\ Agree(indexMap, handleIndex) /\ UpOK(up, session)
      /\ up \in Seq(UpFrames)
  BY DEF TopicsOK, UpOK
<1>1. ASSUME UNCHANGED <<subs, indexMap, handleIndex, session>>,
             NEW sent, Sendable(sent), up' = up \o sent
      PROVE  TopicsOK' /\ SyncsGoOn
  BY <1>0, <1>1, OthersSent DEF TopicsOK
<1>2. ASSUME UNCHANGED <<subs, indexMap, handleIndex, session, up>>
      PROVE  TopicsOK' /\ SyncsGoOn
  BY <1>0, <1>2 DEF TopicsOK, SyncsGoOn
<1>3. ASSUME NEW s \in Subscriptions, NEW h \in HandleMaps, Agree(indexMap, h),
             SubscriptionsChange(s, h)
      PROVE  TopicsOK' /\ SyncsGoOn
  <2>1. subs' = s /\ session' = session
    BY <1>3 DEF SubscriptionsChange, ClientCall, serverVars
  <2>2. CASE SendTopicSync(s, h, << >>)
    <3>1. /\ indexMap' \in Maps(Topics, Indices) /\ handleIndex' \in HandleMaps
          /\ Agree(indexMap', handleIndex') /\ up' = (up \o << >>) \o TopicSyncFrames(s)
      BY <2>2, SendTopicSyncEffect
    <3>2. UpOK(up', session) /\ SyncsGoOn
      BY <3>1, SyncSent, SendableFrames
    <3> QED BY <2>1, <3>1, <3>2 DEF TopicsOK
  <2>3. CASE DeferTopicSync(h)
    <3>1. handleIndex' = h /\ indexMap' = indexMap /\ up' = up
      BY <2>3 DEF DeferTopicSync
    <3> QED BY <1>0, <1>3, <2>1, <3>1 DEF TopicsOK, SyncsGoOn
  <2> QED BY <1>3, <2>2, <2>3 DEF SubscriptionsChange
<1>4. ASSUME NEW t \in Topics, NEW p \in ParamsOf[t], Subscribe(t, p)
      PROVE  TopicsOK' /\ SyncsGoOn
  BY <1>0, <1>3, <1>4, SubscriptionMoves DEF Subscribe
<1>5. ASSUME NEW t \in Topics, Unsubscribe(t)
      PROVE  TopicsOK' /\ SyncsGoOn
  <2>1. Erase(handleIndex, t) \in HandleMaps
    BY <1>0, EraseType DEF HandleMaps
  <2>2. Agree(indexMap, Erase(handleIndex, t))
    BY <1>0 DEF Agree, Erase
  <2> QED BY <1>0, <1>3, <1>5, <2>1, <2>2, SubscriptionMoves DEF Unsubscribe
<1>6. ASSUME NEW t \in Topics, OpenHandle(t)
      PROVE  TopicsOK' /\ SyncsGoOn
  <2> DEFINE i == IF t \in DOMAIN indexMap THEN indexMap[t] ELSE -1
  <2>1. handleIndex' = Put(handleIndex, t, i) /\ UNCHANGED <<subs, indexMap, up, session>>
    BY <1>6 DEF OpenHandle, ClientCall, serverVars
  <2>2. i \in Indices \cup {-1}
    BY <1>0, MapApply
  <2>3. Agree(indexMap, Put(handleIndex, t, i))
    BY <1>0 DEF Agree, Put
  <2> HIDE DEF i
  <2>4. handleIndex' \in HandleMaps
    BY <1>0, <2>1, <2>2, PutType DEF HandleMaps
  <2> QED BY <1>0, <2>1, <2>3, <2>4 DEF TopicsOK, SyncsGoOn
<1>7. CASE Authorize
  <2>1. up' = Append(up, AuthFrame) /\ UNCHANGED <<subs, indexMap, handleIndex, session>>
    BY <1>7 DEF Authorize, ClientCall, serverVars, topicsVars
  <2>2. up' = up \o << AuthFrame >>
    BY <1>0, <2>1, AppendIsConcat DEF UpFrames
  <2> QED BY <1>1, <2>1, <2>2, SendableFrames
<1>8. CASE Connect
  BY <1>2, <1>8 DEF Connect, topicsVars, serverVars
<1>9. CASE HandleClose
  BY <1>2, <1>9 DEF HandleClose, topicsVars, serverVars
<1>10. CASE HandleOpen
  <2> DEFINE q == << Identify >>
  <2>0. session = "None" /\ up = << >> /\ UNCHANGED <<subs, session>>
    BY <1>10 DEF HandleOpen, serverVars
  <2>1. /\ q \in Seq(UpFrames) /\ Syncs(q) /\ Loose(q)
    BY LooseFrames, UpFields DEF UpFrames
  <2>2. UpOK(q, session)
    <3>1. DOMAIN q = 1 .. 1
      OBVIOUS
    <3> HIDE DEF q
    <3> QED BY <2>0, <2>1, <3>1 DEF UpOK, IdentifyFirst
  <2>3. \A s \in Subscriptions : Continues(q, 0, s)
    BY <2>1 DEF Loose
  <2>4. CASE UNCHANGED <<indexMap, handleIndex>> /\ up' = q
    <3> HIDE DEF q
    <3> QED BY <1>0, <2>0, <2>2, <2>3, <2>4 DEF TopicsOK, SyncsGoOn
  <2>5. CASE SendTopicSync(subs, handleIndex, q)
    <3>1. /\ indexMap' \in Maps(Topics, Indices) /\ handleIndex' \in HandleMaps
          /\ Agree(indexMap', handleIndex') /\ up' = (up \o q) \o TopicSyncFrames(subs)
      BY <1>0, <2>5, SendTopicSyncEffect
    <3>2. up \o q = q
      BY <2>0, <2>1, ConcatEmptySeq
    <3> HIDE DEF q
    <3>3. /\ UpOK(q \o TopicSyncFrames(subs), session)
          /\ \A z \in Subscriptions :
                Continues(q, 0, z) => Continues(q \o TopicSyncFrames(subs), 0, z)
      BY <1>0, <2>2, UpSend, SendableFrames
    <3> QED BY <1>0, <2>0, <2>3, <3>1, <3>2, <3>3 DEF TopicsOK, SyncsGoOn
  <2> QED BY <1>10, <2>4, <2>5 DEF HandleOpen
<1>11. CASE OnAuthOk \/ OnKeyRegistration \/ OnKeyDelete \/ OnReset
  BY <1>2, <1>11 DEF OnAuthOk, OnKeyRegistration, OnKeyDelete, OnReset, Receives, KeepsTopics,
                     serverVars
<1>12. CASE OnSync
  <2> DEFINE ready == IF Started(clientState) # "Ready" THEN << ClientReady >> ELSE << >>
  <2>1. Sendable(ready)
    BY SendableFrames
  <2>2. UNCHANGED <<subs, session>>
    BY <1>12 DEF OnSync, Receives, serverVars
  <2>3. \/ BecomesReady(ready)
        \/ up' = up \o ready /\ UNCHANGED <<indexMap, handleIndex>>
    BY <1>12 DEF OnSync, KeepsTopics
  <2> HIDE DEF ready
  <2> QED BY <1>1, <2>1, <2>2, <2>3, ReadySent
<1>13. CASE OnValue
  <2>0. UNCHANGED <<subs, session>> /\ down # << >>
        /\ Head(down).frameType = "ServerValue"
    BY <1>13 DEF OnValue, Receives, serverVars
  <2>1. Head(down).keyId \in KeyIds
    <3>1. Head(down) \in DownFrames
      BY <2>0, HeadTailProperties
    <3> QED BY <2>0, <3>1 DEF DownFrames, AuthOk, ServerSync, ServerReset, ServerKeyRegistration,
                 ServerValue, ServerKeyDelete, Signal, KeySignal, Frame
  <2> DEFINE r == ClientKeyRequest(Head(down).keyId)
  <2>2. \/ BecomesReady(<< >>)
        \/ (up' = up \/ up' = Append(up, r)) /\ UNCHANGED <<indexMap, handleIndex>>
    BY <1>13 DEF OnValue, KeepsTopics
  <2>3. r \in UpFrames /\ Sendable(<< r >>)
    BY <2>1, SendableFrames DEF UpFrames
  <2> HIDE DEF r
  <2>4. Append(up, r) = up \o << r >>
    BY <1>0, <2>3, AppendIsConcat
  <2> QED BY <1>1, <1>2, <2>0, <2>2, <2>3, <2>4, ReadySent, SendableFrames
<1> QED BY <1>4, <1>5, <1>6, <1>7, <1>8, <1>9, <1>10, <1>11, <1>12, <1>13
      DEF ClientMoves, ClientStep

-----------------------------------------------------------------------------
(* What the session is told of the topics.                                 *)

(* The topic sync that the registry and the values are part of.            *)
Told == \E s \in Subscriptions : Mirrors(registry, clientValues, s) /\ Continues(up, 0, s)
Untold == session # "Active" => registry = EmptyRegistry /\ clientValues = EmptyMap
SyncOK == TopicsOK /\ Told /\ Untold /\ RegistryTypeOK

(* A registry without keys is part of every topic sync, and a client may   *)
(* have no subscription.                                                   *)
LEMMA NothingTold ==
    /\ \A s : Mirrors(EmptyRegistry, EmptyMap, s)
    /\ EmptyMap \in Subscriptions
    /\ EmptyRegistry \in PeerRegistries
<1>1. DOMAIN EmptyMap = {}
  BY DEF EmptyMap
<1>2. EmptyMap \in Maps(Topics, Params)
  BY EmptyType
<1>3. EmptyRegistry \in PeerRegistries
  BY EmptyType DEF EmptyRegistry, PeerRegistries, Registries
<1> QED BY <1>1, <1>2, <1>3 DEF Mirrors, EmptyRegistry, Subscriptions

(* The session changes, and nothing on the way to it.                      *)
LEMMA SyncKept ==
    ASSUME SyncOK, UNCHANGED <<subs, indexMap, handleIndex, up, registry, clientValues>>,
           session' = session \/ session \notin {"None", "Active"}
    PROVE  SyncOK'
<1>1. UpOK(up', session')
  BY DEF SyncOK, TopicsOK, UpOK, IdentifyFirst
<1>2. TopicsOK'
  BY <1>1 DEF SyncOK, TopicsOK
<1>3. Told' /\ Untold'
  BY DEF SyncOK, Told, Untold
<1> QED BY <1>2, <1>3 DEF SyncOK, RegistryTypeOK

(* The session takes a frame.                                              *)
LEMMA SyncTaken ==
    ASSUME SyncOK, UNCHANGED <<subs, indexMap, handleIndex>>, up # << >>, up' = Tail(up)
    PROVE  /\ TopicsOK' /\ Head(up) \in UpFrames
           /\ Head(up).frameType = "Identify" => session = "None"
           /\ Head(up).frameType # "ClientReset" =>
                 \E s \in Subscriptions : /\ Mirrors(registry, clientValues, s)
                                          /\ Belongs(Head(up), s) /\ Continues(up', 0, s)
           /\ Head(up).frameType = "ClientReset" =>
                 \E s \in Subscriptions : Continues(up', 0, s)
<1>0. UpOK(up, session) /\ up \in Seq(UpFrames) /\ Syncs(up)
  BY DEF SyncOK, TopicsOK, UpOK
<1>1. /\ Head(up) \in UpFrames /\ UpOK(up', session')
      /\ Head(up).frameType = "Identify" => session = "None"
  BY <1>0, UpTail
<1>2. TopicsOK'
  BY <1>1 DEF SyncOK, TopicsOK
<1>3. PICK s \in Subscriptions : Mirrors(registry, clientValues, s) /\ Continues(up, 0, s)
  BY DEF SyncOK, Told
<1>4. Head(up).frameType # "ClientReset" => Belongs(Head(up), s) /\ Continues(up', 0, s)
  BY <1>0, <1>3, SyncsTail
<1>5. Head(up).frameType = "ClientReset" => \E z \in Subscriptions : Continues(up', 0, z)
  BY <1>0, SyncsTail
<1> QED BY <1>1, <1>2, <1>3, <1>4, <1>5

(* Steps of the server.                                                    *)
ServerMoves == SessionDisconnect \/ SessionStep \/ AppStep

(* The fields of a frame that registers a key or has a value.              *)
LEMMA UpFrameFields ==
    ASSUME NEW f \in UpFrames
    PROVE  /\ f.frameType = "ClientKeyRegistration" =>
                 f.keyId \in PeerIds /\ f.dataType \in PeerTypes /\ f.payload \in PeerPaths
           /\ f.frameType = "ClientValue" => f.keyId \in PeerIds /\ f.payload \in Topics \cup Params
<1>1. CASE f \in {Identify, AuthFrame, ClientReady, ClientReset, ClientSync}
  BY <1>1, UpFields
<1>2. CASE \E id \in KeyIds : f = ClientKeyRequest(id)
  BY <1>2, UpFields
<1>3. CASE \E id \in PeerIds, dt \in PeerTypes, p \in PeerPaths : f = ClientKeyRegistration(id, dt, p)
  BY <1>3, UpFields
<1>4. CASE \E id \in PeerIds, dt \in PeerTypes, v \in Topics \cup Params : f = ClientValue(id, dt, v)
  BY <1>4, UpFields
<1> QED BY <1>1, <1>2, <1>3, <1>4 DEF UpFrames

(* The registration of a key of a topic sync.                              *)
LEMMA RegistrationMirrors ==
    ASSUME NEW s \in Subscriptions, Mirrors(registry, clientValues, s),
           NEW f, f.frameType = "ClientKeyRegistration", Belongs(f, s), NEW dt
    PROVE  /\ Disciplined(f.keyId, f.payload)
           /\ Mirrors(RegisterOne(registry, f.keyId, f.payload, dt), clientValues, s)
<1> DEFINE e == TopicEntries(s)
           id == f.keyId
           p == f.payload
           new == RegisterOne(registry, id, p, dt)
<1>0. \A i, j \in DOMAIN e : e[i].path = e[j].path => i = j
  BY EntriesType
<1>1. id \in DOMAIN e /\ p = e[id].path
  BY DEF Belongs
<1>2. /\ \A i \in DOMAIN registry.byId : i \in DOMAIN e /\ registry.byId[i].path = e[i].path
      /\ \A x \in DOMAIN registry.pathToId :
            registry.pathToId[x] \in DOMAIN e /\ x = e[registry.pathToId[x]].path
      /\ \A i \in DOMAIN clientValues : i \in DOMAIN e /\ clientValues[i] = e[i].value
  BY DEF Mirrors
<1>3. /\ new.byId = Put(registry.byId, id, [path |-> p, type |-> dt])
      /\ new.pathToId = Put(registry.pathToId, p, id)
  BY DEF RegisterOne
<1> HIDE DEF e, id, p, new
<1>4. /\ DOMAIN new.byId = DOMAIN registry.byId \cup {id} /\ new.byId[id].path = p
      /\ \A i \in DOMAIN registry.byId : i # id => new.byId[i] = registry.byId[i]
      /\ DOMAIN new.pathToId = DOMAIN registry.pathToId \cup {p} /\ new.pathToId[p] = id
      /\ \A x \in DOMAIN registry.pathToId : x # p => new.pathToId[x] = registry.pathToId[x]
  BY <1>3 DEF Put
<1>5. Disciplined(id, p)
  BY <1>0, <1>1, <1>2 DEF Disciplined, HasKeyId, HasPath
<1>6. \A i \in DOMAIN new.byId : i \in DOMAIN e /\ new.byId[i].path = e[i].path
  BY <1>1, <1>2, <1>4
<1>7. \A x \in DOMAIN new.pathToId : new.pathToId[x] \in DOMAIN e /\ x = e[new.pathToId[x]].path
  BY <1>1, <1>2, <1>4
<1>8. Mirrors(new, clientValues, s)
  BY <1>2, <1>6, <1>7 DEF Mirrors, e
<1> QED BY <1>5, <1>8 DEF id, p, new

(* Every step of the server keeps what it was told to one topic sync, and  *)
(* does to the registry what a disciplined peer would have it do.          *)
LEMMA ServerTopicsStep ==
    ASSUME SyncOK, ServerMoves
    PROVE  SyncOK' /\ [DisciplinedNext]_registry
<1> USE DEF serverVars, topicsVars
<1>0. TopicsOK /\ RegistryTypeOK /\ Untold
  BY DEF SyncOK
<1>1. ASSUME UNCHANGED <<subs, indexMap, handleIndex, up, registry, clientValues>>,
             session' = session \/ session \notin {"None", "Active"}
      PROVE  SyncOK' /\ [DisciplinedNext]_registry
  BY <1>1, SyncKept
<1>2. CASE SessionDisconnect
  <2>1. /\ registry' = EmptyRegistry /\ clientValues' = EmptyMap /\ up' = << >>
        /\ session' = "None" /\ UNCHANGED <<subs, indexMap, handleIndex>>
    BY <1>2 DEF SessionDisconnect, ClearRegistry
  <2>2. Syncs(<< >>) /\ Loose(<< >>) /\ << >> \in Seq(UpFrames)
    BY LooseFrames
  <2>3. UpOK(up', session')
    BY <2>1, <2>2 DEF UpOK, IdentifyFirst
  <2>4. Told'
    BY <2>1, <2>2, NothingTold DEF Told, Loose
  <2>5. TopicsOK' /\ Untold' /\ RegistryTypeOK'
    BY <1>0, <2>1, <2>3, NothingTold DEF TopicsOK, Untold, RegistryTypeOK
  <2>6. DisciplinedNext
    BY <2>1 DEF DisciplinedNext, ClearRegistry
  <2> QED BY <2>4, <2>5, <2>6 DEF SyncOK
<1>3. ASSUME NEW type, Accepts(type), type # "ClientReset", UNCHANGED <<registry, clientValues>>,
             Untold'
      PROVE  SyncOK' /\ [DisciplinedNext]_registry
  <2>1. /\ UNCHANGED <<subs, indexMap, handleIndex>> /\ up # << >> /\ up' = Tail(up)
        /\ Head(up).frameType = type
    BY <1>3 DEF Accepts
  <2>2. TopicsOK' /\ \E s \in Subscriptions : Mirrors(registry, clientValues, s) /\ Continues(up', 0, s)
    BY <1>3, <2>1, SyncTaken
  <2>3. Told'
    BY <1>3, <2>2 DEF Told
  <2> QED BY <1>0, <1>3, <2>2, <2>3 DEF SyncOK, RegistryTypeOK
<1>4. CASE HandleIdentify
  <2>1. Accepts("Identify") /\ UNCHANGED <<registry, clientValues>> /\ session' # "Active"
    BY <1>4 DEF HandleIdentify, Activate
  <2>2. session = "None"
    <3>1. /\ UNCHANGED <<subs, indexMap, handleIndex>> /\ up # << >> /\ up' = Tail(up)
          /\ Head(up).frameType = "Identify"
      BY <2>1 DEF Accepts
    <3> QED BY <3>1, SyncTaken
  <2> QED BY <1>0, <1>3, <2>1, <2>2 DEF Untold
<1>5. CASE FinishActivation
  <2>1. session = "Bound" /\ UNCHANGED <<subs, indexMap, handleIndex, up, registry, clientValues>>
    BY <1>5 DEF FinishActivation
  <2> QED BY <1>1, <2>1
<1>6. CASE HandleAuth
  <2>1. Accepts("Auth") /\ UNCHANGED <<registry, clientValues>>
        /\ (session' = session \/ session # "Active")
    BY <1>6 DEF HandleAuth
  <2> QED BY <1>0, <1>3, <2>1 DEF Untold
<1>7. CASE DropTopicFrame
  <2>1. PICK type \in TopicFrames : Accepts(type)
    BY <1>7 DEF DropTopicFrame
  <2>2. session # "Active" /\ UNCHANGED <<registry, clientValues, session>>
    BY <1>7 DEF DropTopicFrame
  <2>3. Untold' /\ registry = EmptyRegistry /\ clientValues = EmptyMap
    BY <1>0, <2>2 DEF Untold
  <2>4. CASE type # "ClientReset"
    BY <1>3, <2>1, <2>2, <2>3, <2>4
  <2>5. CASE type = "ClientReset"
    <3>1. /\ UNCHANGED <<subs, indexMap, handleIndex>> /\ up # << >> /\ up' = Tail(up)
          /\ Head(up).frameType = "ClientReset"
      BY <2>1, <2>5 DEF Accepts
    <3>2. TopicsOK' /\ \E s \in Subscriptions : Continues(up', 0, s)
      BY <3>1, SyncTaken
    <3>3. Told'
      BY <2>2, <2>3, <3>2, NothingTold DEF Told
    <3> QED BY <1>0, <2>2, <2>3, <3>2, <3>3 DEF SyncOK, RegistryTypeOK
  <2> QED BY <2>4, <2>5
<1>8. CASE HandleReset
  <2>1. Accepts("ClientReset") /\ session' = session /\ session = "Active"
        /\ registry' = EmptyRegistry /\ clientValues' = EmptyMap
    BY <1>8 DEF HandleReset, ClearRegistry
  <2>2. /\ UNCHANGED <<subs, indexMap, handleIndex>> /\ up # << >> /\ up' = Tail(up)
        /\ Head(up).frameType = "ClientReset"
    BY <2>1 DEF Accepts
  <2>3. TopicsOK' /\ \E s \in Subscriptions : Continues(up', 0, s)
    BY <2>2, SyncTaken
  <2>4. Told' /\ Untold' /\ RegistryTypeOK'
    BY <2>1, <2>3, NothingTold DEF Told, Untold, RegistryTypeOK
  <2>5. DisciplinedNext
    BY <2>1 DEF DisciplinedNext, ClearRegistry
  <2> QED BY <2>3, <2>4, <2>5 DEF SyncOK
<1>9. CASE HandleKeyRegistration
  <2> DEFINE f == Head(up)
  <2>1. /\ Accepts("ClientKeyRegistration") /\ session = "Active"
        /\ UNCHANGED <<clientValues, session>>
        /\ \/ Register(f.keyId, f.payload, f.dataType)
           \/ UNCHANGED registry
    BY <1>9 DEF HandleKeyRegistration
  <2>2. CASE UNCHANGED registry
    BY <1>3, <2>1, <2>2 DEF Untold
  <2>3. CASE Register(f.keyId, f.payload, f.dataType)
    <3>1. /\ UNCHANGED <<subs, indexMap, handleIndex>> /\ up # << >> /\ up' = Tail(up)
          /\ f.frameType = "ClientKeyRegistration"
      BY <2>1 DEF Accepts
    <3>2. PICK s \in Subscriptions : /\ Mirrors(registry, clientValues, s)
                                     /\ Belongs(f, s) /\ Continues(up', 0, s)
      BY <3>1, SyncTaken
    <3>3. TopicsOK' /\ f \in UpFrames
      BY <3>1, SyncTaken
    <3> HIDE DEF f
    <3>4. /\ f.keyId \in PeerIds /\ f.dataType \in PeerTypes /\ f.payload \in PeerPaths
      BY <3>1, <3>3, UpFrameFields
    <3>5. /\ Disciplined(f.keyId, f.payload)
          /\ Mirrors(RegisterOne(registry, f.keyId, f.payload, f.dataType), clientValues, s)
      BY <3>1, <3>2, RegistrationMirrors
    <3>6. /\ registry' = RegisterOne(registry, f.keyId, f.payload, f.dataType)
          /\ f.payload \in ValidPaths
      BY <2>3 DEF Register, RegisterThrows
    <3>7. Told' /\ Untold'
      BY <2>1, <3>2, <3>5, <3>6 DEF Told, Untold
    <3>8. RegistryTypeOK'
      <4>1. /\ registry.byId \in Maps(PeerIds, [path : PeerPaths \cap ValidPaths, type : PeerTypes])
            /\ registry.pathToId \in Maps(PeerPaths \cap ValidPaths, PeerIds)
        BY <1>0 DEF RegistryTypeOK, PeerRegistries, Registries
      <4>2. Put(registry.byId, f.keyId, [path |-> f.payload, type |-> f.dataType])
              \in Maps(PeerIds, [path : PeerPaths \cap ValidPaths, type : PeerTypes])
        BY <3>4, <3>6, <4>1, PutType
      <4>3. Put(registry.pathToId, f.payload, f.keyId) \in Maps(PeerPaths \cap ValidPaths, PeerIds)
        BY <3>4, <3>6, <4>1, PutType
      <4> QED BY <3>6, <4>2, <4>3 DEF RegistryTypeOK, PeerRegistries, Registries, RegisterOne
    <3>9. DisciplinedNext
      BY <2>3, <3>4, <3>5 DEF DisciplinedNext
    <3> QED BY <3>3, <3>7, <3>8, <3>9 DEF SyncOK
  <2> QED BY <2>1, <2>2, <2>3
<1>10. CASE HandleValue
  <2> DEFINE f == Head(up)
  <2>1. /\ Accepts("ClientValue") /\ session = "Active"
        /\ UNCHANGED <<registry, session>> /\ clientValues' = Put(clientValues, f.keyId, f.payload)
    BY <1>10 DEF HandleValue
  <2>2. /\ UNCHANGED <<subs, indexMap, handleIndex>> /\ up # << >> /\ up' = Tail(up)
        /\ f.frameType = "ClientValue"
    BY <2>1 DEF Accepts
  <2>3. PICK s \in Subscriptions : /\ Mirrors(registry, clientValues, s)
                                   /\ Belongs(f, s) /\ Continues(up', 0, s)
    BY <2>2, SyncTaken
  <2>4. TopicsOK'
    BY <2>2, SyncTaken
  <2> HIDE DEF f
  <2>5. \A id \in DOMAIN clientValues' :
           id \in DOMAIN TopicEntries(s) /\ clientValues'[id] = TopicEntries(s)[id].value
    <3>1. \A id \in DOMAIN clientValues :
             id \in DOMAIN TopicEntries(s) /\ clientValues[id] = TopicEntries(s)[id].value
      BY <2>3 DEF Mirrors
    <3>2. f.keyId \in DOMAIN TopicEntries(s) /\ f.payload = TopicEntries(s)[f.keyId].value
      BY <2>2, <2>3 DEF Belongs
    <3> QED BY <2>1, <3>1, <3>2 DEF Put
  <2>6. Mirrors(registry', clientValues', s)
    BY <2>1, <2>3, <2>5 DEF Mirrors
  <2>7. Told' /\ Untold' /\ RegistryTypeOK'
    BY <1>0, <2>1, <2>3, <2>6 DEF Told, Untold, RegistryTypeOK
  <2> QED BY <2>1, <2>4, <2>7 DEF SyncOK
<1>11. CASE HandleTopicSync
  <2>1. Accepts("ClientSync") /\ UNCHANGED <<registry, clientValues, session>>
    BY <1>11 DEF HandleTopicSync
  <2> QED BY <1>0, <1>3, <2>1 DEF Untold
<1>12. CASE HandleClientReady
  <2>1. Accepts("ClientReady") /\ UNCHANGED <<registry, clientValues, session>>
    BY <1>12 DEF HandleClientReady
  <2> QED BY <1>0, <1>3, <2>1 DEF Untold
<1>13. CASE HandleKeyRequest
  <2>1. Accepts("ClientKeyRequest") /\ UNCHANGED <<registry, clientValues, session>>
    BY <1>13 DEF HandleKeyRequest
  <2> QED BY <1>0, <1>3, <2>1 DEF Untold
<1>14. CASE AppAuthorize
  <2>1. session = "Asked" /\ UNCHANGED <<subs, indexMap, handleIndex, up, registry, clientValues>>
    BY <1>14 DEF AppAuthorize
  <2> QED BY <1>1, <2>1
<1>15. CASE AppCall
  BY <1>1, <1>15 DEF AppCall
<1>16. CASE \E t \in Topics : TaskEnds(t)
  BY <1>1, <1>16 DEF TaskEnds
<1>17. AppStep => AppAuthorize \/ AppCall \/ \E t \in Topics : TaskEnds(t)
  BY DEF AppStep, SessionSet, SessionClearKey, SessionClear, PayloadSet, PayloadClearKey,
         PayloadClear, AppSetTask, AppClearTask, TaskCallsOff
<1> QED BY <1>2, <1>4, <1>5, <1>6, <1>7, <1>8, <1>9, <1>10, <1>11, <1>12, <1>13, <1>14, <1>15,
           <1>16, <1>17 DEF ServerMoves, SessionStep

-----------------------------------------------------------------------------
(* The stores of the session and of its topics.                            *)

Entries == [keyId : KeyIds, type : DataTypes, value : Values]

(* What a store holds.                                                     *)
LEMMA StoreFields ==
    ASSUME NEW fs \in Stores
    PROVE  /\ fs.entries \in Maps(Keys, Entries) /\ fs.byKeyId \in Maps(KeyIds, Keys)
           /\ \A k \in DOMAIN fs.entries :
                 /\ k \in Keys /\ fs.entries[k].keyId \in KeyIds
                 /\ fs.entries[k].type \in DataTypes /\ fs.entries[k].value \in Values
<1>1. fs.entries \in Maps(Keys, Entries) /\ fs.byKeyId \in Maps(KeyIds, Keys)
  BY DEF Stores, FlatStates, EntriesOf, Entries
<1>2. \A k \in DOMAIN fs.entries : k \in Keys /\ fs.entries[k] \in Entries
  BY <1>1, MapApply
<1> QED BY <1>1, <1>2 DEF Entries

(* A store of its two maps.                                                *)
LEMMA MakeStore ==
    ASSUME NEW e \in Maps(Keys, Entries), NEW b \in Maps(KeyIds, Keys)
    PROVE  [entries |-> e, byKeyId |-> b] \in Stores
BY DEF Stores, FlatStates, EntriesOf, Entries

(* An empty store.                                                         *)
LEMMA EmptyStore ==
    /\ EmptyFlat \in Stores /\ Indexed(EmptyFlat)
    /\ \A prefix : StoreNames(EmptyFlat, prefix) = {}
<1>1. DOMAIN EmptyFlat.byKeyId = {} /\ DOMAIN EmptyFlat.entries = {}
  BY DEF EmptyFlat, EmptyMap
<1>2. EmptyFlat \in Stores
  BY EmptyType, MakeStore DEF EmptyFlat
<1> QED BY <1>1, <1>2 DEF Indexed, StoreNames

(* setLeaf on a key that keeps its id.                                     *)
LEMMA LeafKept ==
    ASSUME NEW fs \in Stores, Indexed(fs), NEW k \in Keys, NEW v \in Values, NEW id,
           ~NeedsNewId(fs, k, v)
    PROVE  LET new == SetLeaf(fs, k, v, id) IN
           /\ new \in Stores /\ Indexed(new)
           /\ \A prefix : StoreNames(new, prefix) = StoreNames(fs, prefix)
<1> DEFINE new == SetLeaf(fs, k, v, id)
           f == [fs.entries EXCEPT ![k].value = v]
<1>0. fs.entries \in Maps(Keys, Entries) /\ fs.byKeyId \in Maps(KeyIds, Keys)
  BY StoreFields
<1>1. k \in DOMAIN fs.entries
  BY DEF NeedsNewId, HasKey
<1>2. PICK D \in SUBSET Keys : fs.entries \in [D -> Entries]
  BY <1>0 DEF Maps
<1>3. f \in [D -> Entries]
  BY <1>1, <1>2 DEF Entries
<1>4. f \in Maps(Keys, Entries)
  BY <1>3 DEF Maps
<1>5. new = [entries |-> f, byKeyId |-> fs.byKeyId]
  BY DEF SetLeaf, Stores, FlatStates
<1>6. DOMAIN f = DOMAIN fs.entries /\ \A x \in DOMAIN f : f[x].keyId = fs.entries[x].keyId
  BY <1>1, <1>2 DEF Entries
<1> HIDE DEF f, new
<1>7. new \in Stores
  BY <1>0, <1>4, <1>5, MakeStore
<1>8. new.entries = f /\ new.byKeyId = fs.byKeyId
  BY <1>5
<1>9. Indexed(new)
  BY <1>6, <1>8 DEF Indexed
<1>10. \A prefix : StoreNames(new, prefix) = StoreNames(fs, prefix)
  BY <1>6, <1>8 DEF StoreNames
<1> QED BY <1>7, <1>9, <1>10 DEF new

(* setLeaf on a key that is given an id.                                   *)
LEMMA LeafGiven ==
    ASSUME NEW fs \in Stores, Indexed(fs), NEW k \in Keys, NEW v \in Values, NEW id \in KeyIds,
           NeedsNewId(fs, k, v)
    PROVE  LET new == SetLeaf(fs, k, v, id) IN
           /\ new \in Stores /\ Indexed(new)
           /\ \A prefix : StoreNames(new, prefix)
                            \subseteq StoreNames(fs, prefix) \cup {<<id, WirePath(prefix, k)>>}
<1> DEFINE new == SetLeaf(fs, k, v, id)
           e == [keyId |-> id, type |-> DetectDataType[v], value |-> v]
           w == IF HasKey(fs, k) THEN Erase(fs.byKeyId, fs.entries[k].keyId) ELSE fs.byKeyId
<1>0. fs.entries \in Maps(Keys, Entries) /\ fs.byKeyId \in Maps(KeyIds, Keys)
  BY StoreFields
<1>1. new = [entries |-> Put(fs.entries, k, e), byKeyId |-> Put(w, id, k)]
  BY DEF SetLeaf
<1>2. e \in Entries /\ e.keyId = id
  BY FlatStateAssumption DEF Entries
<1>3. w \in Maps(KeyIds, Keys)
  BY <1>0, EraseType
<1>4. ASSUME NEW x \in DOMAIN w
      PROVE  x \in DOMAIN fs.byKeyId /\ w[x] = fs.byKeyId[x] /\ fs.byKeyId[x] # k
  BY DEF Erase, HasKey, Indexed
<1> HIDE DEF e, w, new
<1>5. new \in Stores
  BY <1>0, <1>1, <1>2, <1>3, PutType, MakeStore
<1>6. /\ DOMAIN new.entries = DOMAIN fs.entries \cup {k} /\ new.entries[k] = e
      /\ \A x \in DOMAIN fs.entries : x # k => new.entries[x] = fs.entries[x]
      /\ DOMAIN new.byKeyId = DOMAIN w \cup {id} /\ new.byKeyId[id] = k
      /\ \A x \in DOMAIN w : x # id => new.byKeyId[x] = w[x]
  BY <1>1 DEF Put
<1>7. Indexed(new)
  BY <1>2, <1>4, <1>6 DEF Indexed
<1>8. ASSUME NEW prefix
      PROVE  StoreNames(new, prefix)
                \subseteq StoreNames(fs, prefix) \cup {<<id, WirePath(prefix, k)>>}
  BY <1>2, <1>6 DEF StoreNames
<1> QED BY <1>5, <1>7, <1>8 DEF new

(* clear of a key                                                          *)
LEMMA KeyCleared ==
    ASSUME NEW fs \in Stores, Indexed(fs), NEW k, HasKey(fs, k)
    PROVE  LET new == ClearKey(fs, k) IN
           /\ new \in Stores /\ Indexed(new)
           /\ \A prefix : StoreNames(new, prefix) \subseteq StoreNames(fs, prefix)
<1> DEFINE new == ClearKey(fs, k)
<1>0. fs.entries \in Maps(Keys, Entries) /\ fs.byKeyId \in Maps(KeyIds, Keys)
  BY StoreFields
<1>1. new = [entries |-> Erase(fs.entries, k),
             byKeyId |-> Erase(fs.byKeyId, fs.entries[k].keyId)]
  BY DEF ClearKey
<1> HIDE DEF new
<1>2. new \in Stores
  BY <1>0, <1>1, EraseType, MakeStore
<1>3. /\ DOMAIN new.entries = DOMAIN fs.entries \ {k}
      /\ \A x \in DOMAIN new.entries : new.entries[x] = fs.entries[x]
      /\ \A x \in DOMAIN new.byKeyId : /\ x \in DOMAIN fs.byKeyId /\ x # fs.entries[k].keyId
                                        /\ new.byKeyId[x] = fs.byKeyId[x]
  BY <1>1 DEF Erase
<1>4. Indexed(new)
  BY <1>3 DEF Indexed, HasKey
<1>5. \A prefix : StoreNames(new, prefix) \subseteq StoreNames(fs, prefix)
  BY <1>3 DEF StoreNames
<1> QED BY <1>2, <1>4, <1>5 DEF new

-----------------------------------------------------------------------------
(* The frames of the session.                                              *)

(* Frames that introduce no id under another name than it has in N.        *)
FramesOf(N) ==
    {f \in DownFrames : f.frameType = "ServerKeyRegistration" => <<f.keyId, f.payload>> \in N}

(* The frames that a session sends.                                        *)
LEMMA DownFields ==
    /\ \A N : {AuthOk, ServerSync, ServerReset} \subseteq FramesOf(N)
    /\ \A N : \A id \in KeyIds : ServerKeyDelete(id) \in FramesOf(N)
    /\ \A N : \A id \in KeyIds, dt \in DataTypes, v \in Values :
          ServerValue(id, dt, v) \in FramesOf(N)
    /\ \A N : \A id \in KeyIds, dt \in DataTypes, p \in WirePaths :
          <<id, p>> \in N => ServerKeyRegistration(id, dt, p) \in FramesOf(N)
<1>1. /\ AuthOk.frameType = "AuthOk" /\ ServerSync.frameType = "ServerSync"
      /\ ServerReset.frameType = "ServerReset"
      /\ \A id : ServerKeyDelete(id).frameType = "ServerKeyDelete"
      /\ \A id, dt, v : ServerValue(id, dt, v).frameType = "ServerValue"
      /\ \A id, dt, p : LET f == ServerKeyRegistration(id, dt, p) IN f.keyId = id /\ f.payload = p
  BY DEF AuthOk, ServerSync, ServerReset, ServerKeyDelete, ServerValue, ServerKeyRegistration,
         Signal, KeySignal, Frame
<1>2. /\ {AuthOk, ServerSync, ServerReset} \subseteq DownFrames
      /\ \A id \in KeyIds : ServerKeyDelete(id) \in DownFrames
      /\ \A id \in KeyIds, dt \in DataTypes, v \in Values : ServerValue(id, dt, v) \in DownFrames
      /\ \A id \in KeyIds, dt \in DataTypes, p \in WirePaths :
            ServerKeyRegistration(id, dt, p) \in DownFrames
  BY DEF DownFrames
<1> QED BY <1>1, <1>2 DEF FramesOf

(* Frames of fewer names, and the names of a sequence of frames.           *)
LEMMA FramesOfSeq ==
    ASSUME NEW N, NEW q \in Seq(FramesOf(N))
    PROVE  /\ q \in Seq(DownFrames) /\ FrameNames(q) \subseteq N
           /\ \A M : N \subseteq M => q \in Seq(FramesOf(M))
<1>1. FramesOf(N) \subseteq DownFrames
  BY DEF FramesOf
<1>2. \A M : N \subseteq M => FramesOf(N) \subseteq FramesOf(M)
  BY DEF FramesOf
<1>3. q \in Seq(DownFrames) /\ \A M : N \subseteq M => q \in Seq(FramesOf(M))
  BY <1>1, <1>2, SeqSubset
<1>4. \A i \in DOMAIN q : q[i] \in FramesOf(N)
  BY LenProperties, ElementOfSeq
<1>5. FrameNames(q) \subseteq N
  BY <1>4 DEF FrameNames, FramesOf
<1> QED BY <1>3, <1>5

(* Sending frames, and handling one.                                       *)
LEMMA NamesSent ==
    ASSUME NEW d \in Seq(DownFrames), NEW q \in Seq(DownFrames)
    PROVE  /\ d \o q \in Seq(DownFrames)
           /\ FrameNames(d \o q) \subseteq FrameNames(d) \cup FrameNames(q)
<1> DEFINE w == d \o q
<1>1. /\ Len(d) \in Nat /\ Len(q) \in Nat /\ DOMAIN d = 1 .. Len(d) /\ DOMAIN q = 1 .. Len(q)
      /\ w \in Seq(DownFrames) /\ DOMAIN w = 1 .. Len(d) + Len(q)
      /\ \A i \in 1 .. Len(d) + Len(q) : w[i] = IF i <= Len(d) THEN d[i] ELSE q[i - Len(d)]
  BY ConcatProperties, LenProperties
<1> HIDE DEF w
<1>2. ASSUME NEW i \in DOMAIN w
      PROVE  (\E j \in DOMAIN d : w[i] = d[j]) \/ (\E j \in DOMAIN q : w[i] = q[j])
  <2>1. CASE i <= Len(d)
    BY <1>1, <2>1
  <2>2. CASE ~(i <= Len(d))
    <3>1. i - Len(d) \in 1 .. Len(q) /\ w[i] = q[i - Len(d)]
      BY <1>1, <2>2
    <3> QED BY <1>1, <3>1
  <2> QED BY <2>1, <2>2
<1>3. FrameNames(w) \subseteq FrameNames(d) \cup FrameNames(q)
  BY <1>2 DEF FrameNames
<1> QED BY <1>1, <1>3 DEF w

(* The client takes a frame.                                               *)
LEMMA NamesHandled ==
    ASSUME NEW d \in Seq(DownFrames), d # << >>
    PROVE  /\ Head(d) \in DownFrames /\ Tail(d) \in Seq(DownFrames)
           /\ FrameNames(Tail(d)) \subseteq FrameNames(d)
           /\ Head(d).frameType = "ServerKeyRegistration" =>
                 <<Head(d).keyId, Head(d).payload>> \in FrameNames(d)
<1> DEFINE w == Tail(d)
<1>1. /\ Len(d) \in Nat \ {0} /\ DOMAIN d = 1 .. Len(d) /\ Head(d) = d[1] /\ Head(d) \in DownFrames
      /\ w \in Seq(DownFrames) /\ DOMAIN w = 1 .. Len(d) - 1
      /\ \A i \in 1 .. Len(d) - 1 : w[i] = d[i + 1]
  BY HeadTailProperties, EmptySeq, LenProperties
<1> HIDE DEF w
<1>2. \A i \in DOMAIN w : i + 1 \in DOMAIN d /\ w[i] = d[i + 1]
  BY <1>1
<1>3. FrameNames(w) \subseteq FrameNames(d)
  BY <1>2 DEF FrameNames
<1>4. 1 \in DOMAIN d
  BY <1>1
<1>5. Head(d).frameType = "ServerKeyRegistration" =>
        <<Head(d).keyId, Head(d).payload>> \in FrameNames(d)
  BY <1>1, <1>4 DEF FrameNames
<1> QED BY <1>1, <1>3, <1>5 DEF w

(* A key with the prefix of a topic, or of the session, is a path.         *)
LEMMA PathsOfKeys ==
    /\ \A k \in Keys : WirePath("", k) \in WirePaths
    /\ \A n \in Indices : \A k \in Keys : WirePath(TopicPrefix(n), k) \in WirePaths
<1>1. \A k \in Keys : WirePath("", k) \in WirePaths
  <2>1. \A k \in Keys : WirePath("", k) = k
    BY DEF WirePath
  <2>2. Keys \subseteq WirePaths
    BY DEF WirePaths
  <2> QED BY <2>1, <2>2
<1>2. \A n \in Indices : \A k \in Keys : WirePath(TopicPrefix(n), k) \in WirePaths
  BY DEF WirePaths
<1> QED BY <1>1, <1>2

(* A prefix under which keys are paths.                                    *)
PrefixOK(prefix) == \A k \in Keys : WirePath(prefix, k) \in WirePaths

(* The frames of setLeaf.                                                  *)
LEMMA SetFramesNames ==
    ASSUME NEW fs \in Stores, NEW prefix, PrefixOK(prefix), NEW k \in Keys, NEW v \in Values,
           NEW id, NeedsNewId(fs, k, v) => id \in KeyIds
    PROVE  LET q == SetFrames(fs, prefix, k, v, id) IN
           /\ q \in Seq(FramesOf({<<id, WirePath(prefix, k)>>}))
           /\ ~NeedsNewId(fs, k, v) => q \in Seq(FramesOf({}))
<1> DEFINE dt == DetectDataType[v]
           p == WirePath(prefix, k)
           N == {<<id, p>>}
<1>0. dt \in DataTypes /\ p \in WirePaths
      /\ (HasKey(fs, k) => fs.entries[k].keyId \in KeyIds)
  BY FlatStateAssumption, StoreFields DEF PrefixOK, HasKey
<1>1. CASE NeedsNewId(fs, k, v)
  <2> DEFINE a == IF HasKey(fs, k) THEN << ServerKeyDelete(fs.entries[k].keyId) >> ELSE << >>
             b == << ServerKeyRegistration(id, dt, p), ServerSync, ServerValue(id, dt, v) >>
  <2>1. SetFrames(fs, prefix, k, v, id) = a \o b
    BY <1>1 DEF SetFrames
  <2>2. ServerKeyRegistration(id, dt, p) \in FramesOf(N) /\ ServerSync \in FramesOf(N)
        /\ ServerValue(id, dt, v) \in FramesOf(N)
        /\ (HasKey(fs, k) => ServerKeyDelete(fs.entries[k].keyId) \in FramesOf(N))
    <3> HIDE DEF dt, p
    <3> QED BY <1>0, <1>1, DownFields
  <2> HIDE DEF N, dt, p
  <2>3. a \in Seq(FramesOf(N)) /\ b \in Seq(FramesOf(N))
    BY <2>2
  <2> HIDE DEF a, b
  <2>4. a \o b \in Seq(FramesOf(N))
    BY <2>3, ConcatProperties
  <2> QED BY <1>1, <2>1, <2>4 DEF N, p
<1>2. CASE ~NeedsNewId(fs, k, v)
  <2>1. HasKey(fs, k) /\ SetFrames(fs, prefix, k, v, id) = << ServerValue(fs.entries[k].keyId, dt, v) >>
    BY <1>2 DEF SetFrames, NeedsNewId
  <2>2. \A M : ServerValue(fs.entries[k].keyId, dt, v) \in FramesOf(M)
    <3> HIDE DEF dt
    <3> QED BY <1>0, <2>1, DownFields
  <2>3. \A M : << ServerValue(fs.entries[k].keyId, dt, v) >> \in Seq(FramesOf(M))
    BY <2>2
  <2> QED BY <2>1, <2>3
<1> QED BY <1>1, <1>2

(* buildKeyFrames and buildValueFrames, in the order of a walk.            *)
LEMMA BuiltFramesNames ==
    ASSUME NEW fs \in Stores, NEW prefix, PrefixOK(prefix), NEW order \in SetToSeqs(Keys)
    PROVE  LET w == Walk(fs, order) IN
           /\ KeyFrames(fs, prefix, w) \in Seq(FramesOf(StoreNames(fs, prefix)))
           /\ ValueFrames(fs, w) \in Seq(FramesOf({}))
<1> DEFINE w == Walk(fs, order)
           n == Len(w)
           N == StoreNames(fs, prefix)
<1>0. order \in Seq(Keys)
  <2>1. Cardinality(Keys) \in Nat
    BY FlatStateAssumption, FS_CardinalityType
  <2>2. order \in [1 .. Cardinality(Keys) -> Keys]
    BY DEF SetToSeqs
  <2> QED BY <2>1, <2>2, SeqDef
<1>1. /\ w \in Seq(Keys) /\ n \in Nat /\ DOMAIN w = 1 .. n
      /\ \A i \in 1 .. n : w[i] \in DOMAIN fs.entries
  BY <1>0, AmongElements, LenProperties DEF Walk
<1> HIDE DEF w, n
<1>2. ASSUME NEW i \in 1 .. n
      PROVE  LET e == fs.entries[w[i]] IN
             /\ ServerKeyRegistration(e.keyId, e.type, WirePath(prefix, w[i])) \in FramesOf(N)
             /\ ServerValue(e.keyId, e.type, e.value) \in FramesOf({})
  <2> DEFINE e == fs.entries[w[i]]
             p == WirePath(prefix, w[i])
  <2>1. /\ e.keyId \in KeyIds /\ e.type \in DataTypes /\ e.value \in Values
        /\ p \in WirePaths
    BY <1>1, StoreFields DEF PrefixOK
  <2>2. <<e.keyId, p>> \in N
    BY <1>1 DEF StoreNames
  <2> HIDE DEF e, p, N
  <2>3. /\ ServerKeyRegistration(e.keyId, e.type, p) \in FramesOf(N)
        /\ ServerValue(e.keyId, e.type, e.value) \in FramesOf({})
    BY <2>1, <2>2, DownFields
  <2> QED BY <2>3 DEF e, p
<1> DEFINE R(i) == ServerKeyRegistration(fs.entries[w[i]].keyId, fs.entries[w[i]].type,
                                         WirePath(prefix, w[i]))
           V(i) == ServerValue(fs.entries[w[i]].keyId, fs.entries[w[i]].type,
                               fs.entries[w[i]].value)
<1>3. KeyFrames(fs, prefix, w) = [i \in 1 .. n |-> R(i)]
      /\ ValueFrames(fs, w) = [i \in 1 .. n |-> V(i)]
  BY <1>1 DEF KeyFrames, ValueFrames
<1>4. \A i \in 1 .. n : R(i) \in FramesOf(N) /\ V(i) \in FramesOf({})
  BY <1>2
<1> HIDE DEF R, V, N
<1>5. [i \in 1 .. n |-> R(i)] \in Seq(FramesOf(N)) /\ [i \in 1 .. n |-> V(i)] \in Seq(FramesOf({}))
  BY <1>1, <1>4
<1> QED BY <1>3, <1>5 DEF w, N

(* Handles as a session has them: of a topic each, at an index, with       *)
(* parameters of that topic and a store.                                   *)
HandlesOK(hs) ==
    /\ DOMAIN hs \subseteq Topics
    /\ \A t \in DOMAIN hs : /\ hs[t] \in HandleSet /\ Indexed(hs[t].flat)
                             /\ hs[t].params \in ParamsOf[t] \cup {NoParams}

(* The resync of a session.                                                *)
LEMMA ResyncNames ==
    ASSUME NEW hs, HandlesOK(hs), NEW fs \in Stores, NEW o \in Orders
    PROVE  ResyncFrames(hs, fs, o) \in Seq(FramesOf(ServerNames(hs, fs)))
<1> DEFINE N == ServerNames(hs, fs)
           F == FramesOf(N)
           q == Names(DOMAIN hs)
           n == Len(q)
           keys(t)   == KeyFrames(hs[t].flat, TopicPrefix(hs[t].index), Walk(hs[t].flat, o[t]))
           values(t) == ValueFrames(hs[t].flat, Walk(hs[t].flat, o[t]))
           K == [i \in 1 .. n |-> keys(q[i])]
           V == [i \in 1 .. n |-> values(q[i])]
           k0 == KeyFrames(fs, "", Walk(fs, o["session"]))
           v0 == ValueFrames(fs, Walk(fs, o["session"]))
<1>0. DOMAIN hs \subseteq Topics /\ \A t \in DOMAIN hs : hs[t].index \in Indices /\ hs[t].flat \in Stores
  BY DEF HandlesOK, HandleSet
<1>1. n \in Nat /\ DOMAIN q = 1 .. n /\ \A i \in 1 .. n : q[i] \in DOMAIN hs
  BY <1>0, NamesElements, LenProperties
<1>2. ResyncFrames(hs, fs, o) =
        (((((<< ServerReset >> \o k0) \o FlattenSeq(K)) \o << ServerSync >>) \o v0) \o FlattenSeq(V))
  BY <1>1 DEF ResyncFrames, Names
<1>3. o["session"] \in SetToSeqs(Keys) /\ \A t \in Topics : o[t] \in SetToSeqs(Keys)
  BY DEF Orders
<1>4. PrefixOK("") /\ \A i \in Indices : PrefixOK(TopicPrefix(i))
  BY PathsOfKeys DEF PrefixOK
<1>5. /\ StoreNames(fs, "") \subseteq N
      /\ \A t \in DOMAIN hs : StoreNames(hs[t].flat, TopicPrefix(hs[t].index)) \subseteq N
  BY DEF ServerNames
<1> HIDE DEF N, q, n
<1>6. k0 \in Seq(F) /\ v0 \in Seq(F)
  <2>1. k0 \in Seq(FramesOf(StoreNames(fs, ""))) /\ v0 \in Seq(FramesOf({}))
    BY <1>3, <1>4, BuiltFramesNames
  <2> HIDE DEF k0, v0
  <2>2. k0 \in Seq(F)
    BY <1>5, <2>1, FramesOfSeq
  <2>3. {} \subseteq N
    OBVIOUS
  <2>4. v0 \in Seq(F)
    <3>1. v0 \in Seq(FramesOf({}))
      BY <2>1
    <3>2. \A M : {} \subseteq M => v0 \in Seq(FramesOf(M))
      BY <3>1, FramesOfSeq
    <3> QED BY <2>3, <3>2
  <2> QED BY <2>2, <2>4
<1>7. ASSUME NEW i \in 1 .. n PROVE keys(q[i]) \in Seq(F) /\ values(q[i]) \in Seq(F)
  <2> DEFINE t == q[i]
  <2>1. t \in DOMAIN hs /\ hs[t].index \in Indices /\ hs[t].flat \in Stores /\ t \in Topics
    BY <1>0, <1>1
  <2> HIDE DEF t
  <2>2. /\ keys(t) \in Seq(FramesOf(StoreNames(hs[t].flat, TopicPrefix(hs[t].index))))
        /\ values(t) \in Seq(FramesOf({}))
    BY <1>3, <1>4, <2>1, BuiltFramesNames
  <2>3. StoreNames(hs[t].flat, TopicPrefix(hs[t].index)) \subseteq N
    BY <1>5, <2>1
  <2> HIDE DEF keys, values
  <2>4. keys(t) \in Seq(F)
    BY <2>2, <2>3, FramesOfSeq
  <2>5. {} \subseteq N
    OBVIOUS
  <2>6. values(t) \in Seq(F)
    BY <2>2, <2>5, FramesOfSeq
  <2> QED BY <2>4, <2>6 DEF t
<1> HIDE DEF F, keys, values, k0, v0
<1>8. K \in Seq(Seq(F)) /\ V \in Seq(Seq(F))
  BY <1>1, <1>7
<1>9. << ServerReset >> \in Seq(F) /\ << ServerSync >> \in Seq(F)
  <2>1. ServerReset \in F /\ ServerSync \in F
    BY DownFields DEF F
  <2> QED BY <2>1
<1> HIDE DEF K, V
<1>10. FlattenSeq(K) \in Seq(F) /\ FlattenSeq(V) \in Seq(F)
  BY <1>8, Flattened
<1> DEFINE a == << ServerReset >> \o k0
           b == a \o FlattenSeq(K)
           c == b \o << ServerSync >>
           d == c \o v0
<1>11. a \in Seq(F)
  BY <1>6, <1>9, ConcatProperties
<1>12. b \in Seq(F)
  <2> HIDE DEF a
  <2> QED BY <1>10, <1>11, ConcatProperties
<1>13. c \in Seq(F)
  <2> HIDE DEF b
  <2> QED BY <1>9, <1>12, ConcatProperties
<1>14. d \in Seq(F)
  <2> HIDE DEF c
  <2> QED BY <1>6, <1>13, ConcatProperties
<1>15. d \o FlattenSeq(V) \in Seq(F)
  <2> HIDE DEF d
  <2> QED BY <1>10, <1>14, ConcatProperties
<1> QED BY <1>2, <1>15 DEF F, N

(* Fewer handles have fewer names.                                         *)
LEMMA FewerNames ==
    ASSUME NEW hs, NEW fs, NEW g, DOMAIN g \subseteq DOMAIN hs,
           \A t \in DOMAIN g : g[t] = hs[t] \/ g[t].flat = EmptyFlat
    PROVE  ServerNames(g, fs) \subseteq ServerNames(hs, fs)
<1>1. ASSUME NEW t \in DOMAIN g
      PROVE  StoreNames(g[t].flat, TopicPrefix(g[t].index)) \subseteq ServerNames(hs, fs)
  <2>1. CASE g[t] = hs[t]
    BY <2>1 DEF ServerNames
  <2>2. CASE g[t].flat = EmptyFlat
    BY <2>2, EmptyStore
  <2> QED BY <2>1, <2>2
<1>2. StoreNames(fs, "") \subseteq ServerNames(hs, fs)
  BY DEF ServerNames
<1> QED BY <1>1, <1>2 DEF ServerNames

(* The resyncs of the topics that are removed.                             *)
LEMMA RemovalNames ==
    ASSUME HandlesOK(handles), flat \in Stores, NEW o \in Orders
    PROVE  RemovalFrames(o) \in Seq(FramesOf(ServerNames(handles, flat)))
<1> DEFINE gone    == Names(DOMAIN handles \ NewTopics)
           n == Len(gone)
           left(i) == [t \in DOMAIN handles \ {gone[j] : j \in 1 .. i} |-> handles[t]]
           F == FramesOf(ServerNames(handles, flat))
           ss == [i \in 1 .. n |-> ResyncFrames(left(i), flat, o)]
<1>0. DOMAIN handles \ NewTopics \subseteq Topics
  BY DEF HandlesOK
<1>1. n \in Nat /\ DOMAIN gone = 1 .. n
  BY <1>0, NamesElements, LenProperties
<1>2. RemovalFrames(o) = FlattenSeq(ss)
  BY <1>1 DEF RemovalFrames, Names
<1> HIDE DEF gone, n
<1>3. ASSUME NEW i \in 1 .. n PROVE ResyncFrames(left(i), flat, o) \in Seq(F)
  <2> DEFINE l == left(i)
  <2>1. DOMAIN l \subseteq DOMAIN handles /\ \A t \in DOMAIN l : l[t] = handles[t]
    OBVIOUS
  <2> HIDE DEF l
  <2>2. HandlesOK(l)
    BY <2>1 DEF HandlesOK
  <2>3. ServerNames(l, flat) \subseteq ServerNames(handles, flat)
    BY <2>1, FewerNames
  <2>4. ResyncFrames(l, flat, o) \in Seq(FramesOf(ServerNames(l, flat)))
    BY <2>2, ResyncNames
  <2>5. ResyncFrames(l, flat, o) \in Seq(F)
    BY <2>3, <2>4, FramesOfSeq
  <2> QED BY <2>5 DEF l
<1> HIDE DEF F, left
<1>4. ss \in Seq(Seq(F))
  BY <1>1, <1>3
<1> HIDE DEF ss
<1>5. FlattenSeq(ss) \in Seq(F)
  BY <1>4, Flattened
<1> QED BY <1>2, <1>5 DEF F

(* The answer to a key request.                                            *)
LEMMA AnswerNames ==
    ASSUME NEW fs \in Stores, Indexed(fs), NEW prefix, PrefixOK(prefix),
           NEW id \in DOMAIN fs.byKeyId
    PROVE  Answer(fs, prefix, id) \in Seq(FramesOf(StoreNames(fs, prefix)))
<1> DEFINE k == fs.byKeyId[id]
           e == fs.entries[k]
           p == WirePath(prefix, k)
           F == FramesOf(StoreNames(fs, prefix))
<1>1. k \in DOMAIN fs.entries /\ e.keyId = id
  BY DEF Indexed
<1>2. /\ id \in KeyIds /\ e.type \in DataTypes /\ e.value \in Values /\ p \in WirePaths
  BY <1>1, StoreFields DEF PrefixOK
<1>3. <<id, p>> \in StoreNames(fs, prefix)
  BY <1>1 DEF StoreNames
<1>4. Answer(fs, prefix, id) =
        << ServerKeyRegistration(id, e.type, p), ServerSync, ServerValue(id, e.type, e.value) >>
  BY DEF Answer
<1> HIDE DEF k, e, p
<1>5. /\ ServerKeyRegistration(id, e.type, p) \in F /\ ServerSync \in F
      /\ ServerValue(id, e.type, e.value) \in F
  BY <1>2, <1>3, DownFields
<1> HIDE DEF F
<1>6. << ServerKeyRegistration(id, e.type, p), ServerSync, ServerValue(id, e.type, e.value) >>
        \in Seq(F)
  BY <1>5
<1> QED BY <1>4, <1>6 DEF F

(* handleKeyRequest sends one answer, or none.                             *)
LEMMA KeyRequestNames ==
    ASSUME HandlesOK(handles), flat \in Stores, Indexed(flat), HandleKeyRequest
    PROVE  \E q \in Seq(FramesOf(ServerNames(handles, flat))) :
              SendDown(q) /\ (handles = EmptyMap /\ flat = EmptyFlat => q = << >>)
<1> DEFINE id == Head(up).keyId
           D == {t \in DOMAIN handles : id \in DOMAIN handles[t].flat.byKeyId}
           names == Names(D)
           n == Len(names)
           A(t) == Answer(handles[t].flat, TopicPrefix(handles[t].index), id)
           a == IF id \in DOMAIN flat.byKeyId THEN << Answer(flat, "", id) >> ELSE << >>
           b == [i \in DOMAIN names |-> A(names[i])]
           F == FramesOf(ServerNames(handles, flat))
<1>0. D \subseteq Topics
  BY DEF HandlesOK
<1>1. /\ n \in Nat /\ DOMAIN names = 1 .. n /\ \A i \in 1 .. n : names[i] \in D
  <2> HIDE DEF D
  <2> QED BY <1>0, NamesElements, LenProperties
<1>2. SendDown(IF a \o b = << >> THEN << >> ELSE (a \o b)[1])
  BY Zenon DEF HandleKeyRequest, Names
<1> HIDE DEF names, n
<1>3. PrefixOK("") /\ \A i \in Indices : PrefixOK(TopicPrefix(i))
  BY PathsOfKeys DEF PrefixOK
<1>4. /\ StoreNames(flat, "") \subseteq ServerNames(handles, flat)
      /\ \A t \in DOMAIN handles :
            StoreNames(handles[t].flat, TopicPrefix(handles[t].index)) \subseteq ServerNames(handles, flat)
  BY DEF ServerNames
<1>5. id \in DOMAIN flat.byKeyId => Answer(flat, "", id) \in Seq(F)
  <2> SUFFICES ASSUME id \in DOMAIN flat.byKeyId PROVE Answer(flat, "", id) \in Seq(F)
    OBVIOUS
  <2>1. Answer(flat, "", id) \in Seq(FramesOf(StoreNames(flat, "")))
    BY <1>3, AnswerNames
  <2> QED BY <1>4, <2>1, FramesOfSeq
<1>6. ASSUME NEW t \in D PROVE A(t) \in Seq(F)
  <2>1. /\ handles[t].flat \in Stores /\ Indexed(handles[t].flat) /\ handles[t].index \in Indices
        /\ id \in DOMAIN handles[t].flat.byKeyId /\ t \in DOMAIN handles
    BY DEF HandlesOK, HandleSet
  <2> HIDE DEF id
  <2>2. A(t) \in Seq(FramesOf(StoreNames(handles[t].flat, TopicPrefix(handles[t].index))))
    BY <1>3, <2>1, AnswerNames
  <2>3. StoreNames(handles[t].flat, TopicPrefix(handles[t].index)) \subseteq ServerNames(handles, flat)
    BY <1>4, <2>1
  <2> HIDE DEF A
  <2> QED BY <2>2, <2>3, FramesOfSeq
<1> HIDE DEF F, A, D, id
<1>7. a \in Seq(Seq(F))
  <2>1. CASE id \in DOMAIN flat.byKeyId
    <3> DEFINE x == Answer(flat, "", id)
    <3>1. x \in Seq(F) /\ a = << x >>
      BY <1>5, <2>1
    <3> HIDE DEF x, a
    <3>2. << x >> \in Seq(Seq(F))
      BY <3>1
    <3> QED BY <3>1, <3>2
  <2>2. CASE id \notin DOMAIN flat.byKeyId
    BY <2>2
  <2> QED BY <2>1, <2>2
<1>8. b \in Seq(Seq(F))
  <2>1. \A i \in 1 .. n : A(names[i]) \in Seq(F)
    BY <1>1, <1>6
  <2> QED BY <1>1, <2>1
<1> HIDE DEF a, b
<1>9. a \o b \in Seq(Seq(F))
  BY <1>7, <1>8, ConcatProperties
<1> DEFINE c == a \o b
           q == IF c = << >> THEN << >> ELSE c[1]
<1>10. q \in Seq(F)
  <2>1. CASE c = << >>
    BY <2>1
  <2>2. CASE c # << >>
    <3> HIDE DEF c
    <3>1. c \in Seq(Seq(F)) /\ 1 \in 1 .. Len(c)
      BY <1>9, <2>2, EmptySeq, LenProperties DEF c
    <3>2. c[1] \in Seq(F)
      BY <3>1, ElementOfSeq
    <3> QED BY <2>2, <3>2
  <2> QED BY <2>1, <2>2
<1>11. SendDown(q)
  BY <1>2
<1>12. ASSUME handles = EmptyMap, flat = EmptyFlat PROVE q = << >>
  <2>1. D = {} /\ id \notin DOMAIN flat.byKeyId
    BY <1>12 DEF D, EmptyFlat, EmptyMap
  <2>2. a = << >>
    BY <2>1 DEF a
  <2>3. n = 0
    <3>1. 1 .. n = {}
      BY <1>1, <2>1
    <3> QED BY <1>1, <3>1
  <2>4. b = << >>
    <3>1. Len(b) = 0
      BY <1>1, <2>3 DEF b
    <3> QED BY <1>8, <3>1, EmptySeq
  <2> QED BY <2>2, <2>4
<1> HIDE DEF q
<1> QED BY <1>10, <1>11, <1>12 DEF F

-----------------------------------------------------------------------------
(* processTopicSync                                                        *)

(* What the session has been told of the topic at an index.                *)
LEMMA SentParams ==
    ASSUME Told, NEW n, Sent(<<"name", n>>)
    PROVE  /\ SentValue(<<"name", n>>) \in Topics
           /\ Sent(<<"param", n>>) =>
                 SentValue(<<"param", n>>) \in ParamsOf[SentValue(<<"name", n>>)]
<1>1. PICK s \in Subscriptions : Mirrors(registry, clientValues, s)
  BY DEF Told
<1> DEFINE e == TopicEntries(s)
<1>2. ASSUME NEW p, Sent(p)
      PROVE  /\ registry.pathToId[p] \in DOMAIN e /\ e[registry.pathToId[p]].path = p
             /\ SentValue(p) = e[registry.pathToId[p]].value
  BY <1>1, <1>2 DEF Sent, SentValue, Resolves, ResolvePath, HasPath, Mirrors
<1> DEFINE i == registry.pathToId[<<"name", n>>]
           j == registry.pathToId[<<"param", n>>]
<1>3. i \in DOMAIN e /\ e[i].path = <<"name", n>> /\ SentValue(<<"name", n>>) = e[i].value
  BY <1>2
<1>4. Sent(<<"param", n>>) =>
        j \in DOMAIN e /\ e[j].path = <<"param", n>> /\ SentValue(<<"param", n>>) = e[j].value
  BY <1>2
<1> HIDE DEF i, j
<1>5. /\ e[i].value \in Topics
      /\ \A x \in DOMAIN e : e[x].path = <<"param", n>> => e[x].value \in ParamsOf[e[i].value]
  BY <1>3, ParamOfName
<1> QED BY <1>3, <1>4, <1>5

(* The topics that the session is to have, and those it is given.          *)
LEMMA TopicsGiven ==
    ASSUME Told, HandlesOK(handles), NEW lost
    PROVE  LET hs == HandlesAfter(lost) IN
           /\ HandlesOK(hs) /\ DOMAIN hs = NewTopics
           /\ ServerNames(hs, flat) \subseteq ServerNames(handles, flat)
<1> DEFINE hs == HandlesAfter(lost)
<1>0. DOMAIN hs = NewTopics
      /\ \A t \in NewTopics : hs[t] = IF t \in DOMAIN handles THEN handles[t] ELSE NewHandle(t, lost)
  BY DEF HandlesAfter
<1>1. ASSUME NEW t \in NewTopics
      PROVE  /\ t \in Topics /\ ClientIndex(t) \in Indices
             /\ ParamsMet(t, lost) \in ParamsOf[t] \cup {NoParams}
  <2>1. PICK i \in Indices : Sent(<<"name", i>>) /\ SentValue(<<"name", i>>) = t
    BY DEF NewTopics
  <2> DEFINE c == ClientIndex(t)
  <2>2. c \in Indices /\ Sent(<<"name", c>>) /\ SentValue(<<"name", c>>) = t
    BY <2>1 DEF ClientIndex
  <2> HIDE DEF c
  <2>3. t \in Topics /\ (Sent(<<"param", c>>) => SentValue(<<"param", c>>) \in ParamsOf[t])
    BY <2>2, SentParams
  <2>4. ParamsMet(t, lost) \in ParamsOf[t] \cup {NoParams}
    BY <2>3 DEF ParamsMet, c
  <2> QED BY <2>2, <2>3, <2>4 DEF c
<1>2. ASSUME NEW t \in Topics, NEW p \in ParamsOf[t] \cup {NoParams} PROVE p \in Params
  <2>1. CASE p \in ParamsOf[t]
    BY <2>1 DEF Params
  <2>2. CASE p = NoParams
    BY <2>2 DEF Params
  <2> QED BY <2>1, <2>2
<1>3. ASSUME NEW t \in NewTopics
      PROVE  /\ NewHandle(t, lost) \in HandleSet /\ NewHandle(t, lost).flat = EmptyFlat
             /\ NewHandle(t, lost).params \in ParamsOf[t] \cup {NoParams}
  BY <1>1, <1>2, EmptyStore DEF NewHandle, HandleSet
<1> HIDE DEF hs
<1>4. HandlesOK(hs)
  <2>1. DOMAIN hs \subseteq Topics
    BY <1>0, <1>1
  <2>2. ASSUME NEW t \in DOMAIN hs
        PROVE  /\ hs[t] \in HandleSet /\ Indexed(hs[t].flat)
               /\ hs[t].params \in ParamsOf[t] \cup {NoParams}
    <3>1. CASE t \in DOMAIN handles
      BY <1>0, <3>1 DEF HandlesOK
    <3>2. CASE t \notin DOMAIN handles
      BY <1>0, <1>3, <3>2, EmptyStore
    <3> QED BY <3>1, <3>2
  <2> QED BY <2>1, <2>2 DEF HandlesOK
<1>5. ServerNames(hs, flat) \subseteq ServerNames(handles, flat)
  <2>1. ASSUME NEW t \in DOMAIN hs
        PROVE  StoreNames(hs[t].flat, TopicPrefix(hs[t].index)) \subseteq ServerNames(handles, flat)
    <3>1. CASE t \in DOMAIN handles
      <4>1. hs[t] = handles[t]
        BY <1>0, <3>1
      <4> QED BY <3>1, <4>1 DEF ServerNames
    <3>2. CASE t \notin DOMAIN handles
      <4>1. hs[t].flat = EmptyFlat
        BY <1>0, <1>3, <3>2
      <4> QED BY <4>1, EmptyStore
    <3> QED BY <3>1, <3>2
  <2>2. StoreNames(flat, "") \subseteq ServerNames(handles, flat)
    BY DEF ServerNames
  <2> QED BY <2>1, <2>2 DEF ServerNames
<1> QED BY <1>0, <1>4, <1>5 DEF hs

-----------------------------------------------------------------------------
(* The stores, the ids in them and the frames on their way down.           *)

NamesNow == ServerNames(handles, flat) \cup FrameNames(down)
              \cup (IF stale THEN {} ELSE ReplicaNames(replica))
StoresOK ==
    /\ HandlesOK(handles) /\ flat \in Stores /\ Indexed(flat)
    /\ nextKeyId \in 1 .. MaxKeyId + 1 /\ session \in SessionStates
    /\ session \in {"None", "Waiting", "Asked"} => handles = EmptyMap /\ flat = EmptyFlat
    /\ down \in Seq(DownFrames)
    /\ ~live \/ session \notin {"Bound", "Active"} => down = << >>
    /\ session \in {"Bound", "Active"} => OneToOne(NamesNow, nextKeyId)

(* Fewer names, and one more with the next id.                             *)
LEMMA NamesOneToOne ==
    ASSUME NEW N, NEW next \in Nat, OneToOne(N, next)
    PROVE  /\ \A M : M \subseteq N => OneToOne(M, next)
           /\ \A p : next # 0 => OneToOne(N \cup {<<next, p>>}, next + 1)
<1>1. \A M : M \subseteq N => OneToOne(M, next)
  BY DEF OneToOne
<1>2. ASSUME NEW p, next # 0 PROVE OneToOne(N \cup {<<next, p>>}, next + 1)
  <2> DEFINE x == <<next, p>>
  <2>1. x[1] = next
    OBVIOUS
  <2> HIDE DEF x
  <2>2. /\ \A m \in N : m[1] \in 1 .. next - 1
        /\ \A m, n \in N : m[1] = n[1] => m[2] = n[2]
    BY DEF OneToOne
  <2>3. \A m \in N : m[1] \in 1 .. (next + 1) - 1 /\ m[1] # x[1]
    BY <2>1, <2>2
  <2>4. x[1] \in 1 .. (next + 1) - 1
    BY <1>2, <2>1
  <2>5. OneToOne(N \cup {x}, next + 1)
    BY <2>2, <2>3, <2>4 DEF OneToOne
  <2> QED BY <2>5 DEF x
<1> QED BY <1>1, <1>2

(* A bound session changes its stores and sends.                           *)
LEMMA StoresSend ==
    ASSUME StoresOK, session \in {"Bound", "Active"}, session' \in {"Bound", "Active"},
           UNCHANGED <<live, replica, stale>>,
           HandlesOK(handles'), flat' \in Stores, Indexed(flat'),
           nextKeyId' \in 1 .. MaxKeyId + 1,
           NEW N, ServerNames(handles', flat') \subseteq N, OneToOne(NamesNow \cup N, nextKeyId'),
           NEW q \in Seq(FramesOf(N)), SendDown(q)
    PROVE  StoresOK'
<1>1. q \in Seq(DownFrames) /\ FrameNames(q) \subseteq N
  BY FramesOfSeq
<1>2. /\ down' \in Seq(DownFrames) /\ FrameNames(down') \subseteq FrameNames(down) \cup N
      /\ ~live => down' = << >>
  <2>0. down \in Seq(DownFrames) /\ (~live => down = << >>)
    BY DEF StoresOK
  <2>1. CASE live
    <3>1. down' = down \o q
      BY <2>1 DEF SendDown
    <3>2. /\ down \o q \in Seq(DownFrames)
          /\ FrameNames(down \o q) \subseteq FrameNames(down) \cup FrameNames(q)
      BY <1>1, <2>0, NamesSent
    <3> QED BY <1>1, <2>1, <3>1, <3>2
  <2>2. CASE ~live
    BY <2>0, <2>2 DEF SendDown
  <2> QED BY <2>1, <2>2
<1>3. NamesNow' \subseteq NamesNow \cup N
  BY <1>2 DEF NamesNow
<1>4. OneToOne(NamesNow', nextKeyId')
  <2>1. nextKeyId' \in Nat
    BY TopicAssumption
  <2> QED BY <1>3, <2>1, NamesOneToOne
<1> QED BY <1>2, <1>4 DEF StoresOK, SessionStates

(* It sends only names that it has.                                        *)
LEMMA StoresTell ==
    ASSUME StoresOK, session \in {"Bound", "Active"}, session' \in {"Bound", "Active"},
           UNCHANGED <<live, replica, stale, nextKeyId>>,
           HandlesOK(handles'), flat' \in Stores, Indexed(flat'),
           ServerNames(handles', flat') \subseteq ServerNames(handles, flat),
           NEW q \in Seq(FramesOf(ServerNames(handles, flat))), SendDown(q)
    PROVE  StoresOK'
<1>1. nextKeyId' \in 1 .. MaxKeyId + 1
  BY DEF StoresOK
<1>2. NamesNow \cup ServerNames(handles, flat) = NamesNow
  BY DEF NamesNow
<1>3. OneToOne(NamesNow \cup ServerNames(handles, flat), nextKeyId')
  BY <1>2 DEF StoresOK
<1> QED BY <1>1, <1>3, StoresSend

(* It gives an id to a path.                                               *)
LEMMA StoresGive ==
    ASSUME StoresOK, session \in {"Bound", "Active"}, session' \in {"Bound", "Active"},
           UNCHANGED <<live, replica, stale>>,
           HandlesOK(handles'), flat' \in Stores, Indexed(flat'),
           nextKeyId <= MaxKeyId, nextKeyId' = nextKeyId + 1, NEW p,
           ServerNames(handles', flat') \subseteq ServerNames(handles, flat) \cup {<<nextKeyId, p>>},
           NEW q \in Seq(FramesOf({<<nextKeyId, p>>})), SendDown(q)
    PROVE  StoresOK'
<1> DEFINE x == <<nextKeyId, p>>
           N == ServerNames(handles, flat) \cup {x}
<1>0. nextKeyId \in Nat /\ nextKeyId # 0 /\ nextKeyId' \in 1 .. MaxKeyId + 1
  BY TopicAssumption DEF StoresOK
<1>1. OneToOne(NamesNow \cup {x}, nextKeyId')
  BY <1>0, NamesOneToOne DEF StoresOK
<1>2. NamesNow \cup N = NamesNow \cup {x}
  <2> HIDE DEF x
  <2> QED BY DEF NamesNow
<1>3. q \in Seq(FramesOf(N))
  <2> HIDE DEF x
  <2>1. {x} \subseteq N
    OBVIOUS
  <2>2. q \in Seq(FramesOf({x}))
    BY DEF x
  <2> HIDE DEF N
  <2> QED BY <2>1, <2>2, FramesOfSeq
<1> HIDE DEF x
<1>4. ServerNames(handles', flat') \subseteq N /\ OneToOne(NamesNow \cup N, nextKeyId')
  BY <1>1, <1>2 DEF x
<1> HIDE DEF N
<1> QED BY <1>0, <1>3, <1>4, StoresSend

(* A session is bound: nothing is in its stores or on its way, and what    *)
(* the client has is of an earlier one.                                    *)
LEMMA StoresBound ==
    ASSUME StoresOK, session \in {"None", "Asked"}, NEW q, q = << >> \/ q = << AuthOk >>,
           Activate(q), UNCHANGED <<live, handles, nextKeyId>>
    PROVE  StoresOK'
<1>1. /\ session' = "Bound" /\ flat' = EmptyFlat /\ handles' = EmptyMap /\ SendDown(q)
      /\ stale' \/ replica' = EmptyReplica
      /\ down = << >>
  BY DEF Activate, StoresOK
<1>2. q \in Seq(FramesOf({}))
  <2>1. AuthOk \in FramesOf({})
    BY DownFields
  <2>2. << >> \in Seq(FramesOf({})) /\ << AuthOk >> \in Seq(FramesOf({}))
    BY <2>1
  <2> QED BY <2>2
<1>3. q \in Seq(DownFrames) /\ FrameNames(q) = {}
  <2>1. q \in Seq(DownFrames) /\ FrameNames(q) \subseteq {}
    BY <1>2, FramesOfSeq
  <2> QED BY <2>1
<1>4. /\ down' \in Seq(DownFrames) /\ FrameNames(down') = {} /\ (~live => down' = << >>)
  <2>1. FrameNames(<< >>) = {} /\ << >> \in Seq(DownFrames)
    BY DEF FrameNames
  <2>2. << >> \o q = q
    BY <1>3, ConcatEmptySeq
  <2> QED BY <1>1, <1>3, <2>1, <2>2 DEF SendDown
<1>5. HandlesOK(handles') /\ ServerNames(handles', flat') = {}
  <2>1. DOMAIN EmptyMap = {}
    BY DEF EmptyMap
  <2>2. StoreNames(EmptyFlat, "") = {}
    BY EmptyStore
  <2> QED BY <1>1, <2>1, <2>2 DEF HandlesOK, ServerNames
<1>6. ReplicaNames(EmptyReplica) = {}
  BY DEF ReplicaNames, EmptyReplica, EmptyRegistry, EmptyMap
<1>7. NamesNow' = {}
  BY <1>1, <1>4, <1>5, <1>6 DEF NamesNow
<1>8. OneToOne(NamesNow', nextKeyId')
  BY <1>7 DEF OneToOne
<1> QED BY <1>1, <1>4, <1>5, <1>8, EmptyStore DEF StoresOK, SessionStates

(* The application sets a value in the store of a topic.                   *)
LEMMA PayloadSetStores ==
    ASSUME StoresOK, NEW t \in Topics, NEW k \in Keys, NEW v \in Values, PayloadSet(t, k, v)
    PROVE  StoresOK'
<1> DEFINE h == handles[t]
           g == SetLeaf(h.flat, k, v, nextKeyId)
           prefix == TopicPrefix(h.index)
           p == WirePath(prefix, k)
<1>0. /\ session \in {"Bound", "Active"} /\ UNCHANGED <<session, live, replica, stale, flat>>
      /\ t \in DOMAIN handles /\ Allocates(h.flat, k, v)
      /\ handles' = [handles EXCEPT ![t].flat = g]
      /\ SendDown(SetFrames(h.flat, prefix, k, v, nextKeyId))
  BY DEF PayloadSet, AppCall, replicaVars
<1>1. /\ HandlesOK(handles) /\ flat \in Stores /\ Indexed(flat) /\ nextKeyId \in 1 .. MaxKeyId + 1
      /\ h \in HandleSet /\ h.flat \in Stores /\ Indexed(h.flat) /\ h.index \in Indices
  BY <1>0 DEF StoresOK, HandlesOK, HandleSet
<1>2. PrefixOK(prefix)
  BY <1>1, PathsOfKeys DEF PrefixOK
<1>3. NeedsNewId(h.flat, k, v) => nextKeyId \in KeyIds
  BY <1>0, <1>1, TopicAssumption DEF Allocates, KeyIds
<1>4. /\ g \in Stores /\ Indexed(g)
      /\ ~NeedsNewId(h.flat, k, v) => StoreNames(g, prefix) = StoreNames(h.flat, prefix)
      /\ NeedsNewId(h.flat, k, v) =>
            StoreNames(g, prefix) \subseteq StoreNames(h.flat, prefix) \cup {<<nextKeyId, p>>}
  BY <1>1, <1>3, LeafKept, LeafGiven
<1>5. /\ DOMAIN handles' = DOMAIN handles
      /\ handles'[t] = [h EXCEPT !.flat = g]
      /\ \A x \in DOMAIN handles : x # t => handles'[x] = handles[x]
  BY <1>0
<1> HIDE DEF g, h
<1>6. /\ handles'[t] \in HandleSet /\ handles'[t].flat = g /\ handles'[t].index = h.index
      /\ handles'[t].params = h.params
  BY <1>1, <1>4, <1>5 DEF HandleSet
<1>7. HandlesOK(handles')
  BY <1>1, <1>4, <1>5, <1>6 DEF HandlesOK, h
<1> HIDE DEF prefix, p
<1>8. ASSUME NEW M, StoreNames(g, prefix) \subseteq StoreNames(h.flat, prefix) \cup M
      PROVE  ServerNames(handles', flat') \subseteq ServerNames(handles, flat) \cup M
  <2>1. ASSUME NEW x \in DOMAIN handles'
        PROVE  StoreNames(handles'[x].flat, TopicPrefix(handles'[x].index))
                  \subseteq ServerNames(handles, flat) \cup M
    <3>1. CASE x = t
      <4>1. StoreNames(handles'[x].flat, TopicPrefix(handles'[x].index)) = StoreNames(g, prefix)
        BY <1>6, <3>1 DEF prefix
      <4>2. StoreNames(h.flat, prefix) \subseteq ServerNames(handles, flat)
        BY <1>0 DEF ServerNames, h, prefix
      <4> QED BY <1>8, <4>1, <4>2
    <3>2. CASE x # t
      <4>1. x \in DOMAIN handles /\ handles'[x] = handles[x]
        BY <1>5, <3>2
      <4> QED BY <4>1 DEF ServerNames
    <3> QED BY <3>1, <3>2
  <2>2. flat' = flat
    BY <1>0
  <2>3. StoreNames(flat, "") \subseteq ServerNames(handles, flat)
    BY DEF ServerNames
  <2>4. ServerNames(handles', flat') =
          StoreNames(flat, "") \cup UNION {StoreNames(handles'[x].flat, TopicPrefix(handles'[x].index))
                                             : x \in DOMAIN handles'}
    BY <2>2 DEF ServerNames
  <2> QED BY <2>1, <2>3, <2>4
<1>9. CASE NeedsNewId(h.flat, k, v)
  <2>1. nextKeyId <= MaxKeyId /\ nextKeyId' = nextKeyId + 1
    BY <1>0, <1>9 DEF Allocates, h
  <2>2. SetFrames(h.flat, prefix, k, v, nextKeyId) \in Seq(FramesOf({<<nextKeyId, p>>}))
    BY <1>1, <1>2, <1>3, SetFramesNames DEF p
  <2>3. ServerNames(handles', flat') \subseteq ServerNames(handles, flat) \cup {<<nextKeyId, p>>}
    BY <1>4, <1>8, <1>9 DEF h
  <2>4. flat' \in Stores /\ Indexed(flat') /\ session' \in {"Bound", "Active"}
        /\ UNCHANGED <<live, replica, stale>> /\ SendDown(SetFrames(h.flat, prefix, k, v, nextKeyId))
    BY <1>0, <1>1 DEF h, prefix
  <2> QED BY <1>0, <1>7, <2>1, <2>2, <2>3, <2>4, StoresGive
<1>10. CASE ~NeedsNewId(h.flat, k, v)
  <2>1. nextKeyId' = nextKeyId
    BY <1>0, <1>10 DEF Allocates, h
  <2> DEFINE q == SetFrames(h.flat, prefix, k, v, nextKeyId)
  <2>2. q \in Seq(FramesOf({}))
    BY <1>1, <1>2, <1>10, SetFramesNames
  <2> HIDE DEF q
  <2>3. {} \subseteq ServerNames(handles, flat) /\ q \in Seq(FramesOf(ServerNames(handles, flat)))
    BY <2>2, FramesOfSeq
  <2>4. ServerNames(handles', flat') \subseteq ServerNames(handles, flat)
    <3>1. StoreNames(g, prefix) \subseteq StoreNames(h.flat, prefix) \cup {}
      BY <1>4, <1>10 DEF h
    <3>2. ServerNames(handles', flat') \subseteq ServerNames(handles, flat) \cup {}
      BY <1>8, <3>1
    <3> QED BY <3>2
  <2>5. flat' \in Stores /\ Indexed(flat') /\ session' \in {"Bound", "Active"}
        /\ UNCHANGED <<live, replica, stale>> /\ SendDown(q)
    BY <1>0, <1>1 DEF q, h, prefix
  <2> QED BY <1>0, <1>7, <2>1, <2>3, <2>4, <2>5, StoresTell
<1> QED BY <1>9, <1>10

(* The application clears a key of a topic, or all of them.                *)
LEMMA PayloadClearStores ==
    ASSUME StoresOK, NEW t \in Topics,
           (\E k \in Keys : PayloadClearKey(t, k)) \/ PayloadClear(t)
    PROVE  StoresOK'
<1> DEFINE h == handles[t]
           prefix == TopicPrefix(h.index)
           N == ServerNames(handles, flat)
<1>0. /\ session \in {"Bound", "Active"} /\ UNCHANGED <<session, live, replica, stale, flat, nextKeyId>>
      /\ t \in DOMAIN handles
  BY DEF PayloadClearKey, PayloadClear, AppCall, replicaVars
<1>1. /\ HandlesOK(handles) /\ flat \in Stores /\ Indexed(flat)
      /\ h \in HandleSet /\ h.flat \in Stores /\ Indexed(h.flat) /\ h.index \in Indices
  BY <1>0 DEF StoresOK, HandlesOK, HandleSet
<1>2. ASSUME NEW g \in Stores, Indexed(g), StoreNames(g, prefix) \subseteq StoreNames(h.flat, prefix),
             handles' = [handles EXCEPT ![t].flat = g]
      PROVE  HandlesOK(handles') /\ ServerNames(handles', flat') \subseteq N
  <2>1. /\ DOMAIN handles' = DOMAIN handles
        /\ handles'[t] = [h EXCEPT !.flat = g]
        /\ \A x \in DOMAIN handles : x # t => handles'[x] = handles[x]
    BY <1>0, <1>2
  <2> HIDE DEF h
  <2>2. /\ handles'[t] \in HandleSet /\ handles'[t].flat = g /\ handles'[t].index = h.index
        /\ handles'[t].params = h.params
    BY <1>1, <1>2, <2>1 DEF HandleSet
  <2>3. HandlesOK(handles')
    BY <1>1, <1>2, <2>1, <2>2 DEF HandlesOK, h
  <2>4. ASSUME NEW x \in DOMAIN handles'
        PROVE  StoreNames(handles'[x].flat, TopicPrefix(handles'[x].index)) \subseteq N
    <3>1. CASE x = t
      <4>1. StoreNames(handles'[x].flat, TopicPrefix(handles'[x].index)) = StoreNames(g, prefix)
        BY <2>2, <3>1
      <4>2. StoreNames(h.flat, prefix) \subseteq N
        BY <1>0 DEF ServerNames, h
      <4> QED BY <1>2, <4>1, <4>2 DEF h
    <3>2. CASE x # t
      <4>1. x \in DOMAIN handles /\ handles'[x] = handles[x]
        BY <2>1, <3>2
      <4> QED BY <4>1 DEF ServerNames
    <3> QED BY <3>1, <3>2
  <2>5. StoreNames(flat, "") \subseteq N
    BY DEF ServerNames
  <2>6. ServerNames(handles', flat') =
          StoreNames(flat, "") \cup UNION {StoreNames(handles'[x].flat, TopicPrefix(handles'[x].index))
                                             : x \in DOMAIN handles'}
    BY <1>0 DEF ServerNames
  <2> HIDE DEF N
  <2> QED BY <2>3, <2>4, <2>5, <2>6
<1>3. ASSUME HandlesOK(handles'), ServerNames(handles', flat') \subseteq N,
             NEW q \in Seq(FramesOf(N)), SendDown(q)
      PROVE  StoresOK'
  <2>1. flat' \in Stores /\ Indexed(flat') /\ session' \in {"Bound", "Active"}
        /\ UNCHANGED <<live, replica, stale, nextKeyId>>
    BY <1>0, <1>1
  <2> QED BY <1>0, <1>3, <2>1, StoresTell
<1>4. ASSUME NEW k \in Keys, PayloadClearKey(t, k)
      PROVE  StoresOK'
  <2> DEFINE g == ClearKey(h.flat, k)
             q == ClearKeyFrames(h.flat, k)
  <2>1. handles' = [handles EXCEPT ![t].flat = g] /\ SendDown(q) /\ HasKey(h.flat, k)
    BY <1>4 DEF PayloadClearKey
  <2>2. g \in Stores /\ Indexed(g) /\ StoreNames(g, prefix) \subseteq StoreNames(h.flat, prefix)
    BY <1>1, <2>1, KeyCleared
  <2>3. q \in Seq(FramesOf(N))
    <3>1. h.flat.entries[k].keyId \in KeyIds
      BY <1>1, <2>1, StoreFields DEF HasKey
    <3>2. ServerKeyDelete(h.flat.entries[k].keyId) \in FramesOf(N)
      BY <3>1, DownFields
    <3> QED BY <3>2 DEF ClearKeyFrames
  <2> HIDE DEF g, q
  <2>4. HandlesOK(handles') /\ ServerNames(handles', flat') \subseteq N
    BY <1>2, <2>1, <2>2
  <2> QED BY <1>3, <2>1, <2>3, <2>4
<1>5. CASE PayloadClear(t)
  <2>1. handles' = [handles EXCEPT ![t].flat = EmptyFlat]
    BY <1>5 DEF PayloadClear
  <2>2. HandlesOK(handles') /\ ServerNames(handles', flat') \subseteq N
    <3>1. EmptyFlat \in Stores /\ Indexed(EmptyFlat)
          /\ StoreNames(EmptyFlat, prefix) \subseteq StoreNames(h.flat, prefix)
      BY EmptyStore
    <3> QED BY <1>2, <2>1, <3>1
  <2>3. PICK o \in Orders : SendDown(ResyncFrames(handles', flat, o))
    BY <1>5 DEF PayloadClear
  <2>4. ResyncFrames(handles', flat, o) \in Seq(FramesOf(ServerNames(handles', flat)))
    BY <1>1, <2>2, ResyncNames
  <2>5. ServerNames(handles', flat) \subseteq N
    BY <1>0, <2>2
  <2>6. ResyncFrames(handles', flat, o) \in Seq(FramesOf(N))
    BY <2>4, <2>5, FramesOfSeq
  <2> QED BY <1>3, <2>2, <2>3, <2>6
<1> QED BY <1>4, <1>5

(* The application sets a value in the session's own store, or clears it.  *)
LEMMA SessionStores ==
    ASSUME StoresOK,
           \/ \E k \in Keys, v \in Values : SessionSet(k, v)
           \/ \E k \in Keys : SessionClearKey(k)
           \/ SessionClear
    PROVE  StoresOK'
<1> DEFINE N == ServerNames(handles, flat)
<1>0. /\ session \in {"Bound", "Active"} /\ UNCHANGED <<session, live, replica, stale, handles>>
  BY DEF SessionSet, SessionClearKey, SessionClear, AppCall, replicaVars
<1>1. /\ HandlesOK(handles) /\ flat \in Stores /\ Indexed(flat) /\ nextKeyId \in 1 .. MaxKeyId + 1
      /\ HandlesOK(handles') /\ session' \in {"Bound", "Active"} /\ UNCHANGED <<live, replica, stale>>
  BY <1>0 DEF StoresOK
<1>2. PrefixOK("")
  BY PathsOfKeys DEF PrefixOK
<1>3. ASSUME NEW M, StoreNames(flat', "") \subseteq StoreNames(flat, "") \cup M
      PROVE  ServerNames(handles', flat') \subseteq N \cup M
  BY <1>0, <1>3 DEF ServerNames
<1>4. ASSUME flat' \in Stores, Indexed(flat'), StoreNames(flat', "") \subseteq StoreNames(flat, ""),
             nextKeyId' = nextKeyId, NEW q \in Seq(FramesOf(N)), SendDown(q)
      PROVE  StoresOK'
  <2>1. ServerNames(handles', flat') \subseteq N
    BY <1>0, <1>4 DEF ServerNames
  <2> QED BY <1>0, <1>1, <1>4, <2>1, StoresTell
<1>5. ASSUME NEW k \in Keys, NEW v \in Values, SessionSet(k, v)
      PROVE  StoresOK'
  <2> DEFINE q == SetFrames(flat, "", k, v, nextKeyId)
             p == WirePath("", k)
  <2>1. flat' = SetLeaf(flat, k, v, nextKeyId) /\ SendDown(q) /\ Allocates(flat, k, v)
    BY <1>5 DEF SessionSet
  <2>2. NeedsNewId(flat, k, v) => nextKeyId \in KeyIds
    <3>1. nextKeyId \in 1 .. MaxKeyId + 1 /\ MaxKeyId \in Nat
      BY <1>1, TopicAssumption
    <3>2. NeedsNewId(flat, k, v) => nextKeyId <= MaxKeyId
      BY <2>1 DEF Allocates
    <3> QED BY <3>1, <3>2 DEF KeyIds
  <2>3. CASE NeedsNewId(flat, k, v)
    <3>1. nextKeyId <= MaxKeyId /\ nextKeyId' = nextKeyId + 1
      BY <2>1, <2>3 DEF Allocates
    <3>2. /\ flat' \in Stores /\ Indexed(flat')
          /\ StoreNames(flat', "") \subseteq StoreNames(flat, "") \cup {<<nextKeyId, p>>}
      BY <1>1, <2>1, <2>2, <2>3, LeafGiven
    <3>3. q \in Seq(FramesOf({<<nextKeyId, p>>}))
      BY <1>1, <1>2, <2>2, SetFramesNames
    <3>4. ServerNames(handles', flat') \subseteq N \cup {<<nextKeyId, p>>}
      BY <1>3, <3>2
    <3> HIDE DEF p, q
    <3> QED BY <1>0, <1>1, <2>1, <3>1, <3>2, <3>3, <3>4, StoresGive
  <2>4. CASE ~NeedsNewId(flat, k, v)
    <3>1. nextKeyId' = nextKeyId
      BY <2>1, <2>4 DEF Allocates
    <3> DEFINE g == SetLeaf(flat, k, v, nextKeyId)
    <3>g. /\ g \in Stores /\ Indexed(g)
          /\ \A prefix : StoreNames(g, prefix) = StoreNames(flat, prefix)
      BY <1>1, <2>4, LeafKept
    <3> HIDE DEF g
    <3>2. flat' \in Stores /\ Indexed(flat') /\ StoreNames(flat', "") = StoreNames(flat, "")
      BY <2>1, <3>g DEF g
    <3>3. q \in Seq(FramesOf({}))
      BY <1>1, <1>2, <2>4, SetFramesNames
    <3> HIDE DEF q, N
    <3>4. \A M : {} \subseteq M => q \in Seq(FramesOf(M))
      BY <3>3, FramesOfSeq
    <3>5. q \in Seq(FramesOf(N))
      BY <3>4
    <3> QED BY <1>4, <2>1, <3>1, <3>2, <3>5
  <2> QED BY <2>3, <2>4
<1>6. ASSUME NEW k \in Keys, SessionClearKey(k)
      PROVE  StoresOK'
  <2> DEFINE q == ClearKeyFrames(flat, k)
  <2>1. flat' = ClearKey(flat, k) /\ SendDown(q) /\ HasKey(flat, k) /\ nextKeyId' = nextKeyId
    BY <1>6 DEF SessionClearKey
  <2>2. flat' \in Stores /\ Indexed(flat') /\ StoreNames(flat', "") \subseteq StoreNames(flat, "")
    BY <1>1, <2>1, KeyCleared
  <2>3. q \in Seq(FramesOf(N))
    <3>1. flat.entries[k].keyId \in KeyIds
      BY <1>1, <2>1, StoreFields DEF HasKey
    <3>2. ServerKeyDelete(flat.entries[k].keyId) \in FramesOf(N)
      BY <3>1, DownFields
    <3> QED BY <3>2 DEF ClearKeyFrames
  <2> HIDE DEF q
  <2> QED BY <1>4, <2>1, <2>2, <2>3
<1>7. CASE SessionClear
  <2>1. flat' = EmptyFlat /\ nextKeyId' = nextKeyId
    BY <1>7 DEF SessionClear
  <2>2. PICK o \in Orders : SendDown(ResyncFrames(handles, EmptyFlat, o))
    BY <1>7 DEF SessionClear
  <2>3. EmptyFlat \in Stores /\ Indexed(EmptyFlat) /\ StoreNames(EmptyFlat, "") = {}
    BY EmptyStore
  <2>4. ServerNames(handles, EmptyFlat) \subseteq N
    BY <2>3 DEF ServerNames
  <2>5. ResyncFrames(handles, EmptyFlat, o) \in Seq(FramesOf(ServerNames(handles, EmptyFlat)))
    BY <1>1, <2>3, ResyncNames
  <2>6. ResyncFrames(handles, EmptyFlat, o) \in Seq(FramesOf(N))
    BY <2>4, <2>5, FramesOfSeq
  <2> QED BY <1>4, <2>1, <2>2, <2>3, <2>6
<1> QED BY <1>5, <1>6, <1>7

(* Every step of the server keeps its stores and ids.                      *)
LEMMA ServerStoresStep ==
    ASSUME SyncOK, StoresOK, ServerMoves
    PROVE  StoresOK'
<1> USE DEF serverVars, replicaVars
<1>0. Told /\ HandlesOK(handles) /\ flat \in Stores /\ Indexed(flat)
  BY DEF SyncOK, StoresOK
<1>1. ASSUME UNCHANGED <<live, replica, stale, down, session, handles, flat, nextKeyId>>
      PROVE  StoresOK'
  BY <1>1 DEF StoresOK, NamesNow
<1>2. CASE SessionDisconnect
  <2>1. /\ session' = "None" /\ handles' = EmptyMap /\ flat' = EmptyFlat /\ nextKeyId' = 1
        /\ ~live /\ UNCHANGED <<live, down>>
    BY <1>2 DEF SessionDisconnect
  <2>2. HandlesOK(EmptyMap)
    BY DEF HandlesOK, EmptyMap
  <2>3. 1 \in 1 .. MaxKeyId + 1
    BY TopicAssumption
  <2> QED BY <2>1, <2>2, <2>3, EmptyStore DEF StoresOK, SessionStates
<1>3. CASE HandleIdentify
  <2>1. session = "None"
    <3>1. /\ UNCHANGED <<subs, indexMap, handleIndex>> /\ up # << >> /\ up' = Tail(up)
          /\ Head(up).frameType = "Identify"
      BY <1>3 DEF HandleIdentify, Accepts, topicsVars
    <3> QED BY <3>1, SyncTaken
  <2>2. UNCHANGED <<live, handles, nextKeyId>>
    BY <1>3 DEF HandleIdentify, Accepts
  <2>3. CASE Activate(<< >>)
    BY <2>1, <2>2, <2>3, StoresBound
  <2>4. CASE session' = "Waiting" /\ UNCHANGED <<flat, down, replica, stale>>
    BY <2>1, <2>2, <2>4 DEF StoresOK, SessionStates
  <2> QED BY <1>3, <2>3, <2>4 DEF HandleIdentify
<1>4. CASE FinishActivation
  <2> DEFINE q == << ServerSync >>
  <2>1. /\ session \in {"Bound", "Active"} /\ session' \in {"Bound", "Active"} /\ SendDown(q)
        /\ UNCHANGED <<live, replica, stale, nextKeyId>> /\ UNCHANGED <<handles, flat>>
    BY <1>4 DEF FinishActivation
  <2>2. q \in Seq(FramesOf(ServerNames(handles, flat)))
    <3>1. ServerSync \in FramesOf(ServerNames(handles, flat))
      BY DownFields
    <3> QED BY <3>1
  <2> HIDE DEF q
  <2>3. HandlesOK(handles') /\ flat' \in Stores /\ Indexed(flat')
        /\ ServerNames(handles', flat') \subseteq ServerNames(handles, flat)
    BY <1>0, <2>1
  <2> QED BY <2>1, <2>2, <2>3, StoresTell
<1>5. CASE HandleAuth
  <2>1. /\ UNCHANGED <<live, replica, stale, down, handles, flat, nextKeyId>>
        /\ session' = session \/ (session = "Waiting" /\ session' = "Asked")
    BY <1>5 DEF HandleAuth, Accepts
  <2> QED BY <1>1, <2>1 DEF StoresOK, SessionStates
<1>6. CASE DropTopicFrame \/ HandleReset \/ HandleKeyRegistration \/ HandleValue \/ HandleClientReady
  <2>1. UNCHANGED <<live, replica, stale, down, session, handles, flat, nextKeyId>>
    BY <1>6 DEF DropTopicFrame, HandleReset, HandleKeyRegistration, HandleValue,
                HandleClientReady, Accepts
  <2> QED BY <1>1, <2>1
<1>7. CASE HandleTopicSync
  <2>1. PICK lost \in SUBSET NewTopics, o \in Orders :
           handles' = HandlesAfter(lost) /\ SendDown(RemovalFrames(o))
    BY <1>7 DEF HandleTopicSync
  <2>2. /\ session \in {"Bound", "Active"} /\ session' \in {"Bound", "Active"}
        /\ UNCHANGED <<live, replica, stale, nextKeyId>> /\ flat' = flat
    BY <1>7 DEF HandleTopicSync, Accepts
  <2>3. /\ HandlesOK(handles')
        /\ ServerNames(handles', flat) \subseteq ServerNames(handles, flat)
    BY <1>0, <2>1, TopicsGiven
  <2>4. RemovalFrames(o) \in Seq(FramesOf(ServerNames(handles, flat)))
    BY <1>0, RemovalNames
  <2>5. flat' \in Stores /\ Indexed(flat') /\ ServerNames(handles', flat') \subseteq ServerNames(handles, flat)
    BY <1>0, <2>2, <2>3
  <2> QED BY <2>1, <2>2, <2>3, <2>4, <2>5, StoresTell
<1>8. CASE HandleKeyRequest
  <2>1. UNCHANGED <<live, replica, stale, nextKeyId, handles, flat, session>>
    BY <1>8 DEF HandleKeyRequest, Accepts
  <2>2. PICK q \in Seq(FramesOf(ServerNames(handles, flat))) :
           SendDown(q) /\ (handles = EmptyMap /\ flat = EmptyFlat => q = << >>)
    BY <1>0, <1>8, KeyRequestNames
  <2>3. CASE session \in {"Bound", "Active"}
    BY <1>0, <2>1, <2>2, <2>3, StoresTell
  <2>4. CASE session \notin {"Bound", "Active"}
    <3>1. q = << >> /\ down = << >>
      BY <2>2, <2>4 DEF StoresOK, SessionStates
    <3>2. UNCHANGED down
      BY <2>2, <3>1 DEF SendDown
    <3> QED BY <1>1, <2>1, <3>2
  <2> QED BY <2>3, <2>4
<1>9. CASE AppAuthorize
  <2>1. session = "Asked" /\ Activate(<< AuthOk >>) /\ UNCHANGED <<live, handles, nextKeyId>>
    BY <1>9 DEF AppAuthorize
  <2> QED BY <2>1, StoresBound
<1>10. ASSUME NEW t \in Topics, AppSetTask(t) \/ AppClearTask(t) \/ TaskCallsOff(t) \/ TaskEnds(t)
       PROVE  StoresOK'
  <2>1. UNCHANGED <<live, replica, stale, down, session, handles, flat, nextKeyId>>
    BY <1>10 DEF AppSetTask, AppClearTask, TaskCallsOff, TaskEnds, AppCall
  <2> QED BY <1>1, <2>1
<1>11. CASE AppStep
  BY <1>9, <1>10, <1>11, PayloadSetStores, PayloadClearStores, SessionStores DEF AppStep
<1> QED BY <1>2, <1>3, <1>4, <1>5, <1>6, <1>7, <1>8, <1>11 DEF ServerMoves, SessionStep

-----------------------------------------------------------------------------
(* The client's replica and its cache.                                     *)

KnownAs == [path : WirePaths, type : DataTypes]

(* What the client remembers of an id is the path the id has.              *)
Follows(c, r) ==
    \A id \in DOMAIN c :
        HasKeyId(r.registry, id) /\ c[id] = TopicInfo(r.registry.byId[id].path)
ReplicaOK ==
    /\ replica \in Reps /\ cache \in Caches
    /\ ~stale => Follows(cache, replica)

(* The members of a replica, ...                                           *)
LEMMA RepsFields ==
    ASSUME NEW r \in Reps
    PROVE  /\ r.registry \in Registries(KeyIds, WirePaths, DataTypes)
           /\ r.registry.byId \in Maps(KeyIds, KnownAs)
           /\ r.registry.pathToId \in Maps(WirePaths, KeyIds)
           /\ r.store \in Maps(KeyIds, Values) /\ r.pending \in Maps(KeyIds, Values)
           /\ r.refused \in BOOLEAN
<1>1. /\ r.registry \in Registries(KeyIds, WirePaths, DataTypes)
      /\ r.store \in Maps(KeyIds, Values) /\ r.pending \in Maps(KeyIds, Values)
      /\ r.refused \in BOOLEAN
  BY DEF Reps, Replicas
<1> QED BY <1>1 DEF Registries, KnownAs

(* ... and how one is made of them.                                        *)
LEMMA MakeReps ==
    ASSUME NEW b \in Maps(KeyIds, KnownAs), NEW m \in Maps(WirePaths, KeyIds),
           NEW st \in Maps(KeyIds, Values), NEW pe \in Maps(KeyIds, Values), NEW refused \in BOOLEAN
    PROVE  [registry |-> [byId |-> b, pathToId |-> m], store |-> st, pending |-> pe,
            refused |-> refused] \in Reps
<1> DEFINE reg == [byId |-> b, pathToId |-> m]
<1>1. reg \in Registries(KeyIds, WirePaths, DataTypes)
  BY DEF Registries, KnownAs
<1> HIDE DEF reg
<1>2. [registry |-> reg, store |-> st, pending |-> pe, refused |-> refused] \in Reps
  BY <1>1 DEF Reps, Replicas
<1> QED BY <1>2 DEF reg

(* A client starts with a replica and a cache.                             *)
LEMMA EmptyReplicaType ==
    /\ EmptyReplica \in Reps /\ EmptyMap \in Caches
    /\ \A r : Follows(EmptyMap, r)
    /\ ReplicaNames(EmptyReplica) = {}
<1>1. EmptyReplica \in Reps
  BY EmptyType, MakeReps DEF EmptyReplica, EmptyRegistry
<1>2. DOMAIN EmptyMap = {} /\ DOMAIN EmptyReplica.registry.byId = {}
  BY DEF EmptyMap, EmptyReplica, EmptyRegistry
<1> QED BY <1>1, <1>2, EmptyType DEF Caches, Follows, ReplicaNames

(* The kinds of frames that the client receives.                           *)
LEMMA DownKinds ==
    ASSUME NEW f \in DownFrames
    PROVE  /\ f.frameType = "ServerKeyRegistration" =>
                 f.keyId \in KeyIds /\ f.dataType \in DataTypes /\ f.payload \in WirePaths
           /\ f.frameType = "ServerValue" => f.keyId \in KeyIds /\ f.payload \in Values
           /\ f.frameType = "ServerKeyDelete" => f.keyId \in KeyIds
BY DEF DownFrames, AuthOk, ServerSync, ServerReset, ServerKeyDelete, ServerValue,
       ServerKeyRegistration, Signal, KeySignal, Frame

(* A key is registered.                                                    *)
LEMMA RegisterReplica ==
    ASSUME NEW r \in Reps, NEW f \in DownFrames, f.frameType = "ServerKeyRegistration"
    PROVE  LET new == ReplicaRegister(r, f)
               b == new.registry.byId
               c == r.registry.byId
           IN  /\ new \in Reps
               /\ RegisterThrows(r.registry, f.payload) => b = c
               /\ ~RegisterThrows(r.registry, f.payload) =>
                     /\ DOMAIN b = DOMAIN c \cup {f.keyId} /\ b[f.keyId].path = f.payload
                     /\ \A x \in DOMAIN c : x # f.keyId => b[x] = c[x]
<1>0. f.keyId \in KeyIds /\ f.dataType \in DataTypes /\ f.payload \in WirePaths
  BY DownKinds
<1>1. CASE RegisterThrows(r.registry, f.payload)
  <2>1. ReplicaRegister(r, f) = [registry |-> r.registry, store |-> r.store,
                                 pending |-> r.pending, refused |-> TRUE]
    BY <1>1 DEF ReplicaRegister, Reps, Replicas
  <2>2. [registry |-> r.registry, store |-> r.store, pending |-> r.pending,
         refused |-> TRUE] \in Reps
    BY RepsFields DEF Reps, Replicas
  <2> QED BY <1>1, <2>1, <2>2
<1>2. CASE ~RegisterThrows(r.registry, f.payload)
  <2> DEFINE b == Put(r.registry.byId, f.keyId, [path |-> f.payload, type |-> f.dataType])
             m == Put(r.registry.pathToId, f.payload, f.keyId)
             st == IF f.keyId \in DOMAIN r.pending
                   THEN Put(r.store, f.keyId, r.pending[f.keyId]) ELSE r.store
             pe == Erase(r.pending, f.keyId)
  <2>1. ReplicaRegister(r, f) = [registry |-> [byId |-> b, pathToId |-> m], store |-> st,
                                 pending |-> pe, refused |-> r.refused]
    BY <1>2 DEF ReplicaRegister, RegisterOne, Reps, Replicas
  <2>2. [path |-> f.payload, type |-> f.dataType] \in KnownAs
    BY <1>0 DEF KnownAs
  <2>3. b \in Maps(KeyIds, KnownAs) /\ m \in Maps(WirePaths, KeyIds)
    BY <1>0, <2>2, PutType, RepsFields
  <2>4. st \in Maps(KeyIds, Values)
    <3>1. CASE f.keyId \in DOMAIN r.pending
      <4>1. r.pending[f.keyId] \in Values
        BY <3>1, MapApply, RepsFields
      <4> QED BY <1>0, <3>1, <4>1, PutType, RepsFields
    <3> QED BY <3>1, RepsFields
  <2>5. pe \in Maps(KeyIds, Values)
    BY EraseType, RepsFields
  <2>6. DOMAIN b = DOMAIN r.registry.byId \cup {f.keyId} /\ b[f.keyId].path = f.payload
        /\ \A x \in DOMAIN r.registry.byId : x # f.keyId => b[x] = r.registry.byId[x]
    BY DEF Put
  <2> HIDE DEF b, m, st, pe
  <2>7. [registry |-> [byId |-> b, pathToId |-> m], store |-> st, pending |-> pe,
         refused |-> r.refused] \in Reps
    BY <2>3, <2>4, <2>5, RepsFields, MakeReps
  <2>8. ReplicaRegister(r, f).registry.byId = b
    BY <2>1
  <2> QED BY <1>2, <2>1, <2>6, <2>7, <2>8
<1> QED BY <1>1, <1>2

(* A value arrives.                                                        *)
LEMMA ValueReplica ==
    ASSUME NEW r \in Reps, NEW f \in DownFrames, f.frameType = "ServerValue"
    PROVE  ReplicaValue(r, f) \in Reps /\ ReplicaValue(r, f).registry = r.registry
<1>0. f.keyId \in KeyIds /\ f.payload \in Values
  BY DownKinds
<1>1. \/ ReplicaValue(r, f) = [registry |-> r.registry, pending |-> r.pending,
            store |-> Put(r.store, f.keyId, f.payload), refused |-> r.refused]
      \/ ReplicaValue(r, f) = [registry |-> r.registry, store |-> r.store,
            pending |-> Put(r.pending, f.keyId, f.payload), refused |-> r.refused]
  BY DEF ReplicaValue, Reps, Replicas
<1>2. Put(r.store, f.keyId, f.payload) \in Maps(KeyIds, Values)
      /\ Put(r.pending, f.keyId, f.payload) \in Maps(KeyIds, Values)
  BY <1>0, PutType, RepsFields
<1>3. /\ [registry |-> r.registry, pending |-> r.pending,
          store |-> Put(r.store, f.keyId, f.payload), refused |-> r.refused] \in Reps
      /\ [registry |-> r.registry, store |-> r.store,
          pending |-> Put(r.pending, f.keyId, f.payload), refused |-> r.refused] \in Reps
  BY <1>2, RepsFields DEF Reps, Replicas
<1> QED BY <1>1, <1>3

(* An id is deleted.                                                       *)
LEMMA DeleteReplica ==
    ASSUME NEW r \in Reps, NEW f \in DownFrames, f.frameType = "ServerKeyDelete"
    PROVE  LET new == ReplicaDelete(r, f)
               b == new.registry.byId
               c == r.registry.byId
           IN  /\ new \in Reps /\ DOMAIN b = DOMAIN c \ {f.keyId}
               /\ \A x \in DOMAIN b : b[x] = c[x]
<1> DEFINE reg == RemoveByKeyId(r.registry, f.keyId)
<1>1. /\ reg \in Registries(KeyIds, WirePaths, DataTypes)
      /\ DOMAIN reg.byId = DOMAIN r.registry.byId \ {f.keyId}
      /\ \A x \in DOMAIN reg.byId : reg.byId[x] = r.registry.byId[x]
  <2>1. CASE HasKeyId(r.registry, f.keyId)
    <3> DEFINE b == Erase(r.registry.byId, f.keyId)
               m == Erase(r.registry.pathToId, r.registry.byId[f.keyId].path)
    <3>1. reg = [byId |-> b, pathToId |-> m]
      BY <2>1 DEF RemoveByKeyId
    <3>2. b \in Maps(KeyIds, KnownAs) /\ m \in Maps(WirePaths, KeyIds)
      BY EraseType, RepsFields
    <3>3. DOMAIN b = DOMAIN r.registry.byId \ {f.keyId}
          /\ \A x \in DOMAIN b : b[x] = r.registry.byId[x]
      BY DEF Erase
    <3> HIDE DEF b, m, reg
    <3> QED BY <3>1, <3>2, <3>3 DEF Registries, KnownAs
  <2>2. CASE ~HasKeyId(r.registry, f.keyId)
    BY <2>2, RepsFields DEF RemoveByKeyId, HasKeyId
  <2> QED BY <2>1, <2>2
<1> HIDE DEF reg
<1>2. ReplicaDelete(r, f) = [registry |-> reg, store |-> Erase(r.store, f.keyId),
                             pending |-> r.pending, refused |-> r.refused]
  <2>1. PICK q : q = [r EXCEPT !.registry = reg]
    OBVIOUS
  <2>2. q = [registry |-> reg, store |-> r.store, pending |-> r.pending, refused |-> r.refused]
    BY <2>1 DEF Reps, Replicas
  <2>3. ReplicaDelete(r, f) = [q EXCEPT !.store = Erase(r.store, f.keyId)]
    BY <2>1 DEF ReplicaDelete, reg
  <2> QED BY <2>2, <2>3
<1>3. Erase(r.store, f.keyId) \in Maps(KeyIds, Values)
  BY EraseType, RepsFields
<1>4. ReplicaDelete(r, f) \in Reps
  BY <1>1, <1>2, <1>3, RepsFields DEF Reps, Replicas
<1>5. ReplicaDelete(r, f).registry = reg
  BY <1>2
<1> QED BY <1>1, <1>4, <1>5

(* A registration adds one name to those of the replica; a deletion none.  *)
LEMMA ReplicaNamesAfter ==
    ASSUME NEW r \in Reps, NEW f \in DownFrames
    PROVE  /\ f.frameType = "ServerKeyRegistration" =>
                 ReplicaNames(ReplicaRegister(r, f)) \subseteq ReplicaNames(r) \cup {<<f.keyId, f.payload>>}
           /\ f.frameType = "ServerValue" => ReplicaNames(ReplicaValue(r, f)) = ReplicaNames(r)
           /\ f.frameType = "ServerKeyDelete" =>
                 ReplicaNames(ReplicaDelete(r, f)) \subseteq ReplicaNames(r)
<1>1. ASSUME f.frameType = "ServerKeyRegistration"
      PROVE  ReplicaNames(ReplicaRegister(r, f)) \subseteq ReplicaNames(r) \cup {<<f.keyId, f.payload>>}
  <2> DEFINE b == ReplicaRegister(r, f).registry.byId
             c == r.registry.byId
  <2>1. ASSUME NEW x \in DOMAIN b
        PROVE  (x \in DOMAIN c /\ b[x].path = c[x].path) \/ (x = f.keyId /\ b[x].path = f.payload)
    BY <1>1, RegisterReplica
  <2> QED BY <2>1 DEF ReplicaNames
<1>2. ASSUME f.frameType = "ServerValue" PROVE ReplicaNames(ReplicaValue(r, f)) = ReplicaNames(r)
  BY <1>2, ValueReplica DEF ReplicaNames
<1>3. ASSUME f.frameType = "ServerKeyDelete"
      PROVE  ReplicaNames(ReplicaDelete(r, f)) \subseteq ReplicaNames(r)
  <2> DEFINE b == ReplicaDelete(r, f).registry.byId
             c == r.registry.byId
  <2>1. DOMAIN b \subseteq DOMAIN c /\ \A x \in DOMAIN b : b[x] = c[x]
    BY <1>3, DeleteReplica
  <2> QED BY <2>1 DEF ReplicaNames
<1> QED BY <1>1, <1>2, <1>3

(* Frames are handled, or lost, and no name is added.                      *)
LEMMA StoresHandled ==
    ASSUME StoresOK, UNCHANGED <<handles, flat, nextKeyId, session>>,
           down' \in Seq(DownFrames), ~live' \/ session \notin {"Bound", "Active"} => down' = << >>,
           NamesNow' \subseteq NamesNow
    PROVE  StoresOK'
<1>1. nextKeyId \in Nat
  BY TopicAssumption DEF StoresOK
<1>2. session \in {"Bound", "Active"} => OneToOne(NamesNow', nextKeyId)
  BY <1>1, NamesOneToOne DEF StoresOK
<1> QED BY <1>2 DEF StoresOK

(* What getTopicInfo adds to the cache.                                    *)
LEMMA CachedType ==
    ASSUME cache \in Caches, NEW id \in KeyIds, NEW p \in WirePaths
    PROVE  /\ Cached(id, p) \in Caches /\ DOMAIN Cached(id, p) = DOMAIN cache \cup {id}
           /\ \A x \in DOMAIN cache : Cached(id, p)[x] = cache[x]
           /\ id \notin DOMAIN cache => Cached(id, p)[id] = TopicInfo(p)
<1>1. Put(cache, id, TopicInfo(p)) \in Caches
  BY PutType DEF Caches
<1>2. /\ DOMAIN Put(cache, id, TopicInfo(p)) = DOMAIN cache \cup {id}
      /\ Put(cache, id, TopicInfo(p))[id] = TopicInfo(p)
      /\ \A x \in DOMAIN cache : x # id => Put(cache, id, TopicInfo(p))[x] = cache[x]
  BY DEF Put
<1> QED BY <1>1, <1>2 DEF Cached

(* A frame for the client is of the session it has.                        *)
LEMMA Received ==
    ASSUME StoresOK, NEW type, Receives(type)
    PROVE  /\ session \in {"Bound", "Active"} /\ live /\ Head(down) \in DownFrames
           /\ Head(down).frameType = type
           /\ down' \in Seq(DownFrames) /\ FrameNames(down') \subseteq FrameNames(down)
           /\ type = "ServerKeyRegistration" =>
                 <<Head(down).keyId, Head(down).payload>> \in FrameNames(down)
           /\ UNCHANGED <<live, handles, flat, nextKeyId, session>>
<1>1. /\ down # << >> /\ Head(down).frameType = type /\ down' = Tail(down)
      /\ UNCHANGED <<live, handles, flat, nextKeyId, session>>
  BY DEF Receives, serverVars
<1>2. down \in Seq(DownFrames) /\ session \in {"Bound", "Active"} /\ live
  BY <1>1 DEF StoresOK
<1> QED BY <1>1, <1>2, NamesHandled

(* A key is registered with the client, under the name it knows it by.     *)
LEMMA RegistrationFollowed ==
    ASSUME StoresOK, ReplicaOK, OnKeyRegistration
    PROVE  StoresOK' /\ ReplicaOK'
<1> DEFINE f == Head(down)
<1>0. Receives("ServerKeyRegistration")
  BY DEF OnKeyRegistration
<1>1. /\ session \in {"Bound", "Active"} /\ live /\ f \in DownFrames
      /\ f.frameType = "ServerKeyRegistration"
      /\ down' \in Seq(DownFrames) /\ FrameNames(down') \subseteq FrameNames(down)
      /\ <<f.keyId, f.payload>> \in FrameNames(down)
      /\ UNCHANGED <<live, handles, flat, nextKeyId, session>>
  BY <1>0, Received
<1>2. /\ replica' = ReplicaRegister(replica, f) /\ stale' = stale
      /\ cache' = IF f.keyId \in DOMAIN replica.pending /\ ~RegisterThrows(replica.registry, f.payload)
                  THEN Cached(f.keyId, f.payload) ELSE cache
  BY DEF OnKeyRegistration
<1> HIDE DEF f
<1>3. f.keyId \in KeyIds /\ f.payload \in WirePaths
  BY <1>1, DownKinds
<1>4. replica \in Reps /\ cache \in Caches /\ (~stale => Follows(cache, replica))
  BY DEF ReplicaOK
<1>5. NamesNow' \subseteq NamesNow
  <2>1. ReplicaNames(replica') \subseteq ReplicaNames(replica) \cup {<<f.keyId, f.payload>>}
    BY <1>1, <1>2, <1>4, ReplicaNamesAfter
  <2>2. ServerNames(handles', flat') = ServerNames(handles, flat)
    BY <1>1
  <2> QED BY <1>1, <1>2, <2>1, <2>2 DEF NamesNow
<1>6. StoresOK'
  BY <1>1, <1>5, StoresHandled
<1> DEFINE b == replica'.registry.byId
           c == replica.registry.byId
<1>7. /\ replica' \in Reps
      /\ RegisterThrows(replica.registry, f.payload) => b = c
      /\ ~RegisterThrows(replica.registry, f.payload) =>
            /\ DOMAIN b = DOMAIN c \cup {f.keyId} /\ b[f.keyId].path = f.payload
            /\ \A x \in DOMAIN c : x # f.keyId => b[x] = c[x]
  BY <1>1, <1>2, <1>4, RegisterReplica
<1>8. cache' \in Caches
  BY <1>2, <1>3, <1>4, CachedType
<1>9. ASSUME ~stale PROVE Follows(cache', replica')
  <2>1. \A x \in DOMAIN cache : x \in DOMAIN c /\ cache[x] = TopicInfo(c[x].path)
    BY <1>4, <1>9 DEF Follows, HasKeyId
  <2>2. f.keyId \in DOMAIN c => c[f.keyId].path = f.payload
    <3>1. OneToOne(NamesNow, nextKeyId)
      BY <1>1 DEF StoresOK
    <3>2. ASSUME f.keyId \in DOMAIN c PROVE <<f.keyId, c[f.keyId].path>> \in NamesNow
      BY <1>9, <3>2 DEF NamesNow, ReplicaNames
    <3>3. <<f.keyId, f.payload>> \in NamesNow
      BY <1>1 DEF NamesNow
    <3>4. \A m, n \in NamesNow : m[1] = n[1] => m[2] = n[2]
      BY <3>1 DEF OneToOne
    <3> QED BY <3>2, <3>3, <3>4
  <2>3. \A x \in DOMAIN c : x \in DOMAIN b /\ b[x].path = c[x].path
    BY <1>7, <2>2
  <2>4. \A x \in DOMAIN cache : x \in DOMAIN b /\ cache[x] = TopicInfo(b[x].path)
    BY <2>1, <2>3
  <2>5. CASE cache' = cache
    BY <2>4, <2>5 DEF Follows, HasKeyId
  <2>6. CASE cache' = Cached(f.keyId, f.payload) /\ ~RegisterThrows(replica.registry, f.payload)
    <3>1. f.keyId \in DOMAIN b /\ b[f.keyId].path = f.payload
      BY <1>7, <2>6
    <3>2. /\ DOMAIN cache' = DOMAIN cache \cup {f.keyId}
          /\ \A x \in DOMAIN cache : cache'[x] = cache[x]
          /\ f.keyId \notin DOMAIN cache => cache'[f.keyId] = TopicInfo(f.payload)
      BY <1>3, <1>4, <2>6, CachedType
    <3> QED BY <2>4, <3>1, <3>2 DEF Follows, HasKeyId
  <2> QED BY <1>2, <2>5, <2>6
<1> QED BY <1>2, <1>6, <1>7, <1>8, <1>9 DEF ReplicaOK

(* A value is stored, or kept until its key is known.                      *)
LEMMA ValueFollowed ==
    ASSUME StoresOK, ReplicaOK, OnValue
    PROVE  StoresOK' /\ ReplicaOK'
<1> DEFINE f == Head(down)
           c == replica.registry.byId
<1>0. Receives("ServerValue")
  BY DEF OnValue
<1>1. /\ live /\ session \in {"Bound", "Active"} /\ f \in DownFrames /\ f.frameType = "ServerValue"
      /\ down' \in Seq(DownFrames) /\ FrameNames(down') \subseteq FrameNames(down)
      /\ UNCHANGED <<live, handles, flat, nextKeyId, session>>
  BY <1>0, Received
<1>2. /\ replica' = ReplicaValue(replica, f) /\ stale' = stale
      /\ cache' = IF f.keyId \in DOMAIN c THEN Cached(f.keyId, c[f.keyId].path) ELSE cache
  BY DEF OnValue, HasKeyId
<1> HIDE DEF f
<1>3. f.keyId \in KeyIds
  BY <1>1, DownKinds
<1>4. replica \in Reps /\ cache \in Caches /\ (~stale => Follows(cache, replica))
  BY DEF ReplicaOK
<1>5. replica' \in Reps /\ replica'.registry = replica.registry
  BY <1>1, <1>2, <1>4, ValueReplica
<1>6. NamesNow' \subseteq NamesNow
  <2>1. ReplicaNames(replica') = ReplicaNames(replica)
    BY <1>5 DEF ReplicaNames
  <2>2. ServerNames(handles', flat') = ServerNames(handles, flat)
    BY <1>1
  <2> QED BY <1>1, <1>2, <2>1, <2>2 DEF NamesNow
<1>7. StoresOK'
  BY <1>1, <1>6, StoresHandled
<1>8. f.keyId \in DOMAIN c => c[f.keyId].path \in WirePaths
  <2>1. c \in Maps(KeyIds, KnownAs)
    BY <1>4, RepsFields
  <2>2. f.keyId \in DOMAIN c => c[f.keyId] \in KnownAs
    BY <2>1, MapApply
  <2> QED BY <2>2 DEF KnownAs
<1>9. cache' \in Caches
  BY <1>2, <1>3, <1>4, <1>8, CachedType
<1>10. ASSUME ~stale PROVE Follows(cache', replica')
  <2>1. \A x \in DOMAIN cache : x \in DOMAIN c /\ cache[x] = TopicInfo(c[x].path)
    BY <1>4, <1>10 DEF Follows, HasKeyId
  <2>2. \A x \in DOMAIN cache' : x \in DOMAIN c /\ cache'[x] = TopicInfo(c[x].path)
    <3>1. CASE f.keyId \in DOMAIN c
      <4>1. /\ DOMAIN cache' = DOMAIN cache \cup {f.keyId}
            /\ \A x \in DOMAIN cache : cache'[x] = cache[x]
            /\ f.keyId \notin DOMAIN cache => cache'[f.keyId] = TopicInfo(c[f.keyId].path)
        BY <1>2, <1>3, <1>4, <1>8, <3>1, CachedType
      <4> QED BY <2>1, <3>1, <4>1
    <3>2. CASE f.keyId \notin DOMAIN c
      BY <1>2, <2>1, <3>2
    <3> QED BY <3>1, <3>2
  <2> QED BY <1>5, <2>2 DEF Follows, HasKeyId
<1> QED BY <1>2, <1>5, <1>7, <1>9, <1>10 DEF ReplicaOK

(* A key is deleted, with what is remembered of it.                        *)
LEMMA DeletionFollowed ==
    ASSUME StoresOK, ReplicaOK, OnKeyDelete
    PROVE  StoresOK' /\ ReplicaOK'
<1> DEFINE f == Head(down)
           b == replica'.registry.byId
           c == replica.registry.byId
<1>0. Receives("ServerKeyDelete")
  BY DEF OnKeyDelete
<1>1. /\ live /\ session \in {"Bound", "Active"} /\ f \in DownFrames
      /\ f.frameType = "ServerKeyDelete"
      /\ down' \in Seq(DownFrames) /\ FrameNames(down') \subseteq FrameNames(down)
      /\ UNCHANGED <<live, handles, flat, nextKeyId, session>>
  BY <1>0, Received
<1>2. replica' = ReplicaDelete(replica, f) /\ stale' = stale /\ cache' = Erase(cache, f.keyId)
  BY DEF OnKeyDelete
<1> HIDE DEF f
<1>4. replica \in Reps /\ cache \in Caches /\ (~stale => Follows(cache, replica))
  BY DEF ReplicaOK
<1>5. replica' \in Reps /\ DOMAIN b = DOMAIN c \ {f.keyId} /\ \A x \in DOMAIN b : b[x] = c[x]
  BY <1>1, <1>2, <1>4, DeleteReplica
<1>6. NamesNow' \subseteq NamesNow
  <2>1. ReplicaNames(replica') \subseteq ReplicaNames(replica)
    BY <1>1, <1>2, <1>4, ReplicaNamesAfter
  <2>2. ServerNames(handles', flat') = ServerNames(handles, flat)
    BY <1>1
  <2> QED BY <1>1, <1>2, <2>1, <2>2 DEF NamesNow
<1>7. StoresOK'
  BY <1>1, <1>6, StoresHandled
<1>8. cache' \in Caches
  BY <1>2, <1>4, EraseType DEF Caches
<1>9. DOMAIN cache' = DOMAIN cache \ {f.keyId} /\ \A x \in DOMAIN cache' : cache'[x] = cache[x]
  BY <1>2 DEF Erase
<1>10. ASSUME ~stale PROVE Follows(cache', replica')
  <2>1. \A x \in DOMAIN cache : x \in DOMAIN c /\ cache[x] = TopicInfo(c[x].path)
    BY <1>4, <1>10 DEF Follows, HasKeyId
  <2> QED BY <1>5, <1>9, <2>1 DEF Follows, HasKeyId
<1> QED BY <1>2, <1>5, <1>7, <1>8, <1>10 DEF ReplicaOK

(* Every step of the client keeps the ids, and its cache with its replica. *)
LEMMA ClientStoresStep ==
    ASSUME StoresOK, ReplicaOK, ClientMoves
    PROVE  StoresOK' /\ ReplicaOK'
<1> USE DEF serverVars, replicaVars
<1>1. ASSUME UNCHANGED <<replica, cache, stale, handles, flat, nextKeyId, session, down>>,
             live' = live \/ down = << >>
      PROVE  StoresOK' /\ ReplicaOK'
  <2>1. NamesNow' = NamesNow
    BY <1>1 DEF NamesNow
  <2>2. down' \in Seq(DownFrames) /\ (~live' \/ session \notin {"Bound", "Active"} => down' = << >>)
    BY <1>1 DEF StoresOK
  <2>3. StoresOK'
    BY <1>1, <2>1, <2>2, StoresHandled
  <2> QED BY <1>1, <2>3 DEF ReplicaOK
<1>2. ASSUME NEW type, Receives(type), UNCHANGED <<replica, cache, stale>>
      PROVE  StoresOK' /\ ReplicaOK'
  <2>1. /\ session \in {"Bound", "Active"} /\ live
        /\ down' \in Seq(DownFrames) /\ FrameNames(down') \subseteq FrameNames(down)
        /\ UNCHANGED <<live, handles, flat, nextKeyId, session>>
    BY <1>2, Received
  <2>2. NamesNow' \subseteq NamesNow
    BY <1>2, <2>1 DEF NamesNow
  <2>3. StoresOK'
    BY <2>1, <2>2, StoresHandled
  <2> QED BY <1>2, <2>3 DEF ReplicaOK
<1>3. ASSUME NEW t \in Topics,
             (\E p \in ParamsOf[t] : Subscribe(t, p)) \/ Unsubscribe(t) \/ OpenHandle(t)
      PROVE  StoresOK' /\ ReplicaOK'
  BY <1>1, <1>3 DEF Subscribe, Unsubscribe, OpenHandle, SubscriptionsChange, ClientCall
<1>4. CASE Authorize \/ Connect
  BY <1>1, <1>4 DEF Authorize, Connect, ClientCall
<1>5. CASE HandleOpen
  <2>1. /\ session = "None"
        /\ UNCHANGED <<replica, cache, stale, handles, flat, nextKeyId, session, down>>
    BY <1>5 DEF HandleOpen
  <2>2. down = << >>
    BY <2>1 DEF StoresOK
  <2> QED BY <1>1, <2>1, <2>2
<1>6. CASE HandleClose
  <2>1. UNCHANGED <<replica, cache, stale, handles, flat, nextKeyId, session>> /\ down' = << >>
    BY <1>6 DEF HandleClose
  <2>2. FrameNames(<< >>) = {}
    BY DEF FrameNames
  <2>3. NamesNow' \subseteq NamesNow
    BY <2>1, <2>2 DEF NamesNow
  <2>4. down' \in Seq(DownFrames)
    BY <2>1, EmptySeq
  <2>5. StoresOK'
    BY <2>1, <2>3, <2>4, StoresHandled
  <2> QED BY <2>1, <2>5 DEF ReplicaOK
<1>7. CASE OnAuthOk
  BY <1>2, <1>7 DEF OnAuthOk
<1>8. CASE OnSync
  BY <1>2, <1>8 DEF OnSync
<1>9. CASE OnReset
  <2>1. /\ Receives("ServerReset") /\ replica' = EmptyReplica /\ cache' = EmptyMap /\ ~stale'
    BY <1>9 DEF OnReset
  <2>2. /\ session \in {"Bound", "Active"} /\ live
        /\ down' \in Seq(DownFrames) /\ FrameNames(down') \subseteq FrameNames(down)
        /\ UNCHANGED <<live, handles, flat, nextKeyId, session>>
    BY <2>1, Received
  <2>3. ReplicaNames(replica') = {}
    BY <2>1, EmptyReplicaType
  <2>4. ServerNames(handles', flat') = ServerNames(handles, flat)
    BY <2>2
  <2>5. NamesNow' \subseteq NamesNow
    BY <2>1, <2>2, <2>3, <2>4 DEF NamesNow
  <2>6. StoresOK'
    BY <2>2, <2>5, StoresHandled
  <2> QED BY <2>1, <2>6, EmptyReplicaType DEF ReplicaOK
<1> QED BY <1>3, <1>4, <1>5, <1>6, <1>7, <1>8, <1>9, RegistrationFollowed, ValueFollowed,
           DeletionFollowed DEF ClientMoves, ClientStep

(* The server does not change them, but a new session may make them stale. *)
LEMMA ServerReplicaStep ==
    ASSUME ReplicaOK, ServerMoves
    PROVE  ReplicaOK'
<1> USE DEF serverVars, replicaVars
<1>1. ASSUME UNCHANGED <<replica, cache>>, stale => stale'
      PROVE  ReplicaOK'
  BY <1>1 DEF ReplicaOK
<1>2. ASSUME NEW q, Activate(q) PROVE ReplicaOK'
  BY <1>1, <1>2 DEF Activate
<1>3. CASE HandleIdentify
  BY <1>1, <1>2, <1>3 DEF HandleIdentify
<1>4. CASE AppAuthorize
  BY <1>2, <1>4 DEF AppAuthorize
<1>5. ASSUME UNCHANGED replicaVars PROVE ReplicaOK'
  BY <1>1, <1>5
<1>6. CASE SessionDisconnect
  BY <1>5, <1>6 DEF SessionDisconnect
<1>7. CASE FinishActivation \/ HandleAuth \/ DropTopicFrame \/ HandleReset \/ HandleKeyRegistration
  BY <1>5, <1>7 DEF FinishActivation, HandleAuth, DropTopicFrame, HandleReset, HandleKeyRegistration
<1>8. CASE HandleValue \/ HandleTopicSync \/ HandleClientReady \/ HandleKeyRequest
  BY <1>5, <1>8 DEF HandleValue, HandleTopicSync, HandleClientReady, HandleKeyRequest
<1>9. AppCall => ReplicaOK'
  BY <1>5 DEF AppCall
<1>10. ASSUME NEW t, TaskEnds(t) PROVE ReplicaOK'
  BY <1>5, <1>10 DEF TaskEnds
<1>11. CASE AppStep
  BY <1>4, <1>9, <1>10, <1>11 DEF AppStep, SessionSet, SessionClearKey, SessionClear, PayloadSet,
         PayloadClearKey, PayloadClear, AppSetTask, AppClearTask, TaskCallsOff
<1> QED BY <1>3, <1>6, <1>7, <1>8, <1>11 DEF ServerMoves, SessionStep

-----------------------------------------------------------------------------
(* The client's state, and the values and tasks of the session.            *)

Quiet == {"Disconnected", "Connecting", "Reconnecting"}
ConnOK ==
    clientState \in ClientStates /\ live \in BOOLEAN /\ (live => clientState \notin Quiet)
ValuesOK == clientValues \in ValueMaps
TasksOK == tasks \in [Topics -> Tasks] /\ TasksHaveTopics

(* The client's state changes with its connection.                         *)
LEMMA ClientConnStep ==
    ASSUME StoresOK, ConnOK, ClientMoves
    PROVE  ConnOK'
<1>1. ASSUME UNCHANGED <<clientState, live>> PROVE ConnOK'
  BY <1>1 DEF ConnOK
<1>2. ASSUME live, live' = live, clientState' \in ClientStates \ Quiet PROVE ConnOK'
  BY <1>2 DEF ConnOK
<1>3. ASSUME ~live', clientState' \in ClientStates, live' \in BOOLEAN PROVE ConnOK'
  BY <1>3 DEF ConnOK
<1>4. ASSUME NEW t \in Topics,
             (\E p \in ParamsOf[t] : Subscribe(t, p)) \/ Unsubscribe(t) \/ OpenHandle(t)
      PROVE  ConnOK'
  BY <1>1, <1>4 DEF Subscribe, Unsubscribe, OpenHandle, SubscriptionsChange, ClientCall
<1>5. {"Identifying", "Authorizing", "Synchronizing", "Ready"} = ClientStates \ Quiet
  BY DEF ClientStates, Quiet
<1>6. CASE Authorize
  BY <1>2, <1>5, <1>6 DEF Authorize, ClientCall
<1>7. CASE Connect
  <2>1. ~live /\ live' = live /\ clientState' = "Connecting" /\ live \in BOOLEAN
    BY <1>7 DEF Connect, ConnOK, Quiet
  <2> QED BY <1>3, <2>1 DEF ClientStates
<1>8. CASE HandleOpen
  <2>1. clientState' = "Identifying" /\ live' = TRUE
    BY <1>8 DEF HandleOpen
  <2> QED BY <1>5, <2>1 DEF ConnOK
<1>9. CASE HandleClose
  <2>1. clientState' = "Reconnecting" /\ live' = FALSE
    BY <1>9 DEF HandleClose
  <2> QED BY <1>3, <2>1 DEF ClientStates
<1>10. \A type : Receives(type) => live /\ live' = live
  BY Received
<1>11. live => clientState \in ClientStates \ Quiet
  BY DEF ConnOK
<1>12. live => Started(clientState) \in ClientStates \ Quiet
  BY <1>5, <1>11 DEF Started
<1>13. CASE OnAuthOk \/ OnReset
  <2>1. live /\ live' = live /\ clientState' = "Synchronizing"
    BY <1>10, <1>13 DEF OnAuthOk, OnReset
  <2> QED BY <1>2, <1>5, <2>1
<1>14. CASE OnKeyRegistration
  <2>1. live /\ live' = live /\ clientState' = Started(clientState)
    BY <1>10, <1>14 DEF OnKeyRegistration
  <2> QED BY <1>2, <1>12, <2>1
<1>15. CASE OnSync
  <2>1. live /\ live' = live /\ clientState' \in {"Ready", Started(clientState)}
    BY <1>10, <1>15 DEF OnSync, BecomesReady
  <2> QED BY <1>2, <1>5, <1>12, <2>1
<1>16. CASE OnValue
  <2>1. live /\ live' = live /\ clientState' \in {"Ready", clientState}
    BY <1>10, <1>16 DEF OnValue, BecomesReady
  <2> QED BY <1>2, <1>5, <1>11, <2>1
<1>17. CASE OnKeyDelete
  <2>1. live' = live /\ clientState' = clientState
    BY <1>10, <1>17 DEF OnKeyDelete
  <2> QED BY <1>1, <2>1
<1> QED BY <1>4, <1>6, <1>7, <1>8, <1>9, <1>13, <1>14, <1>15, <1>16, <1>17
      DEF ClientMoves, ClientStep

(* What a step of the client leaves to the server, and of the server to    *)
(* the client.                                                             *)
LEMMA StepsApart ==
    /\ ClientMoves => UNCHANGED serverVars
    /\ ServerMoves => UNCHANGED <<clientState, live>>
<1>1. ASSUME NEW t \in Topics,
             (\E p \in ParamsOf[t] : Subscribe(t, p)) \/ Unsubscribe(t) \/ OpenHandle(t)
      PROVE  UNCHANGED serverVars
  BY <1>1 DEF Subscribe, Unsubscribe, OpenHandle, SubscriptionsChange, ClientCall
<1>2. Authorize \/ Connect \/ HandleOpen \/ HandleClose => UNCHANGED serverVars
  BY DEF Authorize, Connect, HandleOpen, HandleClose, ClientCall
<1>3. \A type : Receives(type) => UNCHANGED serverVars
  BY DEF Receives
<1>4. ClientStep => UNCHANGED serverVars
  BY <1>3 DEF ClientStep, OnAuthOk, OnKeyRegistration, OnSync, OnValue, OnKeyDelete, OnReset
<1>5. \A type : Accepts(type) => UNCHANGED <<clientState, live>>
  BY DEF Accepts
<1>6. SessionStep => UNCHANGED <<clientState, live>>
  BY <1>5 DEF SessionStep, HandleIdentify, FinishActivation, HandleAuth, DropTopicFrame, HandleReset,
         HandleKeyRegistration, HandleValue, HandleTopicSync, HandleClientReady, HandleKeyRequest
<1>7. AppCall => UNCHANGED <<clientState, live>>
  BY DEF AppCall
<1>8. AppStep => UNCHANGED <<clientState, live>>
  BY <1>7 DEF AppStep, AppAuthorize, SessionSet, SessionClearKey, SessionClear, PayloadSet,
         PayloadClearKey, PayloadClear, AppSetTask, AppClearTask, TaskCallsOff, TaskEnds
<1>9. SessionDisconnect => UNCHANGED <<clientState, live>>
  BY DEF SessionDisconnect
<1> QED BY <1>1, <1>2, <1>4, <1>6, <1>8, <1>9 DEF ClientMoves, ServerMoves

(* The values of the session are topics and parameters.                    *)
LEMMA ServerValuesStep ==
    ASSUME SyncOK, ValuesOK, ServerMoves
    PROVE  ValuesOK'
<1> USE DEF serverVars
<1>1. ASSUME UNCHANGED clientValues PROVE ValuesOK'
  BY <1>1 DEF ValuesOK
<1>2. ASSUME clientValues' = EmptyMap PROVE ValuesOK'
  BY <1>2, EmptyType DEF ValuesOK, ValueMaps
<1>3. CASE SessionDisconnect \/ HandleReset
  BY <1>2, <1>3 DEF SessionDisconnect, HandleReset
<1>4. CASE HandleValue
  <2> DEFINE f == Head(up)
  <2>1. /\ UNCHANGED <<subs, indexMap, handleIndex>> /\ up # << >> /\ up' = Tail(up)
        /\ f.frameType = "ClientValue" /\ clientValues' = Put(clientValues, f.keyId, f.payload)
    BY <1>4 DEF HandleValue, Accepts, topicsVars
  <2>2. f \in UpFrames
    BY <2>1, SyncTaken
  <2> HIDE DEF f
  <2>3. f.keyId \in PeerIds /\ f.payload \in Topics \cup Params
    BY <2>1, <2>2, UpFrameFields
  <2> QED BY <2>1, <2>3, PutType DEF ValuesOK, ValueMaps
<1>5. CASE \/ HandleIdentify \/ FinishActivation \/ HandleAuth \/ DropTopicFrame
           \/ HandleKeyRegistration \/ HandleTopicSync \/ HandleClientReady \/ HandleKeyRequest
  BY <1>1, <1>5 DEF HandleIdentify, FinishActivation, HandleAuth, DropTopicFrame,
         HandleKeyRegistration, HandleTopicSync, HandleClientReady, HandleKeyRequest
<1>6. AppCall => UNCHANGED clientValues
  BY DEF AppCall
<1>7. CASE AppStep
  BY <1>1, <1>6, <1>7 DEF AppStep, AppAuthorize, SessionSet, SessionClearKey, SessionClear,
         PayloadSet, PayloadClearKey, PayloadClear, AppSetTask, AppClearTask, TaskCallsOff, TaskEnds
<1> QED BY <1>3, <1>4, <1>5, <1>7 DEF ServerMoves, SessionStep

(* What the operations make of a task that can be joined.                  *)
LEMMA TaskOperations ==
    ASSUME NEW k \in Tasks, k.thread # "none" => k.running
    PROVE  /\ Dispose(k) = NoTask /\ NoTask \in Tasks /\ NoTask.thread = "none"
           /\ ClearDelayedTask(k) \in Tasks /\ ClearDelayedTask(k).thread = "none"
           /\ SetDelayedTask(k) \in Tasks /\ SetDelayedTask(k).running
           /\ k.thread # "none" =>
                 /\ CallsOff(k) \in Tasks /\ CallsOff(k).running
                 /\ LoopEnds(k) \in Tasks /\ LoopEnds(k).running
<1>1. ClearDelayedTask(k) \in Tasks /\ ClearDelayedTask(k).thread = "none"
  BY DEF ClearDelayedTask, Tasks
<1>2. Dispose(k) = NoTask
  BY <1>1 DEF Dispose
<1>3. NoTask \in Tasks /\ NoTask.thread = "none" /\ SetDelayedTask(k) \in Tasks /\ SetDelayedTask(k).running
  BY DEF NoTask, SetDelayedTask, Tasks
<1>4. /\ CallsOff(k) \in Tasks /\ CallsOff(k).running = k.running
      /\ LoopEnds(k) \in Tasks /\ LoopEnds(k).running = k.running
  BY DEF CallsOff, LoopEnds, Tasks
<1> QED BY <1>1, <1>2, <1>3, <1>4

(* Every task that may run is of a topic the session keeps.                *)
LEMMA ServerTasksStep ==
    ASSUME SyncOK, StoresOK, TasksOK, ServerMoves
    PROVE  TasksOK'
<1> USE DEF serverVars
<1>0. /\ tasks \in [Topics -> Tasks]
      /\ \A t \in Topics : tasks[t] \in Tasks /\ (tasks[t].thread # "none" =>
            tasks[t].running /\ t \in DOMAIN handles)
  BY DEF TasksOK, TasksHaveTopics
<1>1. ASSUME UNCHANGED tasks, DOMAIN handles' = DOMAIN handles PROVE TasksOK'
  BY <1>1 DEF TasksOK, TasksHaveTopics
<1>2. ASSUME NEW t \in Topics, NEW k \in Tasks, k.thread # "none" => k.running /\ t \in DOMAIN handles,
             tasks' = [tasks EXCEPT ![t] = k], UNCHANGED handles
      PROVE  TasksOK'
  <2>1. tasks' \in [Topics -> Tasks]
    BY <1>0, <1>2
  <2>2. \A x \in Topics : tasks'[x] = IF x = t THEN k ELSE tasks[x]
    BY <1>0, <1>2
  <2> QED BY <1>0, <1>2, <2>1, <2>2 DEF TasksOK, TasksHaveTopics
<1>3. CASE SessionDisconnect
  <2>1. tasks' = [t \in Topics |-> Dispose(tasks[t])]
    BY <1>3 DEF SessionDisconnect, DisposeAll
  <2>2. \A t \in Topics : tasks'[t] = NoTask
    BY <1>0, <2>1, TaskOperations
  <2>3. tasks' = [t \in Topics |-> NoTask] /\ NoTask \in Tasks /\ NoTask.thread = "none"
    BY <2>1, <2>2, TaskOperations DEF NoTask, Tasks
  <2> QED BY <2>3 DEF TasksOK, TasksHaveTopics
<1>4. CASE HandleTopicSync
  <2>1. PICK lost : handles' = HandlesAfter(lost)
    BY <1>4 DEF HandleTopicSync
  <2>2. tasks' = [t \in Topics |-> IF t \in DOMAIN handles \ NewTopics
                                   THEN Dispose(tasks[t]) ELSE tasks[t]]
    BY <1>4 DEF HandleTopicSync
  <2>3. DOMAIN handles' = NewTopics
    BY <2>1 DEF HandlesAfter
  <2>4. \A t \in Topics : \/ tasks'[t] = NoTask
                          \/ tasks'[t] = tasks[t] /\ t \notin DOMAIN handles \ NewTopics
    BY <1>0, <2>2, TaskOperations
  <2>5. NoTask \in Tasks /\ NoTask.thread = "none"
    BY DEF NoTask, Tasks
  <2>6. \A t \in Topics : /\ tasks'[t] \in Tasks
                          /\ tasks'[t].thread # "none" => tasks'[t].running /\ t \in NewTopics
    BY <1>0, <2>4, <2>5
  <2>7. tasks' \in [Topics -> Tasks]
    BY <2>2, <2>6
  <2> QED BY <2>3, <2>6, <2>7 DEF TasksOK, TasksHaveTopics
<1>5. CASE \/ HandleIdentify \/ FinishActivation \/ HandleAuth \/ DropTopicFrame \/ HandleReset
           \/ HandleKeyRegistration \/ HandleValue \/ HandleClientReady \/ HandleKeyRequest
  BY <1>1, <1>5 DEF HandleIdentify, FinishActivation, HandleAuth, DropTopicFrame, HandleReset,
         HandleKeyRegistration, HandleValue, HandleClientReady, HandleKeyRequest
<1>6. CASE AppAuthorize
  BY <1>1, <1>6 DEF AppAuthorize
<1>7. ASSUME NEW t \in Topics,
             \/ \E k \in Keys, v \in Values : PayloadSet(t, k, v)
             \/ \E k \in Keys : PayloadClearKey(t, k)
             \/ PayloadClear(t)
      PROVE  TasksOK'
  <2>1. UNCHANGED tasks
    BY <1>7 DEF PayloadSet, PayloadClearKey, PayloadClear
  <2>2. DOMAIN handles' = DOMAIN handles
    BY <1>7 DEF PayloadSet, PayloadClearKey, PayloadClear
  <2> QED BY <1>1, <2>1, <2>2
<1>8. CASE \/ \E k \in Keys, v \in Values : SessionSet(k, v)
           \/ \E k \in Keys : SessionClearKey(k)
           \/ SessionClear
  BY <1>1, <1>8 DEF SessionSet, SessionClearKey, SessionClear
<1>9. ASSUME NEW t \in Topics, AppSetTask(t) \/ AppClearTask(t) \/ TaskCallsOff(t) \/ TaskEnds(t)
      PROVE  TasksOK'
  <2>0. UNCHANGED handles
    BY <1>9 DEF AppSetTask, AppClearTask, TaskCallsOff, TaskEnds
  <2>1. CASE AppSetTask(t)
    <3>1. tasks' = [tasks EXCEPT ![t] = SetDelayedTask(tasks[t])] /\ t \in DOMAIN handles
      BY <2>1 DEF AppSetTask
    <3> QED BY <1>0, <1>2, <2>0, <3>1, TaskOperations
  <2>2. CASE AppClearTask(t)
    <3>1. tasks' = [tasks EXCEPT ![t] = ClearDelayedTask(tasks[t])]
      BY <2>2 DEF AppClearTask
    <3> QED BY <1>0, <1>2, <2>0, <3>1, TaskOperations
  <2>3. CASE TaskCallsOff(t)
    <3>1. tasks' = [tasks EXCEPT ![t] = CallsOff(tasks[t])] /\ tasks[t].thread # "none"
      BY <2>3 DEF TaskCallsOff
    <3> QED BY <1>0, <1>2, <2>0, <3>1, TaskOperations
  <2>4. CASE TaskEnds(t)
    <3>1. tasks' = [tasks EXCEPT ![t] = LoopEnds(tasks[t])] /\ tasks[t].thread # "none"
      BY <2>4 DEF TaskEnds
    <3> QED BY <1>0, <1>2, <2>0, <3>1, TaskOperations
  <2> QED BY <1>9, <2>1, <2>2, <2>3, <2>4
<1>10. CASE AppStep
  BY <1>6, <1>7, <1>8, <1>9, <1>10 DEF AppStep
<1> QED BY <1>3, <1>4, <1>5, <1>10 DEF ServerMoves, SessionStep

-----------------------------------------------------------------------------
(* The parts together.                                                     *)

TopicParts == SyncOK /\ StoresOK /\ ReplicaOK /\ ConnOK /\ ValuesOK /\ TasksOK

(* The parts are the invariant that TLC checks.                            *)
LEMMA PartsAreInv == TopicInv <=> TopicParts
<1>1. ConnOK <=>
        /\ clientState \in ClientStates /\ live \in BOOLEAN
        /\ live => clientState \in ClientStates \ {"Disconnected", "Connecting", "Reconnecting"}
  BY DEF ConnOK, Quiet
<1>2. ReplicaOK /\ Agree(indexMap, handleIndex) <=>
        replica \in Reps /\ cache \in Caches /\ NotifiedTopicReads
  BY DEF ReplicaOK, NotifiedTopicReads, Follows, Agree
<1>3. HandlesOK(handles) <=>
        /\ DOMAIN handles \subseteq Topics
        /\ \A t \in DOMAIN handles : handles[t] \in HandleSet
        /\ \A t \in DOMAIN handles : Indexed(handles[t].flat)
        /\ ParamsNeverMixed
  BY DEF HandlesOK, ParamsNeverMixed
<1>4. subs \in Subscriptions => subs \in Maps(Topics, Params)
  BY DEF Subscriptions
<1>5. SyncOK <=>
        /\ subs \in Maps(Topics, Params) /\ SyncsInOrder
        /\ indexMap \in Maps(Topics, Indices) /\ handleIndex \in HandleMaps
        /\ Agree(indexMap, handleIndex)
        /\ up \in Seq(UpFrames)
        /\ \A i \in DOMAIN up : up[i].frameType = "Identify" => i = 1 /\ session = "None"
        /\ session # "Active" => registry = EmptyRegistry /\ clientValues = EmptyMap
        /\ RegistryTypeOK
  BY <1>4 DEF SyncOK, TopicsOK, Told, Untold, SyncsInOrder, UpOK, Syncs, IdentifyFirst
<1>6. session \in SessionStates =>
        (session \notin {"Bound", "Active"} <=> session \in {"None", "Waiting", "Asked"})
  BY DEF SessionStates
<1>7. StoresOK <=>
        /\ HandlesOK(handles) /\ flat \in Stores /\ nextKeyId \in 1 .. MaxKeyId + 1
        /\ session \in SessionStates
        /\ session \in {"None", "Waiting", "Asked"} => handles = EmptyMap
        /\ session \notin {"Bound", "Active"} => flat = EmptyFlat
        /\ down \in Seq(DownFrames) /\ (~live \/ session \notin {"Bound", "Active"} => down = << >>)
        /\ Indexed(flat)
        /\ session \in {"Bound", "Active"} => OneToOne(NamesNow, nextKeyId)
  BY <1>6 DEF StoresOK
<1> QED BY <1>1, <1>2, <1>3, <1>5, <1>7
      DEF TopicInv, TopicParts, TopicTypeOK, ChannelsOK, IdsKeepPaths, NamesNow, ValuesOK, TasksOK

(* A client that has just been made, and a server without a session.       *)
LEMMA PartsInit == TopicInit => TopicParts
<1> SUFFICES ASSUME TopicInit PROVE TopicParts
  OBVIOUS
<1>1. /\ clientState = "Disconnected" /\ live = FALSE
      /\ subs \in Maps(Topics, Params) /\ (\A t \in DOMAIN subs : subs[t] \in ParamsOf[t])
      /\ indexMap = EmptyMap /\ handleIndex = EmptyMap /\ replica = EmptyReplica /\ cache = EmptyMap
      /\ up = << >> /\ down = << >> /\ session = "None" /\ registry = EmptyRegistry
      /\ clientValues = EmptyMap /\ handles = EmptyMap /\ tasks = [t \in Topics |-> NoTask]
      /\ flat = EmptyFlat /\ nextKeyId = 1 /\ stale = FALSE
  BY DEF TopicInit, RegistryInit
<1>2. DOMAIN EmptyMap = {}
  BY DEF EmptyMap
<1>3. Syncs(<< >>) /\ Loose(<< >>) /\ << >> \in Seq(UpFrames)
  BY LooseFrames
<1>4. UpOK(up, session)
  BY <1>1, <1>3 DEF UpOK, IdentifyFirst
<1>5. subs \in Subscriptions
  BY <1>1 DEF Subscriptions
<1>6. /\ indexMap \in Maps(Topics, Indices) /\ handleIndex \in HandleMaps
      /\ clientValues \in Maps(PeerIds, Topics \cup Params)
  BY <1>1, EmptyType DEF HandleMaps
<1>7. Agree(indexMap, handleIndex)
  BY <1>1, <1>2 DEF Agree
<1>8. Told
  BY <1>1, <1>3, NothingTold DEF Told, Loose
<1>9. SyncOK
  BY <1>1, <1>4, <1>5, <1>6, <1>7, <1>8, NothingTold DEF SyncOK, TopicsOK, Untold, RegistryTypeOK
<1>10. HandlesOK(EmptyMap)
  BY <1>2 DEF HandlesOK
<1>11. 1 \in 1 .. MaxKeyId + 1
  BY TopicAssumption
<1>12. << >> \in Seq(DownFrames)
  BY EmptySeq
<1>13. StoresOK
  BY <1>1, <1>10, <1>11, <1>12, EmptyStore DEF StoresOK, SessionStates
<1>14. ReplicaOK
  BY <1>1, EmptyReplicaType DEF ReplicaOK
<1>15. NoTask \in Tasks /\ NoTask.thread = "none"
  BY DEF NoTask, Tasks
<1>16. TasksOK
  BY <1>1, <1>15 DEF TasksOK, TasksHaveTopics
<1>17. ConnOK /\ ValuesOK
  BY <1>1, <1>6 DEF ConnOK, ValuesOK, ValueMaps, ClientStates, Quiet
<1> QED BY <1>9, <1>13, <1>14, <1>16, <1>17 DEF TopicParts

(* Every step keeps the parts, and is one of a disciplined peer for the    *)
(* session's clientRegistry.                                               *)
LEMMA PartsStep == TopicParts /\ [TopicNext]_vars => TopicParts' /\ [DisciplinedNext]_registry
<1> SUFFICES ASSUME TopicParts, [TopicNext]_vars
             PROVE  TopicParts' /\ [DisciplinedNext]_registry
  OBVIOUS
<1>0. SyncOK /\ StoresOK /\ ReplicaOK /\ ConnOK /\ ValuesOK /\ TasksOK
  BY DEF TopicParts
<1>1. CASE ClientMoves
  <2>1. UNCHANGED serverVars
    BY <1>1, StepsApart
  <2>2. StoresOK' /\ ReplicaOK' /\ ConnOK'
    BY <1>0, <1>1, ClientStoresStep, ClientConnStep
  <2>3. TopicsOK' /\ SyncsGoOn
    BY <1>0, <1>1, ClientTopicsStep DEF SyncOK, StoresOK
  <2>4. SyncOK'
    <3>1. Told'
      BY <1>0, <2>1, <2>3 DEF SyncOK, Told, SyncsGoOn, serverVars
    <3>2. Untold' /\ RegistryTypeOK'
      BY <1>0, <2>1 DEF SyncOK, Untold, RegistryTypeOK, serverVars
    <3> QED BY <2>3, <3>1, <3>2 DEF SyncOK
  <2>5. ValuesOK' /\ TasksOK'
    BY <1>0, <2>1 DEF ValuesOK, TasksOK, TasksHaveTopics, serverVars
  <2> QED BY <2>1, <2>2, <2>4, <2>5 DEF TopicParts, serverVars
<1>2. CASE ServerMoves
  <2>1. SyncOK' /\ [DisciplinedNext]_registry
    BY <1>0, <1>2, ServerTopicsStep
  <2>2. StoresOK' /\ ReplicaOK' /\ ValuesOK' /\ TasksOK'
    BY <1>0, <1>2, ServerStoresStep, ServerReplicaStep, ServerValuesStep, ServerTasksStep
  <2>3. ConnOK'
    BY <1>0, <1>2, StepsApart DEF ConnOK
  <2> QED BY <2>1, <2>2, <2>3 DEF TopicParts
<1>3. CASE UNCHANGED vars
  <2>1. UNCHANGED <<clientState, live, subs, indexMap, handleIndex, replica, cache, stale, up, down,
                    session, registry, clientValues, handles, tasks, flat, nextKeyId>>
    BY <1>3 DEF vars, topicsVars, replicaVars, serverVars
  <2>2. TopicsOK' /\ Told' /\ Untold' /\ RegistryTypeOK'
    BY <1>0, <2>1 DEF SyncOK, TopicsOK, Told, Untold, RegistryTypeOK
  <2>3. StoresOK' /\ ReplicaOK'
    BY <1>0, <2>1 DEF StoresOK, NamesNow, ReplicaOK
  <2>4. ConnOK' /\ ValuesOK' /\ TasksOK'
    BY <1>0, <2>1 DEF ConnOK, ValuesOK, TasksOK, TasksHaveTopics
  <2> QED BY <2>1, <2>2, <2>3, <2>4 DEF TopicParts, SyncOK
<1>4. TopicNext => ClientMoves \/ ServerMoves
  BY DEF TopicNext, ClientMoves, ServerMoves
<1> QED BY <1>1, <1>2, <1>3, <1>4

(* The inductive invariant: what is on its way up is whole topic syncs one *)
(* after the other, what the session was told is of one of them, and every *)
(* id that is in a store, on its way down or in the replica has one path.  *)
THEOREM TopicInvariant == TopicSpec => []TopicInv
<1>1. TopicParts /\ [TopicNext]_vars => TopicParts'
  BY PartsStep
<1>2. TopicSpec => []TopicParts
  BY <1>1, PartsInit, PTL DEF TopicSpec
<1>3. TopicParts => TopicInv
  BY PartsAreInv
<1> QED BY <1>2, <1>3, PTL

(* The members of the client, the session and its clientRegistry keep      *)
(* their types, and a session without onConnection_ has no topic handle.   *)
THEOREM TopicTypeCorrect == TopicSpec => []TopicTypeOK
<1>1. TopicInv => TopicTypeOK
  BY DEF TopicInv
<1> QED BY <1>1, TopicInvariant, PTL

(* processTopicSync gives a topic only parameters it was subscribed with,  *)
(* whatever syncs were sent one after the other.                           *)
THEOREM ParamsAreNeverMixed == TopicSpec => []ParamsNeverMixed
<1>1. TopicInv => ParamsNeverMixed
  BY DEF TopicInv
<1> QED BY <1>1, TopicInvariant, PTL

(* topicKeyCache_ has, for every id of this session, the path the id has   *)
(* in registry_, and a handle looks at the index its topic was sent with.  *)
THEOREM NotifiedTopicsRead == TopicSpec => []NotifiedTopicReads
<1>1. TopicInv => NotifiedTopicReads
  BY DEF TopicInv
<1> QED BY <1>1, TopicInvariant, PTL

(* A delayed task runs only for a topic handle that the session has, and   *)
(* its thread is one that clearDelayedTask will join.                      *)
THEOREM TasksHaveTheirTopics == TopicSpec => []TasksHaveTopics
<1>1. TopicInv => TasksHaveTopics
  BY DEF TopicInv
<1> QED BY <1>1, TopicInvariant, PTL

(* The client is a disciplined peer of the session's clientRegistry: the   *)
(* topic modes implement DisciplinedSpec of RegistryPeer.                  *)
THEOREM TopicImplementsRegistryPeer == TopicSpec => DisciplinedSpec
<1>1. TopicParts /\ [TopicNext]_vars => TopicParts' /\ [DisciplinedNext]_registry
  BY PartsStep
<1>2. TopicInit => RegistryInit
  BY DEF TopicInit
<1> QED BY <1>1, <1>2, PartsInit, PTL DEF TopicSpec, DisciplinedSpec

(* So clientRegistry is a bidirectional map whatever topics are subscribed *)
(* to, ...                                                                 *)
THEOREM TopicRegistryBidirectional == TopicSpec => []RegistryBidirectional
BY TopicImplementsRegistryPeer, RegistryIsBidirectional, PTL

(* ... and never exceeds its limit.                                        *)
THEOREM TopicRegistryWithinLimit == TopicSpec => []RegistryWithinLimit
BY TopicImplementsRegistryPeer, RegistryIsWithinLimit, PTL

-----------------------------------------------------------------------------
(* Where topics are: the positions that the client and the session give    *)
(* them.                                                                   *)

(* A topic has one place among the names.                                  *)
LEMMA AmongInjective ==
    ASSUME NEW A, NEW q \in Seq(A), NEW S,
           \A i, j \in 1 .. Len(q) : q[i] = q[j] => i = j
    PROVE  \A i, j \in 1 .. Len(Among(q, S)) : Among(q, S)[i] = Among(q, S)[j] => i = j
<1> DEFINE N == Len(q)
           f == CHOOSE g : Kept(q, S, g, N)
           P(w, m) == /\ w \in Seq(A)
                      /\ \A i \in 1 .. Len(w) : \E x \in 1 .. m : w[i] = q[x]
                      /\ \A i, j \in 1 .. Len(w) : w[i] = w[j] => i = j
           T == {m \in Nat : m <= N => P(f[m], m)}
<1>0. N \in Nat /\ \A i \in 1 .. N : q[i] \in A
  BY LenProperties, ElementOfSeq
<1>1. Among(q, S) = f[N]
  BY DEF Among, Kept
<1>2. Kept(q, S, f, N)
  BY <1>0, KeptExists
<1>9. \A i, j \in 1 .. N : q[i] = q[j] => i = j
  OBVIOUS
<1> HIDE DEF f, N
<1>3. \A i \in 0 .. N : f[i] = IF i = 0 THEN << >>
                      ELSE IF q[i] \in S THEN Append(f[i - 1], q[i]) ELSE f[i - 1]
  BY <1>2 DEF Kept
<1>4. 0 \in T
  <2>1. f[0] = << >>
    BY <1>0, <1>3
  <2>2. P(<< >>, 0)
    BY EmptySeq
  <2> HIDE DEF P
  <2> QED BY <2>1, <2>2
<1>5. ASSUME NEW m \in Nat, m \in T PROVE m + 1 \in T
  <2> SUFFICES ASSUME m + 1 <= N PROVE P(f[m + 1], m + 1)
    OBVIOUS
  <2>1. m + 1 \in 0 .. N /\ m + 1 # 0 /\ (m + 1) - 1 = m /\ m + 1 \in 1 .. N /\ m <= N
    BY <1>0
  <2> DEFINE w == f[m]
             x == q[m + 1]
  <2>2. P(w, m)
    <3> HIDE DEF P
    <3> QED BY <1>5, <2>1
  <2>3. f[m + 1] = IF x \in S THEN Append(w, x) ELSE w
    BY <1>3, <2>1
  <2>4. x \in A /\ w \in Seq(A) /\ Len(w) \in Nat
    BY <1>0, <2>1, <2>2, LenProperties
  <2>5. \A i \in 1 .. Len(w) : w[i] # x
    <3> TAKE i \in 1 .. Len(w)
    <3>1. PICK y \in 1 .. m : w[i] = q[y]
      BY <2>2
    <3>2. y \in 1 .. N /\ y # m + 1
      BY <1>0, <2>1
    <3> QED BY <1>9, <2>1, <3>1, <3>2
  <2>6. \A y \in 1 .. m : y \in 1 .. m + 1
    OBVIOUS
  <2>7. P(w, m + 1)
    BY <2>2, <2>6
  <2>8. P(Append(w, x), m + 1)
    <3> DEFINE v == Append(w, x)
    <3>1. /\ v \in Seq(A) /\ Len(v) = Len(w) + 1
          /\ \A i \in 1 .. Len(w) : v[i] = w[i]
          /\ v[Len(w) + 1] = x
      <4> HIDE DEF w, x
      <4> QED BY <2>4, AppendProperties
    <3> HIDE DEF v
    <3>2. \A i \in 1 .. Len(v) : i \in 1 .. Len(w) \/ i = Len(w) + 1
      BY <2>4, <3>1
    <3>3. ASSUME NEW i \in 1 .. Len(v) PROVE \E y \in 1 .. m + 1 : v[i] = q[y]
      <4>1. CASE i \in 1 .. Len(w)
        BY <2>7, <3>1, <4>1
      <4>2. CASE i = Len(w) + 1
        <5>1. m + 1 \in 1 .. m + 1
          OBVIOUS
        <5> QED BY <3>1, <4>2, <5>1
      <4> QED BY <3>2, <4>1, <4>2
    <3>4. ASSUME NEW i \in 1 .. Len(v), NEW j \in 1 .. Len(v), v[i] = v[j] PROVE i = j
      BY <2>2, <2>5, <3>1, <3>2, <3>4
    <3> QED BY <3>1, <3>3, <3>4 DEF v
  <2> HIDE DEF P, w, x
  <2> QED BY <2>3, <2>7, <2>8
<1> HIDE DEF T, P
<1>6. Nat \subseteq T
  BY <1>4, <1>5, SetInduction
<1>7. P(f[N], N)
  BY <1>0, <1>6 DEF T
<1> QED BY <1>1, <1>7 DEF P

(* The position of a topic is its place among the names, and no two topics *)
(* are at the same.                                                        *)
LEMMA PositionsOfNames ==
    ASSUME NEW s \in Subscriptions
    PROVE  /\ \A i \in 1 .. Len(Names(DOMAIN s)) :
                 /\ Names(DOMAIN s)[i] \in DOMAIN s
                 /\ Positions(s)[Names(DOMAIN s)[i]] = i - 1
           /\ \A t, u \in DOMAIN s : Positions(s)[t] = Positions(s)[u] => t = u
<1> DEFINE q == Names(DOMAIN s)
           N == Len(q)
           c(t) == CHOOSE i \in DOMAIN q : q[i] = t
<1>0. DOMAIN s \subseteq Topics
  BY SubscriptionType
<1>1. /\ q \in Seq(Topics) /\ N \in Nat /\ DOMAIN q = 1 .. N
      /\ \A i \in 1 .. N : q[i] \in DOMAIN s
      /\ \A t \in DOMAIN s : \E i \in 1 .. N : q[i] = t
  BY <1>0, NamesElements, LenProperties
<1>2. \A i, j \in 1 .. N : q[i] = q[j] => i = j
  <2>1. TopicOrder \in Seq(Topics) /\ DOMAIN TopicOrder = 1 .. Len(TopicOrder)
    BY TopicAssumption, LenProperties DEF Topics
  <2> QED BY <2>1, AmongInjective, TopicAssumption DEF Names
<1>3. \A t \in DOMAIN s : Positions(s)[t] = c(t) - 1
  BY DEF Positions, Names
<1> HIDE DEF q, N
<1>4. \A t \in DOMAIN s : c(t) \in 1 .. N /\ q[c(t)] = t
  BY <1>1
<1> HIDE DEF c
<1>5. ASSUME NEW i \in 1 .. N PROVE q[i] \in DOMAIN s /\ Positions(s)[q[i]] = i - 1
  <2>1. q[i] \in DOMAIN s /\ c(q[i]) = i
    BY <1>1, <1>2, <1>4
  <2> QED BY <1>3, <2>1
<1>6. ASSUME NEW t \in DOMAIN s, NEW u \in DOMAIN s, Positions(s)[t] = Positions(s)[u]
      PROVE  t = u
  <2>1. c(t) - 1 = c(u) - 1
    BY <1>3, <1>6
  <2>2. c(t) = c(u)
    BY <1>1, <1>4, <2>1
  <2> QED BY <1>4, <2>2
<1> QED BY <1>5, <1>6 DEF q, N

-----------------------------------------------------------------------------
(* A topic keeps its position from its name to its handle.                 *)

(* Between the frames j and the next ClientReset of u a topic sync ends.   *)
Ends(u, j) ==
    \E i \in j + 1 .. Len(u) :
        /\ u[i].frameType = "ClientSync"
        /\ \A m \in j + 1 .. i : u[m].frameType # "ClientReset"

(* of[j] is the subscription that frame j of u belongs to the topic sync   *)
(* of: no topic moves from one to the next, and each of them ends.         *)
Steady(u, of) ==
    /\ of \in [0 .. Len(u) -> Subscriptions]
    /\ \A j \in 1 .. Len(u) :
          /\ Belongs(u[j], of[j])
          /\ u[j].frameType = "ClientReset" => ~Moves(of[j - 1], of[j]) /\ Ends(u, j)
          /\ u[j].frameType # "ClientReset" => of[j] = of[j - 1]

(* The handles of the session are those of s, with its positions; or they  *)
(* agree with it, and are still to be brought to it.                       *)
Placed(hs, s) == \A t \in DOMAIN hs : t \in DOMAIN s /\ hs[t].index = Positions(s)[t]
AgreesWith(hs, s) == \A t \in DOMAIN hs \cap DOMAIN s : hs[t].index = Positions(s)[t]
InPlace(u, hs, s) == Placed(hs, s) \/ (AgreesWith(hs, s) /\ Ends(u, 0))
Apart(hs) == \A t, v \in DOMAIN hs : hs[t].index = hs[v].index => t = v

(* The frames u lead from what the session has been told to s.             *)
LeadsTo(u, s, reg, values, hs) ==
    \E of : /\ Steady(u, of) /\ of[Len(u)] = s
            /\ Mirrors(reg, values, of[0]) /\ InPlace(u, hs, of[0])

(* The client sends frames of the topic sync of s.                         *)
LEMMA LeadsFurther ==
    ASSUME NEW u \in Seq(UpFrames), NEW g \in Seq(UpFrames), NEW r, NEW s \in Subscriptions,
           NEW reg, NEW values, NEW hs, LeadsTo(u, r, reg, values, hs),
           \A i \in 1 .. Len(g) : Belongs(g[i], s) /\ (i # 1 => g[i].frameType # "ClientReset"),
           \/ s = r /\ (Len(g) = 0 \/ g[1].frameType # "ClientReset")
           \/ Len(g) # 0 /\ g[1].frameType = "ClientReset" /\ ~Moves(r, s) /\ Ends(g, 1)
    PROVE  LeadsTo(u \o g, s, reg, values, hs)
<1> DEFINE w == u \o g
           m == Len(u)
           n == Len(g)
<1>0. /\ m \in Nat /\ n \in Nat
      /\ w \in Seq(UpFrames) /\ Len(w) = m + n
      /\ \A i \in 1 .. m + n : w[i] = IF i <= m THEN u[i] ELSE g[i - m]
  BY ConcatProperties, LenProperties
<1> HIDE DEF w, m, n
<1>1. \A i \in 1 .. m : w[i] = u[i] /\ i \in 1 .. m + n
  BY <1>0
<1>2. \A i \in 1 .. n : w[m + i] = g[i] /\ m + i \in 1 .. m + n
  <2>1. ASSUME NEW i \in 1 .. n PROVE w[m + i] = g[i] /\ m + i \in 1 .. m + n
    <3>1. m + i \in 1 .. m + n /\ ~(m + i <= m) /\ (m + i) - m = i
      BY <1>0
    <3> QED BY <1>0, <3>1
  <2> QED BY <2>1
<1>3. ASSUME NEW j \in 0 .. m, Ends(u, j) PROVE Ends(w, j)
  <2>1. PICK i \in j + 1 .. m : /\ u[i].frameType = "ClientSync"
                                /\ \A x \in j + 1 .. i : u[x].frameType # "ClientReset"
    BY <1>3 DEF Ends, m
  <2>2. i \in 1 .. m /\ i \in j + 1 .. m + n /\ \A x \in j + 1 .. i : x \in 1 .. m
    BY <1>0, <2>1
  <2>3. w[i] = u[i] /\ \A x \in j + 1 .. i : w[x] = u[x]
    BY <1>1, <2>2
  <2> QED BY <1>0, <2>1, <2>2, <2>3 DEF Ends
<1>4. ASSUME n # 0, Ends(g, 1) PROVE Ends(w, m + 1)
  <2>1. PICK i \in 1 + 1 .. n : /\ g[i].frameType = "ClientSync"
                                /\ \A x \in 1 + 1 .. i : g[x].frameType # "ClientReset"
    BY <1>4 DEF Ends, n
  <2>2. m + i \in (m + 1) + 1 .. m + n /\ i \in 1 .. n
    BY <1>0, <2>1
  <2>3. ASSUME NEW x \in (m + 1) + 1 .. m + i PROVE w[x].frameType # "ClientReset"
    <3>1. x - m \in 1 + 1 .. i /\ x - m \in 1 .. n /\ m + (x - m) = x
      BY <1>0, <2>1
    <3>2. w[x] = g[x - m]
      BY <1>2, <3>1
    <3> QED BY <2>1, <3>1, <3>2
  <2>4. w[m + i] = g[i]
    BY <1>2, <2>2
  <2> QED BY <1>0, <2>1, <2>2, <2>3, <2>4 DEF Ends
<1>5. PICK of : /\ Steady(u, of) /\ of[m] = r
                /\ Mirrors(reg, values, of[0]) /\ InPlace(u, hs, of[0])
  BY DEF LeadsTo, m
<1>6. /\ of \in [0 .. m -> Subscriptions]
      /\ \A j \in 1 .. m :
            /\ Belongs(u[j], of[j])
            /\ u[j].frameType = "ClientReset" => ~Moves(of[j - 1], of[j]) /\ Ends(u, j)
            /\ u[j].frameType # "ClientReset" => of[j] = of[j - 1]
  BY <1>5 DEF Steady, m
<1> DEFINE to == [j \in 0 .. m + n |-> IF j <= m THEN of[j] ELSE s]
<1>7. /\ to \in [0 .. m + n -> Subscriptions]
      /\ \A j \in 0 .. m : to[j] = of[j]
      /\ \A j \in m + 1 .. m + n : to[j] = s
  <2>1. \A j \in 0 .. m + n : j <= m => j \in 0 .. m
    BY <1>0
  <2>2. \A j \in m + 1 .. m + n : j \in 0 .. m + n /\ ~(j <= m)
    BY <1>0
  <2>3. \A j \in 0 .. m : j \in 0 .. m + n /\ j <= m
    BY <1>0
  <2> QED BY <1>6, <2>1, <2>2, <2>3
<1> HIDE DEF to
<1>8. ASSUME NEW j \in 1 .. m + n
      PROVE  /\ Belongs(w[j], to[j])
             /\ w[j].frameType = "ClientReset" => ~Moves(to[j - 1], to[j]) /\ Ends(w, j)
             /\ w[j].frameType # "ClientReset" => to[j] = to[j - 1]
  <2>1. CASE j <= m
    <3>1. j \in 1 .. m /\ j \in 0 .. m /\ j - 1 \in 0 .. m
      BY <1>0, <2>1
    <3> QED BY <1>1, <1>3, <1>6, <1>7, <3>1
  <2>2. CASE j = m + 1
    <3>1. /\ 1 \in 1 .. n /\ n # 0 /\ m + 1 \in m + 1 .. m + n /\ j - 1 = m /\ m \in 0 .. m
      BY <1>0, <2>2
    <3>2. w[j] = g[1] /\ to[j] = s /\ to[j - 1] = r
      BY <1>2, <1>5, <1>7, <2>2, <3>1
    <3>3. Belongs(g[1], s)
      BY <3>1 DEF n
    <3> QED BY <1>4, <2>2, <3>1, <3>2, <3>3 DEF n
  <2>3. CASE ~(j <= m) /\ j # m + 1
    <3>1. /\ j - m \in 1 .. n /\ j - m # 1 /\ m + (j - m) = j
          /\ j \in m + 1 .. m + n /\ j - 1 \in m + 1 .. m + n
      BY <1>0, <2>3
    <3>2. w[j] = g[j - m] /\ to[j] = s /\ to[j - 1] = s
      BY <1>2, <1>7, <3>1
    <3> QED BY <3>1, <3>2 DEF n
  <2> QED BY <2>1, <2>2, <2>3
<1>9. Steady(w, to)
  BY <1>0, <1>7, <1>8 DEF Steady
<1>10. to[0] = of[0] /\ to[m + n] = s
  <2>1. 0 \in 0 .. m
    BY <1>0
  <2>2. CASE n = 0
    <3>1. m + n \in 0 .. m /\ m + n = m
      BY <1>0, <2>2
    <3> QED BY <1>5, <1>7, <2>1, <2>2, <3>1 DEF n
  <2>3. CASE n # 0
    <3>1. m + n \in m + 1 .. m + n
      BY <1>0, <2>3
    <3> QED BY <1>7, <2>1, <3>1
  <2> QED BY <2>2, <2>3
<1>11. InPlace(w, hs, of[0])
  <2>1. 0 \in 0 .. m
    BY <1>0
  <2> QED BY <1>3, <1>5, <2>1 DEF InPlace
<1> QED BY <1>0, <1>5, <1>9, <1>10, <1>11 DEF LeadsTo, w

(* The session takes a frame, and is led on from what it makes of it.      *)
LEMMA LedOn ==
    ASSUME NEW u \in Seq(UpFrames), u # << >>, NEW s, NEW reg, NEW values, NEW hs,
           LeadsTo(u, s, reg, values, hs)
    PROVE  \E old, new \in Subscriptions :
              /\ Mirrors(reg, values, old) /\ InPlace(u, hs, old) /\ Belongs(Head(u), new)
              /\ Head(u).frameType = "ClientReset" =>
                    ~Moves(old, new) /\ Ends(Tail(u), 0) /\ ~Ends(u, 0)
              /\ Head(u).frameType # "ClientReset" => new = old
              /\ Ends(u, 0) /\ Head(u).frameType # "ClientSync" => Ends(Tail(u), 0)
              /\ \A reg2, values2, hs2 :
                    Mirrors(reg2, values2, new) /\ InPlace(Tail(u), hs2, new)
                       => LeadsTo(Tail(u), s, reg2, values2, hs2)
<1> DEFINE v == Tail(u)
           n == Len(u)
<1>0. /\ n \in Nat \ {0} /\ Head(u) = u[1]
      /\ Len(v) = n - 1 /\ \A i \in 1 .. n - 1 : v[i] = u[i + 1]
  BY HeadTailProperties, EmptySeq, LenProperties
<1> HIDE DEF v, n
<1>1. ASSUME NEW j \in 0 .. n - 1, Ends(u, j + 1) PROVE Ends(v, j)
  <2>1. PICK i \in (j + 1) + 1 .. n :
           /\ u[i].frameType = "ClientSync"
           /\ \A m \in (j + 1) + 1 .. i : u[m].frameType # "ClientReset"
    BY <1>1 DEF Ends, n
  <2>2. i - 1 \in j + 1 .. n - 1 /\ i - 1 \in 1 .. n - 1 /\ (i - 1) + 1 = i
    BY <1>0, <2>1
  <2>3. ASSUME NEW m \in j + 1 .. i - 1 PROVE v[m].frameType # "ClientReset"
    <3>1. m + 1 \in (j + 1) + 1 .. i /\ m \in 1 .. n - 1
      BY <1>0, <2>1
    <3> QED BY <1>0, <2>1, <3>1
  <2>4. v[i - 1].frameType = "ClientSync"
    BY <1>0, <2>1, <2>2
  <2> QED BY <1>0, <2>2, <2>3, <2>4 DEF Ends
<1>2. ASSUME Ends(u, 0), u[1].frameType # "ClientSync" PROVE Ends(u, 1)
  <2>1. PICK i \in 0 + 1 .. n : /\ u[i].frameType = "ClientSync"
                                /\ \A m \in 0 + 1 .. i : u[m].frameType # "ClientReset"
    BY <1>2 DEF Ends, n
  <2>2. i # 1
    BY <1>2, <2>1
  <2>3. i \in 1 + 1 .. n /\ \A m \in 1 + 1 .. i : m \in 0 + 1 .. i
    BY <1>0, <2>1, <2>2
  <2> QED BY <2>1, <2>3 DEF Ends, n
<1>3. ASSUME Ends(u, 0) PROVE u[1].frameType # "ClientReset"
  <2>1. PICK i \in 0 + 1 .. n : \A m \in 0 + 1 .. i : u[m].frameType # "ClientReset"
    BY <1>3 DEF Ends, n
  <2>2. 1 \in 0 + 1 .. i
    BY <1>0, <2>1
  <2> QED BY <2>1, <2>2
<1>4. PICK of : /\ Steady(u, of) /\ of[n] = s
                /\ Mirrors(reg, values, of[0]) /\ InPlace(u, hs, of[0])
  BY DEF LeadsTo, n
<1>5. /\ of \in [0 .. n -> Subscriptions]
      /\ \A j \in 1 .. n :
            /\ Belongs(u[j], of[j])
            /\ u[j].frameType = "ClientReset" => ~Moves(of[j - 1], of[j]) /\ Ends(u, j)
            /\ u[j].frameType # "ClientReset" => of[j] = of[j - 1]
  BY <1>4 DEF Steady, n
<1>6. 1 \in 1 .. n /\ 1 - 1 = 0 /\ 0 \in 0 .. n /\ 1 \in 0 .. n /\ 0 \in 0 .. n - 1
  BY <1>0
<1>7. of[0] \in Subscriptions /\ of[1] \in Subscriptions
  BY <1>5, <1>6
<1>8. /\ Belongs(u[1], of[1])
      /\ u[1].frameType = "ClientReset" => ~Moves(of[0], of[1]) /\ Ends(u, 1)
      /\ u[1].frameType # "ClientReset" => of[1] = of[0]
  BY <1>5, <1>6
<1>9. Ends(u, 1) => Ends(v, 0)
  <2>1. Ends(u, 0 + 1) => Ends(v, 0)
    BY <1>1, <1>6
  <2> QED BY <2>1
<1> DEFINE to == [j \in 0 .. n - 1 |-> of[j + 1]]
<1>10. ASSUME NEW j \in 1 .. n - 1
       PROVE  /\ Belongs(v[j], to[j])
              /\ v[j].frameType = "ClientReset" => ~Moves(to[j - 1], to[j]) /\ Ends(v, j)
              /\ v[j].frameType # "ClientReset" => to[j] = to[j - 1]
  <2>1. /\ j + 1 \in 1 .. n /\ j \in 0 .. n - 1 /\ j - 1 \in 0 .. n - 1 /\ (j - 1) + 1 = j
        /\ (j + 1) - 1 = j
    BY <1>0
  <2>2. v[j] = u[j + 1] /\ to[j] = of[j + 1] /\ to[j - 1] = of[j]
    BY <1>0, <2>1
  <2> HIDE DEF to
  <2> QED BY <1>1, <1>5, <2>1, <2>2
<1>11. to \in [0 .. n - 1 -> Subscriptions] /\ to[0] = of[1] /\ to[n - 1] = s
  <2>1. \A j \in 0 .. n - 1 : j + 1 \in 0 .. n
    BY <1>0
  <2>2. n - 1 \in 0 .. n - 1 /\ (n - 1) + 1 = n /\ 0 + 1 = 1
    BY <1>0
  <2> QED BY <1>4, <1>5, <1>6, <2>1, <2>2
<1> HIDE DEF to
<1>12. Steady(v, to)
  BY <1>0, <1>10, <1>11 DEF Steady
<1>13. ASSUME NEW reg2, NEW values2, NEW hs2, Mirrors(reg2, values2, of[1]),
              InPlace(v, hs2, of[1])
       PROVE  LeadsTo(v, s, reg2, values2, hs2)
  BY <1>0, <1>11, <1>12, <1>13 DEF LeadsTo
<1>14. Head(u).frameType = "ClientReset" =>
          ~Moves(of[0], of[1]) /\ Ends(v, 0) /\ ~Ends(u, 0)
  BY <1>0, <1>3, <1>8, <1>9
<1>15. Ends(u, 0) /\ Head(u).frameType # "ClientSync" => Ends(v, 0)
  BY <1>0, <1>2, <1>9
<1>16. Belongs(Head(u), of[1]) /\ (Head(u).frameType # "ClientReset" => of[1] = of[0])
  BY <1>0, <1>8
<1> QED BY <1>4, <1>7, <1>13, <1>14, <1>15, <1>16 DEF v

(* A topic sync ends.                                                      *)
LEMMA SyncEnds ==
    ASSUME NEW s \in Subscriptions
    PROVE  Ends(TopicSyncFrames(s), 1)
<1> DEFINE e == TopicEntries(s)
           n == Len(e)
           r == [i \in 1 .. n |-> ClientKeyRegistration(i, e[i].type, e[i].path)]
           v == [i \in 1 .. n |-> ClientValue(i, e[i].type, e[i].value)]
           b == (<< ClientReset >> \o r) \o v
           z == << ClientSync >>
           g == TopicSyncFrames(s)
<1>0. /\ n \in Nat /\ DOMAIN e = 1 .. n
      /\ \A i \in 1 .. n :
            /\ i \in PeerIds /\ e[i].path \in PeerPaths /\ e[i].type \in PeerTypes
            /\ e[i].value \in Topics \cup Params
  BY EntriesType
<1>1. g = b \o z
  BY <1>0 DEF TopicSyncFrames, The
<1>2. r \in Seq(UpFrames) /\ v \in Seq(UpFrames)
  <2> HIDE DEF e, n
  <2> QED BY <1>0 DEF UpFrames
<1>3. << ClientReset >> \in Seq(UpFrames) /\ z \in Seq(UpFrames) /\ Len(z) = 1 /\ z[1] = ClientSync
  BY DEF UpFrames
<1> HIDE DEF r, v, g, z
<1>4. b \in Seq(UpFrames) /\ Len(b) \in Nat
  <2>1. << ClientReset >> \o r \in Seq(UpFrames)
    BY <1>2, <1>3, ConcatProperties
  <2>2. b \in Seq(UpFrames)
    BY <1>2, <2>1, ConcatProperties
  <2> HIDE DEF b
  <2> QED BY <2>2, LenProperties
<1> HIDE DEF b
<1>5. /\ Len(g) = Len(b) + 1
      /\ \A i \in 1 .. Len(b) + 1 : g[i] = IF i <= Len(b) THEN b[i] ELSE z[i - Len(b)]
  <2>1. /\ Len(b \o z) = Len(b) + Len(z)
        /\ \A i \in 1 .. Len(b) + Len(z) :
              (b \o z)[i] = IF i <= Len(b) THEN b[i] ELSE z[i - Len(b)]
    BY <1>3, <1>4, ConcatProperties
  <2> QED BY <1>1, <1>3, <2>1
<1>6. g[Len(g)] = ClientSync
  <2>1. Len(b) + 1 \in 1 .. Len(b) + 1 /\ ~(Len(b) + 1 <= Len(b)) /\ (Len(b) + 1) - Len(b) = 1
    BY <1>4
  <2>2. g[Len(b) + 1] = z[(Len(b) + 1) - Len(b)]
    BY <1>5, <2>1
  <2>3. g[Len(b) + 1] = z[1]
    BY <2>1, <2>2
  <2> QED BY <1>3, <1>5, <2>3
<1>7. /\ Len(g) \in Nat \ {0} /\ g[1] = ClientReset
      /\ \A i \in 2 .. Len(g) : g[i].frameType # "ClientReset"
  BY SyncFrames DEF g
<1>8. Len(g) # 1
  <2>1. ClientReset.frameType = "ClientReset" /\ ClientSync.frameType = "ClientSync"
    BY UpFields
  <2> QED BY <1>6, <1>7, <2>1
<1>9. Len(g) \in 1 + 1 .. Len(g) /\ \A m \in 1 + 1 .. Len(g) : m \in 2 .. Len(g)
  <2>1. Len(g) \in Nat /\ Len(g) # 0
    BY <1>7
  <2>2. PICK m : m = Len(g)
    OBVIOUS
  <2>3. m \in Nat /\ m # 0 /\ m # 1
    BY <1>8, <2>1, <2>2
  <2>4. m \in 1 + 1 .. m /\ \A x \in 1 + 1 .. m : x \in 2 .. m
    BY <2>3
  <2> QED BY <2>2, <2>4
<1>10. g[Len(g)].frameType = "ClientSync"
  BY <1>6, UpFields
<1> QED BY <1>7, <1>9, <1>10 DEF Ends, g

(* Frames of no topic sync.                                                *)
Plain(g) == g \in Seq(UpFrames) /\ \A i \in 1 .. Len(g) : g[i].frameType \notin TopicFrames

(* The frames sent outside of topic syncs are plain.                       *)
LEMMA PlainFrames ==
    /\ Plain(<< >>)
    /\ Plain(<< Identify >>) /\ Plain(<< ClientReady >>) /\ Plain(<< AuthFrame >>)
    /\ \A id \in KeyIds : Plain(<< ClientKeyRequest(id) >>)
<1>1. ASSUME NEW f \in UpFrames, f.frameType \notin TopicFrames PROVE Plain(<< f >>)
  <2>1. << f >> \in Seq(UpFrames) /\ \A i \in 1 .. Len(<< f >>) : << f >>[i] = f
    OBVIOUS
  <2> QED BY <1>1, <2>1 DEF Plain
<1>2. /\ Identify \in UpFrames /\ ClientReady \in UpFrames /\ AuthFrame \in UpFrames
      /\ \A id \in KeyIds : ClientKeyRequest(id) \in UpFrames
  BY DEF UpFrames
<1>3. /\ Identify.frameType \notin TopicFrames /\ ClientReady.frameType \notin TopicFrames
      /\ AuthFrame.frameType \notin TopicFrames
      /\ \A id \in KeyIds : ClientKeyRequest(id).frameType \notin TopicFrames
  BY UpFields DEF TopicFrames
<1>4. Plain(<< >>)
  BY DEF Plain
<1> QED BY <1>1, <1>2, <1>3, <1>4

(* Such frames leave the session to be led where it was, ...               *)
LEMMA LeadsPlain ==
    ASSUME NEW u \in Seq(UpFrames), NEW g, Plain(g), NEW s \in Subscriptions,
           NEW reg, NEW values, NEW hs, LeadsTo(u, s, reg, values, hs)
    PROVE  LeadsTo(u \o g, s, reg, values, hs)
<1>1. g \in Seq(UpFrames) /\ Len(g) \in Nat
      /\ \A i \in 1 .. Len(g) : g[i].frameType \notin TopicFrames
  BY LenProperties DEF Plain
<1>2. \A i \in 1 .. Len(g) : Belongs(g[i], s) /\ g[i].frameType # "ClientReset"
  BY <1>1 DEF Belongs, TopicFrames
<1>3. Len(g) = 0 \/ g[1].frameType # "ClientReset"
  <2>1. Len(g) # 0 => 1 \in 1 .. Len(g)
    BY <1>1
  <2> QED BY <1>2, <2>1
<1> QED BY <1>1, <1>2, <1>3, LeadsFurther

(* ... and a topic sync after them leads it on.                            *)
LEMMA LeadsSync ==
    ASSUME NEW u \in Seq(UpFrames), NEW g, Plain(g), NEW r \in Subscriptions,
           NEW s \in Subscriptions, ~Moves(r, s),
           NEW reg, NEW values, NEW hs, LeadsTo(u, r, reg, values, hs)
    PROVE  LeadsTo((u \o g) \o TopicSyncFrames(s), s, reg, values, hs)
<1> DEFINE w == u \o g
           f == TopicSyncFrames(s)
<1>1. LeadsTo(w, r, reg, values, hs)
  BY LeadsPlain
<1>2. w \in Seq(UpFrames)
  BY ConcatProperties DEF Plain
<1>3. /\ f \in Seq(UpFrames) /\ Len(f) \in Nat \ {0} /\ f[1] = ClientReset /\ Ends(f, 1)
      /\ \A i \in 1 .. Len(f) : Belongs(f[i], s)
      /\ \A i \in 2 .. Len(f) : f[i].frameType # "ClientReset"
  BY SyncFrames, SyncEnds
<1> HIDE DEF w, f
<1>4. \A i \in 1 .. Len(f) : Belongs(f[i], s) /\ (i # 1 => f[i].frameType # "ClientReset")
  <2>1. \A i \in 1 .. Len(f) : i # 1 => i \in 2 .. Len(f)
    BY <1>3
  <2> QED BY <1>3, <2>1
<1>5. Len(f) # 0 /\ f[1].frameType = "ClientReset"
  BY <1>3, UpFields
<1>6. LeadsTo(w \o f, s, reg, values, hs)
  BY <1>1, <1>2, <1>3, <1>4, <1>5, LeadsFurther
<1> QED BY <1>6 DEF w, f

(* A session that has been told nothing is led anywhere.                   *)
LEMMA LeadsNowhere ==
    ASSUME NEW s \in Subscriptions
    PROVE  LeadsTo(<< >>, s, EmptyRegistry, EmptyMap, EmptyMap)
<1> DEFINE of == [j \in 0 .. 0 |-> s]
           u == << >>
<1>1. Len(u) = 0 /\ of \in [0 .. 0 -> Subscriptions] /\ of[0] = s
  OBVIOUS
<1>2. Placed(EmptyMap, s)
  BY DEF Placed, EmptyMap
<1> HIDE DEF of, u
<1>3. Steady(u, of)
  BY <1>1 DEF Steady
<1>4. LeadsTo(u, s, EmptyRegistry, EmptyMap, EmptyMap)
  BY <1>1, <1>2, <1>3, NothingTold DEF LeadsTo, InPlace
<1> QED BY <1>4 DEF u

(* While no topic has moved, what is on its way up leads the session to    *)
(* the topics that are subscribed, and the client's handles know them.     *)
LedOK == live /\ ~moved =>
    Apart(handles) /\ LeadsTo(up, subs, registry, clientValues, handles)
KnownOK == live \/ ~topicDirty =>
    \A t \in DOMAIN subs : t \in DOMAIN handleIndex /\ handleIndex[t] = Positions(subs)[t]

(* sendTopicSync tells the handles.                                        *)
LEMMA SyncKnown ==
    ASSUME NEW s, NEW h, NEW sent, SendTopicSync(s, h, sent), subs' = s
    PROVE  KnownOK'
<1>1. handleIndex' = [t \in DOMAIN h \cup DOMAIN s |->
                        IF t \in DOMAIN s THEN Positions(s)[t] ELSE h[t]]
  BY DEF SendTopicSync
<1> QED BY <1>1 DEF KnownOK

(* Steps of the client.                                                    *)
LEMMA ClientKnownStep ==
    ASSUME KnownOK, ClientMoves
    PROVE  KnownOK'
<1> USE DEF topicsVars
<1>1. ASSUME UNCHANGED <<subs, handleIndex, topicDirty>>, live' => live PROVE KnownOK'
  BY <1>1 DEF KnownOK
<1>2. ASSUME NEW s, NEW h, SubscriptionsChange(s, h) PROVE KnownOK'
  <2>1. CASE live /\ SendTopicSync(s, h, << >>)
    BY <1>2, <2>1, SyncKnown DEF SubscriptionsChange
  <2>2. CASE ~live /\ DeferTopicSync(h)
    BY <1>2, <2>2 DEF SubscriptionsChange, ClientCall, DeferTopicSync, KnownOK
  <2> QED BY <1>2, <2>1, <2>2 DEF SubscriptionsChange
<1>3. ASSUME NEW t \in Topics, OpenHandle(t) PROVE KnownOK'
  <2>1. /\ t \notin DOMAIN handleIndex /\ UNCHANGED <<live, subs, topicDirty>>
        /\ DOMAIN handleIndex' = DOMAIN handleIndex \cup {t}
        /\ \A x \in DOMAIN handleIndex : handleIndex'[x] = handleIndex[x]
    BY <1>3 DEF OpenHandle, ClientCall, Put
  <2> QED BY <2>1 DEF KnownOK
<1>4. ASSUME NEW sent, BecomesReady(sent), UNCHANGED <<subs, live>> PROVE KnownOK'
  <2>1. CASE SendTopicSync(subs, handleIndex, sent)
    BY <1>4, <2>1, SyncKnown
  <2>2. CASE KeepsTopics
    BY <1>1, <1>4, <2>2 DEF KeepsTopics
  <2> QED BY <1>4, <2>1, <2>2 DEF BecomesReady
<1>5. CASE HandleOpen
  <2>1. CASE SendTopicSync(subs, handleIndex, << Identify >>)
    BY <1>5, <2>1, SyncKnown DEF HandleOpen
  <2>2. CASE ~(topicDirty /\ subs # EmptyMap) /\ UNCHANGED <<handleIndex, topicDirty>>
    <3>1. subs' = subs
      BY <1>5 DEF HandleOpen
    <3>2. subs = EmptyMap => DOMAIN subs = {}
      BY DEF EmptyMap
    <3> QED BY <2>2, <3>1, <3>2 DEF KnownOK
  <2> QED BY <1>5, <2>1, <2>2 DEF HandleOpen
<1>6. CASE Authorize \/ Connect \/ HandleClose
  BY <1>1, <1>6 DEF Authorize, ClientCall, Connect, HandleClose
<1>7. CASE ClientStep
  <2>1. UNCHANGED <<subs, live>>
    BY <1>7 DEF ClientStep, OnAuthOk, OnKeyRegistration, OnSync, OnValue, OnKeyDelete, OnReset,
                Receives
  <2>2. KeepsTopics \/ \E sent : BecomesReady(sent)
    BY <1>7 DEF ClientStep, OnAuthOk, OnKeyRegistration, OnSync, OnValue, OnKeyDelete, OnReset
  <2> QED BY <1>1, <1>4, <2>1, <2>2 DEF KeepsTopics
<1> QED BY <1>2, <1>3, <1>5, <1>6, <1>7 DEF ClientMoves, Subscribe, Unsubscribe

(* Every step of the client leads the session on to its topics.            *)
LEMMA ClientLedStep ==
    ASSUME SyncOK, StoresOK, LedOK, ClientMoves
    PROVE  LedOK'
<1> USE DEF topicsVars, serverVars
<1>0. /\ subs \in Subscriptions /\ up \in Seq(UpFrames) /\ down \in Seq(DownFrames)
      /\ TopicsOK
  BY DEF SyncOK, TopicsOK, UpOK, StoresOK
<1>1. ASSUME UNCHANGED <<subs, moved, up, registry, clientValues, handles>>, live' => live
      PROVE  LedOK'
  BY <1>1 DEF LedOK
<1>2. ASSUME UNCHANGED <<live, subs, moved, registry, clientValues, handles>>,
             NEW g, Plain(g), up' = up \o g
      PROVE  LedOK'
  BY <1>0, <1>2, LeadsPlain DEF LedOK
<1>3. ASSUME UNCHANGED <<live, registry, clientValues, handles>>,
             NEW g, Plain(g), NEW s \in Subscriptions, subs' = s,
             up' = (up \o g) \o TopicSyncFrames(s),
             live /\ ~moved' => ~moved /\ ~Moves(subs, s)
      PROVE  LedOK'
  BY <1>0, <1>3, LeadsSync DEF LedOK
<1>4. ASSUME NEW s \in Subscriptions, NEW h, SubscriptionsChange(s, h) PROVE LedOK'
  <2>1. subs' = s /\ UNCHANGED <<live, registry, clientValues, handles>>
        /\ moved' = (moved \/ (live /\ Moves(subs, s)))
    BY <1>4 DEF SubscriptionsChange, ClientCall
  <2>2. CASE SendTopicSync(s, h, << >>)
    <3>1. up' = (up \o << >>) \o TopicSyncFrames(s)
      BY <2>2 DEF SendTopicSync
    <3> QED BY <1>3, <2>1, <3>1, PlainFrames
  <2>3. CASE ~live
    BY <2>1, <2>3 DEF LedOK
  <2> QED BY <1>4, <2>2, <2>3 DEF SubscriptionsChange
<1>5. ASSUME NEW g, Plain(g), BecomesReady(g),
             UNCHANGED <<live, subs, moved, registry, clientValues, handles>>
      PROVE  LedOK'
  <2>1. CASE SendTopicSync(subs, handleIndex, g)
    <3>1. up' = (up \o g) \o TopicSyncFrames(subs)
      BY <2>1 DEF SendTopicSync
    <3>2. ~Moves(subs, subs)
      BY DEF Moves
    <3> QED BY <1>0, <1>3, <1>5, <3>1, <3>2
  <2>2. CASE up' = up \o g
    BY <1>2, <1>5, <2>2
  <2> QED BY <1>5, <2>1, <2>2 DEF BecomesReady
<1>6. ASSUME NEW t \in Topics PROVE /\ \A p \in ParamsOf[t] : Subscribe(t, p) => LedOK'
                                    /\ Unsubscribe(t) => LedOK'
  BY <1>0, <1>4, SubscriptionMoves DEF Subscribe, Unsubscribe
<1>7. CASE \E t \in Topics : OpenHandle(t)
  BY <1>1, <1>7 DEF OpenHandle, ClientCall
<1>8. CASE Authorize
  <2>1. up' = Append(up, AuthFrame)
        /\ UNCHANGED <<live, subs, moved, registry, clientValues, handles>>
    BY <1>8 DEF Authorize, ClientCall
  <2>2. up' = up \o << AuthFrame >>
    BY <1>0, <2>1, AppendIsConcat DEF UpFrames
  <2> QED BY <1>2, <2>1, <2>2, PlainFrames
<1>9. CASE Connect \/ HandleClose
  BY <1>1, <1>9 DEF Connect, HandleClose
<1>10. CASE HandleOpen
  <2>1. /\ session = "None" /\ up = << >>
        /\ UNCHANGED <<subs, registry, clientValues, handles>>
    BY <1>10 DEF HandleOpen
  <2>2. registry = EmptyRegistry /\ clientValues = EmptyMap /\ handles = EmptyMap
    BY <2>1 DEF SyncOK, Untold, StoresOK
  <2>3. LeadsTo(up, subs, registry, clientValues, handles)
    BY <1>0, <2>1, <2>2, LeadsNowhere
  <2>4. Apart(handles)
    BY <2>2 DEF Apart, EmptyMap
  <2>5. LeadsTo(up', subs, registry, clientValues, handles)
    <3>1. CASE up' = << Identify >>
      <4>1. LeadsTo(up \o << Identify >>, subs, registry, clientValues, handles)
        BY <1>0, <2>3, LeadsPlain, PlainFrames
      <4>2. << Identify >> \in Seq(UpFrames)
        BY PlainFrames DEF Plain
      <4>3. up \o << Identify >> = << Identify >>
        BY <2>1, <4>2, ConcatEmptySeq
      <4> QED BY <3>1, <4>1, <4>3
    <3>2. CASE SendTopicSync(subs, handleIndex, << Identify >>)
      <4>1. up' = (up \o << Identify >>) \o TopicSyncFrames(subs)
        BY <3>2 DEF SendTopicSync
      <4>2. ~Moves(subs, subs)
        BY DEF Moves
      <4> QED BY <1>0, <2>3, <4>1, <4>2, LeadsSync, PlainFrames
    <3> QED BY <1>10, <3>1, <3>2 DEF HandleOpen
  <2> QED BY <2>1, <2>4, <2>5 DEF LedOK
<1>11. CASE ClientStep
  <2>0. UNCHANGED <<live, subs, moved, registry, clientValues, handles>>
    BY <1>11 DEF ClientStep, OnAuthOk, OnKeyRegistration, OnSync, OnValue, OnKeyDelete, OnReset,
                 Receives
  <2>1. CASE OnAuthOk \/ OnKeyRegistration \/ OnKeyDelete \/ OnReset
    <3>1. up' = up
      BY <2>1 DEF OnAuthOk, OnKeyRegistration, OnKeyDelete, OnReset
    <3> QED BY <1>1, <2>0, <3>1
  <2>2. CASE OnSync
    <3> DEFINE ready == IF Started(clientState) # "Ready" THEN << ClientReady >> ELSE << >>
    <3>1. Plain(ready)
      BY PlainFrames
    <3>2. BecomesReady(ready) \/ up' = up \o ready
      BY <2>2 DEF OnSync
    <3> HIDE DEF ready
    <3> QED BY <1>2, <1>5, <2>0, <3>1, <3>2
  <2>3. CASE OnValue
    <3> DEFINE r == ClientKeyRequest(Head(down).keyId)
    <3>1. BecomesReady(<< >>) \/ up' = up \/ up' = Append(up, r)
      BY <2>3 DEF OnValue
    <3>2. Head(down).keyId \in KeyIds
      <4>1. down # << >> /\ Head(down).frameType = "ServerValue"
        BY <2>3 DEF OnValue, Receives
      <4>2. Head(down) \in DownFrames
        BY <1>0, <4>1, HeadTailProperties
      <4> QED BY <4>1, <4>2, DownKinds
    <3>3. r \in UpFrames /\ Plain(<< r >>)
      BY <3>2, PlainFrames DEF UpFrames
    <3> HIDE DEF r
    <3>4. Append(up, r) = up \o << r >>
      BY <1>0, <3>3, AppendIsConcat
    <3> QED BY <1>1, <1>2, <1>5, <2>0, <3>1, <3>3, <3>4, PlainFrames
  <2> QED BY <1>11, <2>1, <2>2, <2>3 DEF ClientStep
<1> QED BY <1>6, <1>7, <1>8, <1>9, <1>10, <1>11 DEF ClientMoves

(* What the session has been told of the topic at an index is what the     *)
(* client has there.                                                       *)
LEMMA SentNames ==
    ASSUME NEW s \in Subscriptions, Mirrors(registry, clientValues, s),
           NEW i \in Indices, Sent(<<"name", i>>)
    PROVE  /\ SentValue(<<"name", i>>) \in DOMAIN s
           /\ Positions(s)[SentValue(<<"name", i>>)] = i
<1> DEFINE e == TopicEntries(s)
           q == Names(DOMAIN s)
           p == <<"name", i>>
           id == registry.pathToId[p]
<1>1. id \in DOMAIN e /\ e[id].path = p /\ SentValue(p) = e[id].value
  BY DEF Sent, SentValue, Resolves, ResolvePath, HasPath, Mirrors
<1>2. DOMAIN s \subseteq Topics
  BY SubscriptionType
<1>3. \A x \in DOMAIN e : \E n \in 1 .. Len(q) :
         e[x] = NameEntry(q[n], n - 1) \/ e[x] = ParamEntry(q[n], n - 1, s)
  BY <1>2, EntriesOfTopics
<1>4. Len(q) \in Nat
  BY <1>2, NamesElements
<1>5. \A n \in 1 .. Len(q) : q[n] \in DOMAIN s /\ Positions(s)[q[n]] = n - 1
  BY PositionsOfNames
<1> HIDE DEF e, q, id
<1>6. PICK n \in 1 .. Len(q) :
         e[id] = NameEntry(q[n], n - 1) \/ e[id] = ParamEntry(q[n], n - 1, s)
  BY <1>1, <1>3
<1>7. e[id].path = <<"name", n - 1>> /\ e[id].value = q[n]
  <2>1. e[id] # ParamEntry(q[n], n - 1, s)
    BY <1>1 DEF ParamEntry
  <2> QED BY <1>6, <2>1 DEF NameEntry
<1>8. i = n - 1
  BY <1>1, <1>7
<1> QED BY <1>1, <1>5, <1>7, <1>8

(* The topics the session is to have are placed where the client has them. *)
LEMMA TopicsPlaced ==
    ASSUME NEW s \in Subscriptions, Mirrors(registry, clientValues, s),
           InPlace(up, handles, s), NEW lost
    PROVE  Placed(HandlesAfter(lost), s) /\ Apart(HandlesAfter(lost))
<1> DEFINE hs == HandlesAfter(lost)
<1>1. ASSUME NEW t \in NewTopics
      PROVE  t \in DOMAIN s /\ ClientIndex(t) = Positions(s)[t]
  <2>1. PICK i \in Indices : Sent(<<"name", i>>) /\ SentValue(<<"name", i>>) = t
    BY DEF NewTopics
  <2> DEFINE c == ClientIndex(t)
  <2>2. c \in Indices /\ Sent(<<"name", c>>) /\ SentValue(<<"name", c>>) = t
    BY <2>1 DEF ClientIndex
  <2> HIDE DEF c
  <2>3. t \in DOMAIN s /\ Positions(s)[t] = c
    BY <2>2, SentNames
  <2> QED BY <2>3 DEF c
<1>2. DOMAIN hs = NewTopics
      /\ \A t \in NewTopics : hs[t] = IF t \in DOMAIN handles THEN handles[t] ELSE NewHandle(t, lost)
  BY DEF HandlesAfter
<1> HIDE DEF hs
<1>3. \A t \in DOMAIN handles \cap DOMAIN s : handles[t].index = Positions(s)[t]
  BY DEF InPlace, Placed, AgreesWith
<1>4. ASSUME NEW t \in DOMAIN hs PROVE t \in DOMAIN s /\ hs[t].index = Positions(s)[t]
  <2>1. t \in DOMAIN s /\ ClientIndex(t) = Positions(s)[t]
    BY <1>1, <1>2
  <2>2. CASE t \in DOMAIN handles
    BY <1>2, <1>3, <2>1, <2>2
  <2>3. CASE t \notin DOMAIN handles
    BY <1>2, <2>1, <2>3 DEF NewHandle
  <2> QED BY <2>1, <2>2, <2>3
<1>5. Placed(hs, s)
  BY <1>4 DEF Placed
<1>6. Apart(hs)
  BY <1>4, PositionsOfNames DEF Apart
<1> QED BY <1>5, <1>6 DEF hs

(* Handles with other data are at the same place.                          *)
SamePlaces(hs, others) ==
    DOMAIN others = DOMAIN hs /\ \A t \in DOMAIN hs : others[t].index = hs[t].index

(* Every step of the server leaves the session led to the topics of the    *)
(* client.                                                                 *)
LEMMA ServerLedStep ==
    ASSUME SyncOK, StoresOK, LedOK, ServerMoves
    PROVE  LedOK'
<1> USE DEF topicsVars, serverVars
<1>0. /\ subs \in Subscriptions /\ up \in Seq(UpFrames) /\ HandlesOK(handles)
  BY DEF SyncOK, TopicsOK, UpOK, StoresOK
<1>1. ASSUME UNCHANGED <<live, subs, moved, up, registry, clientValues>>,
             SamePlaces(handles, handles')
      PROVE  LedOK'
  <2>1. Apart(handles) => Apart(handles')
    BY <1>1 DEF Apart, SamePlaces
  <2>2. \A s : InPlace(up, handles, s) => InPlace(up, handles', s)
    BY <1>1 DEF InPlace, Placed, AgreesWith, SamePlaces
  <2> QED BY <1>1, <2>1, <2>2 DEF LedOK, LeadsTo
<1>2. UNCHANGED handles => SamePlaces(handles, handles')
  BY DEF SamePlaces
<1>3. ASSUME NEW type, Accepts(type),
             ASSUME live, ~moved, NEW old \in Subscriptions, NEW new \in Subscriptions,
                    Apart(handles),
                    Mirrors(registry, clientValues, old), InPlace(up, handles, old),
                    Belongs(Head(up), new),
                    type = "ClientReset" =>
                       ~Moves(old, new) /\ Ends(Tail(up), 0) /\ ~Ends(up, 0),
                    type # "ClientReset" => new = old,
                    Ends(up, 0) /\ type # "ClientSync" => Ends(Tail(up), 0)
             PROVE  /\ Apart(handles')
                    /\ Mirrors(registry', clientValues', new)
                    /\ InPlace(Tail(up), handles', new)
      PROVE  LedOK'
  <2> SUFFICES ASSUME live', ~moved'
               PROVE  Apart(handles') /\ LeadsTo(up', subs', registry', clientValues', handles')
    BY DEF LedOK
  <2>1. /\ live /\ ~moved /\ subs' = subs /\ up # << >> /\ up' = Tail(up)
        /\ Head(up).frameType = type
    BY <1>3 DEF Accepts
  <2>2. Apart(handles) /\ LeadsTo(up, subs, registry, clientValues, handles)
    BY <2>1 DEF LedOK
  <2>3. PICK old \in Subscriptions, new \in Subscriptions :
              /\ Mirrors(registry, clientValues, old) /\ InPlace(up, handles, old)
              /\ Belongs(Head(up), new)
              /\ Head(up).frameType = "ClientReset" =>
                    ~Moves(old, new) /\ Ends(Tail(up), 0) /\ ~Ends(up, 0)
              /\ Head(up).frameType # "ClientReset" => new = old
              /\ Ends(up, 0) /\ Head(up).frameType # "ClientSync" => Ends(Tail(up), 0)
              /\ \A reg2, values2, hs2 :
                    Mirrors(reg2, values2, new) /\ InPlace(Tail(up), hs2, new)
                       => LeadsTo(Tail(up), subs, reg2, values2, hs2)
    BY <1>0, <2>1, <2>2, LedOn
  <2>4. /\ Apart(handles')
        /\ Mirrors(registry', clientValues', new)
        /\ InPlace(Tail(up), handles', new)
    BY <1>3, <2>1, <2>2, <2>3
  <2> QED BY <2>1, <2>3, <2>4
<1>4. ASSUME NEW type, Accepts(type), type \notin {"ClientReset", "ClientSync"}, UNCHANGED handles,
             \A s \in Subscriptions : Mirrors(registry, clientValues, s) /\ Belongs(Head(up), s)
                    => Mirrors(registry', clientValues', s)
      PROVE  LedOK'
  BY <1>3, <1>4 DEF InPlace
<1>5. ASSUME NEW type, Accepts(type), type \notin {"ClientReset", "ClientSync"},
             UNCHANGED <<handles, registry, clientValues>>
      PROVE  LedOK'
  BY <1>4, <1>5
<1>6. CASE SessionDisconnect
  BY <1>6 DEF SessionDisconnect, LedOK
<1>7. CASE FinishActivation \/ AppAuthorize \/ \E t \in Topics : TaskEnds(t)
  BY <1>1, <1>2, <1>7 DEF FinishActivation, AppAuthorize, TaskEnds
<1>8. CASE HandleIdentify \/ HandleAuth \/ HandleClientReady \/ HandleKeyRequest
  BY <1>5, <1>8 DEF HandleIdentify, HandleAuth, HandleClientReady, HandleKeyRequest
<1>9. CASE DropTopicFrame
  <2>1. PICK type \in TopicFrames : Accepts(type)
    BY <1>9 DEF DropTopicFrame
  <2>2. session # "Active" /\ UNCHANGED <<handles, registry, clientValues>>
    BY <1>9 DEF DropTopicFrame
  <2>3. session # "Bound"
    BY <2>1 DEF Accepts
  <2>4. registry = EmptyRegistry /\ clientValues = EmptyMap /\ handles = EmptyMap
    BY <2>2, <2>3 DEF SyncOK, Untold, StoresOK, SessionStates
  <2>5. \A u, s : InPlace(u, handles', s) /\ Apart(handles')
    BY <2>2, <2>4 DEF InPlace, Placed, Apart, EmptyMap
  <2>6. \A s : Mirrors(registry', clientValues', s)
    BY <2>2, <2>4, NothingTold
  <2> QED BY <1>3, <2>1, <2>5, <2>6
<1>10. CASE HandleReset
  <2>1. Accepts("ClientReset") /\ UNCHANGED handles
        /\ registry' = EmptyRegistry /\ clientValues' = EmptyMap
    BY <1>10 DEF HandleReset, ClearRegistry
  <2>2. \A s : Mirrors(registry', clientValues', s)
    BY <2>1, NothingTold
  <2>3. ASSUME NEW old \in Subscriptions, NEW new \in Subscriptions,
               InPlace(up, handles, old), ~Moves(old, new), Ends(Tail(up), 0), ~Ends(up, 0)
        PROVE  InPlace(Tail(up), handles', new)
    <3>1. Placed(handles, old)
      BY <2>3 DEF InPlace
    <3>2. AgreesWith(handles, new)
      BY <2>3, <3>1 DEF Placed, AgreesWith, Moves
    <3> QED BY <2>1, <2>3, <3>2 DEF InPlace
  <2> QED BY <1>3, <2>1, <2>2, <2>3
<1>11. CASE HandleKeyRegistration
  <2> DEFINE f == Head(up)
  <2>1. /\ Accepts("ClientKeyRegistration") /\ UNCHANGED <<clientValues, handles>>
        /\ \/ Register(f.keyId, f.payload, f.dataType)
           \/ UNCHANGED registry
    BY <1>11 DEF HandleKeyRegistration
  <2>2. f.frameType = "ClientKeyRegistration"
    BY <2>1 DEF Accepts
  <2> HIDE DEF f
  <2>3. ASSUME NEW s \in Subscriptions, Mirrors(registry, clientValues, s), Belongs(f, s)
        PROVE  Mirrors(registry', clientValues', s)
    <3>1. CASE UNCHANGED registry
      BY <2>1, <2>3, <3>1
    <3>2. CASE Register(f.keyId, f.payload, f.dataType)
      <4>1. registry' = RegisterOne(registry, f.keyId, f.payload, f.dataType)
        BY <3>2 DEF Register
      <4> QED BY <2>1, <2>2, <2>3, <4>1, RegistrationMirrors
    <3> QED BY <2>1, <3>1, <3>2
  <2> QED BY <1>4, <2>1, <2>3 DEF f
<1>12. CASE HandleValue
  <2> DEFINE f == Head(up)
  <2>1. /\ Accepts("ClientValue") /\ UNCHANGED <<registry, handles>>
        /\ clientValues' = Put(clientValues, f.keyId, f.payload)
    BY <1>12 DEF HandleValue
  <2>2. f.frameType = "ClientValue"
    BY <2>1 DEF Accepts
  <2> HIDE DEF f
  <2>3. ASSUME NEW s \in Subscriptions, Mirrors(registry, clientValues, s), Belongs(f, s)
        PROVE  Mirrors(registry', clientValues', s)
    <3>1. f.keyId \in DOMAIN TopicEntries(s) /\ f.payload = TopicEntries(s)[f.keyId].value
      BY <2>2, <2>3 DEF Belongs
    <3>2. \A id \in DOMAIN clientValues' :
             id \in DOMAIN TopicEntries(s) /\ clientValues'[id] = TopicEntries(s)[id].value
      BY <2>1, <2>3, <3>1 DEF Mirrors, Put
    <3> QED BY <2>1, <2>3, <3>2 DEF Mirrors
  <2> QED BY <1>4, <2>1, <2>3 DEF f
<1>13. CASE HandleTopicSync
  <2>1. Accepts("ClientSync") /\ UNCHANGED <<registry, clientValues>>
    BY <1>13 DEF HandleTopicSync
  <2>2. PICK lost : handles' = HandlesAfter(lost)
    BY <1>13 DEF HandleTopicSync
  <2>3. ASSUME NEW old \in Subscriptions, Mirrors(registry, clientValues, old),
               InPlace(up, handles, old)
        PROVE  Apart(handles') /\ InPlace(Tail(up), handles', old)
    BY <2>2, <2>3, TopicsPlaced DEF InPlace
  <2> QED BY <1>3, <2>1, <2>3
<1>14. ASSUME NEW t \in DOMAIN handles, NEW x,
              handles' = [handles EXCEPT ![t].flat = x]
       PROVE  SamePlaces(handles, handles')
  BY <1>0, <1>14 DEF SamePlaces, HandlesOK, HandleSet
<1>15. CASE AppCall /\ SamePlaces(handles, handles')
  BY <1>1, <1>15 DEF AppCall
<1>16. ASSUME NEW t \in Topics,
              \/ \E k \in Keys, v \in Values : PayloadSet(t, k, v)
              \/ \E k \in Keys : PayloadClearKey(t, k)
              \/ PayloadClear(t)
       PROVE  LedOK'
  BY <1>14, <1>15, <1>16 DEF PayloadSet, PayloadClearKey, PayloadClear
<1>17. CASE \/ \E k \in Keys, v \in Values : SessionSet(k, v)
            \/ \E k \in Keys : SessionClearKey(k)
            \/ SessionClear
            \/ \E t \in Topics : AppSetTask(t) \/ AppClearTask(t) \/ TaskCallsOff(t)
  BY <1>2, <1>15, <1>17 DEF SessionSet, SessionClearKey, SessionClear, AppSetTask, AppClearTask,
                            TaskCallsOff
<1> QED BY <1>6, <1>7, <1>8, <1>9, <1>10, <1>11, <1>12, <1>13, <1>16, <1>17
      DEF ServerMoves, SessionStep, AppStep

-----------------------------------------------------------------------------
(* What the client will hold.                                              *)

(* The replica has a key for every name of N, and no others, and for every *)
(* pair of V the id has the value.                                         *)
Holds(r, N, V) ==
    /\ DOMAIN r.pending = {}
    /\ \A id \in DOMAIN r.registry.byId : <<id, r.registry.byId[id].path>> \in N
    /\ \A p \in DOMAIN r.registry.pathToId : <<r.registry.pathToId[p], p>> \in N
    /\ \A n \in N : /\ n[1] \in DOMAIN r.registry.byId /\ r.registry.byId[n[1]].path = n[2]
                    /\ n[2] \in DOMAIN r.registry.pathToId /\ r.registry.pathToId[n[2]] = n[1]
    /\ \A v \in V : v[1] \in DOMAIN r.store /\ r.store[v[1]] = v[2]

(* ... unless it had to refuse a key of them.                              *)
Carries(r, N, V) == r.refused \/ Holds(r, N, V)

(* Names of which an id has one path, and a path one id.                   *)
OneEach(N) == \A m, n \in N : m[1] = n[1] <=> m[2] = n[2]

(* An empty replica holds nothing.                                         *)
LEMMA EmptyHolds == Holds(EmptyReplica, {}, {})
BY DEF Holds, EmptyReplica, EmptyRegistry, EmptyMap

(* What carries values carries fewer of them.                              *)
LEMMA CarriesLess ==
    ASSUME NEW r, NEW N, NEW V, NEW W, W \subseteq V, Carries(r, N, V)
    PROVE  Carries(r, N, W)
BY DEF Carries, Holds

(* What a frame does to such a replica: a registration adds a name, ...    *)
LEMMA Registers ==
    ASSUME NEW r \in Reps, NEW N, NEW V, Carries(r, N, V), NEW f \in DownFrames,
           f.frameType = "ServerKeyRegistration", OneEach(N \cup {<<f.keyId, f.payload>>})
    PROVE  Carries(ReplicaApply(r, f), N \cup {<<f.keyId, f.payload>>}, V)
<1> DEFINE new == ReplicaRegister(r, f)
           id == f.keyId
           p == f.payload
           M == N \cup {<<id, p>>}
<1>1. ReplicaApply(r, f) = new
  BY DEF ReplicaApply
<1>2. CASE RegisterThrows(r.registry, p)
  BY <1>1, <1>2 DEF ReplicaRegister, Reps, Replicas, Carries
<1>3. CASE ~RegisterThrows(r.registry, p)
  <2>1. /\ new.registry = RegisterOne(r.registry, id, p, f.dataType)
        /\ new.store = IF id \in DOMAIN r.pending THEN Put(r.store, id, r.pending[id]) ELSE r.store
        /\ new.pending = Erase(r.pending, id) /\ new.refused = r.refused
    BY <1>3 DEF ReplicaRegister, Reps, Replicas
  <2> HIDE DEF new
  <2>2. CASE r.refused
    BY <1>1, <2>1, <2>2 DEF Carries
  <2>3. CASE Holds(r, N, V)
    <3>1. DOMAIN r.pending = {}
      BY <2>3 DEF Holds
    <3>2. new.store = r.store /\ DOMAIN new.pending = {}
      BY <2>1, <3>1 DEF Erase
    <3> DEFINE b == new.registry.byId
               m == new.registry.pathToId
    <3>3. /\ DOMAIN b = DOMAIN r.registry.byId \cup {id} /\ b[id].path = p
          /\ \A x \in DOMAIN r.registry.byId : x # id => b[x] = r.registry.byId[x]
          /\ DOMAIN m = DOMAIN r.registry.pathToId \cup {p} /\ m[p] = id
          /\ \A x \in DOMAIN r.registry.pathToId : x # p => m[x] = r.registry.pathToId[x]
      BY <2>1 DEF RegisterOne, Put
    <3> HIDE DEF b, m
    <3>4. <<id, p>> \in M /\ N \subseteq M
      OBVIOUS
    <3>5. ASSUME NEW x \in DOMAIN b PROVE <<x, b[x].path>> \in M
      <4>1. CASE x = id
        BY <3>3, <3>4, <4>1
      <4>2. CASE x # id
        BY <2>3, <3>3, <3>4, <4>2 DEF Holds
      <4> QED BY <4>1, <4>2
    <3>6. ASSUME NEW x \in DOMAIN m PROVE <<m[x], x>> \in M
      <4>1. CASE x = p
        BY <3>3, <3>4, <4>1
      <4>2. CASE x # p
        BY <2>3, <3>3, <3>4, <4>2 DEF Holds
      <4> QED BY <4>1, <4>2
    <3>7. ASSUME NEW n \in M
          PROVE  n[1] \in DOMAIN b /\ b[n[1]].path = n[2] /\ n[2] \in DOMAIN m /\ m[n[2]] = n[1]
      <4>1. CASE n = <<id, p>>
        BY <3>3, <4>1
      <4>2. CASE n # <<id, p>>
        <5>1. n \in N
          BY <4>2
        <5>2. n[1] = id <=> n[2] = p
          <6>1. <<id, p>>[1] = id /\ <<id, p>>[2] = p
            OBVIOUS
          <6> QED BY <3>4, <5>1, <6>1 DEF OneEach
        <5>3. /\ n[1] \in DOMAIN r.registry.byId /\ r.registry.byId[n[1]].path = n[2]
              /\ n[2] \in DOMAIN r.registry.pathToId /\ r.registry.pathToId[n[2]] = n[1]
          BY <2>3, <5>1 DEF Holds
        <5> QED BY <3>3, <5>2, <5>3
      <4> QED BY <4>1, <4>2
    <3>8. \A v \in V : v[1] \in DOMAIN new.store /\ new.store[v[1]] = v[2]
      BY <2>3, <3>2 DEF Holds
    <3> HIDE DEF M
    <3>9. Holds(new, M, V)
      BY <3>2, <3>5, <3>6, <3>7, <3>8 DEF Holds, b, m
    <3> QED BY <1>1, <3>9 DEF Carries, M
  <2> QED BY <2>2, <2>3 DEF Carries
<1> QED BY <1>2, <1>3

(* ... a value replaces that of its id, ...                                *)
LEMMA Tells ==
    ASSUME NEW r \in Reps, NEW N, NEW V, Carries(r, N, V), NEW f \in DownFrames,
           f.frameType = "ServerValue", \E n \in N : n[1] = f.keyId
    PROVE  Carries(ReplicaApply(r, f), N, {v \in V : v[1] # f.keyId} \cup {<<f.keyId, f.payload>>})
<1> DEFINE new == ReplicaValue(r, f)
           id == f.keyId
           W == {v \in V : v[1] # id} \cup {<<id, f.payload>>}
<1>1. ReplicaApply(r, f) = new
  BY DEF ReplicaApply
<1>2. CASE r.refused
  <2>1. new.refused
    BY <1>2 DEF ReplicaValue, Reps, Replicas
  <2> QED BY <1>1, <2>1 DEF Carries
<1>3. CASE Holds(r, N, V)
  <2>1. HasKeyId(r.registry, id)
    BY <1>3 DEF Holds, HasKeyId
  <2>2. /\ new.registry = r.registry /\ new.pending = r.pending
        /\ new.store = Put(r.store, id, f.payload)
    BY <2>1 DEF ReplicaValue, Reps, Replicas
  <2>3. /\ DOMAIN new.store = DOMAIN r.store \cup {id} /\ new.store[id] = f.payload
        /\ \A x \in DOMAIN r.store : x # id => new.store[x] = r.store[x]
    BY <2>2 DEF Put
  <2> HIDE DEF new
  <2>4. ASSUME NEW v \in W PROVE v[1] \in DOMAIN new.store /\ new.store[v[1]] = v[2]
    <3>1. CASE v = <<id, f.payload>>
      BY <2>3, <3>1
    <3>2. CASE v \in V /\ v[1] # id
      BY <1>3, <2>3, <3>2 DEF Holds
    <3> QED BY <3>1, <3>2
  <2> HIDE DEF W
  <2>5. Holds(new, N, W)
    BY <1>3, <2>2, <2>4 DEF Holds
  <2> QED BY <1>1, <2>5 DEF Carries, W
<1> QED BY <1>2, <1>3 DEF Carries

(* ... and a deletion takes the id with it.                                *)
LEMMA Deletes ==
    ASSUME NEW r \in Reps, NEW N, NEW V, Carries(r, N, V), OneEach(N), NEW f \in DownFrames,
           f.frameType = "ServerKeyDelete", \E n \in N : n[1] = f.keyId
    PROVE  Carries(ReplicaApply(r, f), {n \in N : n[1] # f.keyId}, {v \in V : v[1] # f.keyId})
<1> DEFINE new == ReplicaDelete(r, f)
           id == f.keyId
           M == {n \in N : n[1] # id}
           W == {v \in V : v[1] # id}
<1>1. ReplicaApply(r, f) = new
  BY DEF ReplicaApply
<1>2. CASE r.refused
  <2>1. new.refused
    BY <1>2 DEF ReplicaDelete, Reps, Replicas
  <2> QED BY <1>1, <2>1 DEF Carries
<1>3. CASE Holds(r, N, V)
  <2>0. PICK n \in N : n[1] = id
    OBVIOUS
  <2> DEFINE p == r.registry.byId[id].path
  <2>1. HasKeyId(r.registry, id) /\ p = n[2] /\ p \in DOMAIN r.registry.pathToId
        /\ r.registry.pathToId[p] = id
    BY <1>3, <2>0 DEF Holds, HasKeyId
  <2>2. /\ new.registry = RemoveByKeyId(r.registry, id) /\ new.pending = r.pending
        /\ new.store = Erase(r.store, id)
    BY DEF ReplicaDelete, Reps, Replicas
  <2> DEFINE b == new.registry.byId
             m == new.registry.pathToId
  <2>3. /\ DOMAIN b = DOMAIN r.registry.byId \ {id}
        /\ \A x \in DOMAIN b : b[x] = r.registry.byId[x]
        /\ DOMAIN m = DOMAIN r.registry.pathToId \ {p}
        /\ \A x \in DOMAIN m : m[x] = r.registry.pathToId[x]
        /\ DOMAIN new.store = DOMAIN r.store \ {id}
        /\ \A x \in DOMAIN new.store : new.store[x] = r.store[x]
    <3>1. new.registry = [byId |-> Erase(r.registry.byId, id),
                          pathToId |-> Erase(r.registry.pathToId, p)]
      BY <2>1, <2>2 DEF RemoveByKeyId
    <3> HIDE DEF new, p
    <3> QED BY <2>2, <3>1 DEF Erase
  <2> HIDE DEF new, b, m, p
  <2>4. \A x \in DOMAIN b : <<x, b[x].path>> \in M
    BY <1>3, <2>3 DEF Holds
  <2>5. ASSUME NEW x \in DOMAIN m PROVE <<m[x], x>> \in M
    <3> DEFINE w == <<m[x], x>>
    <3>1. x # p /\ w \in N /\ w[2] = x /\ w[1] = m[x]
      BY <1>3, <2>3 DEF Holds
    <3>2. w[1] # n[1]
      BY <2>1, <3>1 DEF OneEach
    <3> HIDE DEF w
    <3>3. w \in M
      BY <2>0, <3>1, <3>2
    <3> QED BY <3>3 DEF w
  <2>6. ASSUME NEW w \in M
        PROVE  w[1] \in DOMAIN b /\ b[w[1]].path = w[2] /\ w[2] \in DOMAIN m /\ m[w[2]] = w[1]
    <3>1. w \in N /\ w[1] # id /\ w[2] # p
      BY <2>0, <2>1 DEF OneEach
    <3>2. /\ w[1] \in DOMAIN r.registry.byId /\ r.registry.byId[w[1]].path = w[2]
          /\ w[2] \in DOMAIN r.registry.pathToId /\ r.registry.pathToId[w[2]] = w[1]
      BY <1>3, <3>1 DEF Holds
    <3> QED BY <2>3, <3>1, <3>2
  <2>7. \A v \in W : v[1] \in DOMAIN new.store /\ new.store[v[1]] = v[2]
    BY <1>3, <2>3 DEF Holds
  <2> HIDE DEF M, W
  <2>8. Holds(new, M, W)
    BY <1>3, <2>2, <2>4, <2>5, <2>6, <2>7 DEF Holds, b, m
  <2> QED BY <1>1, <2>8 DEF Carries, M, W
<1> QED BY <1>2, <1>3 DEF Carries

(* Other frames do not touch it, and a reset forgets it.                   *)
LEMMA OthersApply ==
    ASSUME NEW r
    PROVE  /\ ReplicaApply(r, ServerSync) = r /\ ReplicaApply(r, AuthOk) = r
           /\ ReplicaApply(r, ServerReset) = EmptyReplica
BY DEF ReplicaApply, ServerSync, AuthOk, ServerReset, Signal, Frame

-----------------------------------------------------------------------------
(* Replicas under the frames of the topic modes.                           *)

(* Every frame that is sent leaves a replica.                              *)
LEMMA RepsClosed == Closed(Reps, DownFrames)
<1> SUFFICES ASSUME NEW r \in Reps, NEW f \in DownFrames PROVE ReplicaApply(r, f) \in Reps
  BY DEF Closed
<1>1. CASE f.frameType = "ServerKeyRegistration"
  BY <1>1, RegisterReplica DEF ReplicaApply
<1>2. CASE f.frameType = "ServerValue"
  BY <1>2, ValueReplica DEF ReplicaApply
<1>3. CASE f.frameType = "ServerKeyDelete"
  BY <1>3, DeleteReplica DEF ReplicaApply
<1>4. CASE f.frameType = "ServerReset"
  BY <1>4, EmptyReplicaType DEF ReplicaApply
<1> QED BY <1>1, <1>2, <1>3, <1>4 DEF ReplicaApply

(* Frames are handled in order, ...                                        *)
LEMMA EndConcat ==
    ASSUME NEW r \in Reps, NEW fs \in Seq(DownFrames), NEW gs \in Seq(DownFrames)
    PROVE  /\ End(r, fs) \in Reps
           /\ fs \o gs \in Seq(DownFrames)
           /\ End(r, fs \o gs) = End(End(r, fs), gs)
<1>1. End(r, fs) \in Reps /\ End(r, fs \o gs) = End(End(r, fs), gs)
  BY ReplayConcat, RepsClosed DEF End
<1> QED BY <1>1, ConcatProperties

(* ... none changes nothing, ...                                           *)
LEMMA EndNone ==
    ASSUME NEW r \in Reps
    PROVE  End(r, << >>) = r
BY ReplayNone, RepsClosed DEF End

(* ... and one is handled, ...                                             *)
LEMMA EndOne ==
    ASSUME NEW r \in Reps, NEW f \in DownFrames
    PROVE  /\ << f >> \in Seq(DownFrames)
           /\ End(r, << f >>) = ReplicaApply(r, f) /\ ReplicaApply(r, f) \in Reps
<1>1. << f >> \in Seq(DownFrames) /\ Len(<< f >>) = 1 /\ << f >>[1] = f
  OBVIOUS
<1>2. IsTrace(Replay(r, << f >>), r, << f >>)
  BY <1>1, ReplayTrace, RepsClosed
<1>3. /\ Len(Replay(r, << f >>)) = 2 /\ Replay(r, << f >>)[1] = r
      /\ Replay(r, << f >>)[2] = ReplicaApply(r, f)
  BY <1>1, <1>2 DEF IsTrace
<1>4. End(r, << f >>) = ReplicaApply(r, f)
  BY <1>3 DEF End, Last
<1> QED BY <1>1, <1>4, RepsClosed DEF Closed

(* ... the first of them before the rest.                                  *)
LEMMA EndFirst ==
    ASSUME NEW r \in Reps, NEW fs \in Seq(DownFrames), fs # << >>
    PROVE  End(ReplicaApply(r, Head(fs)), Tail(fs)) = End(r, fs)
BY ReplayFirst, RepsClosed DEF End

(* Frames of one kind, and the ids and payloads that they carry.           *)
OfKind(q, type) == \A i \in 1 .. Len(q) : q[i].frameType = type
Pairs(q) == {<<q[i].keyId, q[i].payload>> : i \in 1 .. Len(q)}

(* Values of which an id has one.                                          *)
OneValue(V) == \A v, w \in V : v[1] = w[1] => v = w

(* Keys that are registered one after the other.                           *)
LEMMA RegistersAll ==
    ASSUME NEW r \in Reps, NEW N, NEW V, Carries(r, N, V),
           NEW q \in Seq(DownFrames), OfKind(q, "ServerKeyRegistration"), OneEach(N \cup Pairs(q))
    PROVE  End(r, q) \in Reps /\ Carries(End(r, q), N \cup Pairs(q), V)
<1> DEFINE t == Replay(r, q)
           first(m) == {<<q[i].keyId, q[i].payload>> : i \in 1 .. m}
           P(m) == m <= Len(q) => Carries(t[m + 1], N \cup first(m), V)
           S == {m \in Nat : P(m)}
<1>0. Len(q) \in Nat /\ \A i \in 1 .. Len(q) : q[i] \in DownFrames
  BY LenProperties, ElementOfSeq
<1>1. /\ t \in Seq(Reps) /\ Len(t) = Len(q) + 1 /\ t[1] = r
      /\ \A i \in 1 .. Len(q) : t[i + 1] = ReplicaApply(t[i], q[i])
  <2>1. t \in Seq(Reps) /\ IsTrace(t, r, q)
    BY ReplayTrace, RepsClosed
  <2> HIDE DEF t
  <2> QED BY <2>1 DEF IsTrace
<1>2. \A i \in 1 .. Len(q) + 1 : t[i] \in Reps
  BY <1>1, ElementOfSeq
<1> HIDE DEF t
<1>3. P(0)
  <2>1. first(0) = {}
    OBVIOUS
  <2> HIDE DEF first
  <2>2. N \cup first(0) = N /\ t[0 + 1] = r
    BY <1>1, <2>1
  <2>3. Carries(t[0 + 1], N \cup first(0), V)
    BY <2>2
  <2> QED BY <2>3
<1>4. ASSUME NEW m \in Nat, P(m) PROVE P(m + 1)
  <2> SUFFICES ASSUME m + 1 <= Len(q) PROVE Carries(t[m + 2], N \cup first(m + 1), V)
    OBVIOUS
  <2>1. m + 1 \in 1 .. Len(q) /\ m + 1 \in 1 .. Len(q) + 1 /\ (m + 1) + 1 = m + 2 /\ m <= Len(q)
    BY <1>0
  <2>2. Carries(t[m + 1], N \cup first(m), V)
    <3> HIDE DEF first
    <3> QED BY <1>4, <2>1
  <2> DEFINE f == q[m + 1]
  <2>3. f \in DownFrames /\ f.frameType = "ServerKeyRegistration" /\ t[m + 1] \in Reps
        /\ t[m + 2] = ReplicaApply(t[m + 1], f)
    BY <1>0, <1>1, <1>2, <2>1 DEF OfKind
  <2>4. first(m + 1) = first(m) \cup {<<f.keyId, f.payload>>}
    <3>1. 1 .. m + 1 = 1 .. m \cup {m + 1}
      BY <2>1
    <3> QED BY <3>1
  <2>5. (N \cup first(m)) \cup {<<f.keyId, f.payload>>} \subseteq N \cup Pairs(q)
    BY <2>1 DEF Pairs
  <2> HIDE DEF f, first
  <2>6. OneEach((N \cup first(m)) \cup {<<f.keyId, f.payload>>})
    BY <2>5 DEF OneEach
  <2>7. Carries(t[m + 2], (N \cup first(m)) \cup {<<f.keyId, f.payload>>}, V)
    BY <2>2, <2>3, <2>6, Registers
  <2>8. (N \cup first(m)) \cup {<<f.keyId, f.payload>>} = N \cup first(m + 1)
    BY <2>4
  <2> QED BY <2>7, <2>8
<1> HIDE DEF P, first
<1>5. Nat \subseteq S
  <2>1. 0 \in S /\ \A m \in Nat : m \in S => m + 1 \in S
    BY <1>3, <1>4
  <2> HIDE DEF S
  <2> QED BY <2>1, SetInduction
<1>6. Carries(t[Len(q) + 1], N \cup first(Len(q)), V)
  <2>1. P(Len(q)) /\ Len(q) <= Len(q)
    BY <1>0, <1>5
  <2> QED BY <2>1 DEF P
<1>7. End(r, q) = t[Len(q) + 1]
  BY <1>1 DEF End, Last, t
<1>8. End(r, q) \in Reps
  BY <1>0, <1>2, <1>7
<1> QED BY <1>6, <1>7, <1>8 DEF Pairs, first

(* Values that are sent one after the other.                               *)
LEMMA TellsAll ==
    ASSUME NEW r \in Reps, NEW N, NEW V, Carries(r, N, V),
           NEW q \in Seq(DownFrames), OfKind(q, "ServerValue"), OneValue(V \cup Pairs(q)),
           \A v \in Pairs(q) : \E n \in N : n[1] = v[1]
    PROVE  End(r, q) \in Reps /\ Carries(End(r, q), N, V \cup Pairs(q))
<1> DEFINE t == Replay(r, q)
           first(m) == {<<q[i].keyId, q[i].payload>> : i \in 1 .. m}
           P(m) == m <= Len(q) => Carries(t[m + 1], N, V \cup first(m))
           S == {m \in Nat : P(m)}
<1>0. Len(q) \in Nat /\ \A i \in 1 .. Len(q) : q[i] \in DownFrames
  BY LenProperties, ElementOfSeq
<1>1. /\ t \in Seq(Reps) /\ Len(t) = Len(q) + 1 /\ t[1] = r
      /\ \A i \in 1 .. Len(q) : t[i + 1] = ReplicaApply(t[i], q[i])
  <2>1. t \in Seq(Reps) /\ IsTrace(t, r, q)
    BY ReplayTrace, RepsClosed
  <2> HIDE DEF t
  <2> QED BY <2>1 DEF IsTrace
<1>2. \A i \in 1 .. Len(q) + 1 : t[i] \in Reps
  BY <1>1, ElementOfSeq
<1> HIDE DEF t
<1>3. P(0)
  <2>1. first(0) = {}
    OBVIOUS
  <2> HIDE DEF first
  <2>2. V \cup first(0) = V /\ t[0 + 1] = r
    BY <1>1, <2>1
  <2>3. Carries(t[0 + 1], N, V \cup first(0))
    BY <2>2
  <2> QED BY <2>3
<1>4. ASSUME NEW m \in Nat, P(m) PROVE P(m + 1)
  <2> SUFFICES ASSUME m + 1 <= Len(q) PROVE Carries(t[m + 2], N, V \cup first(m + 1))
    OBVIOUS
  <2>1. m + 1 \in 1 .. Len(q) /\ m + 1 \in 1 .. Len(q) + 1 /\ (m + 1) + 1 = m + 2 /\ m <= Len(q)
    BY <1>0
  <2> DEFINE f == q[m + 1]
             v == <<f.keyId, f.payload>>
             W == V \cup first(m)
  <2>2. Carries(t[m + 1], N, W)
    <3> HIDE DEF first
    <3> QED BY <1>4, <2>1
  <2>3. f \in DownFrames /\ f.frameType = "ServerValue" /\ t[m + 1] \in Reps
        /\ t[m + 2] = ReplicaApply(t[m + 1], f)
    BY <1>0, <1>1, <1>2, <2>1 DEF OfKind
  <2>4. first(m + 1) = first(m) \cup {v}
    <3>1. 1 .. m + 1 = 1 .. m \cup {m + 1}
      BY <2>1
    <3> QED BY <3>1
  <2>5. v \in Pairs(q) /\ W \cup {v} \subseteq V \cup Pairs(q)
    BY <2>1 DEF Pairs
  <2>6. V \cup first(m + 1) = W \cup {v}
    BY <2>4
  <2>7. v[1] = f.keyId /\ v = <<f.keyId, f.payload>>
    OBVIOUS
  <2> HIDE DEF f, first, v, W
  <2>8. Carries(t[m + 2], N, {w \in W : w[1] # f.keyId} \cup {v})
    BY <2>2, <2>3, <2>5, <2>7, Tells
  <2>9. W \cup {v} \subseteq {w \in W : w[1] # f.keyId} \cup {v}
    BY <2>5, <2>7 DEF OneValue
  <2>10. Carries(t[m + 2], N, W \cup {v})
    BY <2>8, <2>9, CarriesLess
  <2> QED BY <2>6, <2>10
<1> HIDE DEF P, first
<1>5. Nat \subseteq S
  <2>1. 0 \in S /\ \A m \in Nat : m \in S => m + 1 \in S
    BY <1>3, <1>4
  <2> HIDE DEF S
  <2> QED BY <2>1, SetInduction
<1>6. Carries(t[Len(q) + 1], N, V \cup first(Len(q)))
  <2>1. P(Len(q)) /\ Len(q) <= Len(q)
    BY <1>0, <1>5
  <2> QED BY <2>1 DEF P
<1>7. End(r, q) = t[Len(q) + 1]
  BY <1>1 DEF End, Last, t
<1>8. End(r, q) \in Reps
  BY <1>0, <1>2, <1>7
<1> QED BY <1>6, <1>7, <1>8 DEF Pairs, first

-----------------------------------------------------------------------------
(* What the session has.                                                   *)

StoreValues(fs) == {<<fs.entries[k].keyId, fs.entries[k].value>> : k \in DOMAIN fs.entries}
ServerValues(hs, fs) ==
    StoreValues(fs) \cup UNION {StoreValues(hs[t].flat) : t \in DOMAIN hs}

(* The keys of a store, with their ids, paths and values.                  *)
StoreData(fs, prefix) ==
    {<<fs.entries[k].keyId, WirePath(prefix, k), fs.entries[k].value>> : k \in DOMAIN fs.entries}
ServerData(hs, fs) ==
    StoreData(fs, "") \cup UNION {StoreData(hs[t].flat, TopicPrefix(hs[t].index)) : t \in DOMAIN hs}

(* Its names and its values are those of its keys.                         *)
LEMMA DataOfStore ==
    ASSUME NEW fs, NEW prefix
    PROVE  /\ \A n \in StoreNames(fs, prefix) : \E c \in StoreData(fs, prefix) : n = <<c[1], c[2]>>
           /\ \A c \in StoreData(fs, prefix) :
                 <<c[1], c[2]>> \in StoreNames(fs, prefix) /\ <<c[1], c[3]>> \in StoreValues(fs)
           /\ \A v \in StoreValues(fs) : \E c \in StoreData(fs, prefix) : v = <<c[1], c[3]>>
<1>1. ASSUME NEW k \in DOMAIN fs.entries
      PROVE  LET c == <<fs.entries[k].keyId, WirePath(prefix, k), fs.entries[k].value>> IN
             /\ c \in StoreData(fs, prefix)
             /\ <<fs.entries[k].keyId, WirePath(prefix, k)>> = <<c[1], c[2]>>
             /\ <<fs.entries[k].keyId, fs.entries[k].value>> = <<c[1], c[3]>>
             /\ <<c[1], c[2]>> \in StoreNames(fs, prefix) /\ <<c[1], c[3]>> \in StoreValues(fs)
  BY DEF StoreData, StoreNames, StoreValues
<1>2. ASSUME NEW n \in StoreNames(fs, prefix)
      PROVE  \E c \in StoreData(fs, prefix) : n = <<c[1], c[2]>>
  <2>1. PICK k \in DOMAIN fs.entries : n = <<fs.entries[k].keyId, WirePath(prefix, k)>>
    BY DEF StoreNames
  <2> QED BY <1>1, <2>1
<1>3. ASSUME NEW v \in StoreValues(fs)
      PROVE  \E c \in StoreData(fs, prefix) : v = <<c[1], c[3]>>
  <2>1. PICK k \in DOMAIN fs.entries : v = <<fs.entries[k].keyId, fs.entries[k].value>>
    BY DEF StoreValues
  <2> QED BY <1>1, <2>1
<1>4. ASSUME NEW c \in StoreData(fs, prefix)
      PROVE  <<c[1], c[2]>> \in StoreNames(fs, prefix) /\ <<c[1], c[3]>> \in StoreValues(fs)
  <2>1. PICK k \in DOMAIN fs.entries :
           c = <<fs.entries[k].keyId, WirePath(prefix, k), fs.entries[k].value>>
    BY DEF StoreData
  <2> QED BY <1>1, <2>1
<1> QED BY <1>2, <1>3, <1>4

(* The data gives the names and the values.                                *)
LEMMA DataOfServer ==
    ASSUME NEW hs, NEW fs
    PROVE  /\ \A n \in ServerNames(hs, fs) : \E c \in ServerData(hs, fs) : n = <<c[1], c[2]>>
           /\ \A c \in ServerData(hs, fs) :
                 <<c[1], c[2]>> \in ServerNames(hs, fs) /\ <<c[1], c[3]>> \in ServerValues(hs, fs)
           /\ \A v \in ServerValues(hs, fs) : \E c \in ServerData(hs, fs) : v = <<c[1], c[3]>>
<1>1. ASSUME NEW n \in ServerNames(hs, fs)
      PROVE  \E c \in ServerData(hs, fs) : n = <<c[1], c[2]>>
  <2>1. CASE n \in StoreNames(fs, "")
    <3>1. PICK c \in StoreData(fs, "") : n = <<c[1], c[2]>>
      BY <2>1, DataOfStore
    <3> QED BY <3>1 DEF ServerData
  <2>2. CASE \E t \in DOMAIN hs : n \in StoreNames(hs[t].flat, TopicPrefix(hs[t].index))
    <3>1. PICK t \in DOMAIN hs : n \in StoreNames(hs[t].flat, TopicPrefix(hs[t].index))
      BY <2>2
    <3>2. PICK c \in StoreData(hs[t].flat, TopicPrefix(hs[t].index)) : n = <<c[1], c[2]>>
      BY <3>1, DataOfStore
    <3> QED BY <3>2 DEF ServerData
  <2> QED BY <2>1, <2>2 DEF ServerNames
<1>2. ASSUME NEW v \in ServerValues(hs, fs)
      PROVE  \E c \in ServerData(hs, fs) : v = <<c[1], c[3]>>
  <2>1. CASE v \in StoreValues(fs)
    <3>1. PICK c \in StoreData(fs, "") : v = <<c[1], c[3]>>
      BY <2>1, DataOfStore
    <3> QED BY <3>1 DEF ServerData
  <2>2. CASE \E t \in DOMAIN hs : v \in StoreValues(hs[t].flat)
    <3>1. PICK t \in DOMAIN hs : v \in StoreValues(hs[t].flat)
      BY <2>2
    <3>2. PICK c \in StoreData(hs[t].flat, TopicPrefix(hs[t].index)) : v = <<c[1], c[3]>>
      BY <3>1, DataOfStore
    <3> QED BY <3>2 DEF ServerData
  <2> QED BY <2>1, <2>2 DEF ServerValues
<1>3. ASSUME NEW c \in ServerData(hs, fs)
      PROVE  <<c[1], c[2]>> \in ServerNames(hs, fs) /\ <<c[1], c[3]>> \in ServerValues(hs, fs)
  <2>1. CASE c \in StoreData(fs, "")
    BY <2>1, DataOfStore DEF ServerNames, ServerValues
  <2>2. CASE \E t \in DOMAIN hs : c \in StoreData(hs[t].flat, TopicPrefix(hs[t].index))
    <3>1. PICK t \in DOMAIN hs : c \in StoreData(hs[t].flat, TopicPrefix(hs[t].index))
      BY <2>2
    <3>2. <<c[1], c[2]>> \in StoreNames(hs[t].flat, TopicPrefix(hs[t].index))
          /\ <<c[1], c[3]>> \in StoreValues(hs[t].flat)
      BY <3>1, DataOfStore
    <3> QED BY <3>2 DEF ServerNames, ServerValues
  <2> QED BY <2>1, <2>2 DEF ServerData
<1> QED BY <1>1, <1>2, <1>3

(* No two keys of a session share a path on the wire.                      *)
LEMMA PathsOnce ==
    ASSUME NEW hs, HandlesOK(hs), Apart(hs), NEW fs \in Stores
    PROVE  \A c, d \in ServerData(hs, fs) : c[2] = d[2] => c = d
<1>0. /\ \A k \in DOMAIN fs.entries : k \in Keys
      /\ \A t \in DOMAIN hs :
            hs[t].index \in Indices /\ \A k \in DOMAIN hs[t].flat.entries : k \in Keys
  <2>1. \A t \in DOMAIN hs : hs[t].index \in Indices /\ hs[t].flat \in Stores
    BY DEF HandlesOK, HandleSet
  <2> QED BY <2>1, StoreFields
<1> DEFINE OwnKey(c, k) == /\ k \in DOMAIN fs.entries
                           /\ c = <<fs.entries[k].keyId, k, fs.entries[k].value>>
           TopicKey(c, t, k) ==
              LET e == hs[t].flat.entries IN
              /\ t \in DOMAIN hs /\ k \in DOMAIN e
              /\ c = <<e[k].keyId, <<TopicPrefix(hs[t].index), k>>, e[k].value>>
<1>1. ASSUME NEW c \in ServerData(hs, fs)
      PROVE  (\E k : OwnKey(c, k)) \/ (\E t, k : TopicKey(c, t, k))
  <2>1. CASE c \in StoreData(fs, "")
    <3>1. PICK k \in DOMAIN fs.entries : c = <<fs.entries[k].keyId, WirePath("", k), fs.entries[k].value>>
      BY <2>1 DEF StoreData
    <3>2. OwnKey(c, k)
      BY <3>1 DEF WirePath
    <3> HIDE DEF OwnKey
    <3> QED BY <3>2
  <2>2. CASE \E t \in DOMAIN hs : c \in StoreData(hs[t].flat, TopicPrefix(hs[t].index))
    <3>1. PICK t \in DOMAIN hs : c \in StoreData(hs[t].flat, TopicPrefix(hs[t].index))
      BY <2>2
    <3> DEFINE e == hs[t].flat.entries
               p == TopicPrefix(hs[t].index)
    <3>2. PICK k \in DOMAIN e : c = <<e[k].keyId, WirePath(p, k), e[k].value>>
      BY <3>1 DEF StoreData
    <3>3. p # ""
      BY <1>0, WireAssumption
    <3>4. WirePath(p, k) = <<p, k>>
      BY <3>3 DEF WirePath
    <3>5. TopicKey(c, t, k)
      BY <3>2, <3>4
    <3> HIDE DEF TopicKey
    <3> QED BY <3>5
  <2> QED BY <2>1, <2>2 DEF ServerData
<1> SUFFICES ASSUME NEW c \in ServerData(hs, fs), NEW d \in ServerData(hs, fs), c[2] = d[2]
             PROVE  c = d
  OBVIOUS
<1>2. ASSUME NEW k, OwnKey(c, k), NEW l, OwnKey(d, l) PROVE c = d
  <2>1. c[2] = k /\ d[2] = l
    BY <1>2
  <2> QED BY <1>2, <2>1
<1>3. ASSUME NEW x, NEW y, x[2] = y[2], NEW k, OwnKey(x, k), NEW t, NEW l, TopicKey(y, t, l)
      PROVE  FALSE
  <2>1. x[2] = k /\ y[2] = <<TopicPrefix(hs[t].index), l>>
    BY <1>3
  <2>2. k \in Keys /\ l \in Keys /\ hs[t].index \in Indices
    BY <1>0, <1>3
  <2> QED BY <1>3, <2>1, <2>2, WireAssumption
<1>4. ASSUME NEW t, NEW k, TopicKey(c, t, k), NEW u, NEW l, TopicKey(d, u, l) PROVE c = d
  <2>1. c[2] = <<TopicPrefix(hs[t].index), k>> /\ d[2] = <<TopicPrefix(hs[u].index), l>>
    BY <1>4
  <2>2. TopicPrefix(hs[t].index) = TopicPrefix(hs[u].index) /\ k = l
    <3> DEFINE p == TopicPrefix(hs[t].index)
               q == TopicPrefix(hs[u].index)
    <3>1. <<p, k>> = <<q, l>>
      BY <2>1
    <3> HIDE DEF p, q
    <3>2. p = q /\ k = l
      BY <3>1
    <3> QED BY <3>2 DEF p, q
  <2>3. hs[t].index = hs[u].index
    BY <1>0, <1>4, <2>2, WireAssumption
  <2>4. t = u
    BY <1>4, <2>3 DEF Apart
  <2> QED BY <1>4, <2>2, <2>4
<1> HIDE DEF OwnKey, TopicKey
<1> QED BY <1>1, <1>2, <1>3, <1>4

(* Keys, of which each has an id and a path of its own.                    *)
Distinct(D) == \A c, d \in D : c[1] = d[1] \/ c[2] = d[2] => c = d

(* The names and the values of keys.                                       *)
NamesOf(D)  == {<<c[1], c[2]>> : c \in D}
ValuesOf(D) == {<<c[1], c[3]>> : c \in D}

(* ... and those of a session are of its data.                             *)
LEMMA NamesOfServer ==
    ASSUME NEW hs, NEW fs
    PROVE  /\ ServerNames(hs, fs) = NamesOf(ServerData(hs, fs))
           /\ ServerValues(hs, fs) = ValuesOf(ServerData(hs, fs))
<1> DEFINE D == ServerData(hs, fs)
           N == ServerNames(hs, fs)
           V == ServerValues(hs, fs)
<1>1. /\ \A n \in N : \E c \in D : n = <<c[1], c[2]>>
      /\ \A c \in D : <<c[1], c[2]>> \in N /\ <<c[1], c[3]>> \in V
      /\ \A v \in V : \E c \in D : v = <<c[1], c[3]>>
  BY DataOfServer
<1> HIDE DEF D, N, V
<1>2. N = NamesOf(D) /\ V = ValuesOf(D)
  BY <1>1 DEF NamesOf, ValuesOf
<1> QED BY <1>2 DEF D, N, V

(* So what a session has can be held.                                      *)
LEMMA DataApart ==
    ASSUME NEW D, Distinct(D)
    PROVE  OneEach(NamesOf(D)) /\ OneValue(ValuesOf(D))
<1>1. ASSUME NEW m \in NamesOf(D), NEW n \in NamesOf(D) PROVE m[1] = n[1] <=> m[2] = n[2]
  <2>1. PICK c \in D : m = <<c[1], c[2]>>
    BY DEF NamesOf
  <2>2. PICK d \in D : n = <<d[1], d[2]>>
    BY DEF NamesOf
  <2>3. m[1] = c[1] /\ m[2] = c[2] /\ n[1] = d[1] /\ n[2] = d[2]
    BY <2>1, <2>2
  <2> QED BY <2>3 DEF Distinct
<1>2. ASSUME NEW v \in ValuesOf(D), NEW w \in ValuesOf(D), v[1] = w[1] PROVE v = w
  <2>1. PICK c \in D : v = <<c[1], c[3]>>
    BY DEF ValuesOf
  <2>2. PICK d \in D : w = <<d[1], d[3]>>
    BY DEF ValuesOf
  <2>3. c[1] = d[1]
    BY <1>2, <2>1, <2>2
  <2> QED BY <2>1, <2>2, <2>3 DEF Distinct
<1> QED BY <1>1, <1>2 DEF OneEach, OneValue

(* ... and each key has an id of its own besides.                          *)
LEMMA DataDistinct ==
    ASSUME NEW hs, HandlesOK(hs), Apart(hs), NEW fs \in Stores,
           NEW next, OneToOne(ServerNames(hs, fs), next)
    PROVE  Distinct(ServerData(hs, fs))
<1> DEFINE D == ServerData(hs, fs)
           N == ServerNames(hs, fs)
<1>1. \A c \in D : <<c[1], c[2]>> \in N
  BY DataOfServer
<1>2. \A c, d \in D : c[2] = d[2] => c = d
  BY PathsOnce
<1>3. \A m, n \in N : m[1] = n[1] => m[2] = n[2]
  BY DEF OneToOne
<1> HIDE DEF D, N
<1>4. ASSUME NEW c \in D, NEW d \in D, c[1] = d[1] PROVE c = d
  <2> DEFINE m == <<c[1], c[2]>>
             n == <<d[1], d[2]>>
  <2>1. m \in N /\ n \in N /\ m[1] = n[1] /\ m[2] = c[2] /\ n[2] = d[2]
    BY <1>1, <1>4
  <2> HIDE DEF m, n
  <2> QED BY <1>2, <1>3, <2>1
<1> QED BY <1>2, <1>4 DEF Distinct, D

-----------------------------------------------------------------------------
(* What a resync tells the client.                                         *)

(* The walk of a store passes every key.                                   *)
LEMMA BuiltPairs ==
    ASSUME NEW fs \in Stores, NEW prefix, PrefixOK(prefix), NEW order \in SetToSeqs(Keys)
    PROVE  LET w == Walk(fs, order)
               K == KeyFrames(fs, prefix, w)
               V == ValueFrames(fs, w)
           IN  /\ K \in Seq(DownFrames) /\ OfKind(K, "ServerKeyRegistration")
               /\ Pairs(K) = StoreNames(fs, prefix)
               /\ V \in Seq(DownFrames) /\ OfKind(V, "ServerValue")
               /\ Pairs(V) = StoreValues(fs)
<1> DEFINE w == Walk(fs, order)
           n == Len(w)
           e(k) == fs.entries[k]
           R(i) == ServerKeyRegistration(e(w[i]).keyId, e(w[i]).type, WirePath(prefix, w[i]))
           X(i) == ServerValue(e(w[i]).keyId, e(w[i]).type, e(w[i]).value)
           K == KeyFrames(fs, prefix, w)
           V == ValueFrames(fs, w)
<1>0. /\ order \in Seq(Keys) /\ \A k \in Keys : \E i \in 1 .. Len(order) : order[i] = k
      /\ DOMAIN fs.entries \subseteq Keys
  BY FlatStateAssumption, OrderOfSet, StoreFields
<1>1. /\ w \in Seq(Keys) /\ n \in Nat /\ DOMAIN w = 1 .. n
      /\ \A i \in 1 .. n : w[i] \in DOMAIN fs.entries
      /\ \A k \in DOMAIN fs.entries : \E i \in 1 .. n : w[i] = k
  <2>1. /\ w \in Seq(Keys) /\ n \in Nat /\ DOMAIN w = 1 .. n
        /\ \A i \in 1 .. n : w[i] \in Keys \cap DOMAIN fs.entries
        /\ \A i \in 1 .. Len(order) : order[i] \in DOMAIN fs.entries =>
              \E j \in 1 .. n : w[j] = order[i]
    BY <1>0, AmongElements, LenProperties DEF Walk
  <2> HIDE DEF w, n
  <2> QED BY <1>0, <2>1
<1> HIDE DEF w, n
<1>2. K = [i \in 1 .. n |-> R(i)] /\ V = [i \in 1 .. n |-> X(i)]
  BY <1>1 DEF KeyFrames, ValueFrames
<1>3. K \in Seq(DownFrames) /\ V \in Seq(DownFrames)
  <2>1. K \in Seq(FramesOf(StoreNames(fs, prefix))) /\ V \in Seq(FramesOf({}))
    BY BuiltFramesNames DEF w
  <2> HIDE DEF K, V
  <2> QED BY <2>1, FramesOfSeq
<1>4. \A i : /\ R(i).frameType = "ServerKeyRegistration" /\ X(i).frameType = "ServerValue"
             /\ R(i).keyId = e(w[i]).keyId /\ R(i).payload = WirePath(prefix, w[i])
             /\ X(i).keyId = e(w[i]).keyId /\ X(i).payload = e(w[i]).value
  BY DEF ServerKeyRegistration, ServerValue, Frame
<1> HIDE DEF R, X, e
<1>5. /\ Len(K) = n /\ \A i \in 1 .. n : K[i] = R(i)
      /\ Len(V) = n /\ \A i \in 1 .. n : V[i] = X(i)
  BY <1>1, <1>2
<1> HIDE DEF K, V
<1>6. OfKind(K, "ServerKeyRegistration") /\ OfKind(V, "ServerValue")
  BY <1>4, <1>5 DEF OfKind
<1>7. Pairs(K) = {<<e(w[i]).keyId, WirePath(prefix, w[i])>> : i \in 1 .. n}
      /\ Pairs(V) = {<<e(w[i]).keyId, e(w[i]).value>> : i \in 1 .. n}
  BY <1>4, <1>5 DEF Pairs
<1>8. {<<e(w[i]).keyId, WirePath(prefix, w[i])>> : i \in 1 .. n}
        = {<<e(k).keyId, WirePath(prefix, k)>> : k \in DOMAIN fs.entries}
  BY <1>1
<1>9. {<<e(w[i]).keyId, e(w[i]).value>> : i \in 1 .. n}
        = {<<e(k).keyId, e(k).value>> : k \in DOMAIN fs.entries}
  BY <1>1
<1> QED BY <1>3, <1>6, <1>7, <1>8, <1>9 DEF StoreNames, StoreValues, w, K, V, e

(* Frames that are flattened.                                              *)
LEMMA FlatPairs ==
    ASSUME NEW ss \in Seq(Seq(DownFrames)), NEW type,
           \A i \in 1 .. Len(ss) : OfKind(ss[i], type)
    PROVE  LET q == FlattenSeq(ss) IN
           /\ q \in Seq(DownFrames) /\ OfKind(q, type)
           /\ Pairs(q) = UNION {Pairs(ss[i]) : i \in 1 .. Len(ss)}
<1> DEFINE q == FlattenSeq(ss)
           n == Len(ss)
<1>1. q \in Seq(DownFrames) /\ \E at : MadeOf(q, ss, n, at)
  BY Flattened
<1> HIDE DEF q
<1>2. PICK at : MadeOf(q, ss, n, at)
  BY <1>1
<1>3. n \in Nat /\ \A i \in 1 .. n : ss[i] \in Seq(DownFrames) /\ Len(ss[i]) \in Nat
  BY LenProperties, ElementOfSeq
<1> HIDE DEF n
<1>4. ASSUME NEW i \in 1 .. Len(q)
      PROVE  \E j \in 1 .. n : \E m \in 1 .. Len(ss[j]) : q[i] = ss[j][m]
  <2>1. at[i] \in Places(ss, n) /\ q[i] = ss[at[i][1]][at[i][2]]
    BY <1>2 DEF MadeOf
  <2>2. at[i][1] \in 1 .. n /\ at[i][2] \in 1 .. Len(ss[at[i][1]])
    BY <2>1 DEF Places
  <2> QED BY <2>1, <2>2
<1>5. ASSUME NEW j \in 1 .. n, NEW m \in 1 .. Len(ss[j])
      PROVE  \E i \in 1 .. Len(q) : q[i] = ss[j][m]
  <2> DEFINE x == <<j, m>>
  <2>1. x \in Places(ss, n) /\ x[1] = j /\ x[2] = m
    BY <1>3 DEF Places
  <2> HIDE DEF x
  <2>2. PICK i \in 1 .. Len(q) : at[i] = x
    BY <1>2, <2>1 DEF MadeOf
  <2>3. q[i] = ss[x[1]][x[2]]
    BY <1>2, <2>2 DEF MadeOf
  <2> QED BY <2>1, <2>3
<1>6. OfKind(q, type)
  <2> SUFFICES ASSUME NEW i \in 1 .. Len(q) PROVE q[i].frameType = type
    BY DEF OfKind
  <2>1. PICK j \in 1 .. n : \E m \in 1 .. Len(ss[j]) : q[i] = ss[j][m]
    BY <1>4
  <2>2. OfKind(ss[j], type)
    BY DEF n
  <2> QED BY <2>1, <2>2 DEF OfKind
<1>7. ASSUME NEW v \in Pairs(q) PROVE \E j \in 1 .. n : v \in Pairs(ss[j])
  <2>1. PICK i \in 1 .. Len(q) : v = <<q[i].keyId, q[i].payload>>
    BY DEF Pairs
  <2>2. PICK j \in 1 .. n : \E m \in 1 .. Len(ss[j]) : q[i] = ss[j][m]
    BY <1>4
  <2>3. v \in Pairs(ss[j])
    BY <2>1, <2>2 DEF Pairs
  <2> QED BY <2>3
<1>8. ASSUME NEW j \in 1 .. n, NEW v \in Pairs(ss[j]) PROVE v \in Pairs(q)
  <2>1. PICK m \in 1 .. Len(ss[j]) : v = <<ss[j][m].keyId, ss[j][m].payload>>
    BY DEF Pairs
  <2>2. PICK i \in 1 .. Len(q) : q[i] = ss[j][m]
    BY <1>5
  <2> QED BY <2>1, <2>2 DEF Pairs
<1>9. Pairs(q) = UNION {Pairs(ss[i]) : i \in 1 .. n}
  BY <1>7, <1>8
<1> QED BY <1>1, <1>6, <1>9 DEF q, n

(* After a resync any client has what the session has, and nothing else.   *)
LEMMA Resynced ==
    ASSUME NEW hs, HandlesOK(hs), NEW fs \in Stores, NEW o \in Orders,
           OneEach(ServerNames(hs, fs)), OneValue(ServerValues(hs, fs)), NEW r \in Reps
    PROVE  LET q == ResyncFrames(hs, fs, o) IN
           /\ q \in Seq(DownFrames) /\ ServerReset \in ToSet(q)
           /\ Carries(End(r, q), ServerNames(hs, fs), ServerValues(hs, fs))
<1> DEFINE q == Names(DOMAIN hs)
           n == Len(q)
           keys(t)   == KeyFrames(hs[t].flat, TopicPrefix(hs[t].index), Walk(hs[t].flat, o[t]))
           values(t) == ValueFrames(hs[t].flat, Walk(hs[t].flat, o[t]))
           K == [i \in 1 .. n |-> keys(q[i])]
           V == [i \in 1 .. n |-> values(q[i])]
           k0 == KeyFrames(fs, "", Walk(fs, o["session"]))
           v0 == ValueFrames(fs, Walk(fs, o["session"]))
           N == ServerNames(hs, fs)
           W == ServerValues(hs, fs)
           Ns(t) == StoreNames(hs[t].flat, TopicPrefix(hs[t].index))
           Vs(t) == StoreValues(hs[t].flat)
<1>0. DOMAIN hs \subseteq Topics /\ \A t \in DOMAIN hs : hs[t].index \in Indices /\ hs[t].flat \in Stores
  BY DEF HandlesOK, HandleSet
<1>1. /\ n \in Nat /\ DOMAIN q = 1 .. n /\ \A i \in 1 .. n : q[i] \in DOMAIN hs
      /\ \A t \in DOMAIN hs : \E i \in 1 .. n : q[i] = t
  BY <1>0, NamesElements, LenProperties
<1>2. ResyncFrames(hs, fs, o) =
        (((((<< ServerReset >> \o k0) \o FlattenSeq(K)) \o << ServerSync >>) \o v0) \o FlattenSeq(V))
  BY <1>1 DEF ResyncFrames, Names
<1>3. o["session"] \in SetToSeqs(Keys) /\ \A t \in Topics : o[t] \in SetToSeqs(Keys)
  BY DEF Orders
<1>4. PrefixOK("") /\ \A i \in Indices : PrefixOK(TopicPrefix(i))
  BY PathsOfKeys DEF PrefixOK
<1>5. /\ k0 \in Seq(DownFrames) /\ OfKind(k0, "ServerKeyRegistration")
      /\ Pairs(k0) = StoreNames(fs, "")
      /\ v0 \in Seq(DownFrames) /\ OfKind(v0, "ServerValue")
      /\ Pairs(v0) = StoreValues(fs)
  BY <1>3, <1>4, BuiltPairs
<1>6. ASSUME NEW t \in DOMAIN hs
      PROVE  /\ keys(t) \in Seq(DownFrames) /\ OfKind(keys(t), "ServerKeyRegistration")
             /\ Pairs(keys(t)) = Ns(t)
             /\ values(t) \in Seq(DownFrames) /\ OfKind(values(t), "ServerValue")
             /\ Pairs(values(t)) = Vs(t)
  BY <1>0, <1>3, <1>4, BuiltPairs
<1>7. N = StoreNames(fs, "") \cup UNION {Ns(t) : t \in DOMAIN hs}
      /\ W = StoreValues(fs) \cup UNION {Vs(t) : t \in DOMAIN hs}
  BY DEF ServerNames, ServerValues
<1> HIDE DEF q, n, keys, values, k0, v0, N, W, Ns, Vs
<1>8. /\ FlattenSeq(K) \in Seq(DownFrames) /\ OfKind(FlattenSeq(K), "ServerKeyRegistration")
      /\ Pairs(FlattenSeq(K)) = UNION {Ns(t) : t \in DOMAIN hs}
  <2>1. K \in Seq(Seq(DownFrames)) /\ Len(K) = n /\ \A i \in 1 .. n : K[i] = keys(q[i])
    BY <1>1, <1>6
  <2>2. \A i \in 1 .. n : OfKind(K[i], "ServerKeyRegistration") /\ Pairs(K[i]) = Ns(q[i])
    BY <1>1, <1>6, <2>1
  <2> HIDE DEF K
  <2>3. /\ FlattenSeq(K) \in Seq(DownFrames) /\ OfKind(FlattenSeq(K), "ServerKeyRegistration")
        /\ Pairs(FlattenSeq(K)) = UNION {Pairs(K[i]) : i \in 1 .. n}
    BY <2>1, <2>2, FlatPairs
  <2>4. UNION {Pairs(K[i]) : i \in 1 .. n} = UNION {Ns(t) : t \in DOMAIN hs}
    BY <1>1, <2>2
  <2> QED BY <2>3, <2>4
<1>9. /\ FlattenSeq(V) \in Seq(DownFrames) /\ OfKind(FlattenSeq(V), "ServerValue")
      /\ Pairs(FlattenSeq(V)) = UNION {Vs(t) : t \in DOMAIN hs}
  <2>1. V \in Seq(Seq(DownFrames)) /\ Len(V) = n /\ \A i \in 1 .. n : V[i] = values(q[i])
    BY <1>1, <1>6
  <2>2. \A i \in 1 .. n : OfKind(V[i], "ServerValue") /\ Pairs(V[i]) = Vs(q[i])
    BY <1>1, <1>6, <2>1
  <2> HIDE DEF V
  <2>3. /\ FlattenSeq(V) \in Seq(DownFrames) /\ OfKind(FlattenSeq(V), "ServerValue")
        /\ Pairs(FlattenSeq(V)) = UNION {Pairs(V[i]) : i \in 1 .. n}
    BY <2>1, <2>2, FlatPairs
  <2>4. UNION {Pairs(V[i]) : i \in 1 .. n} = UNION {Vs(t) : t \in DOMAIN hs}
    BY <1>1, <2>2
  <2> QED BY <2>3, <2>4
<1> DEFINE fk == FlattenSeq(K)
           fv == FlattenSeq(V)
<1> HIDE DEF K, V, fk, fv
<1>10. OneEach(N) /\ OneValue(W)
  BY DEF N, W
<1>11. ServerReset \in DownFrames /\ ServerSync \in DownFrames
  BY DEF DownFrames
<1> DEFINE a == << ServerReset >>
           b == a \o k0
           c == b \o fk
           d == c \o << ServerSync >>
           g == d \o v0
           h == g \o fv
<1>12. a \in Seq(DownFrames) /\ End(r, a) = EmptyReplica /\ EmptyReplica \in Reps
  BY <1>11, EndOne, EmptyReplicaType, OthersApply
<1> HIDE DEF a
<1>13. b \in Seq(DownFrames) /\ End(r, b) \in Reps /\ Carries(End(r, b), StoreNames(fs, ""), {})
  <2>1. b \in Seq(DownFrames) /\ End(r, b) = End(EmptyReplica, k0)
    BY <1>5, <1>12, EndConcat
  <2>2. Carries(EmptyReplica, {}, {})
    BY EmptyHolds DEF Carries
  <2>3. {} \cup Pairs(k0) = StoreNames(fs, "") /\ OneEach({} \cup Pairs(k0))
    <3>1. {} \cup Pairs(k0) = StoreNames(fs, "")
      BY <1>5
    <3>2. StoreNames(fs, "") \subseteq N
      BY <1>7
    <3>3. OneEach(StoreNames(fs, ""))
      BY <1>10, <3>2 DEF OneEach
    <3> QED BY <3>1, <3>3
  <2>4. End(EmptyReplica, k0) \in Reps /\ Carries(End(EmptyReplica, k0), {} \cup Pairs(k0), {})
    BY <1>5, <1>12, <2>2, <2>3, RegistersAll
  <2> QED BY <2>1, <2>3, <2>4
<1> HIDE DEF b
<1>14. c \in Seq(DownFrames) /\ End(r, c) \in Reps /\ Carries(End(r, c), N, {})
  <2>1. c \in Seq(DownFrames) /\ End(r, c) = End(End(r, b), fk)
    BY <1>8, <1>13, EndConcat DEF fk
  <2>2. StoreNames(fs, "") \cup Pairs(fk) = N
    BY <1>7, <1>8 DEF fk
  <2>3. End(End(r, b), fk) \in Reps /\ Carries(End(End(r, b), fk), StoreNames(fs, "") \cup Pairs(fk), {})
    BY <1>8, <1>10, <1>13, <2>2, RegistersAll DEF fk
  <2> QED BY <2>1, <2>2, <2>3
<1> HIDE DEF c
<1>15. d \in Seq(DownFrames) /\ End(r, d) = End(r, c)
  <2>1. << ServerSync >> \in Seq(DownFrames) /\ End(End(r, c), << ServerSync >>) = End(r, c)
    BY <1>11, <1>14, EndOne, OthersApply
  <2> QED BY <1>14, <2>1, EndConcat
<1> HIDE DEF d
<1>16. \A v \in W : \E m \in N : m[1] = v[1]
  <2> SUFFICES ASSUME NEW v \in W PROVE \E m \in N : m[1] = v[1]
    OBVIOUS
  <2>1. PICK x \in ServerData(hs, fs) : v = <<x[1], x[3]>>
    BY DataOfServer DEF W
  <2>2. <<x[1], x[2]>> \in N
    BY DataOfServer DEF N
  <2> QED BY <2>1, <2>2
<1>17. g \in Seq(DownFrames) /\ End(r, g) \in Reps /\ Carries(End(r, g), N, StoreValues(fs))
  <2>1. g \in Seq(DownFrames) /\ End(r, g) = End(End(r, c), v0)
    <3>1. g \in Seq(DownFrames) /\ End(r, g) = End(End(r, d), v0)
      BY <1>5, <1>15, EndConcat
    <3> HIDE DEF g
    <3> QED BY <1>15, <3>1
  <2>2. {} \cup Pairs(v0) = StoreValues(fs) /\ StoreValues(fs) \subseteq W
    BY <1>5, <1>7
  <2>3. OneValue({} \cup Pairs(v0)) /\ \A v \in Pairs(v0) : \E m \in N : m[1] = v[1]
    BY <1>10, <1>16, <2>2 DEF OneValue
  <2>4. End(End(r, c), v0) \in Reps /\ Carries(End(End(r, c), v0), N, {} \cup Pairs(v0))
    BY <1>5, <1>14, <2>3, TellsAll
  <2> QED BY <2>1, <2>2, <2>4
<1> HIDE DEF g
<1>18. h \in Seq(DownFrames) /\ Carries(End(r, h), N, W)
  <2>1. h \in Seq(DownFrames) /\ End(r, h) = End(End(r, g), fv)
    BY <1>9, <1>17, EndConcat DEF fv
  <2>2. StoreValues(fs) \cup Pairs(fv) = W
    BY <1>7, <1>9 DEF fv
  <2>3. \A v \in Pairs(fv) : \E m \in N : m[1] = v[1]
    BY <1>16, <2>2
  <2>4. Carries(End(End(r, g), fv), N, StoreValues(fs) \cup Pairs(fv))
    BY <1>9, <1>10, <1>17, <2>2, <2>3, TellsAll DEF fv
  <2> QED BY <2>1, <2>2, <2>4
<1>19. ServerReset \in ToSet(h)
  <2> DEFINE x == << ServerReset >>
  <2>1. a = x /\ x \in Seq(DownFrames) /\ Len(x) = 1 /\ x[1] = ServerReset
    BY <1>11 DEF a
  <2> HIDE DEF x
  <2>2. ASSUME NEW y \in Seq(DownFrames), NEW z \in Seq(DownFrames), Len(y) # 0, y[1] = ServerReset
        PROVE  Len(y \o z) # 0 /\ (y \o z)[1] = ServerReset
    <3>1. Len(y) \in Nat /\ Len(z) \in Nat /\ Len(y \o z) = Len(y) + Len(z)
      BY <2>2, ConcatProperties, LenProperties
    <3>2. 1 \in 1 .. Len(y) + Len(z) /\ 1 <= Len(y)
      BY <2>2, <3>1
    <3>3. (y \o z)[1] = y[1]
      BY <3>2, ConcatProperties
    <3> QED BY <2>2, <3>1, <3>3
  <2>3. << ServerSync >> \in Seq(DownFrames)
    BY <1>11
  <2>4. Len(b) # 0 /\ b[1] = ServerReset
    <3>1. a \in Seq(DownFrames) /\ Len(a) # 0 /\ a[1] = ServerReset
      BY <2>1
    <3> QED BY <1>5, <2>2, <3>1 DEF b
  <2>5. Len(c) # 0 /\ c[1] = ServerReset
    BY <1>8, <1>13, <2>2, <2>4 DEF c, fk
  <2>6. Len(d) # 0 /\ d[1] = ServerReset
    BY <1>14, <2>2, <2>3, <2>5 DEF d
  <2>7. Len(g) # 0 /\ g[1] = ServerReset
    BY <1>5, <1>15, <2>2, <2>6 DEF g
  <2>8. Len(h) # 0 /\ h[1] = ServerReset
    BY <1>9, <1>17, <2>2, <2>7 DEF fv
  <2> HIDE DEF h
  <2>9. DOMAIN h = 1 .. Len(h) /\ Len(h) \in Nat
    BY <1>18, LenProperties
  <2> QED BY <2>8, <2>9 DEF ToSet
<1>20. ResyncFrames(hs, fs, o) = h
  BY <1>2 DEF a, b, c, d, g, fk, fv, K, V
<1> HIDE DEF h
<1> QED BY <1>18, <1>19, <1>20 DEF N, W

(* The members of two sequences, one after the other.                      *)
LEMMA FramesTogether ==
    ASSUME NEW p \in Seq(DownFrames), NEW q \in Seq(DownFrames)
    PROVE  ToSet(p \o q) = ToSet(p) \cup ToSet(q)
<1> DEFINE w == p \o q
           m == Len(p)
           n == Len(q)
<1>1. /\ m \in Nat /\ n \in Nat /\ DOMAIN p = 1 .. m /\ DOMAIN q = 1 .. n
      /\ DOMAIN w = 1 .. m + n
      /\ \A i \in 1 .. m + n : w[i] = IF i <= m THEN p[i] ELSE q[i - m]
  BY ConcatProperties, LenProperties
<1> HIDE DEF w, m, n
<1>2. ASSUME NEW i \in 1 .. m + n
      PROVE  (\E j \in 1 .. m : w[i] = p[j]) \/ (\E j \in 1 .. n : w[i] = q[j])
  <2>1. CASE i <= m
    BY <1>1, <2>1
  <2>2. CASE ~(i <= m)
    <3>1. i - m \in 1 .. n
      BY <1>1, <2>2
    <3> QED BY <1>1, <2>2, <3>1
  <2> QED BY <2>1, <2>2
<1>3. ASSUME NEW j \in 1 .. m PROVE \E i \in 1 .. m + n : w[i] = p[j]
  <2>1. j \in 1 .. m + n /\ j <= m
    BY <1>1
  <2> QED BY <1>1, <2>1
<1>4. ASSUME NEW j \in 1 .. n PROVE \E i \in 1 .. m + n : w[i] = q[j]
  <2>1. m + j \in 1 .. m + n /\ ~(m + j <= m) /\ (m + j) - m = j
    BY <1>1
  <2> QED BY <1>1, <2>1
<1>5. {w[i] : i \in 1 .. m + n} = {p[i] : i \in 1 .. m} \cup {q[i] : i \in 1 .. n}
  BY <1>2, <1>3, <1>4
<1> QED BY <1>1, <1>5 DEF ToSet, w

(* Of several resyncs the last one counts.                                 *)
LEMMA LastResync ==
    ASSUME NEW ss \in Seq(Seq(DownFrames)), Len(ss) # 0, NEW N, NEW V,
           ServerReset \in ToSet(ss[Len(ss)]),
           \A r \in Reps : Carries(End(r, ss[Len(ss)]), N, V)
    PROVE  /\ FlattenSeq(ss) \in Seq(DownFrames) /\ ServerReset \in ToSet(FlattenSeq(ss))
           /\ \A r \in Reps : Carries(End(r, FlattenSeq(ss)), N, V)
<1> DEFINE n == Len(ss)
           front == [i \in 1 .. n - 1 |-> ss[i]]
           last == ss[n]
           f == FlattenSeq(front)
<1>1. n \in Nat /\ n # 0 /\ \A i \in 1 .. n : ss[i] \in Seq(DownFrames)
  BY LenProperties, ElementOfSeq
<1>2. /\ front \in Seq(Seq(DownFrames)) /\ Len(front) = n - 1 /\ last \in Seq(DownFrames)
      /\ \A i \in 1 .. n - 1 : front[i] = ss[i]
  <2> HIDE DEF n
  <2>1. n - 1 \in Nat /\ n \in 1 .. n /\ \A i \in 1 .. n - 1 : i \in 1 .. n
    BY <1>1
  <2> QED BY <1>1, <2>1
<1> HIDE DEF front, last, f, n
<1>3. ss = Append(front, last)
  <2> DEFINE a == Append(front, last)
  <2>1. /\ a \in Seq(Seq(DownFrames)) /\ Len(a) = n
        /\ \A i \in 1 .. n - 1 : a[i] = front[i]
        /\ a[n] = last
    <3>1. /\ a \in Seq(Seq(DownFrames)) /\ Len(a) = (n - 1) + 1
          /\ \A i \in 1 .. n - 1 : a[i] = front[i]
          /\ a[(n - 1) + 1] = last
      BY <1>2, AppendProperties
    <3> HIDE DEF a
    <3>2. (n - 1) + 1 = n
      BY <1>1
    <3> QED BY <3>1, <3>2
  <2> HIDE DEF a
  <2>2. \A i \in 1 .. n : a[i] = ss[i]
    <3> TAKE i \in 1 .. n
    <3>1. i = n \/ i \in 1 .. n - 1
      BY <1>1
    <3> QED BY <1>2, <2>1, <3>1 DEF last
  <2>3. Len(ss) = n
    BY DEF n
  <2> QED BY <2>1, <2>2, <2>3, SeqEqual DEF a
<1>4. f \in Seq(DownFrames) /\ FlattenSeq(ss) = f \o last
  BY <1>2, <1>3, FlattenAppend DEF f
<1>5. FlattenSeq(ss) \in Seq(DownFrames) /\ ServerReset \in ToSet(FlattenSeq(ss))
  BY <1>2, <1>4, ConcatProperties, FramesTogether DEF last, n
<1>6. ASSUME NEW r \in Reps PROVE Carries(End(r, FlattenSeq(ss)), N, V)
  <2>1. End(r, f) \in Reps /\ End(r, f \o last) = End(End(r, f), last)
    BY <1>2, <1>4, EndConcat
  <2>2. Carries(End(End(r, f), last), N, V)
    BY <2>1 DEF last, n
  <2> QED BY <1>4, <2>1, <2>2
<1> QED BY <1>5, <1>6

(* Handles without keys make no difference.                                *)
LEMMA SameData ==
    ASSUME NEW hs, NEW fs, NEW g, DOMAIN g \subseteq DOMAIN hs, \A t \in DOMAIN g : g[t] = hs[t],
           \A t \in DOMAIN hs \ DOMAIN g : hs[t].flat = EmptyFlat
    PROVE  ServerNames(hs, fs) = ServerNames(g, fs) /\ ServerValues(hs, fs) = ServerValues(g, fs)
<1> DEFINE Ns(h, t) == StoreNames(h[t].flat, TopicPrefix(h[t].index))
           Vs(h, t) == StoreValues(h[t].flat)
<1>1. \A t \in DOMAIN g : t \in DOMAIN hs /\ Ns(g, t) = Ns(hs, t) /\ Vs(g, t) = Vs(hs, t)
  OBVIOUS
<1>2. StoreValues(EmptyFlat) = {}
  BY DEF StoreValues, EmptyFlat, EmptyMap
<1>3. \A t \in DOMAIN hs \ DOMAIN g : Ns(hs, t) = {} /\ Vs(hs, t) = {}
  BY <1>2, EmptyStore
<1> HIDE DEF Ns, Vs
<1>4. UNION {Ns(hs, t) : t \in DOMAIN hs} = UNION {Ns(g, t) : t \in DOMAIN g}
  BY <1>1, <1>3
<1>5. UNION {Vs(hs, t) : t \in DOMAIN hs} = UNION {Vs(g, t) : t \in DOMAIN g}
  BY <1>1, <1>3
<1> QED BY <1>4, <1>5 DEF ServerNames, ServerValues, Ns, Vs

(* Fewer handles have less.                                                *)
LEMMA LessData ==
    ASSUME NEW hs, NEW fs, NEW g, DOMAIN g \subseteq DOMAIN hs, \A t \in DOMAIN g : g[t] = hs[t],
           OneEach(ServerNames(hs, fs)), OneValue(ServerValues(hs, fs))
    PROVE  OneEach(ServerNames(g, fs)) /\ OneValue(ServerValues(g, fs))
<1>1. ServerNames(g, fs) \subseteq ServerNames(hs, fs)
  BY FewerNames
<1>2. ServerValues(g, fs) \subseteq ServerValues(hs, fs)
  BY DEF ServerValues
<1> QED BY <1>1, <1>2 DEF OneEach, OneValue

(* The resyncs of the topics that are removed.                             *)
LEMMA RemovalResyncs ==
    ASSUME HandlesOK(handles), flat \in Stores, NEW o \in Orders,
           OneEach(ServerNames(handles, flat)), OneValue(ServerValues(handles, flat)),
           NEW rest, rest = [t \in DOMAIN handles \cap NewTopics |-> handles[t]],
           DOMAIN handles \ NewTopics # {}
    PROVE  LET q == RemovalFrames(o) IN
           /\ q \in Seq(DownFrames) /\ ServerReset \in ToSet(q)
           /\ \A r \in Reps : Carries(End(r, q), ServerNames(rest, flat), ServerValues(rest, flat))
<1> DEFINE gone    == Names(DOMAIN handles \ NewTopics)
           n == Len(gone)
           left(i) == [t \in DOMAIN handles \ {gone[j] : j \in 1 .. i} |-> handles[t]]
           ss == [i \in 1 .. n |-> ResyncFrames(left(i), flat, o)]
<1>0. DOMAIN handles \ NewTopics \subseteq Topics
  BY DEF HandlesOK
<1>1. /\ n \in Nat /\ DOMAIN gone = 1 .. n
      /\ \A i \in 1 .. n : gone[i] \in DOMAIN handles \ NewTopics
      /\ \A t \in DOMAIN handles \ NewTopics : \E i \in 1 .. n : gone[i] = t
  BY <1>0, NamesElements, LenProperties
<1>2. RemovalFrames(o) = FlattenSeq(ss)
  BY <1>1 DEF RemovalFrames, Names
<1> HIDE DEF gone, n
<1>3. n # 0 /\ n \in 1 .. n
  BY <1>1
<1>4. {gone[j] : j \in 1 .. n} = DOMAIN handles \ NewTopics
  BY <1>1
<1>5. left(n) = rest
  <2>1. DOMAIN handles \ {gone[j] : j \in 1 .. n} = DOMAIN handles \cap NewTopics
    BY <1>4
  <2> QED BY <2>1
<1>6. ASSUME NEW i \in 1 .. n
      PROVE  LET q == ResyncFrames(left(i), flat, o) IN
             /\ q \in Seq(DownFrames) /\ ServerReset \in ToSet(q)
             /\ \A r \in Reps :
                   Carries(End(r, q), ServerNames(left(i), flat), ServerValues(left(i), flat))
  <2> DEFINE l == left(i)
  <2>1. DOMAIN l \subseteq DOMAIN handles /\ \A t \in DOMAIN l : l[t] = handles[t]
    OBVIOUS
  <2> HIDE DEF l
  <2>2. HandlesOK(l)
    BY <2>1 DEF HandlesOK
  <2>3. OneEach(ServerNames(l, flat)) /\ OneValue(ServerValues(l, flat))
    BY <2>1, LessData
  <2>4. EmptyReplica \in Reps
    BY EmptyReplicaType
  <2>5. /\ ResyncFrames(l, flat, o) \in Seq(DownFrames) /\ ServerReset \in ToSet(ResyncFrames(l, flat, o))
        /\ \A r \in Reps :
              Carries(End(r, ResyncFrames(l, flat, o)), ServerNames(l, flat), ServerValues(l, flat))
    BY <2>2, <2>3, <2>4, Resynced
  <2> QED BY <2>5 DEF l
<1> HIDE DEF left
<1>7. ss \in Seq(Seq(DownFrames)) /\ Len(ss) = n /\ ss[n] = ResyncFrames(left(n), flat, o)
  BY <1>1, <1>3, <1>6
<1> HIDE DEF ss
<1>8. /\ ServerReset \in ToSet(ss[n])
      /\ \A r \in Reps : Carries(End(r, ss[n]), ServerNames(rest, flat), ServerValues(rest, flat))
  BY <1>3, <1>5, <1>6, <1>7
<1>9. /\ FlattenSeq(ss) \in Seq(DownFrames) /\ ServerReset \in ToSet(FlattenSeq(ss))
      /\ \A r \in Reps :
            Carries(End(r, FlattenSeq(ss)), ServerNames(rest, flat), ServerValues(rest, flat))
  BY <1>3, <1>7, <1>8, LastResync
<1> QED BY <1>2, <1>9

(* ... of which there may be none.                                         *)
LEMMA NoRemovals ==
    ASSUME HandlesOK(handles), NEW o, DOMAIN handles \ NewTopics = {}
    PROVE  RemovalFrames(o) = << >>
<1> DEFINE gone    == Names(DOMAIN handles \ NewTopics)
           left(i) == [t \in DOMAIN handles \ {gone[j] : j \in 1 .. i} |-> handles[t]]
           X(i) == ResyncFrames(left(i), flat, o)
<1>0. DOMAIN handles \ NewTopics \in SUBSET Topics
  BY DEF HandlesOK
<1>1. DOMAIN gone = {}
  <2>1. /\ gone \in Seq(Topics) /\ Len(gone) \in Nat
        /\ \A i \in 1 .. Len(gone) : gone[i] \in DOMAIN handles \ NewTopics
    BY <1>0, NamesElements
  <2> HIDE DEF gone
  <2>2. DOMAIN gone = 1 .. Len(gone)
    BY <2>1, LenProperties
  <2> QED BY <2>1, <2>2
<1>2. RemovalFrames(o) = FlattenSeq([i \in DOMAIN gone |-> X(i)])
  BY DEF RemovalFrames, Names
<1> HIDE DEF gone, X
<1>3. [i \in DOMAIN gone |-> X(i)] = << >>
  BY <1>1
<1> QED BY <1>2, <1>3, FlattenNone

-----------------------------------------------------------------------------
(* What a set() or clear() tells the client.                               *)

(* A key is registered, and its value follows.                             *)
LEMMA Introduced ==
    ASSUME NEW r \in Reps, NEW N, NEW V, Carries(r, N, V),
           NEW id \in KeyIds, NEW dt \in DataTypes, NEW p \in WirePaths, NEW v \in Values,
           OneEach(N \cup {<<id, p>>})
    PROVE  LET q == << ServerKeyRegistration(id, dt, p), ServerSync, ServerValue(id, dt, v) >> IN
           /\ q \in Seq(DownFrames)
           /\ Carries(End(r, q), N \cup {<<id, p>>}, {w \in V : w[1] # id} \cup {<<id, v>>})
<1> DEFINE f == ServerKeyRegistration(id, dt, p)
           g == ServerValue(id, dt, v)
           M == N \cup {<<id, p>>}
           a == << f >> \o << ServerSync >>
           q == << f, ServerSync, g >>
<1>1. /\ f \in DownFrames /\ f.frameType = "ServerKeyRegistration" /\ f.keyId = id /\ f.payload = p
      /\ g \in DownFrames /\ g.frameType = "ServerValue" /\ g.keyId = id /\ g.payload = v
      /\ ServerSync \in DownFrames
  BY DEF DownFrames, ServerKeyRegistration, ServerValue, Frame
<1>2. \E n \in M : n[1] = id
  <2>1. <<id, p>> \in M /\ <<id, p>>[1] = id
    OBVIOUS
  <2> QED BY <2>1
<1>3. q = a \o << g >>
  BY <1>1
<1> HIDE DEF f, g, q
<1>4. << f >> \in Seq(DownFrames) /\ End(r, << f >>) \in Reps /\ Carries(End(r, << f >>), M, V)
  BY <1>1, EndOne, Registers
<1> HIDE DEF M
<1>5. << ServerSync >> \in Seq(DownFrames) /\ a \in Seq(DownFrames) /\ End(r, a) = End(r, << f >>)
  <2>1. << ServerSync >> \in Seq(DownFrames) /\ End(End(r, << f >>), << ServerSync >>) = End(r, << f >>)
    BY <1>1, <1>4, EndOne, OthersApply
  <2> QED BY <1>4, <2>1, EndConcat
<1> HIDE DEF a
<1>6. /\ << g >> \in Seq(DownFrames) /\ a \o << g >> \in Seq(DownFrames)
      /\ End(r, a \o << g >>) = ReplicaApply(End(r, a), g)
  <2>1. << g >> \in Seq(DownFrames) /\ End(End(r, a), << g >>) = ReplicaApply(End(r, a), g)
    BY <1>1, <1>4, <1>5, EndOne
  <2> QED BY <1>5, <2>1, EndConcat
<1>7. Carries(ReplicaApply(End(r, a), g), M, {w \in V : w[1] # id} \cup {<<id, v>>})
  BY <1>1, <1>2, <1>4, <1>5, Tells
<1> QED BY <1>3, <1>6, <1>7 DEF q, f, g, M

(* The keys D, with the value v at the path p, under the given id.         *)
With(D, id, p, v) == {c \in D : c[2] # p} \cup {<<id, p, v>>}

(* A key is set: the client has what the session has now.                  *)
LEMMA SetFollowed ==
    ASSUME NEW r \in Reps, NEW D, Distinct(D), Carries(r, NamesOf(D), ValuesOf(D)),
           NEW fs \in Stores, NEW prefix, PrefixOK(prefix), StoreData(fs, prefix) \subseteq D,
           NEW k \in Keys, NEW v \in Values, NEW id,
           NeedsNewId(fs, k, v) => id \in KeyIds /\ \A c \in D : c[1] # id,
           ~HasKey(fs, k) => \A c \in D : c[2] # WirePath(prefix, k)
    PROVE  LET q == SetFrames(fs, prefix, k, v, id)
               E == With(D, IF NeedsNewId(fs, k, v) THEN id ELSE fs.entries[k].keyId,
                         WirePath(prefix, k), v)
           IN  q \in Seq(DownFrames) /\ Carries(End(r, q), NamesOf(E), ValuesOf(E))
<1> DEFINE p == WirePath(prefix, k)
           dt == DetectDataType[v]
           old == fs.entries[k].keyId
           N == NamesOf(D)
           V == ValuesOf(D)
           rest == {c \in D : c[2] # p}
<1>0. dt \in DataTypes /\ p \in WirePaths
  BY FlatStateAssumption DEF PrefixOK
<1>1. OneEach(N) /\ OneValue(V)
  BY DataApart
<1>2. ASSUME HasKey(fs, k)
      PROVE  /\ old \in KeyIds /\ \A c \in D : c[1] = old <=> c[2] = p
             /\ \E n \in N : n[1] = old
             /\ \E c \in D : c[1] = old /\ c[2] = p
  <2> DEFINE e == <<old, p, fs.entries[k].value>>
  <2>1. e \in StoreData(fs, prefix) /\ old \in KeyIds
    BY <1>2, StoreFields DEF StoreData, HasKey
  <2>2. e \in D /\ e[1] = old /\ e[2] = p
    BY <2>1
  <2> HIDE DEF e, p, old
  <2>3. \A c \in D : c[1] = old <=> c[2] = p
    BY <2>2 DEF Distinct
  <2>4. <<e[1], e[2]>> \in N /\ <<e[1], e[2]>>[1] = old
    BY <2>2 DEF NamesOf
  <2> HIDE DEF N
  <2> QED BY <2>1, <2>2, <2>3, <2>4
<1>3. \A x : /\ NamesOf(With(D, x, p, v)) = NamesOf(rest) \cup {<<x, p>>}
             /\ ValuesOf(With(D, x, p, v)) = ValuesOf(rest) \cup {<<x, v>>}
  <2> TAKE x
  <2> DEFINE c == <<x, p, v>>
  <2>1. c[1] = x /\ c[2] = p /\ c[3] = v /\ With(D, x, p, v) = rest \cup {c}
    BY DEF With
  <2> HIDE DEF c, rest, p
  <2> QED BY <2>1 DEF NamesOf, ValuesOf
<1>4. NamesOf(rest) = {n \in N : n[2] # p}
  <2>1. \A c : <<c[1], c[2]>>[2] = c[2]
    OBVIOUS
  <2> QED BY <2>1 DEF NamesOf
<1>5. CASE ~NeedsNewId(fs, k, v)
  <2> DEFINE f == ServerValue(old, dt, v)
  <2>1. HasKey(fs, k) /\ SetFrames(fs, prefix, k, v, id) = << f >>
    BY <1>5 DEF NeedsNewId, SetFrames
  <2>2. f \in DownFrames /\ f.frameType = "ServerValue" /\ f.keyId = old /\ f.payload = v
    BY <1>0, <1>2, <2>1 DEF DownFrames, ServerValue, Frame
  <2> HIDE DEF f, dt
  <2>3. << f >> \in Seq(DownFrames)
        /\ Carries(End(r, << f >>), N, {w \in V : w[1] # old} \cup {<<old, v>>})
    BY <1>2, <2>1, <2>2, EndOne, Tells
  <2>4. NamesOf(With(D, old, p, v)) = N
    <3>1. PICK c \in D : c[1] = old /\ c[2] = p
      BY <1>2, <2>1
    <3>2. <<old, p>> \in N
      BY <3>1 DEF NamesOf
    <3>3. ASSUME NEW n \in N, n[2] = p PROVE n = <<old, p>>
      <4>1. PICK d \in D : n = <<d[1], d[2]>>
        BY DEF NamesOf
      <4>2. d[2] = p /\ d[1] = old
        BY <1>2, <2>1, <3>3, <4>1
      <4> QED BY <4>1, <4>2
    <3> DEFINE x == <<old, p>>
    <3>4. NamesOf(With(D, old, p, v)) = {n \in N : n[2] # p} \cup {x}
      BY <1>3, <1>4
    <3>5. x \in N /\ \A n \in N : n[2] = p => n = x
      BY <3>2, <3>3
    <3> HIDE DEF x, N, p, old
    <3> QED BY <3>4, <3>5
  <2>5. ValuesOf(With(D, old, p, v)) \subseteq {w \in V : w[1] # old} \cup {<<old, v>>}
    <3>1. ASSUME NEW w \in ValuesOf(rest) PROVE w \in V /\ w[1] # old
      <4>1. PICK c \in rest : w = <<c[1], c[3]>>
        BY DEF ValuesOf
      <4>2. c \in D /\ c[1] # old /\ w[1] = c[1]
        BY <1>2, <2>1, <4>1
      <4> QED BY <4>1, <4>2 DEF ValuesOf
    <3> HIDE DEF rest, V, p, old
    <3> QED BY <1>3, <3>1
  <2>6. Carries(End(r, << f >>), N, ValuesOf(With(D, old, p, v)))
    BY <2>3, <2>5, CarriesLess
  <2> QED BY <1>5, <2>1, <2>3, <2>4, <2>6
<1>6. CASE NeedsNewId(fs, k, v)
  <2> DEFINE delete == IF HasKey(fs, k) THEN << ServerKeyDelete(old) >> ELSE << >>
             register == << ServerKeyRegistration(id, dt, p), ServerSync, ServerValue(id, dt, v) >>
             M == NamesOf(rest)
             W == ValuesOf(rest)
  <2>1. SetFrames(fs, prefix, k, v, id) = delete \o register
    BY <1>6 DEF SetFrames
  <2>2. id \in KeyIds /\ \A c \in D : c[1] # id
    BY <1>6
  <2>3. delete \in Seq(DownFrames) /\ End(r, delete) \in Reps /\ Carries(End(r, delete), M, W)
    <3>1. CASE HasKey(fs, k)
      <4> DEFINE f == ServerKeyDelete(old)
      <4>1. f \in DownFrames /\ f.frameType = "ServerKeyDelete" /\ f.keyId = old
        <5>1. old \in KeyIds
          BY <1>2, <3>1
        <5> HIDE DEF old
        <5>2. f \in DownFrames
          BY <5>1 DEF DownFrames
        <5> QED BY <5>2 DEF ServerKeyDelete, KeySignal, Frame
      <4>2. delete = << f >>
        BY <3>1
      <4> HIDE DEF f, delete
      <4>3. /\ << f >> \in Seq(DownFrames) /\ End(r, << f >>) \in Reps
            /\ Carries(End(r, << f >>), {n \in N : n[1] # old}, {w \in V : w[1] # old})
        BY <1>1, <1>2, <3>1, <4>1, EndOne, Deletes
      <4>4. {n \in N : n[1] # old} = M
        <5>1. \A n \in N : n[1] = old <=> n[2] = p
          <6> SUFFICES ASSUME NEW n \in N PROVE n[1] = old <=> n[2] = p
            OBVIOUS
          <6>1. PICK d \in D : n = <<d[1], d[2]>>
            BY DEF NamesOf
          <6>2. n[1] = d[1] /\ n[2] = d[2]
            BY <6>1
          <6> HIDE DEF N, p, old
          <6> QED BY <1>2, <3>1, <6>2
        <5>2. M = {n \in N : n[2] # p}
          BY <1>4
        <5> HIDE DEF N, M, rest, p, old
        <5> QED BY <5>1, <5>2
      <4>5. W \subseteq {w \in V : w[1] # old}
        <5> SUFFICES ASSUME NEW w \in W PROVE w \in V /\ w[1] # old
          OBVIOUS
        <5>1. PICK c \in rest : w = <<c[1], c[3]>>
          BY DEF ValuesOf
        <5>2. c \in D /\ c[1] # old /\ w[1] = c[1]
          BY <1>2, <3>1, <5>1
        <5> QED BY <5>1, <5>2 DEF ValuesOf
      <4> HIDE DEF N, V, M, W, old
      <4>6. Carries(End(r, << f >>), M, W)
        BY <4>3, <4>4, <4>5, CarriesLess
      <4> QED BY <4>2, <4>3, <4>6
    <3>2. CASE ~HasKey(fs, k)
      <4>1. rest = D
        BY <3>2
      <4>2. delete = << >> /\ << >> \in Seq(DownFrames) /\ End(r, << >>) = r
        BY <3>2, EndNone
      <4> QED BY <4>1, <4>2
    <3> QED BY <3>1, <3>2
  <2>4. OneEach(M \cup {<<id, p>>})
    <3> DEFINE x == <<id, p>>
    <3>1. x[1] = id /\ x[2] = p
      OBVIOUS
    <3>2. \A n \in M : n \in N /\ n[2] # p
      BY <1>4
    <3>3. \A n \in N : n[1] # id
      <4> SUFFICES ASSUME NEW n \in N PROVE n[1] # id
        OBVIOUS
      <4>1. PICK d \in D : n = <<d[1], d[2]>>
        BY DEF NamesOf
      <4>2. n[1] = d[1]
        BY <4>1
      <4> QED BY <2>2, <4>2
    <3> HIDE DEF x, M, N, p
    <3>4. OneEach(M \cup {x})
      BY <1>1, <3>1, <3>2, <3>3 DEF OneEach
    <3> QED BY <3>4 DEF x
  <2> HIDE DEF delete
  <2>5. /\ register \in Seq(DownFrames)
        /\ Carries(End(End(r, delete), register), M \cup {<<id, p>>},
                   {w \in W : w[1] # id} \cup {<<id, v>>})
    <3> HIDE DEF M, W, p, dt
    <3> QED BY <1>0, <2>2, <2>3, <2>4, Introduced
  <2> HIDE DEF register
  <2>6. delete \o register \in Seq(DownFrames)
        /\ End(r, delete \o register) = End(End(r, delete), register)
    BY <2>3, <2>5, EndConcat
  <2>7. ValuesOf(With(D, id, p, v)) \subseteq {w \in W : w[1] # id} \cup {<<id, v>>}
    <3>1. ASSUME NEW w \in W PROVE w[1] # id
      <4>1. PICK c \in rest : w = <<c[1], c[3]>>
        BY DEF ValuesOf
      <4> QED BY <2>2, <4>1
    <3> HIDE DEF W, p
    <3> QED BY <1>3, <3>1 DEF W
  <2>8. NamesOf(With(D, id, p, v)) = M \cup {<<id, p>>}
    BY <1>3
  <2> HIDE DEF M, W, p
  <2>9. Carries(End(r, delete \o register), NamesOf(With(D, id, p, v)), ValuesOf(With(D, id, p, v)))
    BY <2>5, <2>6, <2>7, <2>8, CarriesLess
  <2> QED BY <1>6, <2>1, <2>6, <2>9 DEF p
<1> QED BY <1>5, <1>6

(* A key is cleared.                                                       *)
LEMMA ClearFollowed ==
    ASSUME NEW r \in Reps, NEW D, Distinct(D), Carries(r, NamesOf(D), ValuesOf(D)),
           NEW fs \in Stores, NEW prefix, StoreData(fs, prefix) \subseteq D, NEW k, HasKey(fs, k)
    PROVE  LET q == ClearKeyFrames(fs, k)
               E == {c \in D : c[2] # WirePath(prefix, k)}
           IN  q \in Seq(DownFrames) /\ Carries(End(r, q), NamesOf(E), ValuesOf(E))
<1> DEFINE p == WirePath(prefix, k)
           old == fs.entries[k].keyId
           f == ServerKeyDelete(old)
           rest == {c \in D : c[2] # p}
           e == <<old, p, fs.entries[k].value>>
           N == NamesOf(D)
           V == ValuesOf(D)
<1>1. e \in D /\ e[1] = old /\ e[2] = p /\ old \in KeyIds
  BY StoreFields DEF StoreData, HasKey
<1>2. f \in DownFrames /\ f.frameType = "ServerKeyDelete" /\ f.keyId = old
  <2>1. old \in KeyIds
    BY <1>1
  <2> HIDE DEF old
  <2>2. f \in DownFrames
    BY <2>1 DEF DownFrames
  <2> QED BY <2>2 DEF ServerKeyDelete, KeySignal, Frame
<1>3. ClearKeyFrames(fs, k) = << f >>
  BY DEF ClearKeyFrames
<1> HIDE DEF e, f, p, old
<1>4. \A c \in D : c[1] = old <=> c[2] = p
  BY <1>1 DEF Distinct
<1>5. \E n \in N : n[1] = old
  <2>1. <<e[1], e[2]>> \in N /\ <<e[1], e[2]>>[1] = old
    BY <1>1 DEF NamesOf
  <2> HIDE DEF N
  <2> QED BY <2>1
<1>6. OneEach(N)
  BY DataApart
<1>c. Carries(r, N, V)
  OBVIOUS
<1> HIDE DEF N, V
<1>7. /\ << f >> \in Seq(DownFrames)
      /\ Carries(End(r, << f >>), {n \in N : n[1] # old}, {w \in V : w[1] # old})
  <2>1. << f >> \in Seq(DownFrames) /\ End(r, << f >>) = ReplicaApply(r, f)
    BY <1>2, EndOne
  <2>2. Carries(ReplicaApply(r, f), {n \in N : n[1] # f.keyId}, {w \in V : w[1] # f.keyId})
    BY <1>2, <1>5, <1>6, <1>c, Deletes
  <2> QED BY <1>2, <2>1, <2>2
<1>8. {n \in N : n[1] # old} = NamesOf(rest)
  <2>1. ASSUME NEW n \in N, n[1] # old PROVE n \in NamesOf(rest)
    <3>1. PICK d \in D : n = <<d[1], d[2]>>
      BY DEF N, NamesOf
    <3>2. d \in rest
      BY <1>4, <2>1, <3>1
    <3> QED BY <3>1, <3>2 DEF NamesOf
  <2>2. ASSUME NEW n \in NamesOf(rest) PROVE n \in N /\ n[1] # old
    <3>1. PICK d \in rest : n = <<d[1], d[2]>>
      BY DEF NamesOf
    <3> QED BY <1>4, <3>1 DEF N, NamesOf
  <2> QED BY <2>1, <2>2
<1>9. ASSUME NEW w \in ValuesOf(rest) PROVE w \in V /\ w[1] # old
  <2>1. PICK d \in rest : w = <<d[1], d[3]>>
    BY DEF ValuesOf
  <2> QED BY <1>4, <2>1 DEF V, ValuesOf
<1>10. ValuesOf(rest) \subseteq {w \in V : w[1] # old}
  BY <1>9
<1> HIDE DEF rest
<1>11. Carries(End(r, << f >>), NamesOf(rest), ValuesOf(rest))
  BY <1>7, <1>8, <1>10, CarriesLess
<1> QED BY <1>3, <1>7, <1>11 DEF rest, p

-----------------------------------------------------------------------------
(* What the application's calls do to the keys of the session.             *)

(* A prefix keeps keys apart.                                              *)
LEMMA PathsDiffer ==
    ASSUME NEW prefix, NEW k, NEW l, WirePath(prefix, k) = WirePath(prefix, l)
    PROVE  k = l
<1>1. CASE prefix = ""
  BY <1>1 DEF WirePath
<1>2. CASE prefix # ""
  <2>1. <<prefix, k>> = <<prefix, l>>
    BY <1>2 DEF WirePath
  <2> QED BY <2>1
<1> QED BY <1>1, <1>2

(* setLeaf puts the key in its place.                                      *)
LEMMA LeafData ==
    ASSUME NEW fs \in Stores, NEW prefix, NEW k \in Keys, NEW v \in Values, NEW id
    PROVE  StoreData(SetLeaf(fs, k, v, id), prefix)
              = With(StoreData(fs, prefix),
                     IF NeedsNewId(fs, k, v) THEN id ELSE fs.entries[k].keyId,
                     WirePath(prefix, k), v)
<1> DEFINE x == IF NeedsNewId(fs, k, v) THEN id ELSE fs.entries[k].keyId
           e == SetLeaf(fs, k, v, id).entries
           p(l) == WirePath(prefix, l)
           old(l) == <<fs.entries[l].keyId, p(l), fs.entries[l].value>>
           new(l) == <<e[l].keyId, p(l), e[l].value>>
           A == {old(l) : l \in DOMAIN fs.entries}
           B == {new(l) : l \in DOMAIN e}
           c == <<x, p(k), v>>
<1>1. /\ DOMAIN e = DOMAIN fs.entries \cup {k} /\ e[k].keyId = x /\ e[k].value = v
      /\ \A l \in DOMAIN fs.entries : l # k => e[l] = fs.entries[l]
  <2>1. CASE NeedsNewId(fs, k, v)
    <3>1. e = Put(fs.entries, k, [keyId |-> id, type |-> DetectDataType[v], value |-> v])
      BY <2>1 DEF SetLeaf
    <3> QED BY <2>1, <3>1 DEF Put
  <2>2. CASE ~NeedsNewId(fs, k, v)
    <3>1. PICK D \in SUBSET Keys : fs.entries \in [D -> Entries]
      BY StoreFields DEF Maps
    <3>2. k \in D
      BY <2>2, <3>1 DEF NeedsNewId, HasKey
    <3>3. e = [fs.entries EXCEPT ![k].value = v]
      BY <2>2 DEF SetLeaf, Stores, FlatStates
    <3>4. e = [fs.entries EXCEPT ![k] = [fs.entries[k] EXCEPT !.value = v]]
      BY <3>3
    <3>5. fs.entries[k] \in Entries
      BY <3>1, <3>2
    <3> QED BY <2>2, <3>1, <3>2, <3>4, <3>5 DEF Entries
  <2> QED BY <2>1, <2>2
<1>2. \A l : (p(l) = p(k) => l = k) /\ old(l)[2] = p(l)
  BY PathsDiffer
<1>3. new(k) = c /\ \A l \in DOMAIN fs.entries : l # k => new(l) = old(l)
  BY <1>1
<1>4. A = StoreData(fs, prefix) /\ B = StoreData(SetLeaf(fs, k, v, id), prefix)
  BY DEF StoreData
<1> HIDE DEF e, x, c, old, new, p
<1>5. ASSUME NEW b \in B PROVE b = c \/ (b \in A /\ b[2] # p(k))
  <2>1. PICK l \in DOMAIN e : b = new(l)
    OBVIOUS
  <2> QED BY <1>1, <1>2, <1>3, <2>1
<1>6. ASSUME NEW a \in A, a[2] # p(k) PROVE a \in B
  <2>1. PICK l \in DOMAIN fs.entries : a = old(l)
    OBVIOUS
  <2> QED BY <1>1, <1>2, <1>3, <1>6, <2>1
<1>7. c \in B
  BY <1>1, <1>3
<1> HIDE DEF A, B
<1>8. B = With(A, x, p(k), v)
  <2>1. With(A, x, p(k), v) = {a \in A : a[2] # p(k)} \cup {c}
    BY DEF With, c
  <2> QED BY <1>5, <1>6, <1>7, <2>1
<1> QED BY <1>4, <1>8 DEF x, p

(* clear of a key takes it away.                                           *)
LEMMA ClearedData ==
    ASSUME NEW fs \in Stores, NEW prefix, NEW k
    PROVE  StoreData(ClearKey(fs, k), prefix) = {c \in StoreData(fs, prefix) : c[2] # WirePath(prefix, k)}
<1> DEFINE e == ClearKey(fs, k).entries
           p(l) == WirePath(prefix, l)
           old(l) == <<fs.entries[l].keyId, p(l), fs.entries[l].value>>
           new(l) == <<e[l].keyId, p(l), e[l].value>>
           A == {old(l) : l \in DOMAIN fs.entries}
           B == {new(l) : l \in DOMAIN e}
<1>1. DOMAIN e = DOMAIN fs.entries \ {k} /\ \A l \in DOMAIN e : e[l] = fs.entries[l]
  BY DEF ClearKey, Erase
<1>2. \A l : (p(l) = p(k) => l = k) /\ old(l)[2] = p(l)
  BY PathsDiffer
<1>3. \A l \in DOMAIN e : new(l) = old(l)
  BY <1>1
<1>4. A = StoreData(fs, prefix) /\ B = StoreData(ClearKey(fs, k), prefix)
  BY DEF StoreData
<1> HIDE DEF e, old, new, p
<1>5. B = {a \in A : a[2] # p(k)}
  BY <1>1, <1>2, <1>3
<1> QED BY <1>4, <1>5 DEF p

(* The keys of the topics, and of all but one of them and of the session.  *)
TopicsData(hs) == UNION {StoreData(hs[t].flat, TopicPrefix(hs[t].index)) : t \in DOMAIN hs}
Elsewhere(hs, fs, t) ==
    StoreData(fs, "")
    \cup UNION {StoreData(hs[u].flat, TopicPrefix(hs[u].index)) : u \in DOMAIN hs \ {t}}

(* Their paths are others.                                                 *)
LEMMA PathsElsewhere ==
    ASSUME NEW hs, HandlesOK(hs), Apart(hs), NEW fs \in Stores, NEW k \in Keys
    PROVE  /\ \A c \in TopicsData(hs) : c[2] # WirePath("", k)
           /\ \A t \in DOMAIN hs : \A c \in Elsewhere(hs, fs, t) :
                 c[2] # WirePath(TopicPrefix(hs[t].index), k)
<1>0. \A t \in DOMAIN hs : hs[t].index \in Indices /\ hs[t].flat \in Stores
  BY DEF HandlesOK, HandleSet
<1>1. ASSUME NEW t \in DOMAIN hs, NEW c \in StoreData(hs[t].flat, TopicPrefix(hs[t].index))
      PROVE  \E l \in Keys : c[2] = <<TopicPrefix(hs[t].index), l>>
  <2> DEFINE e == hs[t].flat.entries
             p == TopicPrefix(hs[t].index)
  <2>1. PICK l \in DOMAIN e : c = <<e[l].keyId, WirePath(p, l), e[l].value>>
    BY <1>1 DEF StoreData
  <2>2. l \in Keys /\ p # ""
    BY <1>0, <2>1, StoreFields, WireAssumption
  <2> QED BY <2>1, <2>2 DEF WirePath
<1>2. ASSUME NEW c \in StoreData(fs, "") PROVE c[2] \in Keys
  <2>1. PICK l \in DOMAIN fs.entries : c = <<fs.entries[l].keyId, WirePath("", l), fs.entries[l].value>>
    BY <1>2 DEF StoreData
  <2>2. l \in Keys
    BY <2>1, StoreFields
  <2> QED BY <2>1, <2>2 DEF WirePath
<1>3. ASSUME NEW c \in TopicsData(hs) PROVE c[2] # WirePath("", k)
  <2>1. PICK t \in DOMAIN hs : c \in StoreData(hs[t].flat, TopicPrefix(hs[t].index))
    BY <1>3 DEF TopicsData
  <2>2. PICK l \in Keys : c[2] = <<TopicPrefix(hs[t].index), l>>
    BY <1>1, <2>1
  <2>3. <<TopicPrefix(hs[t].index), l>> \notin Keys
    BY <1>0, WireAssumption
  <2> QED BY <2>2, <2>3 DEF WirePath
<1>4. ASSUME NEW t \in DOMAIN hs, NEW c \in Elsewhere(hs, fs, t)
      PROVE  c[2] # WirePath(TopicPrefix(hs[t].index), k)
  <2> DEFINE p == TopicPrefix(hs[t].index)
  <2>1. WirePath(p, k) = <<p, k>> /\ <<p, k>> \notin Keys
    BY <1>0, WireAssumption DEF WirePath
  <2>2. CASE c \in StoreData(fs, "")
    BY <1>2, <2>1, <2>2
  <2>3. CASE \E u \in DOMAIN hs \ {t} : c \in StoreData(hs[u].flat, TopicPrefix(hs[u].index))
    <3>1. PICK u \in DOMAIN hs \ {t} : c \in StoreData(hs[u].flat, TopicPrefix(hs[u].index))
      BY <2>3
    <3> DEFINE q == TopicPrefix(hs[u].index)
    <3>2. PICK l \in Keys : c[2] = <<q, l>>
      BY <1>1, <3>1
    <3>3. q # p
      BY <1>0, <3>1, WireAssumption DEF Apart
    <3> HIDE DEF p, q
    <3>4. <<q, l>> # <<p, k>>
      BY <3>3
    <3> QED BY <2>1, <3>2, <3>4 DEF p
  <2> QED BY <2>2, <2>3 DEF Elsewhere
<1> QED BY <1>3, <1>4

(* The keys of a topic, with the others, are those of the session.         *)
LEMMA TopicElsewhere ==
    ASSUME NEW hs, NEW fs, NEW t \in DOMAIN hs
    PROVE  ServerData(hs, fs)
              = StoreData(hs[t].flat, TopicPrefix(hs[t].index)) \cup Elsewhere(hs, fs, t)
<1> DEFINE S(u) == StoreData(hs[u].flat, TopicPrefix(hs[u].index))
           O == StoreData(fs, "")
<1>1. /\ ServerData(hs, fs) = O \cup UNION {S(u) : u \in DOMAIN hs}
      /\ Elsewhere(hs, fs, t) = O \cup UNION {S(u) : u \in DOMAIN hs \ {t}}
  BY DEF ServerData, Elsewhere
<1> HIDE DEF S, O
<1>2. UNION {S(u) : u \in DOMAIN hs} = S(t) \cup UNION {S(u) : u \in DOMAIN hs \ {t}}
  OBVIOUS
<1>3. ServerData(hs, fs) = S(t) \cup Elsewhere(hs, fs, t)
  BY <1>1, <1>2
<1> QED BY <1>3 DEF S

(* A new store of a topic leaves the others.                               *)
LEMMA StoreReplaced ==
    ASSUME NEW hs, HandlesOK(hs), NEW fs, NEW t \in DOMAIN hs, NEW g,
           NEW new, new = [hs EXCEPT ![t].flat = g]
    PROVE  ServerData(new, fs) = StoreData(g, TopicPrefix(hs[t].index)) \cup Elsewhere(hs, fs, t)
<1> DEFINE S(h, u) == StoreData(h[u].flat, TopicPrefix(h[u].index))
           O == StoreData(fs, "")
<1>1. /\ DOMAIN new = DOMAIN hs /\ new[t] = [hs[t] EXCEPT !.flat = g]
      /\ \A u \in DOMAIN hs : u # t => new[u] = hs[u]
  OBVIOUS
<1>2. hs[t] \in HandleSet
  BY DEF HandlesOK
<1>3. new[t].flat = g /\ new[t].index = hs[t].index
  BY <1>1, <1>2 DEF HandleSet
<1>4. ServerData(new, fs) = StoreData(new[t].flat, TopicPrefix(new[t].index)) \cup Elsewhere(new, fs, t)
  BY <1>1, TopicElsewhere
<1>5. Elsewhere(new, fs, t) = Elsewhere(hs, fs, t)
  <2>1. \A u \in DOMAIN hs \ {t} : S(new, u) = S(hs, u)
    BY <1>1
  <2>2. /\ Elsewhere(new, fs, t) = O \cup UNION {S(new, u) : u \in DOMAIN new \ {t}}
        /\ Elsewhere(hs, fs, t) = O \cup UNION {S(hs, u) : u \in DOMAIN hs \ {t}}
    BY DEF Elsewhere
  <2>3. {S(new, u) : u \in DOMAIN new \ {t}} = {S(hs, u) : u \in DOMAIN hs \ {t}}
    <3> HIDE DEF S
    <3> QED BY <1>1, <2>1
  <2> QED BY <2>2, <2>3
<1> QED BY <1>3, <1>4, <1>5

-----------------------------------------------------------------------------
(* The client is told of every call.                                       *)

(* The replica has what the session has, unless it had to refuse a key.    *)
Matches(r, hs, fs) == Carries(r, ServerNames(hs, fs), ServerValues(hs, fs))

(* A key is set, in one of the stores of the session.                      *)
LEMMA SetMatches ==
    ASSUME NEW r \in Reps, NEW hs, HandlesOK(hs), Apart(hs), NEW fs \in Stores, Matches(r, hs, fs),
           NEW next, OneToOne(ServerNames(hs, fs), next), next \notin 1 .. next - 1,
           NEW store \in Stores, NEW prefix, PrefixOK(prefix), NEW B,
           ServerData(hs, fs) = StoreData(store, prefix) \cup B,
           NEW k \in Keys, NEW v \in Values, NeedsNewId(store, k, v) => next \in KeyIds,
           \A c \in B : c[2] # WirePath(prefix, k),
           NEW hs2, NEW fs2,
           ServerData(hs2, fs2) = StoreData(SetLeaf(store, k, v, next), prefix) \cup B
    PROVE  LET q == SetFrames(store, prefix, k, v, next) IN
           q \in Seq(DownFrames) /\ Matches(End(r, q), hs2, fs2)
<1> DEFINE D == ServerData(hs, fs)
           A == StoreData(store, prefix)
           p == WirePath(prefix, k)
           x == IF NeedsNewId(store, k, v) THEN next ELSE store.entries[k].keyId
           q == SetFrames(store, prefix, k, v, next)
<1>1. Distinct(D)
  BY DataDistinct
<1>2. Carries(r, NamesOf(D), ValuesOf(D))
  BY NamesOfServer DEF Matches
<1>3. \A c \in D : c[1] # next
  <2> SUFFICES ASSUME NEW c \in D PROVE c[1] # next
    OBVIOUS
  <2> DEFINE n == <<c[1], c[2]>>
  <2>1. n \in ServerNames(hs, fs) /\ n[1] = c[1]
    BY DataOfServer
  <2> HIDE DEF n
  <2>2. n[1] \in 1 .. next - 1
    BY <2>1 DEF OneToOne
  <2> QED BY <2>1, <2>2
<1>4. ASSUME ~HasKey(store, k), NEW c \in A PROVE c[2] # p
  <2>1. PICK l \in DOMAIN store.entries :
           c = <<store.entries[l].keyId, WirePath(prefix, l), store.entries[l].value>>
    BY DEF StoreData
  <2>2. l # k /\ c[2] = WirePath(prefix, l)
    BY <1>4, <2>1 DEF HasKey
  <2> QED BY <2>2, PathsDiffer
<1>5. ServerData(hs2, fs2) = With(D, x, p, v)
  <2>1. ServerData(hs2, fs2) = With(A, x, p, v) \cup B
    BY LeafData
  <2>2. D = A \cup B /\ \A c \in B : c[2] # p
    OBVIOUS
  <2> HIDE DEF D, A, p, x
  <2>3. With(A, x, p, v) \cup B = With(D, x, p, v)
    BY <2>2 DEF With
  <2> QED BY <2>1, <2>3
<1>6. A \subseteq D /\ (~HasKey(store, k) => \A c \in D : c[2] # p)
  BY <1>4
<1> HIDE DEF D
<1>7. q \in Seq(DownFrames) /\ Carries(End(r, q), NamesOf(With(D, x, p, v)), ValuesOf(With(D, x, p, v)))
  BY <1>1, <1>2, <1>3, <1>6, SetFollowed
<1> HIDE DEF x, p, q
<1>8. Matches(End(r, q), hs2, fs2)
  BY <1>5, <1>7, NamesOfServer DEF Matches
<1> QED BY <1>7, <1>8 DEF q

(* A key is cleared.                                                       *)
LEMMA ClearMatches ==
    ASSUME NEW r \in Reps, NEW hs, HandlesOK(hs), Apart(hs), NEW fs \in Stores, Matches(r, hs, fs),
           NEW next, OneToOne(ServerNames(hs, fs), next),
           NEW store \in Stores, NEW prefix, NEW B,
           ServerData(hs, fs) = StoreData(store, prefix) \cup B,
           NEW k, HasKey(store, k), \A c \in B : c[2] # WirePath(prefix, k),
           NEW hs2, NEW fs2,
           ServerData(hs2, fs2) = StoreData(ClearKey(store, k), prefix) \cup B
    PROVE  LET q == ClearKeyFrames(store, k) IN
           q \in Seq(DownFrames) /\ Matches(End(r, q), hs2, fs2)
<1> DEFINE D == ServerData(hs, fs)
           A == StoreData(store, prefix)
           p == WirePath(prefix, k)
           q == ClearKeyFrames(store, k)
           E == {c \in D : c[2] # p}
<1>1. Distinct(D)
  BY DataDistinct
<1>2. Carries(r, NamesOf(D), ValuesOf(D))
  BY NamesOfServer DEF Matches
<1>3. ServerData(hs2, fs2) = E
  <2>1. ServerData(hs2, fs2) = {c \in A : c[2] # p} \cup B
    BY ClearedData
  <2>2. D = A \cup B /\ \A c \in B : c[2] # p
    OBVIOUS
  <2> HIDE DEF D, A, p
  <2> QED BY <2>1, <2>2
<1>4. A \subseteq D
  OBVIOUS
<1> HIDE DEF D
<1>5. q \in Seq(DownFrames) /\ Carries(End(r, q), NamesOf(E), ValuesOf(E))
  BY <1>1, <1>2, <1>4, ClearFollowed
<1> HIDE DEF E, q
<1>6. Matches(End(r, q), hs2, fs2)
  BY <1>3, <1>5, NamesOfServer DEF Matches
<1> QED BY <1>5, <1>6 DEF q

(* A key that the session has is asked for.                                *)
LEMMA AnswerMatches ==
    ASSUME NEW r \in Reps, NEW hs, HandlesOK(hs), Apart(hs), NEW fs \in Stores, Matches(r, hs, fs),
           NEW next, OneToOne(ServerNames(hs, fs), next),
           NEW store \in Stores, Indexed(store), NEW prefix, PrefixOK(prefix),
           StoreData(store, prefix) \subseteq ServerData(hs, fs),
           NEW id \in DOMAIN store.byKeyId
    PROVE  LET q == Answer(store, prefix, id) IN
           q \in Seq(DownFrames) /\ Matches(End(r, q), hs, fs)
<1> DEFINE D == ServerData(hs, fs)
           N == NamesOf(D)
           V == ValuesOf(D)
           k == store.byKeyId[id]
           e == store.entries[k]
           p == WirePath(prefix, k)
           q == Answer(store, prefix, id)
           c == <<id, p, e.value>>
<1>1. k \in DOMAIN store.entries /\ e.keyId = id
  BY DEF Indexed
<1>2. k \in Keys /\ id \in KeyIds /\ e.type \in DataTypes /\ e.value \in Values /\ p \in WirePaths
  BY <1>1, StoreFields DEF PrefixOK
<1>3. c \in D
  <2>1. <<store.entries[k].keyId, WirePath(prefix, k), store.entries[k].value>> \in StoreData(store, prefix)
    BY <1>1 DEF StoreData
  <2> QED BY <1>1, <2>1
<1>4. q = << ServerKeyRegistration(id, e.type, p), ServerSync, ServerValue(id, e.type, e.value) >>
  BY DEF Answer
<1>5. OneEach(N) /\ OneValue(V)
  BY DataDistinct, DataApart
<1>6. Carries(r, N, V)
  BY NamesOfServer DEF Matches
<1>7. <<id, p>> \in N /\ <<id, e.value>> \in V
  <2>1. c[1] = id /\ c[2] = p /\ c[3] = e.value
    OBVIOUS
  <2>2. <<c[1], c[2]>> \in N /\ <<c[1], c[3]>> \in V
    BY <1>3 DEF NamesOf, ValuesOf
  <2> HIDE DEF c, N, V, p, e
  <2> QED BY <2>1, <2>2
<1> DEFINE x == <<id, p>>
           y == <<id, e.value>>
<1>8. x \in N /\ y \in V /\ y[1] = id
  BY <1>7
<1> HIDE DEF N, V, D
<1>9. N \cup {x} = N
  <2> HIDE DEF x
  <2> QED BY <1>8
<1>10. OneEach(N \cup {<<id, p>>})
  BY <1>5, <1>9
<1> HIDE DEF q, p, e
<1>11. /\ q \in Seq(DownFrames)
       /\ Carries(End(r, q), N \cup {<<id, p>>}, {w \in V : w[1] # id} \cup {<<id, e.value>>})
  BY <1>2, <1>4, <1>6, <1>10, Introduced
<1>12. V \subseteq {w \in V : w[1] # id} \cup {y}
  <2> HIDE DEF y
  <2> QED BY <1>5, <1>8 DEF OneValue
<1>13. Carries(End(r, q), N, V)
  <2>1. Carries(End(r, q), N \cup {x}, {w \in V : w[1] # id} \cup {y})
    BY <1>11
  <2> HIDE DEF x, y
  <2> QED BY <1>9, <1>12, <2>1, CarriesLess
<1>14. Matches(End(r, q), hs, fs)
  BY <1>13, NamesOfServer DEF Matches, N, V, D
<1> QED BY <1>11, <1>14 DEF q

(* What the client will hold is what the session has, once it is reset or  *)
(* if it never served another session.                                     *)
DrainedOK ==
    live /\ session \in {"Bound", "Active"} /\ ~moved /\ (~stale \/ ServerReset \in ToSet(down))
        => Matches(Drained, handles, flat)

(* The session sends what it has changed.                                  *)
LEMMA DrainedSends ==
    ASSUME StoresOK, ReplicaOK, LedOK, DrainedOK, session \in {"Bound", "Active"},
           UNCHANGED <<live, moved, replica, stale>>, NEW q, SendDown(q),
           ASSUME live, ~moved, Apart(handles), OneToOne(ServerNames(handles, flat), nextKeyId)
           PROVE  /\ q \in Seq(DownFrames)
                  /\ \A r \in Reps : ServerReset \in ToSet(q) \/ Matches(r, handles, flat)
                                        => Matches(End(r, q), handles', flat')
    PROVE  DrainedOK'
<1> SUFFICES ASSUME live', ~moved', ~stale' \/ ServerReset \in ToSet(down')
             PROVE  Matches(Drained', handles', flat')
  BY DEF DrainedOK
<1>1. /\ live /\ ~moved /\ down' = down \o q /\ replica' = replica /\ stale' = stale
  BY DEF SendDown
<1>2. down \in Seq(DownFrames) /\ replica \in Reps /\ Apart(handles)
  BY <1>1 DEF StoresOK, ReplicaOK, LedOK
<1>3. OneToOne(ServerNames(handles, flat), nextKeyId)
  BY DEF StoresOK, NamesNow, OneToOne
<1>4. /\ q \in Seq(DownFrames)
      /\ \A r \in Reps : ServerReset \in ToSet(q) \/ Matches(r, handles, flat)
                            => Matches(End(r, q), handles', flat')
  BY <1>1, <1>2, <1>3
<1>5. /\ Drained \in Reps /\ Drained' = End(Drained, q)
  <2>1. Drained = End(replica, down) /\ Drained' = End(replica', down')
    BY DEF Drained, End
  <2>2. Drained' = End(replica, down \o q)
    BY <1>1, <2>1
  <2> QED BY <1>2, <1>4, <2>1, <2>2, EndConcat
<1>6. ServerReset \in ToSet(q) \/ Matches(Drained, handles, flat)
  <2>1. ServerReset \in ToSet(down') => ServerReset \in ToSet(down) \/ ServerReset \in ToSet(q)
    BY <1>1, <1>2, <1>4, FramesTogether
  <2> QED BY <1>1, <2>1 DEF DrainedOK
<1> QED BY <1>4, <1>5, <1>6

(* Nothing that matters changes.                                           *)
LEMMA DrainedKept ==
    ASSUME DrainedOK, UNCHANGED <<live, moved, replica, stale, down, session, handles, flat>>
    PROVE  DrainedOK'
BY DEF DrainedOK, Drained

(* A session is bound: it has nothing yet.                                 *)
LEMMA DrainedBound ==
    ASSUME StoresOK, ReplicaOK, session \in {"None", "Asked"}, NEW q, q = << >> \/ q = << AuthOk >>,
           Activate(q), UNCHANGED <<live, handles>>
    PROVE  DrainedOK'
<1>1. /\ flat' = EmptyFlat /\ handles' = EmptyMap /\ down = << >> /\ SendDown(q)
      /\ stale' \/ (replica = EmptyReplica /\ ~stale)
      /\ replica' = replica
  BY DEF Activate, StoresOK
<1>2. q \in Seq(DownFrames) /\ End(EmptyReplica, q) = EmptyReplica /\ ServerReset \notin ToSet(q)
  <2>0. EmptyReplica \in Reps
    BY EmptyReplicaType
  <2>1. AuthOk \in DownFrames /\ AuthOk # ServerReset
    BY DEF DownFrames, AuthOk, ServerReset, Signal, Frame
  <2>2. CASE q = << >>
    BY <2>0, <2>2, EndNone DEF ToSet
  <2>3. CASE q = << AuthOk >>
    <3>1. q \in Seq(DownFrames) /\ End(EmptyReplica, q) = EmptyReplica
      BY <2>0, <2>1, <2>3, EndOne, OthersApply
    <3>2. ToSet(q) = {AuthOk}
      BY <2>3 DEF ToSet
    <3> QED BY <2>1, <3>1, <3>2
  <2> QED BY <2>2, <2>3
<1>3. down' = << >> \/ down' = q
  <2>1. << >> \o q = q
    BY <1>2, ConcatEmptySeq
  <2> QED BY <1>1, <2>1 DEF SendDown
<1>4. ServerReset \notin ToSet(down') /\ (replica' = EmptyReplica => Drained' = EmptyReplica)
  <2>1. ServerReset \notin ToSet(<< >>)
    BY DEF ToSet
  <2>2. EmptyReplica \in Reps
    BY EmptyReplicaType
  <2>3. Drained' = End(replica', down')
    BY DEF Drained, End
  <2> QED BY <1>2, <1>3, <2>1, <2>2, <2>3, EndNone
<1>5. Matches(EmptyReplica, EmptyMap, EmptyFlat)
  <2>1. ServerNames(EmptyMap, EmptyFlat) = {} /\ ServerValues(EmptyMap, EmptyFlat) = {}
    BY EmptyStore DEF ServerNames, ServerValues, StoreValues, EmptyFlat, EmptyMap
  <2> QED BY <2>1, EmptyHolds DEF Matches, Carries
<1> QED BY <1>1, <1>4, <1>5 DEF DrainedOK

(* Only a resync has a ServerReset.                                        *)
LEMMA NoResets ==
    ASSUME NEW fs, NEW prefix, NEW k, NEW v, NEW id
    PROVE  /\ ServerReset \notin ToSet(SetFrames(fs, prefix, k, v, id))
           /\ ServerReset \notin ToSet(ClearKeyFrames(fs, k))
           /\ ServerReset \notin ToSet(Answer(fs, prefix, id))
<1>1. /\ \A x, dt, p : ServerKeyRegistration(x, dt, p) # ServerReset
      /\ \A x, dt, w : ServerValue(x, dt, w) # ServerReset
      /\ \A x : ServerKeyDelete(x) # ServerReset
      /\ ServerSync # ServerReset
  BY DEF ServerKeyRegistration, ServerValue, ServerKeyDelete, ServerSync, ServerReset,
         Signal, KeySignal, Frame
<1>2. ASSUME NEW S, NEW q \in Seq(S), ServerReset \notin S PROVE ServerReset \notin ToSet(q)
  <2>1. \A i \in 1 .. Len(q) : q[i] \in S
    BY ElementOfSeq
  <2> QED BY <1>2, <2>1, LenProperties DEF ToSet
<1>3. ServerReset \notin ToSet(ClearKeyFrames(fs, k))
  <2> DEFINE a == ServerKeyDelete(fs.entries[k].keyId)
  <2>1. a # ServerReset
    BY <1>1
  <2> HIDE DEF a
  <2>2. << a >> \in Seq({a})
    OBVIOUS
  <2>3. ServerReset \notin ToSet(<< a >>)
    BY <1>2, <2>1, <2>2
  <2> QED BY <2>3 DEF ClearKeyFrames, a
<1>4. ASSUME NEW x, NEW dt, NEW p, NEW w, NEW a, a = << >> \/ \E y : a = << ServerKeyDelete(y) >>
      PROVE  ServerReset \notin ToSet(a \o << ServerKeyRegistration(x, dt, p), ServerSync,
                                             ServerValue(x, dt, w) >>)
  <2> DEFINE r == ServerKeyRegistration(x, dt, p)
             u == ServerValue(x, dt, w)
  <2>1. r # ServerReset /\ ServerSync # ServerReset /\ u # ServerReset
    BY <1>1
  <2>2. PICK y : a = << >> \/ a = << ServerKeyDelete(y) >>
    BY <1>4
  <2> DEFINE e == ServerKeyDelete(y)
             F == {r, ServerSync, u, e}
  <2>3. e # ServerReset /\ (a = << >> \/ a = << e >>)
    BY <1>1, <2>2
  <2> HIDE DEF r, u, e
  <2>4. ServerReset \notin F
    BY <2>1, <2>3
  <2>5. r \in F /\ ServerSync \in F /\ u \in F /\ e \in F
    OBVIOUS
  <2> HIDE DEF F
  <2>f. << r, ServerSync, u >> \in Seq(F) /\ << e >> \in Seq(F) /\ << >> \in Seq(F)
    BY <2>5
  <2>g. a \in Seq(F)
    BY <2>3, <2>f
  <2>6. a \o << r, ServerSync, u >> \in Seq(F)
    BY <2>f, <2>g, ConcatProperties
  <2>7. ServerReset \notin ToSet(a \o << r, ServerSync, u >>)
    BY <1>2, <2>4, <2>6
  <2> QED BY <2>7 DEF r, u
<1>5. ServerReset \notin ToSet(Answer(fs, prefix, id))
  <2> DEFINE e == fs.entries[fs.byKeyId[id]]
             r == ServerKeyRegistration(id, e.type, WirePath(prefix, fs.byKeyId[id]))
             u == ServerValue(id, e.type, e.value)
  <2>1. Answer(fs, prefix, id) = << r, ServerSync, u >>
    BY DEF Answer
  <2>2. ServerSync # ServerReset /\ r # ServerReset /\ u # ServerReset
    BY <1>1
  <2> HIDE DEF r, u
  <2>3. << r, ServerSync, u >> \in Seq({r, ServerSync, u})
    OBVIOUS
  <2>4. ServerReset \notin ToSet(<< r, ServerSync, u >>)
    BY <1>2, <2>2, <2>3
  <2> QED BY <2>1, <2>4
<1>6. ServerReset \notin ToSet(SetFrames(fs, prefix, k, v, id))
  <2>1. CASE NeedsNewId(fs, k, v)
    BY <1>4, <2>1 DEF SetFrames
  <2>2. CASE ~NeedsNewId(fs, k, v)
    <3> DEFINE a == ServerValue(fs.entries[k].keyId, DetectDataType[v], v)
    <3>1. SetFrames(fs, prefix, k, v, id) = << a >>
      BY <2>2 DEF SetFrames
    <3>2. a # ServerReset
      BY <1>1
    <3> HIDE DEF a
    <3>3. << a >> \in Seq({a})
      OBVIOUS
    <3>4. ServerReset \notin ToSet(<< a >>)
      BY <1>2, <3>2, <3>3
    <3> QED BY <3>1, <3>4
  <2> QED BY <2>1, <2>2
<1> QED BY <1>3, <1>5, <1>6

(* The application sets or clears a key of a topic.                        *)
LEMMA PayloadDrained ==
    ASSUME StoresOK, ReplicaOK, LedOK, DrainedOK, NEW t \in Topics, NEW k \in Keys,
           (\E v \in Values : PayloadSet(t, k, v)) \/ PayloadClearKey(t, k)
    PROVE  DrainedOK'
<1> DEFINE store == handles[t].flat
           prefix == TopicPrefix(handles[t].index)
           B == Elsewhere(handles, flat, t)
<1>0. /\ session \in {"Bound", "Active"} /\ UNCHANGED <<live, moved, replica, stale>> /\ flat' = flat
      /\ t \in DOMAIN handles
  BY DEF PayloadSet, PayloadClearKey, AppCall, replicaVars, topicsVars
<1>1. /\ HandlesOK(handles) /\ flat \in Stores /\ nextKeyId \in 1 .. MaxKeyId + 1
      /\ store \in Stores /\ handles[t].index \in Indices
  BY <1>0 DEF StoresOK, HandlesOK, HandleSet
<1>2. ServerData(handles, flat) = StoreData(store, prefix) \cup B
  BY <1>0, TopicElsewhere
<1>3. Apart(handles) => \A c \in B : c[2] # WirePath(prefix, k)
  BY <1>0, <1>1, PathsElsewhere
<1>4. ASSUME NEW v \in Values, PayloadSet(t, k, v)
      PROVE  DrainedOK'
  <2> DEFINE g == SetLeaf(store, k, v, nextKeyId)
             q == SetFrames(store, prefix, k, v, nextKeyId)
  <2>1. /\ handles' = [handles EXCEPT ![t].flat = g] /\ SendDown(q) /\ Allocates(store, k, v)
    BY <1>4 DEF PayloadSet
  <2>2. PrefixOK(prefix)
    BY <1>1, PathsOfKeys DEF PrefixOK
  <2>3. /\ NeedsNewId(store, k, v) => nextKeyId \in KeyIds
        /\ nextKeyId \notin 1 .. nextKeyId - 1
    BY <1>1, <2>1, TopicAssumption DEF Allocates, KeyIds
  <2> HIDE DEF g
  <2>4. ServerData(handles', flat') = StoreData(g, prefix) \cup B
    BY <1>0, <1>1, <2>1, StoreReplaced
  <2> HIDE DEF B, store, prefix
  <2>5. ASSUME Apart(handles), OneToOne(ServerNames(handles, flat), nextKeyId), NEW r \in Reps,
               Matches(r, handles, flat)
        PROVE  q \in Seq(DownFrames) /\ Matches(End(r, q), handles', flat')
    <3> DEFINE n == nextKeyId
               hs == handles'
               fs == flat'
    <3>1. ServerData(hs, fs) = StoreData(SetLeaf(store, k, v, n), prefix) \cup B
      BY <2>4 DEF g
    <3>2. \A c \in B : c[2] # WirePath(prefix, k)
      BY <1>3, <2>5
    <3> HIDE DEF hs, fs
    <3>3. q \in Seq(DownFrames) /\ Matches(End(r, q), hs, fs)
      BY <1>1, <1>2, <2>2, <2>3, <2>5, <3>1, <3>2, SetMatches
    <3> QED BY <3>3 DEF hs, fs
  <2>6. q \in Seq(DownFrames)
    <3> DEFINE N == {<<nextKeyId, WirePath(prefix, k)>>}
    <3>1. q \in Seq(FramesOf(N))
      BY <1>1, <2>2, <2>3, SetFramesNames
    <3> HIDE DEF q, N
    <3> QED BY <3>1, FramesOfSeq
  <2>7. ServerReset \notin ToSet(q)
    BY NoResets
  <2> HIDE DEF q
  <2> QED BY <1>0, <2>1, <2>5, <2>6, <2>7, DrainedSends
<1>5. CASE PayloadClearKey(t, k)
  <2> DEFINE g == ClearKey(store, k)
             q == ClearKeyFrames(store, k)
  <2>1. handles' = [handles EXCEPT ![t].flat = g] /\ SendDown(q) /\ HasKey(store, k)
    BY <1>5 DEF PayloadClearKey
  <2> HIDE DEF g
  <2>2. ServerData(handles', flat') = StoreData(g, prefix) \cup B
    BY <1>0, <1>1, <2>1, StoreReplaced
  <2> HIDE DEF B, store, prefix
  <2>3. ASSUME Apart(handles), OneToOne(ServerNames(handles, flat), nextKeyId), NEW r \in Reps,
               Matches(r, handles, flat)
        PROVE  q \in Seq(DownFrames) /\ Matches(End(r, q), handles', flat')
    <3> DEFINE n == nextKeyId
               hs == handles'
               fs == flat'
    <3>1. ServerData(hs, fs) = StoreData(ClearKey(store, k), prefix) \cup B
      BY <2>2 DEF g
    <3>2. \A c \in B : c[2] # WirePath(prefix, k)
      BY <1>3, <2>3
    <3> HIDE DEF hs, fs
    <3>3. q \in Seq(DownFrames) /\ Matches(End(r, q), hs, fs)
      BY <1>1, <1>2, <2>1, <2>3, <3>1, <3>2, ClearMatches
    <3> QED BY <3>3 DEF hs, fs
  <2>4. q \in Seq(DownFrames)
    <3>1. store.entries[k].keyId \in KeyIds
      BY <1>1, <2>1, StoreFields DEF HasKey
    <3>2. ServerKeyDelete(store.entries[k].keyId) \in DownFrames
      BY <3>1 DEF DownFrames
    <3> QED BY <3>2 DEF ClearKeyFrames
  <2>5. ServerReset \notin ToSet(q)
    BY NoResets
  <2> HIDE DEF q
  <2> QED BY <1>0, <2>1, <2>3, <2>4, <2>5, DrainedSends
<1> QED BY <1>4, <1>5

(* ... or of the session.                                                  *)
LEMMA SessionDrained ==
    ASSUME StoresOK, ReplicaOK, LedOK, DrainedOK, NEW k \in Keys,
           (\E v \in Values : SessionSet(k, v)) \/ SessionClearKey(k)
    PROVE  DrainedOK'
<1> DEFINE B == TopicsData(handles)
<1>0. /\ session \in {"Bound", "Active"} /\ UNCHANGED <<live, moved, replica, stale>>
      /\ handles' = handles
  BY DEF SessionSet, SessionClearKey, AppCall, replicaVars, topicsVars
<1>1. HandlesOK(handles) /\ flat \in Stores /\ nextKeyId \in 1 .. MaxKeyId + 1
  BY DEF StoresOK
<1>2. \A fs : ServerData(handles, fs) = StoreData(fs, "") \cup B
  BY DEF ServerData, TopicsData
<1>3. Apart(handles) => \A c \in B : c[2] # WirePath("", k)
  BY <1>1, PathsElsewhere
<1>4. PrefixOK("")
  BY PathsOfKeys DEF PrefixOK
<1> HIDE DEF B
<1>5. ASSUME NEW v \in Values, SessionSet(k, v)
      PROVE  DrainedOK'
  <2> DEFINE g == SetLeaf(flat, k, v, nextKeyId)
             q == SetFrames(flat, "", k, v, nextKeyId)
  <2>1. flat' = g /\ SendDown(q) /\ Allocates(flat, k, v)
    BY <1>5 DEF SessionSet
  <2>2. /\ NeedsNewId(flat, k, v) => nextKeyId \in KeyIds
        /\ nextKeyId \notin 1 .. nextKeyId - 1
    <3>1. nextKeyId \in 1 .. MaxKeyId + 1 /\ MaxKeyId \in Nat
      BY <1>1, TopicAssumption
    <3>2. NeedsNewId(flat, k, v) => nextKeyId <= MaxKeyId
      BY <2>1 DEF Allocates
    <3> QED BY <3>1, <3>2 DEF KeyIds
  <2>3. ASSUME Apart(handles), OneToOne(ServerNames(handles, flat), nextKeyId), NEW r \in Reps,
               Matches(r, handles, flat)
        PROVE  q \in Seq(DownFrames) /\ Matches(End(r, q), handles', flat')
    <3> DEFINE n == nextKeyId
               hs == handles'
               fs == flat'
    <3>1. ServerData(hs, fs) = StoreData(SetLeaf(flat, k, v, n), "") \cup B
      BY <1>0, <1>2, <2>1
    <3>2. ServerData(handles, flat) = StoreData(flat, "") \cup B /\ \A c \in B : c[2] # WirePath("", k)
      BY <1>2, <1>3, <2>3
    <3> HIDE DEF hs, fs
    <3>3. q \in Seq(DownFrames) /\ Matches(End(r, q), hs, fs)
      BY <1>1, <1>4, <2>2, <2>3, <3>1, <3>2, SetMatches
    <3> QED BY <3>3 DEF hs, fs
  <2>4. q \in Seq(DownFrames)
    <3> DEFINE N == {<<nextKeyId, WirePath("", k)>>}
    <3>1. q \in Seq(FramesOf(N))
      BY <1>1, <1>4, <2>2, SetFramesNames
    <3> HIDE DEF q, N
    <3> QED BY <3>1, FramesOfSeq
  <2>5. ServerReset \notin ToSet(q)
    BY NoResets
  <2> HIDE DEF q
  <2> QED BY <1>0, <2>1, <2>3, <2>4, <2>5, DrainedSends
<1>6. CASE SessionClearKey(k)
  <2> DEFINE q == ClearKeyFrames(flat, k)
  <2>1. flat' = ClearKey(flat, k) /\ SendDown(q) /\ HasKey(flat, k)
    BY <1>6 DEF SessionClearKey
  <2>2. ASSUME Apart(handles), OneToOne(ServerNames(handles, flat), nextKeyId), NEW r \in Reps,
               Matches(r, handles, flat)
        PROVE  q \in Seq(DownFrames) /\ Matches(End(r, q), handles', flat')
    <3> DEFINE n == nextKeyId
               hs == handles'
               fs == flat'
    <3>1. ServerData(hs, fs) = StoreData(ClearKey(flat, k), "") \cup B
      BY <1>0, <1>2, <2>1
    <3>2. ServerData(handles, flat) = StoreData(flat, "") \cup B /\ \A c \in B : c[2] # WirePath("", k)
      BY <1>2, <1>3, <2>2
    <3> HIDE DEF hs, fs
    <3>3. q \in Seq(DownFrames) /\ Matches(End(r, q), hs, fs)
      BY <1>1, <2>1, <2>2, <3>1, <3>2, ClearMatches
    <3> QED BY <3>3 DEF hs, fs
  <2>3. q \in Seq(DownFrames)
    <3>1. flat.entries[k].keyId \in KeyIds
      BY <1>1, <2>1, StoreFields DEF HasKey
    <3>2. ServerKeyDelete(flat.entries[k].keyId) \in DownFrames
      BY <3>1 DEF DownFrames
    <3> QED BY <3>2 DEF ClearKeyFrames
  <2>4. ServerReset \notin ToSet(q)
    BY NoResets
  <2> HIDE DEF q
  <2> QED BY <1>0, <2>1, <2>2, <2>3, <2>4, DrainedSends
<1> QED BY <1>5, <1>6

(* All keys of a topic or of the session are cleared.                      *)
LEMMA ClearDrained ==
    ASSUME StoresOK, StoresOK', ReplicaOK, LedOK, LedOK', DrainedOK,
           (\E t \in Topics : PayloadClear(t)) \/ SessionClear
    PROVE  DrainedOK'
<1>0. /\ session \in {"Bound", "Active"} /\ UNCHANGED <<live, moved, replica, stale, session>>
  BY DEF PayloadClear, SessionClear, AppCall, replicaVars, topicsVars
<1>1. PICK o \in Orders : SendDown(ResyncFrames(handles', flat', o))
  <2>1. CASE SessionClear
    <3>1. flat' = EmptyFlat /\ handles' = handles
          /\ \E o \in Orders : SendDown(ResyncFrames(handles, EmptyFlat, o))
      BY <2>1 DEF SessionClear
    <3> QED BY <3>1
  <2>2. ASSUME NEW t \in Topics, PayloadClear(t)
        PROVE  \E o \in Orders : SendDown(ResyncFrames(handles', flat', o))
    <3>1. flat' = flat /\ \E o \in Orders : SendDown(ResyncFrames(handles', flat, o))
      BY <2>2 DEF PayloadClear
    <3> QED BY <3>1
  <2> QED BY <2>1, <2>2
<1> DEFINE q == ResyncFrames(handles', flat', o)
<1>2. ASSUME live, ~moved
      PROVE  /\ q \in Seq(DownFrames)
             /\ \A r \in Reps : Matches(End(r, q), handles', flat')
  <2> DEFINE hs == handles'
             fs == flat'
             next == nextKeyId'
  <2>1. HandlesOK(hs) /\ fs \in Stores /\ Apart(hs) /\ OneToOne(ServerNames(hs, fs), next)
    <3>1. StoresOK' /\ LedOK' /\ live' /\ ~moved' /\ session' \in {"Bound", "Active"}
      BY <1>0, <1>2
    <3>2. HandlesOK(handles') /\ flat' \in Stores /\ OneToOne(NamesNow', nextKeyId')
      BY <3>1 DEF StoresOK
    <3>3. Apart(handles')
      BY <3>1 DEF LedOK
    <3> QED BY <3>2, <3>3 DEF NamesNow, OneToOne
  <2>2. q = ResyncFrames(hs, fs, o)
    OBVIOUS
  <2> HIDE DEF hs, fs, next, q
  <2>3. OneEach(ServerNames(hs, fs)) /\ OneValue(ServerValues(hs, fs))
    BY <2>1, DataDistinct, DataApart, NamesOfServer
  <2>4. ASSUME NEW r \in Reps
        PROVE  q \in Seq(DownFrames) /\ Matches(End(r, q), hs, fs)
    BY <2>1, <2>2, <2>3, Resynced DEF Matches
  <2>5. EmptyReplica \in Reps
    BY EmptyReplicaType
  <2> QED BY <2>4, <2>5 DEF hs, fs
<1>3. SendDown(q)
  BY <1>1
<1> HIDE DEF q
<1> QED BY <1>0, <1>2, <1>3, DrainedSends

(* A topic sync is handled.                                                *)
LEMMA TopicsDrained ==
    ASSUME SyncOK, StoresOK, ReplicaOK, LedOK, DrainedOK, HandleTopicSync
    PROVE  DrainedOK'
<1> DEFINE rest == [t \in DOMAIN handles \cap NewTopics |-> handles[t]]
<1>0. /\ session \in {"Bound", "Active"} /\ UNCHANGED <<live, moved, replica, stale>>
      /\ flat' = flat
  BY DEF HandleTopicSync, Accepts, replicaVars, topicsVars
<1>1. PICK lost \in SUBSET NewTopics, o \in Orders :
         handles' = HandlesAfter(lost) /\ SendDown(RemovalFrames(o))
  BY DEF HandleTopicSync
<1>2. HandlesOK(handles) /\ flat \in Stores
  BY DEF StoresOK
<1> DEFINE q == RemovalFrames(o)
<1>3. \A r : Matches(r, rest, flat) => Matches(r, handles', flat')
  <2> DEFINE hs == handles'
  <2>1. /\ DOMAIN hs = NewTopics
        /\ \A t \in NewTopics : hs[t] = IF t \in DOMAIN handles THEN handles[t] ELSE NewHandle(t, lost)
    BY <1>1 DEF HandlesAfter
  <2>2. /\ DOMAIN rest = DOMAIN handles \cap NewTopics
        /\ \A t \in DOMAIN rest : rest[t] = handles[t]
    OBVIOUS
  <2> HIDE DEF hs, rest
  <2>3. /\ DOMAIN rest \subseteq DOMAIN hs /\ \A t \in DOMAIN rest : rest[t] = hs[t]
        /\ \A t \in DOMAIN hs \ DOMAIN rest : hs[t].flat = EmptyFlat
    BY <2>1, <2>2 DEF NewHandle
  <2>4. /\ ServerNames(hs, flat) = ServerNames(rest, flat)
        /\ ServerValues(hs, flat) = ServerValues(rest, flat)
    BY <2>3, SameData
  <2>5. \A r : Matches(r, rest, flat) => Matches(r, hs, flat)
    BY <2>4 DEF Matches
  <2> QED BY <1>0, <2>5 DEF hs
<1>4. ASSUME live, ~moved, Apart(handles), OneToOne(ServerNames(handles, flat), nextKeyId)
      PROVE  /\ q \in Seq(DownFrames)
             /\ \A r \in Reps : ServerReset \in ToSet(q) \/ Matches(r, handles, flat)
                                   => Matches(End(r, q), handles', flat')
  <2>1. OneEach(ServerNames(handles, flat)) /\ OneValue(ServerValues(handles, flat))
    BY <1>2, <1>4, DataDistinct, DataApart, NamesOfServer
  <2>2. CASE DOMAIN handles \ NewTopics = {}
    <3> DEFINE g == rest
    <3>1. q = << >>
      BY <1>2, <2>2, NoRemovals
    <3>2. q \in Seq(DownFrames) /\ ServerReset \notin ToSet(q) /\ \A r \in Reps : End(r, q) = r
      BY <3>1, EndNone DEF ToSet
    <3>3. DOMAIN handles \cap NewTopics = DOMAIN handles
      BY <2>2
    <3>4. DOMAIN g = DOMAIN handles /\ \A t \in DOMAIN g : g[t] = handles[t]
      BY <3>3
    <3> HIDE DEF g, q
    <3>5. /\ ServerNames(handles, flat) = ServerNames(g, flat)
          /\ ServerValues(handles, flat) = ServerValues(g, flat)
      BY <3>4, SameData
    <3>6. \A r : Matches(r, handles, flat) => Matches(r, g, flat)
      BY <3>5 DEF Matches
    <3>7. \A r : Matches(r, g, flat) => Matches(r, handles', flat')
      BY <1>3 DEF g
    <3> QED BY <3>2, <3>6, <3>7
  <2>3. CASE DOMAIN handles \ NewTopics # {}
    <3> DEFINE g == rest
    <3>1. g = [t \in DOMAIN handles \cap NewTopics |-> handles[t]]
      OBVIOUS
    <3> HIDE DEF g, q
    <3>2. /\ q \in Seq(DownFrames)
          /\ \A r \in Reps : Carries(End(r, q), ServerNames(g, flat), ServerValues(g, flat))
      BY <1>2, <2>1, <2>3, <3>1, RemovalResyncs DEF q
    <3>3. \A r \in Reps : Matches(End(r, q), g, flat)
      BY <3>2 DEF Matches
    <3>4. \A r : Matches(r, g, flat) => Matches(r, handles', flat')
      BY <1>3 DEF g
    <3> QED BY <3>2, <3>3, <3>4
  <2> QED BY <2>2, <2>3
<1>5. SendDown(q)
  BY <1>1
<1> HIDE DEF q
<1> QED BY <1>0, <1>4, <1>5, DrainedSends

(* What the client can be answered without being told anything wrong.      *)
Harmless(hs, fs) ==
    {q \in Seq(DownFrames) :
        /\ ServerReset \notin ToSet(q)
        /\ \A r \in Reps : Matches(r, hs, fs) => Matches(End(r, q), hs, fs)}

(* handleKeyRequest answers with what the session has.                     *)
LEMMA KeyRequestAnswers ==
    ASSUME StoresOK, Apart(handles), OneToOne(ServerNames(handles, flat), nextKeyId),
           HandleKeyRequest
    PROVE  \E q \in Harmless(handles, flat) : SendDown(q)
<1> DEFINE id == Head(up).keyId
           D == {t \in DOMAIN handles : id \in DOMAIN handles[t].flat.byKeyId}
           names == Names(D)
           n == Len(names)
           A(t) == Answer(handles[t].flat, TopicPrefix(handles[t].index), id)
           a == IF id \in DOMAIN flat.byKeyId THEN << Answer(flat, "", id) >> ELSE << >>
           b == [i \in DOMAIN names |-> A(names[i])]
           Z == Harmless(handles, flat)
<1>0. D \subseteq Topics /\ HandlesOK(handles) /\ flat \in Stores /\ Indexed(flat)
  BY DEF StoresOK, HandlesOK
<1>1. /\ n \in Nat /\ DOMAIN names = 1 .. n /\ \A i \in 1 .. n : names[i] \in D
  <2> HIDE DEF D
  <2> QED BY <1>0, NamesElements, LenProperties
<1>2. SendDown(IF a \o b = << >> THEN << >> ELSE (a \o b)[1])
  BY Zenon DEF HandleKeyRequest, Names
<1> HIDE DEF names, n
<1>3. PrefixOK("") /\ \A i \in Indices : PrefixOK(TopicPrefix(i))
  BY PathsOfKeys DEF PrefixOK
<1>4. /\ StoreData(flat, "") \subseteq ServerData(handles, flat)
      /\ \A t \in DOMAIN handles :
            StoreData(handles[t].flat, TopicPrefix(handles[t].index)) \subseteq ServerData(handles, flat)
  BY DEF ServerData
<1>5. ASSUME NEW store \in Stores, Indexed(store), NEW prefix, PrefixOK(prefix),
             StoreData(store, prefix) \subseteq ServerData(handles, flat),
             id \in DOMAIN store.byKeyId
      PROVE  Answer(store, prefix, id) \in Z
  <2> HIDE DEF id
  <2>1. EmptyReplica \in Reps
    BY EmptyReplicaType
  <2>2. ServerReset \notin ToSet(Answer(store, prefix, id))
    BY NoResets
  <2>3. \A r \in Reps : Matches(r, handles, flat) =>
           /\ Answer(store, prefix, id) \in Seq(DownFrames)
           /\ Matches(End(r, Answer(store, prefix, id)), handles, flat)
    BY <1>0, <1>5, AnswerMatches
  <2>4. Answer(store, prefix, id) \in Seq(DownFrames)
    <3>1. Answer(store, prefix, id) \in Seq(FramesOf(StoreNames(store, prefix)))
      BY <1>5, AnswerNames
    <3> HIDE DEF Z
    <3> QED BY <3>1, FramesOfSeq
  <2> QED BY <2>2, <2>3, <2>4 DEF Harmless
<1>6. id \in DOMAIN flat.byKeyId => Answer(flat, "", id) \in Z
  BY <1>0, <1>3, <1>4, <1>5
<1>7. ASSUME NEW t \in D PROVE A(t) \in Z
  <2>1. /\ handles[t].flat \in Stores /\ Indexed(handles[t].flat) /\ handles[t].index \in Indices
        /\ id \in DOMAIN handles[t].flat.byKeyId /\ t \in DOMAIN handles
    BY <1>0 DEF HandlesOK, HandleSet
  <2> HIDE DEF id
  <2> QED BY <1>3, <1>4, <1>5, <2>1 DEF id
<1>8. << >> \in Z
  <2>1. << >> \in Seq(DownFrames) /\ ServerReset \notin ToSet(<< >>)
    BY DEF ToSet
  <2> QED BY <2>1, EndNone DEF Harmless
<1> HIDE DEF Z, A, D, id
<1>9. a \in Seq(Z)
  <2>1. CASE id \in DOMAIN flat.byKeyId
    <3> DEFINE x == Answer(flat, "", id)
    <3>1. x \in Z /\ a = << x >>
      BY <1>6, <2>1
    <3> HIDE DEF x, a
    <3>2. << x >> \in Seq(Z)
      BY <3>1
    <3> QED BY <3>1, <3>2
  <2>2. CASE id \notin DOMAIN flat.byKeyId
    BY <2>2
  <2> QED BY <2>1, <2>2
<1>10. b \in Seq(Z)
  <2>1. \A i \in 1 .. n : A(names[i]) \in Z
    BY <1>1, <1>7
  <2> QED BY <1>1, <2>1
<1> HIDE DEF a, b
<1>11. a \o b \in Seq(Z)
  BY <1>9, <1>10, ConcatProperties
<1> DEFINE c == a \o b
           q == IF c = << >> THEN << >> ELSE c[1]
<1>12. q \in Z
  <2>1. CASE c = << >>
    BY <1>8, <2>1
  <2>2. CASE c # << >>
    <3> HIDE DEF c
    <3>1. c \in Seq(Z) /\ 1 \in 1 .. Len(c)
      BY <1>11, <2>2, EmptySeq, LenProperties DEF c
    <3>2. c[1] \in Z
      BY <3>1, ElementOfSeq
    <3> QED BY <2>2, <3>2
  <2> QED BY <2>1, <2>2
<1>13. SendDown(q)
  BY <1>2
<1> HIDE DEF q
<1> QED BY <1>12, <1>13 DEF Z

(* A key request is handled.                                               *)
LEMMA KeyRequestDrained ==
    ASSUME StoresOK, ReplicaOK, LedOK, DrainedOK, HandleKeyRequest
    PROVE  DrainedOK'
<1>1. UNCHANGED <<live, moved, replica, stale, handles, flat, session>>
  BY DEF HandleKeyRequest, Accepts, topicsVars, replicaVars, serverVars
<1>2. CASE session \notin {"Bound", "Active"} \/ ~live \/ moved
  BY <1>1, <1>2 DEF DrainedOK
<1>3. CASE session \in {"Bound", "Active"} /\ live /\ ~moved
  <2>1. Apart(handles) /\ OneToOne(ServerNames(handles, flat), nextKeyId)
    BY <1>3 DEF LedOK, StoresOK, NamesNow, OneToOne
  <2>2. PICK q \in Harmless(handles, flat) : SendDown(q)
    BY <2>1, KeyRequestAnswers
  <2>3. /\ q \in Seq(DownFrames)
        /\ \A r \in Reps : ServerReset \in ToSet(q) \/ Matches(r, handles, flat)
                              => Matches(End(r, q), handles', flat')
    BY <1>1 DEF Harmless
  <2> QED BY <1>1, <1>3, <2>2, <2>3, DrainedSends
<1> QED BY <1>2, <1>3

(* Every step of the server tells the client what it changes.              *)
LEMMA ServerDrainedStep ==
    ASSUME SyncOK, StoresOK, StoresOK', ReplicaOK, LedOK, LedOK', DrainedOK, ServerMoves
    PROVE  DrainedOK'
<1> USE DEF serverVars, replicaVars, topicsVars
<1>1. CASE SessionDisconnect
  <2>1. ~live'
    BY <1>1 DEF SessionDisconnect
  <2> QED BY <2>1 DEF DrainedOK
<1>2. CASE HandleIdentify
  <2>1. session = "None"
    <3>1. /\ UNCHANGED <<subs, indexMap, handleIndex>> /\ up # << >> /\ up' = Tail(up)
          /\ Head(up).frameType = "Identify"
      BY <1>2 DEF HandleIdentify, Accepts
    <3> QED BY <3>1, SyncTaken
  <2>2. UNCHANGED <<live, handles>>
    BY <1>2 DEF HandleIdentify, Accepts
  <2>3. CASE Activate(<< >>)
    BY <2>1, <2>2, <2>3, DrainedBound
  <2>4. CASE session' = "Waiting"
    BY <2>4 DEF DrainedOK
  <2> QED BY <1>2, <2>3, <2>4 DEF HandleIdentify
<1>3. CASE FinishActivation
  <2> DEFINE q == << ServerSync >>
  <2>1. /\ session \in {"Bound", "Active"} /\ SendDown(q)
        /\ UNCHANGED <<live, moved, replica, stale>> /\ UNCHANGED <<handles, flat>>
    BY <1>3 DEF FinishActivation
  <2>2. ServerSync \in DownFrames /\ ServerSync # ServerReset
    BY DEF DownFrames, ServerSync, ServerReset, Signal, Frame
  <2>3. q \in Seq(DownFrames) /\ \A r \in Reps : End(r, q) = r
    BY <2>2, EndOne, OthersApply
  <2>4. ServerReset \notin ToSet(q)
    <3>1. ToSet(q) = {ServerSync}
      BY DEF ToSet
    <3> QED BY <2>2, <3>1
  <2> HIDE DEF q
  <2>5. /\ q \in Seq(DownFrames)
        /\ \A r \in Reps : ServerReset \in ToSet(q) \/ Matches(r, handles, flat)
                              => Matches(End(r, q), handles', flat')
    BY <2>1, <2>3, <2>4
  <2> QED BY <2>1, <2>5, DrainedSends
<1>4. CASE HandleAuth
  <2>1. /\ UNCHANGED <<live, moved, replica, stale, down, handles, flat>>
        /\ session' = session \/ session' = "Asked"
    BY <1>4 DEF HandleAuth, Accepts
  <2>2. CASE session' = session
    BY <2>1, <2>2, DrainedKept
  <2>3. CASE session' = "Asked"
    BY <2>3 DEF DrainedOK
  <2> QED BY <2>1, <2>2, <2>3
<1>5. CASE DropTopicFrame \/ HandleReset \/ HandleKeyRegistration \/ HandleValue \/ HandleClientReady
  <2>1. UNCHANGED <<live, moved, replica, stale, down, session, handles, flat>>
    BY <1>5 DEF DropTopicFrame, HandleReset, HandleKeyRegistration, HandleValue,
                HandleClientReady, Accepts
  <2> QED BY <2>1, DrainedKept
<1>6. CASE AppAuthorize
  <2>1. session = "Asked" /\ Activate(<< AuthOk >>) /\ UNCHANGED <<live, handles>>
    BY <1>6 DEF AppAuthorize
  <2> QED BY <2>1, DrainedBound
<1>7. ASSUME NEW t \in Topics, AppSetTask(t) \/ AppClearTask(t) \/ TaskCallsOff(t) \/ TaskEnds(t)
      PROVE  DrainedOK'
  <2>1. UNCHANGED <<live, moved, replica, stale, down, session, handles, flat>>
    BY <1>7 DEF AppSetTask, AppClearTask, TaskCallsOff, TaskEnds, AppCall
  <2> QED BY <2>1, DrainedKept
<1>8. ASSUME NEW k \in Keys,
             (\E v \in Values : SessionSet(k, v)) \/ SessionClearKey(k)
             \/ \E t \in Topics : (\E v \in Values : PayloadSet(t, k, v)) \/ PayloadClearKey(t, k)
      PROVE  DrainedOK'
  BY <1>8, SessionDrained, PayloadDrained
<1>9. CASE (\E t \in Topics : PayloadClear(t)) \/ SessionClear
  BY <1>9, ClearDrained
<1>10. CASE AppStep
  BY <1>6, <1>7, <1>8, <1>9, <1>10 DEF AppStep
<1> QED BY <1>1, <1>2, <1>3, <1>4, <1>5, <1>10, TopicsDrained, KeyRequestDrained
      DEF ServerMoves, SessionStep

-----------------------------------------------------------------------------
(* What the client handles is no longer on its way.                        *)

(* A frame is handled.                                                     *)
LEMMA DrainedReceives ==
    ASSUME StoresOK, ReplicaOK, DrainedOK, NEW type, Receives(type),
           replica' = ReplicaApply(replica, Head(down)),
           type = "ServerReset" \/ stale' = stale
    PROVE  DrainedOK'
<1>1. /\ down # << >> /\ Head(down).frameType = type /\ down' = Tail(down)
      /\ UNCHANGED <<live, moved, session, handles, flat>>
  BY DEF Receives, serverVars
<1>2. down \in Seq(DownFrames) /\ replica \in Reps
  BY DEF StoresOK, ReplicaOK
<1>3. Drained' = Drained
  <2>1. End(ReplicaApply(replica, Head(down)), Tail(down)) = End(replica, down)
    BY <1>1, <1>2, EndFirst
  <2>2. Drained = End(replica, down) /\ Drained' = End(replica', down')
    BY DEF Drained, End
  <2> QED BY <1>1, <2>1, <2>2
<1>4. ServerReset \in ToSet(down') => ServerReset \in ToSet(down)
  <2>1. \A i \in 1 .. Len(Tail(down)) : i + 1 \in 1 .. Len(down) /\ Tail(down)[i] = down[i + 1]
    BY <1>1, <1>2
  <2> QED BY <1>1, <1>2, <2>1 DEF ToSet
<1>5. type = "ServerReset" => ServerReset \in ToSet(down)
  <2>1. Head(down) \in DownFrames /\ Head(down) = down[1] /\ 1 \in DOMAIN down
    BY <1>1, <1>2
  <2>2. \A f \in DownFrames : f.frameType = "ServerReset" => f = ServerReset
    BY DEF DownFrames, AuthOk, ServerSync, ServerReset, ServerKeyRegistration, ServerValue,
           ServerKeyDelete, KeySignal, Signal, Frame
  <2> QED BY <1>1, <2>1, <2>2 DEF ToSet
<1> QED BY <1>1, <1>3, <1>4, <1>5 DEF DrainedOK

(* Every step of the client keeps what it will hold.                       *)
LEMMA ClientDrainedStep ==
    ASSUME StoresOK, ReplicaOK, DrainedOK, ClientMoves
    PROVE  DrainedOK'
<1> USE DEF serverVars, replicaVars, topicsVars
<1>1. ASSUME UNCHANGED <<live, replica, stale, down, session, handles, flat>>, moved => moved'
      PROVE  DrainedOK'
  BY <1>1 DEF DrainedOK, Drained
<1>2. ASSUME NEW t \in Topics,
             (\E p \in ParamsOf[t] : Subscribe(t, p)) \/ Unsubscribe(t) \/ OpenHandle(t)
      PROVE  DrainedOK'
  BY <1>1, <1>2 DEF Subscribe, Unsubscribe, OpenHandle, SubscriptionsChange, ClientCall
<1>3. CASE Authorize \/ Connect
  BY <1>1, <1>3 DEF Authorize, Connect, ClientCall
<1>4. CASE HandleOpen
  BY <1>4 DEF HandleOpen, DrainedOK
<1>5. CASE HandleClose
  BY <1>5 DEF HandleClose, DrainedOK
<1>6. \A type : Receives(type) => down # << >> /\ Head(down).frameType = type
  BY DEF Receives
<1>7. CASE OnAuthOk
  <2>1. Receives("AuthOk") /\ replica' = replica /\ stale' = stale
    BY <1>7 DEF OnAuthOk
  <2>2. ReplicaApply(replica, Head(down)) = replica
    BY <1>6, <2>1 DEF ReplicaApply
  <2> QED BY <2>1, <2>2, DrainedReceives
<1>8. CASE OnSync
  <2>1. Receives("ServerSync") /\ replica' = replica /\ stale' = stale
    BY <1>8 DEF OnSync
  <2>2. ReplicaApply(replica, Head(down)) = replica
    BY <1>6, <2>1 DEF ReplicaApply
  <2> QED BY <2>1, <2>2, DrainedReceives
<1>9. CASE OnKeyRegistration
  <2>1. /\ Receives("ServerKeyRegistration") /\ stale' = stale
        /\ replica' = ReplicaRegister(replica, Head(down))
    BY <1>9 DEF OnKeyRegistration
  <2>2. ReplicaApply(replica, Head(down)) = ReplicaRegister(replica, Head(down))
    BY <1>6, <2>1 DEF ReplicaApply
  <2> QED BY <2>1, <2>2, DrainedReceives
<1>10. CASE OnValue
  <2>1. Receives("ServerValue") /\ stale' = stale /\ replica' = ReplicaValue(replica, Head(down))
    BY <1>10 DEF OnValue
  <2>2. ReplicaApply(replica, Head(down)) = ReplicaValue(replica, Head(down))
    BY <1>6, <2>1 DEF ReplicaApply
  <2> QED BY <2>1, <2>2, DrainedReceives
<1>11. CASE OnKeyDelete
  <2>1. Receives("ServerKeyDelete") /\ stale' = stale /\ replica' = ReplicaDelete(replica, Head(down))
    BY <1>11 DEF OnKeyDelete
  <2>2. ReplicaApply(replica, Head(down)) = ReplicaDelete(replica, Head(down))
    BY <1>6, <2>1 DEF ReplicaApply
  <2> QED BY <2>1, <2>2, DrainedReceives
<1>12. CASE OnReset
  <2>1. Receives("ServerReset") /\ stale' = FALSE /\ replica' = EmptyReplica
    BY <1>12 DEF OnReset
  <2>2. ReplicaApply(replica, Head(down)) = EmptyReplica
    BY <1>6, <2>1 DEF ReplicaApply
  <2> QED BY <2>1, <2>2, DrainedReceives
<1> QED BY <1>2, <1>3, <1>4, <1>5, <1>7, <1>8, <1>9, <1>10, <1>11, <1>12 DEF ClientMoves, ClientStep

-----------------------------------------------------------------------------
(* So every handle shows the data of its topic.                            *)

(* With no topic frame on its way, the session has its topics where the    *)
(* client has them.                                                        *)
LEMMA TopicsArrived ==
    ASSUME up \in Seq(UpFrames), subs \in Subscriptions, ~TopicsInFlight,
           LeadsTo(up, subs, registry, clientValues, handles)
    PROVE  Placed(handles, subs)
<1> DEFINE n == Len(up)
<1>1. n \in Nat /\ DOMAIN up = 1 .. n
  BY LenProperties
<1>2. PICK of : /\ Steady(up, of) /\ of[Len(up)] = subs
                /\ InPlace(up, handles, of[0])
  BY DEF LeadsTo
<1>3. \A i \in 1 .. n : up[i].frameType \notin TopicFrames
  BY <1>1 DEF TopicsInFlight
<1>4. \A i \in 1 .. n : up[i].frameType # "ClientReset" /\ up[i].frameType # "ClientSync"
  BY <1>3 DEF TopicFrames
<1>5. \A i \in 1 .. n : of[i] = of[i - 1]
  BY <1>2, <1>4 DEF Steady
<1> DEFINE S == {m \in Nat : m <= n => of[m] = of[0]}
<1>6. 0 \in S
  OBVIOUS
<1>7. ASSUME NEW m \in Nat, m \in S PROVE m + 1 \in S
  <2>1. m + 1 \in Nat /\ (m + 1 <= n => m <= n /\ m + 1 \in 1 .. n /\ (m + 1) - 1 = m)
    BY <1>1
  <2> HIDE DEF n
  <2> QED BY <1>5, <1>7, <2>1
<1> HIDE DEF S
<1>8. Nat \subseteq S
  BY <1>6, <1>7, SetInduction
<1>9. of[0] = subs
  BY <1>1, <1>2, <1>8 DEF S
<1>10. ~Ends(up, 0)
  <2>1. \A i \in 0 + 1 .. n : i \in 1 .. n
    BY <1>1
  <2> QED BY <1>4, <2>1 DEF Ends
<1> QED BY <1>2, <1>9, <1>10 DEF InPlace

(* What is held is read: get() of a key of a store.                        *)
LEMMA HeldIsRead ==
    ASSUME NEW r, NEW D, Holds(r, NamesOf(D), ValuesOf(D)),
           NEW store, NEW prefix, NEW k, StoreData(store, prefix) \subseteq D,
           \A c \in D \ StoreData(store, prefix) : c[2] # WirePath(prefix, k)
    PROVE  ReplicaGet(r, WirePath(prefix, k)) = Get(store, k)
<1> DEFINE p == WirePath(prefix, k)
           N == NamesOf(D)
           V == ValuesOf(D)
<1>1. CASE k \in DOMAIN store.entries
  <2> DEFINE e == store.entries[k]
             c == <<e.keyId, p, e.value>>
             x == <<e.keyId, p>>
             y == <<e.keyId, e.value>>
  <2>1. c \in D
    BY <1>1 DEF StoreData
  <2>2. c[1] = e.keyId /\ c[2] = p /\ c[3] = e.value
    OBVIOUS
  <2>3. x \in N /\ y \in V
    <3>1. <<c[1], c[2]>> \in N /\ <<c[1], c[3]>> \in V
      BY <2>1 DEF NamesOf, ValuesOf
    <3> HIDE DEF N, V, c, e, p
    <3> QED BY <2>2, <3>1
  <2>4. x[1] = e.keyId /\ x[2] = p /\ y[1] = e.keyId /\ y[2] = e.value
    OBVIOUS
  <2> HIDE DEF N, V, c, x, y, p, e
  <2>5. /\ e.keyId \in DOMAIN r.registry.byId
        /\ p \in DOMAIN r.registry.pathToId /\ r.registry.pathToId[p] = e.keyId
        /\ e.keyId \in DOMAIN r.store /\ r.store[e.keyId] = e.value
    BY <2>3, <2>4 DEF Holds, N, V
  <2>6. ReplicaGet(r, p) = e.value
    BY <2>5 DEF ReplicaGet, Resolves, ResolvePath, HasPath, HasKeyId
  <2> QED BY <1>1, <2>6 DEF Get, HasKey, p, e
<1>2. CASE k \notin DOMAIN store.entries
  <2>1. ASSUME p \in DOMAIN r.registry.pathToId PROVE FALSE
    <3> DEFINE x == <<r.registry.pathToId[p], p>>
    <3>1. x \in N
      BY <2>1 DEF Holds
    <3>2. PICK c \in D : x = <<c[1], c[2]>>
      BY <3>1 DEF NamesOf
    <3>3. c[2] = p
      <4> HIDE DEF p
      <4> QED BY <3>2
    <3>4. c \in StoreData(store, prefix)
      BY <3>2, <3>3
    <3>5. PICK l \in DOMAIN store.entries :
             c = <<store.entries[l].keyId, WirePath(prefix, l), store.entries[l].value>>
      BY <3>4 DEF StoreData
    <3>6. WirePath(prefix, l) = WirePath(prefix, k)
      <4>1. c[2] = WirePath(prefix, l)
        BY <3>5
      <4> QED BY <3>3, <4>1
    <3>7. l = k
      BY <3>6, PathsDiffer
    <3> QED BY <1>2, <3>7
  <2>2. ReplicaGet(r, p) = NoPayload
    BY <2>1 DEF ReplicaGet, Resolves, HasPath
  <2> QED BY <1>2, <2>2 DEF Get, HasKey
<1> QED BY <1>1, <1>2

(* The inductive invariant behind TopicsScoped.                            *)
ScopeParts == TopicParts /\ LedOK /\ KnownOK /\ DrainedOK

(* A client that has just been made has sent nothing.                      *)
LEMMA ScopeInit == TopicInit => ScopeParts
<1> SUFFICES ASSUME TopicInit PROVE ScopeParts
  OBVIOUS
<1>1. ~live /\ topicDirty = (subs # EmptyMap)
  BY DEF TopicInit
<1>2. subs = EmptyMap => DOMAIN subs = {}
  BY DEF EmptyMap
<1>3. KnownOK
  BY <1>1, <1>2 DEF KnownOK
<1> QED BY <1>1, <1>3, PartsInit DEF ScopeParts, LedOK, DrainedOK

(* A step of the server leaves what the client's handles know.             *)
LEMMA ServerKnownStep ==
    ASSUME KnownOK, ServerMoves
    PROVE  KnownOK'
<1> USE DEF topicsVars
<1>1. ASSUME UNCHANGED <<live, topicsVars>> PROVE KnownOK'
  BY <1>1 DEF KnownOK
<1>2. \A type : Accepts(type) => UNCHANGED <<live, topicsVars>>
  BY DEF Accepts
<1>3. SessionStep => UNCHANGED <<live, topicsVars>>
  BY <1>2 DEF SessionStep, HandleIdentify, FinishActivation, HandleAuth, DropTopicFrame, HandleReset,
         HandleKeyRegistration, HandleValue, HandleTopicSync, HandleClientReady, HandleKeyRequest
<1>4. AppCall => UNCHANGED <<live, topicsVars>>
  BY DEF AppCall
<1>5. AppStep => UNCHANGED <<live, topicsVars>>
  BY <1>4 DEF AppStep, AppAuthorize, SessionSet, SessionClearKey, SessionClear, PayloadSet,
         PayloadClearKey, PayloadClear, AppSetTask, AppClearTask, TaskCallsOff, TaskEnds
<1>6. SessionDisconnect => UNCHANGED <<live, topicsVars>>
  BY DEF SessionDisconnect
<1> QED BY <1>1, <1>3, <1>5, <1>6 DEF ServerMoves

(* Every step keeps it.                                                    *)
LEMMA ScopeStep == ScopeParts /\ [TopicNext]_vars => ScopeParts'
<1> SUFFICES ASSUME ScopeParts, [TopicNext]_vars PROVE ScopeParts'
  OBVIOUS
<1>0. TopicParts /\ LedOK /\ KnownOK /\ DrainedOK /\ SyncOK /\ StoresOK /\ ReplicaOK
  BY DEF ScopeParts, TopicParts
<1>1. TopicParts' /\ StoresOK'
  <2>1. TopicParts'
    BY <1>0, PartsStep
  <2> QED BY <2>1 DEF TopicParts
<1>2. CASE ClientMoves
  BY <1>0, <1>1, <1>2, ClientLedStep, ClientKnownStep, ClientDrainedStep DEF ScopeParts
<1>3. CASE ServerMoves
  <2>1. LedOK' /\ KnownOK'
    BY <1>0, <1>3, ServerLedStep, ServerKnownStep
  <2>2. DrainedOK'
    BY <1>0, <1>1, <1>3, <2>1, ServerDrainedStep
  <2> QED BY <1>1, <2>1, <2>2 DEF ScopeParts
<1>4. CASE UNCHANGED vars
  <2>1. UNCHANGED <<live, subs, handleIndex, topicDirty, moved, replica, stale, up, down,
                    session, registry, clientValues, handles, flat>>
    BY <1>4 DEF vars, topicsVars, replicaVars, serverVars
  <2>2. LedOK' /\ KnownOK'
    BY <1>0, <2>1 DEF LedOK, KnownOK
  <2>3. DrainedOK'
    BY <1>0, <2>1, DrainedKept
  <2> QED BY <1>1, <2>2, <2>3 DEF ScopeParts
<1>5. TopicNext => ClientMoves \/ ServerMoves
  BY DEF TopicNext, ClientMoves, ServerMoves
<1> QED BY <1>2, <1>3, <1>4, <1>5

(* The handles show their topics.                                          *)
LEMMA PartsScope == ScopeParts => TopicsScoped
<1> SUFFICES ASSUME ScopeParts, live, session = "Active", ~moved, ~TopicsInFlight, Fresh
             PROVE  /\ \A k \in Keys : ReplicaGet(Drained, k) = Get(flat, k)
                    /\ \A t \in DOMAIN subs \cap DOMAIN handles :
                          /\ handleIndex[t] = handles[t].index
                          /\ \A k \in Keys :
                                ReplicaGet(Drained, WirePath(TopicPrefix(handleIndex[t]), k))
                                    = Get(handles[t].flat, k)
  BY DEF TopicsScoped
<1>0. TopicParts /\ LedOK /\ KnownOK /\ DrainedOK /\ SyncOK /\ StoresOK
  BY DEF ScopeParts, TopicParts
<1>1. HandlesOK(handles) /\ flat \in Stores /\ Apart(handles)
  BY <1>0 DEF StoresOK, LedOK
<1> DEFINE D == ServerData(handles, flat)
           r == Drained
<1>2. Holds(r, NamesOf(D), ValuesOf(D))
  <2>1. Matches(Drained, handles, flat) /\ ~Drained.refused
    BY <1>0 DEF Fresh, DrainedOK
  <2> QED BY <2>1, NamesOfServer DEF Matches, Carries
<1> HIDE DEF r
<1>3. ASSUME NEW k \in Keys PROVE ReplicaGet(r, k) = Get(flat, k)
  <2> DEFINE B == TopicsData(handles)
             prefix == ""
             store == flat
  <2>1. D = StoreData(store, prefix) \cup B
    BY DEF ServerData, TopicsData
  <2>2. \A c \in B : c[2] # WirePath(prefix, k)
    BY <1>1, PathsElsewhere
  <2> HIDE DEF B, D, prefix, store
  <2>3. /\ StoreData(store, prefix) \subseteq D
        /\ \A c \in D \ StoreData(store, prefix) : c[2] # WirePath(prefix, k)
    BY <2>1, <2>2
  <2>4. ReplicaGet(r, WirePath(prefix, k)) = Get(store, k)
    BY <1>2, <2>3, HeldIsRead
  <2> QED BY <2>4 DEF WirePath, prefix, store
<1>4. ASSUME NEW t \in DOMAIN subs \cap DOMAIN handles PROVE handleIndex[t] = handles[t].index
  <2>1. Placed(handles, subs)
    <3>1. up \in Seq(UpFrames) /\ subs \in Subscriptions
      BY <1>0 DEF SyncOK, TopicsOK, UpOK
    <3> QED BY <1>0, <3>1, TopicsArrived DEF LedOK
  <2> QED BY <1>0, <2>1 DEF Placed, KnownOK
<1>5. ASSUME NEW t \in DOMAIN handles, NEW k \in Keys
      PROVE  ReplicaGet(r, WirePath(TopicPrefix(handles[t].index), k)) = Get(handles[t].flat, k)
  <2> DEFINE B == Elsewhere(handles, flat, t)
             prefix == TopicPrefix(handles[t].index)
             store == handles[t].flat
  <2>1. D = StoreData(store, prefix) \cup B
    BY TopicElsewhere
  <2>2. \A c \in B : c[2] # WirePath(prefix, k)
    BY <1>1, PathsElsewhere
  <2> HIDE DEF B, D, prefix, store
  <2>3. /\ StoreData(store, prefix) \subseteq D
        /\ \A c \in D \ StoreData(store, prefix) : c[2] # WirePath(prefix, k)
    BY <2>1, <2>2
  <2>4. ReplicaGet(r, WirePath(prefix, k)) = Get(store, k)
    BY <1>2, <2>3, HeldIsRead
  <2> QED BY <2>4 DEF prefix, store
<1> QED BY <1>3, <1>4, <1>5 DEF r

(* While no subscribed topic changes its position, every handle shows the  *)
(* payload of its own topic, and the client's own keys those of its        *)
(* session, once what is on its way has arrived: after any subscriptions,  *)
(* removals and their resyncs, type changes and reconnections.             *)
THEOREM TopicsAreScoped == TopicSpec => []TopicsScoped
<1>1. TopicSpec => []ScopeParts
  BY ScopeInit, ScopeStep, PTL DEF TopicSpec
<1> QED BY <1>1, PartsScope, PTL
=============================================================================
