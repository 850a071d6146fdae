--------------------------- MODULE ReplicaProofs ----------------------------
(***************************************************************************)
(* What the replay of frames on a replica computes, for every sequence of  *)
(* frames: one frame after the other, and one sequence after another.      *)
(***************************************************************************)
EXTENDS Replica, ProtocolProofs

(* The bound value of The.                                                 *)
LEMMA TheOne == ASSUME NEW x PROVE The({x}) = x
BY DEF The

(* g[i] is the replay of the first i frames.                               *)
After(r, fs, g, m) ==
    g = [i \in 0 .. m |-> IF i = 0 THEN << r >>
                          ELSE Append(g[i - 1], ReplicaApply(Last(g[i - 1]), fs[i]))]

(* The recursion of Replay has a solution ...                              *)
LEMMA AfterExists ==
    ASSUME NEW r, NEW fs, NEW n \in Nat
    PROVE  \E g : After(r, fs, g, n)
<1> DEFINE S == {m \in Nat : \E g : After(r, fs, g, m)}
<1>1. 0 \in S
  <2> DEFINE g == [i \in 0 .. 0 |-> << r >>]
  <2>1. After(r, fs, g, 0)
    BY DEF After
  <2> HIDE DEF g
  <2> QED BY <2>1
<1>2. ASSUME NEW m \in Nat, m \in S PROVE m + 1 \in S
  <2>1. PICK g : After(r, fs, g, m)
    BY <1>2
  <2> DEFINE h == [i \in 0 .. m + 1 |->
                     IF i <= m THEN g[i]
                     ELSE Append(g[m], ReplicaApply(Last(g[m]), fs[m + 1]))]
  <2>2. \A i \in 0 .. m : g[i] = IF i = 0 THEN << r >>
                                 ELSE Append(g[i - 1], ReplicaApply(Last(g[i - 1]), fs[i]))
    BY <2>1 DEF After
  <2>3. ASSUME NEW i \in 0 .. m + 1
        PROVE  h[i] = IF i = 0 THEN << r >>
                      ELSE Append(h[i - 1], ReplicaApply(Last(h[i - 1]), fs[i]))
    <3>1. CASE i <= m
      <4>1. h[i] = g[i] /\ (i # 0 => h[i - 1] = g[i - 1])
        BY <3>1
      <4> QED BY <2>2, <3>1, <4>1
    <3>2. CASE i = m + 1
      <4>1. h[i] = Append(g[m], ReplicaApply(Last(g[m]), fs[m + 1])) /\ h[i - 1] = g[m]
            /\ i # 0 /\ i = m + 1
        BY <3>2
      <4> HIDE DEF h
      <4> QED BY <4>1
    <3> QED BY <3>1, <3>2
  <2>4. DOMAIN h = 0 .. m + 1 /\ h = [i \in 0 .. m + 1 |-> h[i]]
    OBVIOUS
  <2> HIDE DEF h
  <2>5. After(r, fs, h, m + 1)
    BY <2>3, <2>4 DEF After
  <2> QED BY <2>5
<1> HIDE DEF S
<1>3. Nat \subseteq S
  BY <1>1, <1>2, SetInduction
<1> QED BY <1>3 DEF S

(* ... and Replay is its last value.                                       *)
LEMMA ReplayAfter ==
    ASSUME NEW r, NEW fs, Len(fs) \in Nat
    PROVE  \E g : After(r, fs, g, Len(fs)) /\ Replay(r, fs) = g[Len(fs)]
<1> DEFINE a == CHOOSE g : g = [i \in 0 .. Len(fs) |-> IF i = 0 THEN << r >>
            ELSE The({Append(rs, ReplicaApply(Last(rs), fs[i])) : rs \in {g[i - 1]}})]
<1>1. Replay(r, fs) = a[Len(fs)]
  BY DEF Replay
<1>2. \A g : [i \in 0 .. Len(fs) |-> IF i = 0 THEN << r >>
              ELSE The({Append(rs, ReplicaApply(Last(rs), fs[i])) : rs \in {g[i - 1]}})]
          = [i \in 0 .. Len(fs) |-> IF i = 0 THEN << r >>
              ELSE Append(g[i - 1], ReplicaApply(Last(g[i - 1]), fs[i]))]
  <2> TAKE g
  <2>1. \A i \in 0 .. Len(fs) :
           {Append(rs, ReplicaApply(Last(rs), fs[i])) : rs \in {g[i - 1]}}
             = {Append(g[i - 1], ReplicaApply(Last(g[i - 1]), fs[i]))}
    OBVIOUS
  <2>2. \A i \in 0 .. Len(fs) :
           The({Append(rs, ReplicaApply(Last(rs), fs[i])) : rs \in {g[i - 1]}})
             = Append(g[i - 1], ReplicaApply(Last(g[i - 1]), fs[i]))
    BY <2>1, TheOne
  <2> QED BY <2>2
<1>3. a = CHOOSE g : After(r, fs, g, Len(fs))
  BY <1>2 DEF After
<1>4. \E g : After(r, fs, g, Len(fs))
  BY AfterExists
<1> HIDE DEF a
<1>5. After(r, fs, a, Len(fs))
  BY <1>3, <1>4
<1> QED BY <1>1, <1>5

(* Replicas of R stay in R under frames of F.                              *)
Closed(R, F) == \A x \in R, f \in F : ReplicaApply(x, f) \in R

(* rs is r and what it becomes with each of the frames fs.                 *)
IsTrace(rs, r, fs) ==
    /\ Len(rs) = Len(fs) + 1 /\ rs[1] = r
    /\ \A i \in 1 .. Len(fs) : rs[i + 1] = ReplicaApply(rs[i], fs[i])

(* Replay applies the frames one by one.                                   *)
LEMMA ReplayTrace ==
    ASSUME NEW R, NEW F, NEW r \in R, NEW fs \in Seq(F),
           Closed(R, F)
    PROVE  Replay(r, fs) \in Seq(R) /\ IsTrace(Replay(r, fs), r, fs)
<1> DEFINE n == Len(fs)
<1>0. n \in Nat /\ \A i \in 1 .. n : fs[i] \in F
  BY LenProperties, ElementOfSeq
<1>1. PICK g : After(r, fs, g, n) /\ Replay(r, fs) = g[n]
  BY <1>0, ReplayAfter
<1>2. \A i \in 0 .. n : g[i] = IF i = 0 THEN << r >>
                                ELSE Append(g[i - 1], ReplicaApply(Last(g[i - 1]), fs[i]))
  BY <1>1 DEF After
<1> DEFINE Trace(rs, m) ==
             /\ rs \in Seq(R) /\ Len(rs) = m + 1 /\ rs[1] = r
             /\ \A i \in 1 .. m : rs[i + 1] = ReplicaApply(rs[i], fs[i])
           S == {m \in Nat : m <= n => Trace(g[m], m)}
<1>3. 0 \in S
  <2>1. g[0] = << r >>
    BY <1>0, <1>2
  <2>2. << r >> \in Seq(R) /\ Len(<< r >>) = 0 + 1 /\ << r >>[1] = r
    OBVIOUS
  <2>3. Trace(<< r >>, 0)
    BY <2>2
  <2> HIDE DEF Trace
  <2> QED BY <2>1, <2>3
<1>4. ASSUME NEW m \in Nat, m \in S PROVE m + 1 \in S
  <2> SUFFICES ASSUME m + 1 <= n PROVE Trace(g[m + 1], m + 1)
    OBVIOUS
  <2>1. Trace(g[m], m)
    BY <1>0, <1>4
  <2> DEFINE y == ReplicaApply(Last(g[m]), fs[m + 1])
  <2>2. g[m + 1] = Append(g[m], y)
    <3>1. m + 1 \in 0 .. n /\ m + 1 # 0 /\ (m + 1) - 1 = m
      BY <1>0
    <3> QED BY <1>2, <3>1
  <2>3. Last(g[m]) = g[m][m + 1] /\ g[m][m + 1] \in R /\ m + 1 \in 1 .. n
    BY <1>0, <2>1, ElementOfSeq DEF Last
  <2>4. y \in R /\ y = ReplicaApply(g[m][m + 1], fs[m + 1])
    BY <1>0, <2>3 DEF Closed
  <2> HIDE DEF y
  <2>5. /\ Append(g[m], y) \in Seq(R) /\ Len(Append(g[m], y)) = m + 2
        /\ \A i \in 1 .. m + 1 : Append(g[m], y)[i] = g[m][i]
        /\ Append(g[m], y)[m + 2] = y
    BY <2>1, <2>4, AppendProperties
  <2>6. ASSUME NEW i \in 1 .. m + 1
        PROVE  g[m + 1][i + 1] = ReplicaApply(g[m + 1][i], fs[i])
    <3>1. CASE i <= m
      BY <2>1, <2>2, <2>5, <3>1
    <3>2. CASE i = m + 1
      BY <2>2, <2>4, <2>5, <3>2
    <3> QED BY <3>1, <3>2
  <2> QED BY <2>1, <2>2, <2>5, <2>6
<1> HIDE DEF S
<1>5. Nat \subseteq S
  BY <1>3, <1>4, SetInduction
<1>6. Trace(g[n], n)
  BY <1>0, <1>5 DEF S
<1> QED BY <1>1, <1>6 DEF IsTrace

(* ... and is the only sequence that does.                                 *)
LEMMA ReplayUnique ==
    ASSUME NEW R, NEW F, NEW r \in R, NEW fs \in Seq(F),
           Closed(R, F),
           NEW rs \in Seq(R), IsTrace(rs, r, fs)
    PROVE  Replay(r, fs) = rs
<1> DEFINE p == Replay(r, fs)
<1>0. Len(fs) \in Nat
  BY LenProperties
<1>1. /\ p \in Seq(R) /\ Len(p) = Len(fs) + 1 /\ p[1] = r
      /\ \A i \in 1 .. Len(fs) : p[i + 1] = ReplicaApply(p[i], fs[i])
      /\ Len(rs) = Len(fs) + 1 /\ rs[1] = r
      /\ \A i \in 1 .. Len(fs) : rs[i + 1] = ReplicaApply(rs[i], fs[i])
  <2>1. p \in Seq(R) /\ IsTrace(p, r, fs)
    BY ReplayTrace
  <2> HIDE DEF p
  <2> QED BY <2>1 DEF IsTrace
<1> HIDE DEF p
<1> DEFINE S == {m \in Nat : m <= Len(fs) => p[m + 1] = rs[m + 1]}
<1>2. 0 \in S
  BY <1>1
<1>3. ASSUME NEW m \in Nat, m \in S PROVE m + 1 \in S
  <2> SUFFICES ASSUME m + 1 <= Len(fs) PROVE p[m + 2] = rs[m + 2]
    OBVIOUS
  <2>1. p[m + 1] = rs[m + 1] /\ m + 1 \in 1 .. Len(fs)
    BY <1>0, <1>3
  <2> QED BY <1>1, <2>1
<1> HIDE DEF S
<1>4. Nat \subseteq S
  BY <1>2, <1>3, SetInduction
<1>5. \A i \in 1 .. Len(p) : p[i] = rs[i]
  <2> TAKE i \in 1 .. Len(p)
  <2>1. i - 1 \in Nat /\ i - 1 <= Len(fs) /\ (i - 1) + 1 = i
    BY <1>0, <1>1
  <2> QED BY <1>4, <2>1 DEF S
<1> QED BY <1>1, <1>5, SeqEqual DEF p

(* No frames, one frame more, ...                                          *)
LEMMA ReplayNone ==
    ASSUME NEW R, NEW F, NEW r \in R,
           Closed(R, F)
    PROVE  Last(Replay(r, << >>)) = r
<1>1. << >> \in Seq(F) /\ Len(<< >>) = 0
  OBVIOUS
<1>2. IsTrace(Replay(r, << >>), r, << >>)
  BY <1>1, ReplayTrace
<1>3. Len(Replay(r, << >>)) = 1 /\ Replay(r, << >>)[1] = r
  BY <1>1, <1>2 DEF IsTrace
<1> QED BY <1>3 DEF Last

(* Frames that follow others are replayed on what those leave.             *)
LEMMA ReplayConcat ==
    ASSUME NEW R, NEW F, NEW r \in R, NEW fs \in Seq(F), NEW gs \in Seq(F),
           Closed(R, F)
    PROVE  LET mid == Last(Replay(r, fs)) IN
           /\ mid \in R
           /\ \A i \in 1 .. Len(fs) + 1 : Replay(r, fs \o gs)[i] = Replay(r, fs)[i]
           /\ \A i \in 1 .. Len(gs) + 1 :
                 Replay(r, fs \o gs)[Len(fs) + i] = Replay(mid, gs)[i]
           /\ Last(Replay(r, fs \o gs)) = Last(Replay(mid, gs))
<1> DEFINE all == Replay(r, fs \o gs)
           mid == Last(Replay(r, fs))
           m == Len(fs)
           n == Len(gs)
           a == [i \in 1 .. m + 1 |-> all[i]]
           b == [i \in 1 .. n + 1 |-> all[m + i]]
<1>0. /\ fs \o gs \in Seq(F) /\ Len(fs \o gs) = m + n /\ m \in Nat /\ n \in Nat
      /\ \A i \in 1 .. m : (fs \o gs)[i] = fs[i]
      /\ \A i \in 1 .. n : (fs \o gs)[m + i] = gs[i]
  <2>1. /\ fs \o gs \in Seq(F) /\ Len(fs \o gs) = m + n /\ m \in Nat /\ n \in Nat
        /\ \A i \in 1 .. m + n : (fs \o gs)[i] = IF i <= m THEN fs[i] ELSE gs[i - m]
    BY ConcatProperties, LenProperties
  <2>2. ASSUME NEW i \in 1 .. n PROVE (fs \o gs)[m + i] = gs[i]
    <3>1. m + i \in 1 .. m + n /\ ~(m + i <= m) /\ (m + i) - m = i
      BY <2>1
    <3> QED BY <2>1, <3>1
  <2>3. ASSUME NEW i \in 1 .. m PROVE (fs \o gs)[i] = fs[i]
    BY <2>1
  <2> QED BY <2>1, <2>2, <2>3
<1>1. /\ all \in Seq(R) /\ Len(all) = m + n + 1 /\ all[1] = r
      /\ \A i \in 1 .. m + n : all[i + 1] = ReplicaApply(all[i], (fs \o gs)[i])
  <2>1. all \in Seq(R) /\ IsTrace(all, r, fs \o gs)
    BY <1>0, ReplayTrace
  <2> QED BY <1>0, <2>1 DEF IsTrace
<1>2. \A i \in 1 .. m + n + 1 : all[i] \in R
  BY <1>1, ElementOfSeq
<1> HIDE DEF all, m, n
<1>3. a \in Seq(R) /\ Len(a) = m + 1 /\ a[1] = r
      /\ \A i \in 1 .. m : a[i + 1] = ReplicaApply(a[i], fs[i])
  <2>1. a \in Seq(R) /\ Len(a) = m + 1
    BY <1>0, <1>2
  <2>2. a[1] = r
    BY <1>0, <1>1
  <2>3. ASSUME NEW i \in 1 .. m PROVE a[i + 1] = ReplicaApply(a[i], fs[i])
    <3>1. i \in 1 .. m + n /\ i \in 1 .. m + 1 /\ i + 1 \in 1 .. m + 1
      BY <1>0
    <3>2. all[i + 1] = ReplicaApply(all[i], fs[i])
      BY <1>0, <1>1, <3>1
    <3> QED BY <3>1, <3>2
  <2> QED BY <2>1, <2>2, <2>3
<1>4. Replay(r, fs) = a
  <2>1. IsTrace(a, r, fs)
    BY <1>3 DEF IsTrace, m
  <2> HIDE DEF a
  <2> QED BY <1>3, <2>1, ReplayUnique
<1>5. mid = all[m + 1] /\ mid \in R
  BY <1>0, <1>2, <1>3, <1>4 DEF Last
<1> HIDE DEF mid
<1>6. b \in Seq(R) /\ Len(b) = n + 1 /\ b[1] = mid
      /\ \A i \in 1 .. n : b[i + 1] = ReplicaApply(b[i], gs[i])
  <2>1. b \in Seq(R) /\ Len(b) = n + 1
    BY <1>0, <1>2
  <2>2. b[1] = mid
    BY <1>0, <1>5
  <2>3. ASSUME NEW i \in 1 .. n PROVE b[i + 1] = ReplicaApply(b[i], gs[i])
    <3>1. m + i \in 1 .. m + n /\ m + (i + 1) = (m + i) + 1
      BY <1>0
    <3>2. all[m + (i + 1)] = ReplicaApply(all[m + i], gs[i])
      BY <1>0, <1>1, <3>1
    <3> QED BY <1>0, <3>2
  <2> QED BY <2>1, <2>2, <2>3
<1>7. Replay(mid, gs) = b
  <2>1. IsTrace(b, mid, gs)
    BY <1>6 DEF IsTrace, n
  <2> HIDE DEF b
  <2> QED BY <1>5, <1>6, <2>1, ReplayUnique
<1>8. Last(all) = b[n + 1] /\ Last(b) = b[n + 1]
  BY <1>0, <1>1, <1>6 DEF Last
<1>9. /\ \A i \in 1 .. m + 1 : all[i] = a[i]
      /\ \A i \in 1 .. n + 1 : all[m + i] = b[i]
  BY <1>0
<1> HIDE DEF a, b
<1> QED BY <1>4, <1>5, <1>7, <1>8, <1>9 DEF all, mid, m, n

(* The first frame is handled: what is left is replayed on its effect.     *)
LEMMA ReplayFirst ==
    ASSUME NEW R, NEW F, NEW r \in R, NEW fs \in Seq(F), fs # << >>,
           Closed(R, F)
    PROVE  LET next == ReplicaApply(r, Head(fs)) IN
           /\ next \in R
           /\ \A i \in 1 .. Len(fs) : Replay(next, Tail(fs))[i] = Replay(r, fs)[i + 1]
           /\ Last(Replay(next, Tail(fs))) = Last(Replay(r, fs))
<1> DEFINE all == Replay(r, fs)
           next == ReplicaApply(r, Head(fs))
           m == Len(fs)
           b == [i \in 1 .. m |-> all[i + 1]]
<1>0. /\ Tail(fs) \in Seq(F) /\ Len(Tail(fs)) = m - 1 /\ m \in Nat \ {0}
      /\ Head(fs) = fs[1] /\ Head(fs) \in F
      /\ \A i \in 1 .. m - 1 : Tail(fs)[i] = fs[i + 1]
  BY HeadTailProperties, EmptySeq, LenProperties
<1>1. /\ all \in Seq(R) /\ Len(all) = m + 1 /\ all[1] = r
      /\ \A i \in 1 .. m : all[i + 1] = ReplicaApply(all[i], fs[i])
  BY ReplayTrace DEF IsTrace
<1>2. \A i \in 1 .. m + 1 : all[i] \in R
  BY <1>1, ElementOfSeq
<1>3. next \in R /\ all[2] = next
  BY <1>0, <1>1 DEF Closed
<1> HIDE DEF all, next, m
<1>4. b \in Seq(R) /\ Len(b) = (m - 1) + 1 /\ b[1] = next
      /\ \A i \in 1 .. m - 1 : b[i + 1] = ReplicaApply(b[i], Tail(fs)[i])
  <2>1. b \in Seq(R) /\ Len(b) = (m - 1) + 1
    BY <1>0, <1>2
  <2>2. b[1] = next
    BY <1>0, <1>3
  <2>3. ASSUME NEW i \in 1 .. m - 1 PROVE b[i + 1] = ReplicaApply(b[i], Tail(fs)[i])
    <3>1. i \in 1 .. m /\ i + 1 \in 1 .. m
      BY <1>0
    <3>2. all[(i + 1) + 1] = ReplicaApply(all[i + 1], fs[i + 1])
      BY <1>1, <3>1
    <3> QED BY <1>0, <3>1, <3>2
  <2> QED BY <2>1, <2>2, <2>3
<1>5. Replay(next, Tail(fs)) = b
  <2> HIDE DEF b
  <2>1. IsTrace(b, next, Tail(fs))
    BY <1>0, <1>4 DEF IsTrace
  <2> QED BY <1>0, <1>3, <1>4, <2>1, ReplayUnique
<1>6. Last(b) = b[m] /\ Last(all) = all[m + 1] /\ b[m] = all[m + 1]
  BY <1>0, <1>1, <1>4 DEF Last
<1>7. \A i \in 1 .. m : b[i] = all[i + 1]
  OBVIOUS
<1> HIDE DEF b
<1> QED BY <1>3, <1>5, <1>6, <1>7 DEF all, next, m

(* The replica once the frames are handled.                                *)
End(r, fs) == Last(Replay(r, fs))

-----------------------------------------------------------------------------
(* The order in which a store is walked has every key once.                *)
LEMMA OrderOfSet ==
    ASSUME NEW S, IsFiniteSet(S), NEW order \in SetToSeqs(S)
    PROVE  /\ order \in Seq(S)
           /\ \A k \in S : \E i \in 1 .. Len(order) : order[i] = k
           /\ \A i, j \in 1 .. Len(order) : i # j => order[i] # order[j]
<1> DEFINE n == Cardinality(S)
<1>1. order \in [1 .. n -> S] /\ \A i, j \in 1 .. n : i # j => order[i] # order[j]
  BY DEF SetToSeqs
<1>2. n \in Nat
  BY FS_CardinalityType
<1>3. order \in Injection(1 .. n, S)
  BY <1>1 DEF Injection, IsInjective
<1>4. Cardinality(1 .. n) = n
  <2>1. n \in Int /\ 1 \in Int
    BY <1>2
  <2> QED BY <1>2, <2>1, FS_Interval
<1>5. order \in Surjection(1 .. n, S)
  BY <1>2, <1>3, <1>4, FS_Injection
<1>6. \A k \in S : \E i \in 1 .. n : order[i] = k
  BY <1>5 DEF Surjection
<1> HIDE DEF n
<1>7. order \in Seq(S) /\ Len(order) = n
  BY <1>1, <1>2
<1> QED BY <1>1, <1>6, <1>7
=============================================================================
