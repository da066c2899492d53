---------------------------- MODULE DataLemmas -----------------------------
(***************************************************************************)
(* What the proofs about several components need to know of naturals, sets *)
(* and sequences.  Induction and recursion are stated with sets and        *)
(* functions in place of operators, so that they can be cited.             *)
(***************************************************************************)
EXTENDS Subsequences, SequencesExt, SequenceTheorems, FunctionTheorems,
        FiniteSetTheorems, WellFoundedInduction, TLAPS

-----------------------------------------------------------------------------
(* Naturals.                                                               *)

\* Every set of naturals that is not empty has a least member.
LEMMA Least ==
    ASSUME NEW T \in SUBSET Nat, T # {}
    PROVE  \E n \in T : \A m \in T : n <= m
<1>1. IsWellFoundedOn(OpToRel(<,Nat), Nat)
    BY NatLessThanWellFounded
<1>2. PICK x \in T : \A y \in T : ~ (<<y, x>> \in OpToRel(<,Nat))
    BY <1>1, WFMin
<1>3. \A y \in T : y < x => <<y, x>> \in OpToRel(<,Nat)
    BY DEF OpToRel
<1>4. x \in Nat /\ \A y \in T : y \in Nat
    OBVIOUS
<1>5. \A y \in T : ~(y < x)
    <2> TAKE y \in T
    <2>1. ~(<<y, x>> \in OpToRel(<,Nat))
        BY <1>2
    <2> QED BY <1>3, <2>1
<1> QED BY <1>4, <1>5

\* A set that holds zero, and with a natural the next one, holds them all.
LEMMA Induction ==
    ASSUME NEW S \in SUBSET Nat, 0 \in S, \A n \in S : n + 1 \in S
    PROVE  S = Nat
<1> SUFFICES ASSUME Nat \ S # {} PROVE FALSE
    OBVIOUS
<1>1. PICK n \in Nat \ S : \A m \in Nat \ S : n <= m
    <2> DEFINE T == Nat \ S
    <2>1. T \in SUBSET Nat /\ T # {}
        OBVIOUS
    <2> HIDE DEF T
    <2>2. \E n \in T : \A m \in T : n <= m
        BY <2>1, Least
    <2> QED BY <2>2 DEF T
<1>2. n - 1 \in Nat /\ ~(n <= n - 1)
    OBVIOUS
<1>3. n - 1 \in S
    BY <1>1, <1>2
<1>4. (n - 1) + 1 = n
    OBVIOUS
<1> QED BY <1>3, <1>4

\* A function that begins with c and goes on step by step.
Follows(g, c, step) ==
    g[0] = c /\ \A n \in Nat : g[n + 1] = step[<<n, g[n]>>]

\* A function of the naturals may be defined by its first value and by the
\* step from one value to the next.
LEMMA Recursion ==
    ASSUME NEW T, NEW c \in T, NEW step \in [Nat \X T -> T]
    PROVE  \E g \in [Nat -> T] : Follows(g, c, step)
<1> SUFFICES \E g \in [Nat -> T] :
                g[0] = c /\ \A n \in Nat : g[n + 1] = step[<<n, g[n]>>]
    BY DEF Follows
<1> DEFINE Begun(n, h) ==
        /\ h \in [0 .. n -> T]
        /\ h[0] = c
        /\ \A i \in 0 .. n - 1 : h[i + 1] = step[<<i, h[i]>>]
<1>1. ASSUME NEW m \in Nat, NEW n \in Nat, NEW g, NEW h,
             Begun(m, g), Begun(n, h), m <= n
      PROVE  g[m] = h[m]
    <2> DEFINE S == {i \in Nat : i <= m => g[i] = h[i]}
    <2>1. 0 \in S
        BY <1>1
    <2>2. ASSUME NEW i \in S PROVE i + 1 \in S
        <3> SUFFICES ASSUME i + 1 <= m PROVE g[i + 1] = h[i + 1]
            OBVIOUS
        <3>1. i \in 0 .. m - 1 /\ i \in 0 .. n - 1
            BY <1>1
        <3>2. g[i + 1] = step[<<i, g[i]>>] /\ h[i + 1] = step[<<i, h[i]>>]
            BY <1>1, <3>1
        <3>3. g[i] = h[i]
            BY <2>2, <3>1
        <3> QED BY <3>2, <3>3
    <2>3. S \in SUBSET Nat
        OBVIOUS
    <2> HIDE DEF S
    <2>4. S = Nat
        BY <2>1, <2>2, <2>3, Induction
    <2>5. m \in S
        BY <2>4
    <2> QED BY <2>5 DEF S
<1>2. ASSUME NEW n \in Nat, NEW h, Begun(n, h)
      PROVE  \E g : Begun(n + 1, g)
    <2> DEFINE g == [i \in 0 .. n + 1 |-> IF i <= n THEN h[i]
                                         ELSE step[<<n, h[n]>>]]
    <2>1. h[n] \in T /\ step[<<n, h[n]>>] \in T
        BY <1>2
    <2>2. g \in [0 .. n + 1 -> T]
        BY <1>2, <2>1
    <2>3. g[0] = c
        BY <1>2
    <2>4. ASSUME NEW i \in 0 .. (n + 1) - 1 PROVE g[i + 1] = step[<<i, g[i]>>]
        <3>1. i \in 0 .. n + 1 /\ i + 1 \in 0 .. n + 1 /\ i <= n
            OBVIOUS
        <3>2. g[i] = h[i]
            BY <3>1
        <3>3. CASE i + 1 <= n
            <4>1. i \in 0 .. n - 1 /\ g[i + 1] = h[i + 1]
                BY <3>1, <3>3
            <4> HIDE DEF g
            <4> QED BY <1>2, <3>2, <4>1
        <3>4. CASE ~(i + 1 <= n)
            <4>1. i = n
                BY <3>1, <3>4
            <4>2. g[i + 1] = step[<<n, h[n]>>]
                BY <3>1, <3>4
            <4> QED BY <3>2, <4>1, <4>2
        <3> QED BY <3>3, <3>4
    <2> HIDE DEF g
    <2>5. Begun(n + 1, g)
        BY <2>2, <2>3, <2>4
    <2> QED BY <2>5
<1>3. \A n \in Nat : \E h : Begun(n, h)
    <2> DEFINE S == {n \in Nat : \E h : Begun(n, h)}
    <2>1. 0 \in S
        <3>1. Begun(0, [i \in 0 .. 0 |-> c])
            OBVIOUS
        <3> HIDE DEF Begun
        <3> QED BY <3>1
    <2>2. ASSUME NEW n \in S PROVE n + 1 \in S
        <3> HIDE DEF Begun
        <3> QED BY <1>2
    <2>3. S \in SUBSET Nat
        OBVIOUS
    <2> HIDE DEF S
    <2>4. S = Nat
        BY <2>1, <2>2, <2>3, Induction
    <2> QED BY <2>4 DEF S
<1> DEFINE H(n) == CHOOSE h : Begun(n, h)
           g == [n \in Nat |-> H(n)[n]]
<1>4. \A n \in Nat : Begun(n, H(n))
    <2> HIDE DEF Begun
    <2> QED BY <1>3
<1>5. \A n \in Nat : g[n] = H(n)[n]
    OBVIOUS
<1> HIDE DEF H
<1>6. g \in [Nat -> T]
    BY <1>4
<1>7. g[0] = c
    BY <1>4
<1>8. ASSUME NEW n \in Nat PROVE g[n + 1] = step[<<n, g[n]>>]
    <2>1. Begun(n, H(n)) /\ Begun(n + 1, H(n + 1))
        BY <1>4
    <2>2. H(n)[n] = H(n + 1)[n]
        <3> HIDE DEF Begun
        <3> QED BY <1>1, <2>1
    <2>3. H(n + 1)[n + 1] = step[<<n, H(n + 1)[n]>>]
        <3>1. n \in 0 .. (n + 1) - 1
            OBVIOUS
        <3> QED BY <2>1, <3>1
    <2>4. g[n + 1] = H(n + 1)[n + 1] /\ g[n] = H(n)[n]
        BY <1>5
    <2> QED BY <2>2, <2>3, <2>4
<1> HIDE DEF g
<1> QED BY <1>6, <1>7, <1>8

-----------------------------------------------------------------------------
(* Some elements of a sequence in their order.                             *)

\* The ranks of the positions that are kept are 1, 2, ... in their order.
LEMMA Ranks ==
    ASSUME NEW n \in Nat, NEW keep \in SUBSET (1 .. n)
    PROVE  /\ Cardinality(keep) \in Nat /\ Cardinality(keep) <= n
           /\ Cardinality(keep) = n => keep = 1 .. n
           /\ \A i \in keep : Rank(keep, i) \in 1 .. Cardinality(keep)
           /\ \A i, j \in keep : i < j => Rank(keep, i) < Rank(keep, j)
           /\ \A k \in 1 .. Cardinality(keep) :
                 \E i \in keep : Rank(keep, i) = k
<1>1. IsFiniteSet(1 .. n) /\ Cardinality(1 .. n) = n
  BY FS_Interval
<1>2. /\ IsFiniteSet(keep) /\ Cardinality(keep) <= n
      /\ Cardinality(keep) = n => keep = 1 .. n
  BY <1>1, FS_Subset
<1>3. Cardinality(keep) \in Nat
  BY <1>2, FS_CardinalityType
<1>4. ASSUME NEW i \in keep
      PROVE  Rank(keep, i) \in 1 .. Cardinality(keep)
  <2> DEFINE T == {j \in keep : j <= i}
  <2>1. IsFiniteSet(T) /\ Cardinality(T) <= Cardinality(keep)
    BY <1>2, FS_Subset
  <2>2. i \in T
    OBVIOUS
  <2>3. T # {}
    BY <2>2
  <2>4. Cardinality(T) \in Nat /\ Cardinality(T) # 0
    <3> HIDE DEF T
    <3> QED
      BY <2>1, <2>3, FS_CardinalityType, FS_EmptySet
  <2>5. Rank(keep, i) = Cardinality(T)
    BY DEF Rank
  <2> HIDE DEF T
  <2> QED
    BY <1>3, <2>1, <2>4, <2>5
<1>5. ASSUME NEW i \in keep, NEW j \in keep, i < j
      PROVE  Rank(keep, i) < Rank(keep, j)
  <2> DEFINE A == {x \in keep : x <= i}
             B == {x \in keep : x <= j}
  <2>1. A \in SUBSET B /\ A # B
    <3>1. j \in B /\ j \notin A
      BY <1>5
    <3>2. \A x \in keep : x \in Nat
      OBVIOUS
    <3>3. ASSUME NEW x \in keep, x <= i
          PROVE  x <= j
      BY <1>5, <3>2, <3>3
    <3>4. A \subseteq B
      BY <3>3
    <3> QED
      BY <3>1, <3>4
  <2>2. IsFiniteSet(B)
    BY <1>2, FS_Subset
  <2>3. Rank(keep, i) = Cardinality(A) /\ Rank(keep, j) = Cardinality(B)
    BY DEF Rank
  <2>4. Rank(keep, i) \in Nat /\ Rank(keep, j) \in Nat
    BY <1>3, <1>4
  <2> HIDE DEF A, B
  <2>5. Cardinality(A) <= Cardinality(B) /\ Cardinality(A) # Cardinality(B)
    BY <2>1, <2>2, FS_Subset
  <2> QED
    BY <2>3, <2>4, <2>5
<1>6. ASSUME NEW k \in 1 .. Cardinality(keep)
      PROVE  \E i \in keep : Rank(keep, i) = k
  <2> DEFINE D == 1 .. Cardinality(keep)
             f == [i \in keep |-> Rank(keep, i)]
  <2>1. f \in [keep -> D]
    BY <1>4
  <2>2. \A i, j \in keep : f[i] = f[j] => i = j
    <3>1. ASSUME NEW i \in keep, NEW j \in keep, Rank(keep, i) = Rank(keep, j)
          PROVE  i = j
      <4>1. i \in Nat /\ j \in Nat /\ Rank(keep, i) \in Nat
        BY <1>3, <1>4
      <4>2. ~(i < j) /\ ~(j < i)
        BY <1>5, <3>1, <4>1
      <4> QED
        BY <4>1, <4>2
    <3> QED
      BY <3>1
  <2>3. IsFiniteSet(D) /\ Cardinality(D) = Cardinality(keep)
    BY <1>3, FS_Interval
  <2>4. \A i \in keep : f[i] = Rank(keep, i)
    OBVIOUS
  <2>5. k \in D
    OBVIOUS
  <2> HIDE DEF D, f
  <2>6. f \in Injection(keep, D)
    BY <2>1, <2>2, Fun_IsInj
  <2>7. f \in Surjection(keep, D)
    BY <2>3, <2>6, FS_Injection
  <2> QED
    BY <2>4, <2>5, <2>7 DEF Surjection
<1> QED
  BY <1>2, <1>3, <1>4, <1>5, <1>6

\* What is picked is what stands at the positions that are kept, in order.
LEMMA PickedInOrder ==
    ASSUME NEW S, NEW s \in Seq(S), NEW keep \in SUBSET (1 .. Len(s))
    PROVE  LET p == Picked(s, keep) IN
           /\ p \in Seq(S) /\ Len(p) = Cardinality(keep)
           /\ Len(p) \in Nat /\ DOMAIN p = 1 .. Len(p) /\ Len(p) <= Len(s)
           /\ Len(p) = Len(s) => keep = 1 .. Len(s)
           /\ \A k \in DOMAIN p : \E i \in keep : p[k] = s[i]
           /\ \A i \in keep : \E k \in DOMAIN p : p[k] = s[i]
           /\ \A k, l \in DOMAIN p :
                 k < l => \E i, j \in keep : i < j /\ p[k] = s[i] /\ p[l] = s[j]
<1> DEFINE n == Cardinality(keep)
           at == [k \in 1 .. n |-> CHOOSE i \in keep : Rank(keep, i) = k]
           p == Picked(s, keep)
<1>0. /\ Len(s) \in Nat /\ \A i \in 1 .. Len(s) : s[i] \in S
  BY LenProperties, ElementOfSeq
<1>1. /\ n \in Nat /\ n <= Len(s) /\ (n = Len(s) => keep = 1 .. Len(s))
      /\ \A i \in keep : Rank(keep, i) \in 1 .. n
      /\ \A i, j \in keep : i < j => Rank(keep, i) < Rank(keep, j)
      /\ \A k \in 1 .. n : \E i \in keep : Rank(keep, i) = k
  <2> DEFINE m == Len(s)
  <2>1. m \in Nat /\ keep \in SUBSET (1 .. m)
    BY <1>0
  <2> HIDE DEF m, at, p
  <2>2. /\ Cardinality(keep) \in Nat /\ Cardinality(keep) <= m
        /\ Cardinality(keep) = m => keep = 1 .. m
        /\ \A i \in keep : Rank(keep, i) \in 1 .. Cardinality(keep)
        /\ \A i, j \in keep : i < j => Rank(keep, i) < Rank(keep, j)
        /\ \A k \in 1 .. Cardinality(keep) :
              \E i \in keep : Rank(keep, i) = k
    BY <2>1, Ranks
  <2> QED  BY <2>2, Zenon DEF m
<1>2. \A k \in 1 .. n : at[k] \in keep /\ Rank(keep, at[k]) = k
  BY <1>1
<1>3. p = [k \in 1 .. n |-> s[at[k]]]
  BY DEF Picked
<1> HIDE DEF p
<1>4. \A k \in 1 .. n : p[k] = s[at[k]]
  BY <1>3
<1>5. DOMAIN p = 1 .. n
  BY <1>3
<1>6. p \in [1 .. n -> S]
  <2>1. ASSUME NEW k \in 1 .. n
        PROVE  s[at[k]] \in S
    BY <1>0, <1>2
  <2> HIDE DEF at
  <2> QED
    BY <1>3, <2>1
<1> HIDE DEF n, at
<1>7. p \in Seq(S) /\ Len(p) = n
  BY <1>1, <1>5, <1>6
<1>8. ASSUME NEW i \in keep, NEW j \in keep, Rank(keep, i) = Rank(keep, j)
      PROVE  i = j
  <2>1. i \in Nat /\ j \in Nat /\ Rank(keep, i) \in Nat
    BY <1>1
  <2>2. ~(i < j) /\ ~(j < i)
    BY <1>1, <1>8, <2>1
  <2> QED
    BY <2>1, <2>2
<1>9. ASSUME NEW i \in keep
      PROVE  \E k \in 1 .. n : p[k] = s[i]
  <2>1. Rank(keep, i) \in 1 .. n
    BY <1>1
  <2>2. at[Rank(keep, i)] = i
    BY <1>2, <1>8, <2>1
  <2> QED
    BY <1>4, <2>1, <2>2
<1>10. ASSUME NEW k \in 1 .. n, NEW l \in 1 .. n, k < l
       PROVE  at[k] < at[l]
  <2>1. /\ at[k] \in keep /\ at[l] \in keep
        /\ Rank(keep, at[k]) = k /\ Rank(keep, at[l]) = l
    BY <1>2
  <2>2. \A i, j \in keep : i \in Nat /\ j \in Nat
    OBVIOUS
  <2>3. ASSUME NEW i \in keep, NEW j \in keep,
               Rank(keep, i) = k, Rank(keep, j) = l
        PROVE  i < j
    <3>1. i # j
      BY <1>10, <2>3
    <3>2. ~(j < i)
      BY <1>1, <1>10, <2>3
    <3> QED
      BY <2>2, <3>1, <3>2
  <2> QED
    BY <2>1, <2>3
<1>11. \A k \in 1 .. n : \E i \in keep : p[k] = s[i]
  BY <1>2, <1>4
<1>12. \A k, l \in 1 .. n :
          k < l => \E i, j \in keep : i < j /\ p[k] = s[i] /\ p[l] = s[j]
  BY <1>2, <1>4, <1>10
<1>13. n = Cardinality(keep)
  BY DEF n
<1>14. /\ p \in Seq(S) /\ Len(p) = n
       /\ Len(p) \in Nat /\ DOMAIN p = 1 .. Len(p) /\ Len(p) <= Len(s)
       /\ Len(p) = Len(s) => keep = 1 .. Len(s)
  BY <1>1, <1>5, <1>7
<1>15. \A k \in DOMAIN p : \E i \in keep : p[k] = s[i]
  BY <1>5, <1>11
<1>16. \A i \in keep : \E k \in DOMAIN p : p[k] = s[i]
  BY <1>5, <1>9
<1>17. \A k, l \in DOMAIN p :
          k < l => \E i, j \in keep : i < j /\ p[k] = s[i] /\ p[l] = s[j]
  BY <1>5, <1>12
<1>18. Len(p) = Cardinality(keep)
  BY <1>13, <1>14
<1> QED
  BY <1>14, <1>15, <1>16, <1>17, <1>18, Zenon DEF p

-----------------------------------------------------------------------------
(* Sequences that are put together of sequences.                           *)

\* What FlattenSeq returns, as the last of what it is after each sequence.
LEMMA Flattened ==
    ASSUME NEW S, NEW ss \in Seq(Seq(S))
    PROVE  \E g \in [0 .. Len(ss) -> Seq(S)] :
              /\ g[0] = <<>>
              /\ \A n \in 1 .. Len(ss) : g[n] = g[n - 1] \o ss[n]
              /\ FlattenSeq(ss) = g[Len(ss)]
<1> DEFINE N == Len(ss)
           Turn(f, i) == IF i = 1 THEN ss[i] ELSE f[i - 1] \o ss[i]
           step == [p \in Nat \X Seq(S) |->
                       IF p[1] + 1 \in 1 .. N THEN p[2] \o ss[p[1] + 1]
                                              ELSE p[2]]
<1>1. N \in Nat /\ \A i \in 1 .. N : ss[i] \in Seq(S)
    BY LenProperties, ElementOfSeq
<1>2. <<>> \in Seq(S)
    OBVIOUS
<1>3. step \in [Nat \X Seq(S) -> Seq(S)]
    <2>1. ASSUME NEW p \in Nat \X Seq(S)
          PROVE  (IF p[1] + 1 \in 1 .. N THEN p[2] \o ss[p[1] + 1] ELSE p[2])
                    \in Seq(S)
        <3>1. p[2] \in Seq(S)
            OBVIOUS
        <3>2. ASSUME p[1] + 1 \in 1 .. N PROVE p[2] \o ss[p[1] + 1] \in Seq(S)
            BY <1>1, <3>1, <3>2
        <3> QED BY <3>1, <3>2
    <2> HIDE DEF N
    <2> QED BY <2>1
<1>4. PICK g \in [Nat -> Seq(S)] :
         g[0] = <<>> /\ \A n \in Nat : g[n + 1] = step[<<n, g[n]>>]
    <2> DEFINE T == Seq(S)
               none == <<>>
    <2>1. none \in T /\ step \in [Nat \X T -> T]
        BY <1>2, <1>3
    <2> HIDE DEF step, T, none
    <2>2. \E g \in [Nat -> T] : Follows(g, none, step)
        BY <2>1, Recursion, Zenon
    <2> QED BY <2>2 DEF T, none, Follows
<1>5. \A n \in 1 .. N : g[n] = g[n - 1] \o ss[n]
    <2> TAKE n \in 1 .. N
    <2>1. n - 1 \in Nat /\ (n - 1) + 1 = n
        BY <1>1
    <2>2. g[(n - 1) + 1] = step[<<n - 1, g[n - 1]>>]
        BY <1>4, <2>1
    <2>3. <<n - 1, g[n - 1]>> \in Nat \X Seq(S)
        BY <2>1
    <2>4. step[<<n - 1, g[n - 1]>>] = g[n - 1] \o ss[n]
        BY <2>1, <2>3
    <2> QED BY <2>1, <2>2, <2>4
<1> HIDE DEF step
<1> DEFINE h == [i \in 0 .. N |-> g[i]]
<1>6. h \in [0 .. N -> Seq(S)] /\ h[0] = <<>>
    BY <1>1, <1>4
<1>7. \A n \in 1 .. N : h[n] = h[n - 1] \o ss[n]
    <2> TAKE n \in 1 .. N
    <2>1. n - 1 \in 0 .. N /\ n \in 0 .. N
        BY <1>1
    <2> QED BY <1>5, <2>1
<1>8. CASE N = 0
    <2>1. FlattenSeq(ss) = ss /\ ss = <<>>
        <3>1. FlattenSeq(ss) = ss
            BY <1>8 DEF FlattenSeq
        <3>2. ss = <<>>
            BY <1>8, EmptySeq
        <3> QED BY <3>1, <3>2
    <2>2. FlattenSeq(ss) = h[N]
        BY <1>6, <1>8, <2>1
    <2> HIDE DEF h
    <2> QED BY <1>6, <1>7, <2>2
<1>9. CASE N # 0
    <2> DEFINE f == CHOOSE f : f = [i \in 1 .. N |-> Turn(f, i)]
               k == [i \in 1 .. N |-> g[i]]
    <2>1. k = [i \in 1 .. N |-> Turn(k, i)]
        <3>1. ASSUME NEW i \in 1 .. N PROVE g[i] = Turn(k, i)
            <4>1. g[i] = g[i - 1] \o ss[i]
                BY <1>5
            <4>2. CASE i = 1
                <5>1. g[0] = <<>> /\ ss[1] \in Seq(S)
                    BY <1>1, <1>4, <4>2
                <5>2. <<>> \o ss[1] = ss[1]
                    BY <5>1
                <5>3. g[1] = g[0] \o ss[1]
                    <6>1. g[1] = g[1 - 1] \o ss[1]
                        BY <4>1, <4>2
                    <6> QED BY <6>1
                <5>4. g[1] = ss[1]
                    BY <5>1, <5>2, <5>3
                <5> QED BY <4>2, <5>4
            <4>3. CASE i # 1
                <5>1. i - 1 \in 1 .. N
                    BY <1>1, <4>3
                <5> QED BY <4>1, <4>3, <5>1
            <4> QED BY <4>2, <4>3
        <3> HIDE DEF Turn
        <3> QED BY <3>1
    <2>2. f = [i \in 1 .. N |-> Turn(f, i)]
        <3>1. \E x : x = [i \in 1 .. N |-> Turn(x, i)]
            <4> HIDE DEF k, Turn, N
            <4> QED BY <2>1
        <3> HIDE DEF Turn, N
        <3> QED BY <3>1
    <2>3. FlattenSeq(ss) = f[N]
        BY <1>9, Zenon DEF FlattenSeq
    <2> HIDE DEF f
    <2>4. f[N] = g[N]
        <3> DEFINE P == {n \in Nat : n + 1 \in 1 .. N => f[n + 1] = g[n + 1]}
        <3>1. 0 \in P
            <4>1. 1 \in 1 .. N => f[1] = ss[1]
                BY <2>2
            <4>2. 1 \in 1 .. N => g[1] = ss[1]
                <5> SUFFICES ASSUME 1 \in 1 .. N PROVE g[1] = ss[1]
                    OBVIOUS
                <5> HIDE DEF N
                <5>1. ss[1] \in Seq(S)
                    BY <1>1
                <5>2. g[1] = g[1 - 1] \o ss[1]
                    BY <1>5
                <5>3. g[1 - 1] = <<>> /\ <<>> \o ss[1] = ss[1]
                    BY <1>4, <5>1
                <5> QED BY <5>2, <5>3
            <4> QED BY <4>1, <4>2
        <3>2. ASSUME NEW n \in P PROVE n + 1 \in P
            <4> DEFINE i == n + 2
            <4> SUFFICES ASSUME i \in 1 .. N PROVE f[i] = g[i]
                <5>1. n \in Nat /\ n + 1 \in Nat /\ (n + 1) + 1 = i
                    OBVIOUS
                <5> HIDE DEF i
                <5> QED BY <5>1
            <4>0. n \in Nat /\ N \in Nat
                BY <1>1
            <4>1. /\ i # 1 /\ i - 1 = n + 1 /\ n + 1 \in 1 .. N
                <5> HIDE DEF P, N
                <5> QED BY <4>0
            <4>2. f[n + 1] = g[n + 1]
                BY <3>2, <4>1
            <4>3. f[i] = f[i - 1] \o ss[i]
                BY <2>2, <4>1
            <4>4. g[i] = g[i - 1] \o ss[i]
                BY <1>5
            <4> QED BY <4>1, <4>2, <4>3, <4>4
        <3>3. P \in SUBSET Nat
            OBVIOUS
        <3> HIDE DEF P
        <3>4. P = Nat
            BY <3>1, <3>2, <3>3, Induction
        <3>5. N - 1 \in P /\ (N - 1) + 1 = N /\ N \in 1 .. N
            BY <1>1, <1>9, <3>4
        <3> HIDE DEF N
        <3> QED BY <3>5 DEF P
    <2>5. FlattenSeq(ss) = h[N]
        BY <1>1, <2>3, <2>4
    <2> HIDE DEF h
    <2> QED BY <1>6, <1>7, <2>5
<1> QED BY <1>8, <1>9

\* Where each sequence begins in what FlattenSeq puts together of them.
PutTogether(ss, whole, starts) ==
    /\ starts[1] = 0 /\ Len(whole) = starts[Len(ss) + 1]
    /\ \A k \in 1 .. Len(ss) :
          /\ starts[k + 1] = starts[k] + Len(ss[k])
          /\ starts[k + 1] <= Len(whole)
          /\ \A j \in 1 .. Len(ss[k]) : whole[starts[k] + j] = ss[k][j]

\* Each sequence is found again in what is put together of them.
LEMMA Pieces ==
    ASSUME NEW S, NEW ss \in Seq(Seq(S))
    PROVE  /\ FlattenSeq(ss) \in Seq(S)
           /\ \E starts \in [1 .. Len(ss) + 1 -> Nat] :
                 PutTogether(ss, FlattenSeq(ss), starts)
<1> DEFINE N == Len(ss)
<1>1. N \in Nat /\ \A i \in 1 .. N : ss[i] \in Seq(S)
    BY LenProperties, ElementOfSeq
<1>2. PICK g \in [0 .. N -> Seq(S)] :
         /\ g[0] = <<>>
         /\ \A n \in 1 .. N : g[n] = g[n - 1] \o ss[n]
         /\ FlattenSeq(ss) = g[N]
    BY Flattened
<1>3. ASSUME NEW n \in 1 .. N
      PROVE  /\ Len(g[n]) = Len(g[n - 1]) + Len(ss[n])
             /\ \A j \in 1 .. Len(g[n - 1]) : g[n][j] = g[n - 1][j]
             /\ \A j \in 1 .. Len(ss[n]) : g[n][Len(g[n - 1]) + j] = ss[n][j]
    <2>1. g[n - 1] \in Seq(S) /\ ss[n] \in Seq(S) /\ g[n] = g[n - 1] \o ss[n]
        <3>1. n - 1 \in 0 .. N
            BY <1>1
        <3> QED BY <1>1, <1>2, <3>1
    <2> DEFINE s == g[n - 1]
               t == ss[n]
    <2>2. Len(s) \in Nat /\ Len(t) \in Nat
        BY <2>1, LenProperties
    <2>3. s \in Seq(S) /\ t \in Seq(S)
        BY <2>1
    <2> HIDE DEF s, t
    <2>4. /\ Len(s \o t) = Len(s) + Len(t)
          /\ \A j \in 1 .. Len(s) + Len(t) :
                (s \o t)[j] = IF j <= Len(s) THEN s[j] ELSE t[j - Len(s)]
        BY <2>3, ConcatProperties
    <2>5. \A j \in 1 .. Len(s) : (s \o t)[j] = s[j]
        BY <2>2, <2>4
    <2>6. ASSUME NEW j \in 1 .. Len(t) PROVE (s \o t)[Len(s) + j] = t[j]
        <3> DEFINE i == Len(s) + j
        <3>1. i \in 1 .. Len(s) + Len(t) /\ ~(i <= Len(s)) /\ i - Len(s) = j
            BY <2>2
        <3> HIDE DEF i
        <3>2. (s \o t)[i] = t[j]
            BY <2>4, <3>1
        <3> QED BY <3>2 DEF i
    <2>7. g[n] = s \o t
        BY <2>1 DEF s, t
    <2> QED BY <2>4, <2>5, <2>6, <2>7 DEF s, t
<1>4. \A n \in 0 .. N : g[n] \in Seq(S) /\ Len(g[n]) \in Nat
    BY <1>2, LenProperties
<1> DEFINE Kept(m, n) == /\ Len(g[m]) <= Len(g[n])
                         /\ \A j \in 1 .. Len(g[m]) : g[n][j] = g[m][j]
<1>5. ASSUME NEW m \in 0 .. N PROVE \A n \in Nat : m <= n /\ n <= N => Kept(m, n)
    <2> DEFINE P == {n \in Nat : m <= n /\ n <= N => Kept(m, n)}
    <2>1. Kept(m, m)
        BY <1>4
    <2>2. 0 \in P
        <3> SUFFICES ASSUME m <= 0 PROVE Kept(m, 0)
            OBVIOUS
        <3>1. m = 0
            BY <1>1
        <3> HIDE DEF Kept
        <3> QED BY <2>1, <3>1
    <2>3. ASSUME NEW n \in P PROVE n + 1 \in P
        <3> SUFFICES ASSUME m <= n + 1, n + 1 <= N PROVE Kept(m, n + 1)
            <4> HIDE DEF Kept
            <4> QED OBVIOUS
        <3>1. n \in Nat /\ n + 1 \in 1 .. N /\ (n + 1) - 1 = n /\ n \in 0 .. N
            BY <1>1
        <3>2. CASE m = n + 1
            <4> HIDE DEF Kept
            <4> QED BY <2>1, <3>2
        <3>3. CASE m # n + 1
            <4>1. m <= n /\ n <= N
                BY <1>1, <3>1, <3>3
            <4>2. Kept(m, n)
                <5> HIDE DEF Kept
                <5> QED BY <2>3, <3>1, <4>1
            <4>3. Len(g[n + 1]) = Len(g[n]) + Len(ss[n + 1])
                <5>1. Len(g[n + 1]) = Len(g[(n + 1) - 1]) + Len(ss[n + 1])
                    BY <1>3, <3>1
                <5> QED BY <3>1, <5>1
            <4>7. \A j \in 1 .. Len(g[n]) : g[n + 1][j] = g[n][j]
                <5>1. \A j \in 1 .. Len(g[(n + 1) - 1]) :
                         g[n + 1][j] = g[(n + 1) - 1][j]
                    BY <1>3, <3>1
                <5> QED BY <3>1, <5>1
            <4>4. Len(ss[n + 1]) \in Nat /\ Len(g[n]) \in Nat /\ Len(g[m]) \in Nat
                BY <1>1, <1>4, <3>1, LenProperties
            <4>5. Len(g[m]) <= Len(g[n + 1])
                <5>1. Len(g[m]) <= Len(g[n])
                    BY <4>2
                <5>2. Len(g[n + 1]) \in Nat /\ Len(g[n]) <= Len(g[n + 1])
                    <6> DEFINE more == Len(ss[n + 1])
                               had == Len(g[n])
                    <6>1. more \in Nat /\ had \in Nat
                        BY <4>4
                    <6>2. Len(g[n + 1]) = had + more
                        BY <4>3
                    <6> HIDE DEF more, had, P, Kept
                    <6>3. had + more \in Nat /\ had <= had + more
                        BY <6>1
                    <6> QED BY <6>2, <6>3 DEF had
                <5> QED BY <4>4, <5>1, <5>2
            <4>6. ASSUME NEW j \in 1 .. Len(g[m]) PROVE g[n + 1][j] = g[m][j]
                <5>0. Len(g[m]) <= Len(g[n])
                    BY <4>2
                <5>1. j \in 1 .. Len(g[n])
                    BY <4>4, <5>0
                <5> QED BY <4>2, <4>7, <5>1
            <4> QED BY <4>5, <4>6
        <3> QED BY <3>2, <3>3
    <2>4. P \in SUBSET Nat
        OBVIOUS
    <2> HIDE DEF P
    <2>5. P = Nat
        BY <2>2, <2>3, <2>4, Induction
    <2> HIDE DEF Kept
    <2> QED BY <2>5 DEF P
<1> DEFINE starts == [k \in 1 .. N + 1 |-> Len(g[k - 1])]
           whole == FlattenSeq(ss)
<1>6. starts \in [1 .. N + 1 -> Nat]
    <2>1. \A k \in 1 .. N + 1 : k - 1 \in 0 .. N
        BY <1>1
    <2> HIDE DEF N
    <2> QED BY <1>4, <2>1
<1>7. starts[1] = 0
    <2>1. Len(g[0]) = 0
        BY <1>2
    <2>2. 1 \in 1 .. N + 1 /\ 1 - 1 = 0
        BY <1>1
    <2>3. starts[1] = Len(g[1 - 1])
        BY <2>2
    <2> QED BY <2>1, <2>3
<1>8. whole = g[N] /\ Len(whole) = starts[N + 1]
    <2>1. N + 1 \in 1 .. N + 1 /\ (N + 1) - 1 = N
        BY <1>1
    <2>2. starts[N + 1] = Len(g[(N + 1) - 1])
        <3> HIDE DEF N
        <3> QED BY <2>1
    <2> QED BY <1>2, <2>1, <2>2
<1>9. ASSUME NEW k \in 1 .. N
      PROVE  /\ starts[k + 1] = starts[k] + Len(ss[k])
             /\ starts[k + 1] <= Len(whole)
             /\ \A j \in 1 .. Len(ss[k]) : whole[starts[k] + j] = ss[k][j]
    <2>1. k + 1 \in 1 .. N + 1 /\ k \in 1 .. N + 1 /\ (k + 1) - 1 = k
        BY <1>1
    <2>2. starts[k + 1] = Len(g[k]) /\ starts[k] = Len(g[k - 1])
        <3> HIDE DEF N
        <3> QED BY <2>1
    <2>3. Len(g[k]) = Len(g[k - 1]) + Len(ss[k])
        BY <1>3
    <2>9. \A j \in 1 .. Len(ss[k]) : g[k][Len(g[k - 1]) + j] = ss[k][j]
        BY <1>3
    <2>4. Kept(k, N)
        <3>1. k \in 0 .. N /\ k <= N
            BY <1>1
        <3> HIDE DEF Kept
        <3> QED BY <1>1, <1>5, <3>1
    <2>5. /\ Len(g[k]) \in Nat /\ Len(g[k - 1]) \in Nat /\ Len(ss[k]) \in Nat
        <3>1. k \in 0 .. N /\ k - 1 \in 0 .. N
            BY <1>1
        <3> QED BY <1>1, <1>4, <3>1, LenProperties
    <2> HIDE DEF starts, whole
    <2>6. ASSUME NEW j \in 1 .. Len(ss[k])
          PROVE  whole[starts[k] + j] = ss[k][j]
        <3> DEFINE i == Len(g[k - 1]) + j
        <3>1. i \in 1 .. Len(g[k])
            <4> DEFINE more == Len(ss[k])
                       had == Len(g[k - 1])
            <4>1. had \in Nat /\ more \in Nat /\ j \in 1 .. more
                BY <2>5
            <4>2. i = had + j /\ Len(g[k]) = had + more
                BY <2>3
            <4> HIDE DEF i, had, more, Kept
            <4>3. had + j \in 1 .. had + more
                BY <4>1
            <4> QED BY <4>2, <4>3
        <3>2. g[k][i] = ss[k][j]
            BY <2>9
        <3> HIDE DEF i
        <3>3. g[N][i] = g[k][i]
            BY <2>4, <3>1
        <3>4. starts[k] + j = i
            BY <2>2 DEF i
        <3> QED BY <1>8, <3>2, <3>3, <3>4
    <2>7. starts[k + 1] <= Len(whole)
        BY <1>8, <2>2, <2>4
    <2>8. starts[k + 1] = starts[k] + Len(ss[k])
        BY <2>2, <2>3
    <2> QED BY <2>6, <2>7, <2>8
<1>10. whole \in Seq(S)
    BY <1>1, <1>4, <1>8
<1> HIDE DEF starts
<1>11. PutTogether(ss, whole, starts)
    BY <1>7, <1>8, <1>9 DEF PutTogether
<1> QED BY <1>6, <1>10, <1>11

\* What is put together of sequences, with one more behind them.
LEMMA OneMorePiece ==
    ASSUME NEW S, NEW ss \in Seq(Seq(S)), NEW s \in Seq(S)
    PROVE  /\ FlattenSeq(ss) \in Seq(S)
           /\ FlattenSeq(Append(ss, s)) = FlattenSeq(ss) \o s
<1> DEFINE n == Len(ss)
           more == Append(ss, s)
           T == Seq(S)
<1>1. n \in Nat /\ ss \in Seq(T) /\ s \in T
    BY LenProperties
<1> HIDE DEF T
<1>2. /\ more \in Seq(T) /\ Len(more) = n + 1 /\ more[n + 1] = s
      /\ \A i \in 1 .. n : more[i] = ss[i]
    BY <1>1, AppendProperties
<1> HIDE DEF more
<1>3. PICK g \in [0 .. n -> T] : /\ g[0] = <<>>
                                 /\ \A i \in 1 .. n : g[i] = g[i - 1] \o ss[i]
                                 /\ FlattenSeq(ss) = g[n]
    BY Flattened DEF T
<1>4. PICK h \in [0 .. n + 1 -> T] :
         /\ h[0] = <<>>
         /\ \A i \in 1 .. n + 1 : h[i] = h[i - 1] \o more[i]
         /\ FlattenSeq(more) = h[n + 1]
    <2>1. more \in Seq(Seq(S))
        BY <1>2 DEF T
    <2>2. \E h \in [0 .. Len(more) -> Seq(S)] :
             /\ h[0] = <<>>
             /\ \A i \in 1 .. Len(more) : h[i] = h[i - 1] \o more[i]
             /\ FlattenSeq(more) = h[Len(more)]
        BY <2>1, Flattened
    <2>3. Len(more) = n + 1
        BY <1>2
    <2> HIDE DEF n
    <2> QED BY <2>2, <2>3 DEF T
<1> HIDE DEF n
<1> DEFINE P == {i \in Nat : i <= n => h[i] = g[i]}
<1>5. 0 \in P
    BY <1>3, <1>4
<1>6. ASSUME NEW i \in P PROVE i + 1 \in P
    <2> SUFFICES ASSUME i + 1 <= n PROVE h[i + 1] = g[i + 1]
        OBVIOUS
    <2>1. /\ i \in Nat /\ i <= n /\ i + 1 \in 1 .. n /\ i + 1 \in 1 .. n + 1
          /\ (i + 1) - 1 = i
        BY <1>1
    <2>2. h[i] = g[i]
        BY <2>1
    <2>3. g[i + 1] = g[(i + 1) - 1] \o ss[i + 1]
        BY <1>3, <2>1
    <2>4. h[i + 1] = h[(i + 1) - 1] \o more[i + 1]
        BY <1>4, <2>1
    <2>5. more[i + 1] = ss[i + 1]
        BY <1>2, <2>1
    <2> QED BY <2>1, <2>2, <2>3, <2>4, <2>5
<1>7. P \in SUBSET Nat
    OBVIOUS
<1> HIDE DEF P
<1>8. P = Nat
    BY <1>5, <1>6, <1>7, Induction
<1>9. h[n] = g[n]
    <2>1. n \in P /\ n <= n
        BY <1>1, <1>8
    <2> QED BY <2>1 DEF P
<1>10. h[n + 1] = h[n] \o s
    <2>1. n + 1 \in 1 .. n + 1 /\ (n + 1) - 1 = n
        BY <1>1
    <2>2. h[n + 1] = h[(n + 1) - 1] \o more[n + 1]
        BY <1>4, <2>1
    <2> QED BY <1>2, <2>1, <2>2
<1>11. FlattenSeq(ss) \in T
    <2>1. n \in 0 .. n
        BY <1>1
    <2> QED BY <1>3, <2>1
<1> QED BY <1>3, <1>4, <1>9, <1>10, <1>11 DEF more, T
=============================================================================
