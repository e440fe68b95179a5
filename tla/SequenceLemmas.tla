---------------------------- MODULE SequenceLemmas ----------------------------
(* What the operators on naturals, sets and sequences that the modules use    *)
(* return: the least and the greatest of a set of naturals, induction, counts *)
(* of a sequence, its prefixes, sequences of the elements of a set, and       *)
(* sequences flattened.                                                       *)
EXTENDS Counting, SequencesExt, FiniteSetTheorems, TLAPS

-----------------------------------------------------------------------------
(* Naturals.  Induction is the well-foundedness of < on them, and is stated   *)
(* about a set where a theorem of the library takes a predicate.              *)

LEMMA LeastNatural ==
    ASSUME NEW T \in SUBSET Nat, T # {}
    PROVE  \E m \in T : \A k \in T : m <= k
<1> DEFINE R == OpToRel(<, Nat)
<1>1. IsWellFoundedOn(R, Nat)  BY NatLessThanWellFounded
<1>2. PICK m \in T : \A k \in T : <<k, m>> \notin R
  <2> HIDE DEF R
  <2> QED  BY <1>1, WFMin
<1>3. \A k \in T : ~(k < m)  BY <1>2 DEF OpToRel
<1> QED  BY <1>3

\* What holds of 0 and of n + 1 when it holds of n, holds of all.
LEMMA Induction ==
    ASSUME NEW S, 0 \in S, \A n \in Nat : n \in S => n + 1 \in S
    PROVE  \A n \in Nat : n \in S
<1> SUFFICES ASSUME Nat \ S # {} PROVE FALSE  OBVIOUS
<1>1. PICK m \in Nat \ S : \A k \in Nat \ S : m <= k  BY LeastNatural
<1>2. m # 0 /\ m - 1 \in Nat  BY <1>1
<1>3. m - 1 \in S  BY <1>1, <1>2
<1> QED  BY <1>1, <1>2, <1>3

LEMMA GreatestNatural ==
    ASSUME NEW T \in SUBSET Nat, T # {}, NEW n \in Nat, \A k \in T : k <= n
    PROVE  \E m \in T : \A k \in T : k <= m
<1> DEFINE bounds == {b \in Nat : \A k \in T : k <= b}
<1>1. PICK m \in bounds : \A b \in bounds : m <= b
  <2>1. n \in bounds /\ bounds \in SUBSET Nat  OBVIOUS
  <2> HIDE DEF bounds
  <2> QED  BY <2>1, LeastNatural
<1>2. SUFFICES ASSUME m \notin T PROVE FALSE  BY <1>1
<1>3. \A k \in T : k <= m - 1  BY <1>1, <1>2
<1>4. m - 1 \in Nat
  <2>1. PICK k \in T : TRUE  OBVIOUS
  <2> QED  BY <2>1, <1>1, <1>3
<1>5. m - 1 \in bounds  BY <1>3, <1>4
<1> QED  BY <1>1, <1>4, <1>5

LEMMA MaxProperties ==
    ASSUME NEW T \in SUBSET Nat, T # {}, NEW n \in Nat, \A k \in T : k <= n
    PROVE  Max(T) \in T /\ \A k \in T : k <= Max(T)
<1>1. PICK m \in T : \A k \in T : m >= k  BY GreatestNatural
<1> QED  BY <1>1 DEF Max

LEMMA MaxIs ==
    ASSUME NEW T \in SUBSET Nat, NEW m \in T, \A k \in T : k <= m
    PROVE  Max(T) = m
<1>1. \E x \in T : \A k \in T : x >= k
  <2>1. \A k \in T : m >= k  OBVIOUS
  <2> QED  BY <2>1
<1>2. Max(T) \in T /\ \A k \in T : Max(T) >= k  BY <1>1 DEF Max
<1>3. Max(T) \in Nat /\ m \in Nat /\ Max(T) >= m /\ Max(T) <= m  BY <1>2
<1> QED  BY <1>3

LEMMA MinProperties ==
    ASSUME NEW T \in SUBSET Nat, T # {}
    PROVE  Min(T) \in T /\ \A k \in T : Min(T) <= k
<1>1. PICK m \in T : \A k \in T : m <= k  BY LeastNatural
<1> QED  BY <1>1 DEF Min

\* A function may be defined along the naturals, step by step.
Follows(f, start, n, step) == f[0] = start /\ \A i \in 1..n : f[i] = step[<<i, f[i - 1]>>]

LEMMA RecursionExists ==
    ASSUME NEW V, NEW start \in V, NEW n \in Nat, NEW step \in [(1..n) \X V -> V]
    PROVE  \E f \in [0..n -> V] : Follows(f, start, n, step)
<1> DEFINE S == {m \in Nat : m <= n => \E f \in [0..m -> V] : Follows(f, start, m, step)}
<1>1. 0 \in S
  <2>1. [i \in 0..0 |-> start] \in [0..0 -> V] /\ Follows([i \in 0..0 |-> start], start, 0, step)
    BY DEF Follows
  <2> QED  BY <2>1
<1>2. ASSUME NEW m \in Nat, m \in S PROVE m + 1 \in S
  <2> SUFFICES ASSUME m + 1 <= n
               PROVE  \E f \in [0..(m + 1) -> V] : Follows(f, start, m + 1, step)
    OBVIOUS
  <2>1. PICK f \in [0..m -> V] : Follows(f, start, m, step)  BY <1>2
  <2> DEFINE g == [i \in 0..(m + 1) |-> IF i <= m THEN f[i] ELSE step[<<m + 1, f[m]>>]]
  <2>2. step[<<m + 1, f[m]>>] \in V  OBVIOUS
  <2>3. g \in [0..(m + 1) -> V]  BY <2>2
  <2>4. g[0] = start  BY <2>1 DEF Follows
  <2>5. ASSUME NEW i \in 1..(m + 1) PROVE g[i] = step[<<i, g[i - 1]>>]
    <3>1. CASE i <= m
      <4>1. g[i] = f[i] /\ g[i - 1] = f[i - 1] /\ i \in 1..m  BY <3>1
      <4> QED  BY <2>1, <4>1 DEF Follows
    <3>2. CASE i = m + 1
      <4>1. g[i] = step[<<m + 1, f[m]>>] /\ g[i - 1] = f[m]  BY <3>2
      <4> QED  BY <3>2, <4>1
    <3> QED  BY <3>1, <3>2
  <2> QED  BY <2>3, <2>4, <2>5 DEF Follows
<1>3. \A m \in Nat : m \in S
  <2> HIDE DEF S
  <2> QED  BY <1>1, <1>2, Induction
<1> QED  BY <1>3

-----------------------------------------------------------------------------
(* Sequences                                                                  *)

\* What holds of the empty sequence and of one that is appended to when it holds of
\* the one before, holds of all.
LEMMA SequenceInduction ==
    ASSUME NEW S, NEW A, <<>> \in A,
           \A s \in Seq(S) : \A e \in S : s \in A => Append(s, e) \in A
    PROVE  \A s \in Seq(S) : s \in A
<1> DEFINE T == {n \in Nat : \A s \in Seq(S) : Len(s) = n => s \in A}
<1>1. 0 \in T
  <2>1. \A s \in Seq(S) : Len(s) = 0 => s = <<>>  OBVIOUS
  <2> QED  BY <2>1
<1>2. ASSUME NEW n \in Nat, n \in T PROVE n + 1 \in T
  <2> SUFFICES ASSUME NEW s \in Seq(S), Len(s) = n + 1 PROVE s \in A  OBVIOUS
  <2> DEFINE t == SubSeq(s, 1, n)
  <2>1. t \in Seq(S) /\ Len(t) = n /\ s[n + 1] \in S  OBVIOUS
  <2>2. s = Append(t, s[n + 1])  OBVIOUS
  <2>3. t \in A  BY <1>2, <2>1
  <2> QED  BY <2>1, <2>2, <2>3
<1>3. \A n \in Nat : n \in T
  <2> HIDE DEF T
  <2> QED  BY <1>1, <1>2, Induction
<1>4. \A s \in Seq(S) : Len(s) \in Nat  OBVIOUS
<1> QED  BY <1>3, <1>4

LEMMA PrefixElements ==
    ASSUME NEW S, NEW s \in Seq(S), NEW t \in Seq(S)
    PROVE  IsPrefix(s, t) <=> Len(s) <= Len(t) /\ \A i \in 1..Len(s) : s[i] = t[i]
<1>1. Len(s) \in Nat /\ Len(t) \in Nat  OBVIOUS
<1>2. SubSeq(s, 1, Len(s)) = s  OBVIOUS
<1>3. ASSUME Len(s) <= Len(t)
      PROVE  s = SubSeq(t, 1, Len(s)) <=> \A i \in 1..Len(s) : s[i] = t[i]
  <2> DEFINE u == SubSeq(t, 1, Len(s))
  <2>1. u \in Seq(S) /\ Len(u) = Len(s) /\ \A i \in 1..Len(s) : u[i] = t[i]  BY <1>1, <1>3
  <2>2. (\A i \in 1..Len(s) : s[i] = u[i]) => s = u
    <3> HIDE DEF u
    <3> QED  BY <2>1
  <2> QED  BY <2>1, <2>2
<1> QED  BY <1>2, <1>3 DEF IsPrefix

LEMMA PrefixReflexive == ASSUME NEW S, NEW s \in Seq(S) PROVE IsPrefix(s, s)
BY PrefixElements

LEMMA PrefixTransitive ==
    ASSUME NEW S, NEW s \in Seq(S), NEW t \in Seq(S), NEW u \in Seq(S),
           IsPrefix(s, t), IsPrefix(t, u)
    PROVE  IsPrefix(s, u)
<1>1. Len(s) <= Len(t) /\ \A i \in 1..Len(s) : s[i] = t[i]  BY PrefixElements
<1>2. Len(t) <= Len(u) /\ \A i \in 1..Len(t) : t[i] = u[i]  BY PrefixElements
<1>3. Len(s) <= Len(u) /\ \A i \in 1..Len(s) : s[i] = u[i]  BY <1>1, <1>2
<1> QED  BY <1>3, PrefixElements

LEMMA PrefixLength ==
    ASSUME NEW S, NEW s \in Seq(S), NEW t \in Seq(S), IsPrefix(s, t)
    PROVE  Len(s) <= Len(t) /\ (Len(s) = Len(t) => s = t)
<1>1. Len(s) <= Len(t) /\ \A i \in 1..Len(s) : s[i] = t[i]  BY PrefixElements
<1> QED  BY <1>1

\* A sequence is a prefix of what is appended to it, and a longer one takes up the
\* element behind it.
LEMMA PrefixOfAppend ==
    ASSUME NEW S, NEW s \in Seq(S), NEW e \in S
    PROVE  IsPrefix(s, Append(s, e)) /\ ~IsPrefix(Append(s, e), s)
<1> DEFINE t == Append(s, e)
<1>1. t \in Seq(S) /\ Len(t) = Len(s) + 1 /\ Len(s) \in Nat /\ \A i \in 1..Len(s) : t[i] = s[i]
  OBVIOUS
<1> HIDE DEF t
<1>2. IsPrefix(s, t) <=> Len(s) <= Len(t) /\ \A i \in 1..Len(s) : s[i] = t[i]
  BY <1>1, PrefixElements
<1>3. IsPrefix(t, s) <=> Len(t) <= Len(s) /\ \A i \in 1..Len(t) : t[i] = s[i]
  BY <1>1, PrefixElements
<1> QED  BY <1>1, <1>2, <1>3 DEF t

LEMMA AppendIsPrefix ==
    ASSUME NEW S, NEW s \in Seq(S), NEW e \in S, NEW t \in Seq(S)
    PROVE  IsPrefix(Append(s, e), t) <=> IsPrefix(s, t) /\ Len(s) < Len(t) /\ t[Len(s) + 1] = e
<1> DEFINE u == Append(s, e)
<1>1. /\ u \in Seq(S) /\ Len(u) = Len(s) + 1 /\ Len(s) \in Nat /\ Len(t) \in Nat
      /\ u[Len(s) + 1] = e /\ \A i \in 1..Len(s) : u[i] = s[i]
  OBVIOUS
<1> HIDE DEF u
<1>2. IsPrefix(u, t) <=> Len(u) <= Len(t) /\ \A i \in 1..Len(u) : u[i] = t[i]
  BY <1>1, PrefixElements
<1>3. IsPrefix(s, t) <=> Len(s) <= Len(t) /\ \A i \in 1..Len(s) : s[i] = t[i]
  BY PrefixElements
<1> QED  BY <1>1, <1>2, <1>3 DEF u

\* A finite set as a sequence: each of its elements has one place there.
LEMMA SetToSeqProperties ==
    ASSUME NEW S, IsFiniteSet(S)
    PROVE  /\ SetToSeq(S) \in Seq(S)
           /\ \A i, j \in 1..Len(SetToSeq(S)) : SetToSeq(S)[i] = SetToSeq(S)[j] => i = j
           /\ \A e \in S : \E i \in 1..Len(SetToSeq(S)) : SetToSeq(S)[i] = e
<1> DEFINE n == Cardinality(S)
           f == SetToSeq(S)
<1>1. n \in Nat /\ ExistsBijection(1..n, S)  BY FS_CardinalityType
<1>2. PICK g \in [1..n -> S] : IsInjective(g)
  BY <1>1 DEF ExistsBijection, Bijection, Injection
<1>3. f \in [1..n -> S] /\ IsInjective(f)  BY <1>2 DEF SetToSeq
<1>4. IsFiniteSet(1..n) /\ Cardinality(1..n) = n  BY <1>1, FS_Interval
<1>5. f \in Surjection(1..n, S)
  <2>1. f \in Injection(1..n, S)  BY <1>3 DEF Injection
  <2> HIDE DEF f, n
  <2> QED  BY <1>4, <2>1, FS_Injection DEF n
<1>6. Len(f) = n /\ f \in Seq(S)
  <2> HIDE DEF f, n
  <2> QED  BY <1>1, <1>3
<1>7. \A i, j \in 1..n : f[i] = f[j] => i = j
  <2> HIDE DEF f, n
  <2> QED  BY <1>3 DEF IsInjective
<1>8. \A e \in S : \E i \in 1..n : f[i] = e  BY <1>5 DEF Surjection
<1> HIDE DEF f, n
<1> QED  BY <1>6, <1>7, <1>8 DEF f

-----------------------------------------------------------------------------
(* Sequences of sequences                                                     *)

\* The recursive function in FlattenSeq: f[i] is the first i sequences, one after the other.
IsFlattening(f, ss) == /\ f[0] = <<>> /\ \A i \in 1..Len(ss) : f[i] = f[i - 1] \o ss[i]
                       /\ FlattenSeq(ss) = f[Len(ss)]

LEMMA FlattenStepwise ==
    ASSUME NEW S, NEW ss \in Seq(Seq(S))
    PROVE  \E f \in [0..Len(ss) -> Seq(S)] : IsFlattening(f, ss)
<1> DEFINE n == Len(ss)
           step == [x \in (1..n) \X Seq(S) |-> x[2] \o ss[x[1]]]
<1>1. n \in Nat /\ <<>> \in Seq(S) /\ step \in [(1..n) \X Seq(S) -> Seq(S)]  OBVIOUS
<1>2. PICK f \in [0..n -> Seq(S)] : f[0] = <<>> /\ \A i \in 1..n : f[i] = step[<<i, f[i - 1]>>]
  <2> DEFINE V == Seq(S)
             empty == <<>>
  <2>1. empty \in V /\ n \in Nat /\ step \in [(1..n) \X V -> V]  BY <1>1
  <2>2. \E f \in [0..n -> V] : Follows(f, empty, n, step)
    <3> HIDE DEF n, step, V, empty
    <3> QED  BY <2>1, RecursionExists
  <2> QED  BY <2>2 DEF Follows
<1>3. \A i \in 1..n : f[i] = f[i - 1] \o ss[i]
  <2> TAKE i \in 1..n
  <2>0. i - 1 \in 0..n  BY <1>1
  <2>1. f[i - 1] \in Seq(S) /\ <<i, f[i - 1]>> \in (1..n) \X Seq(S)  BY <1>1, <2>0
  <2> QED  BY <1>2, <2>1
<1> HIDE DEF step
<1>4. FlattenSeq(ss) = f[n]
  <2>1. CASE n = 0  BY <1>2, <2>1 DEF FlattenSeq
  <2>2. CASE n # 0
    <3> DEFINE F(g) == [i \in 1..n |-> IF i = 1 THEN ss[i] ELSE g[i - 1] \o ss[i]]
               g0 == [i \in 1..n |-> f[i]]
               C == CHOOSE g : g = F(g)
    <3>1. g0 = F(g0)
      <4>1. f[1] = ss[1]
        <5>1. 1 \in 1..n /\ 1 - 1 = 0  BY <1>1, <2>2
        <5>2. f[1] = f[1 - 1] \o ss[1]
          <6> HIDE DEF n
          <6> QED  BY <1>3, <5>1
        <5>4. ss[1] \in Seq(S)  BY <5>1
        <5>3. f[1] = <<>> \o ss[1]  BY <1>2, <5>1, <5>2
        <5> QED  BY <5>3, <5>4
      <4>2. \A i \in 1..n : f[i] = IF i = 1 THEN ss[i] ELSE g0[i - 1] \o ss[i]
        <5> TAKE i \in 1..n
        <5>1. CASE i = 1  BY <4>1, <5>1
        <5>2. CASE i # 1
          <6>1. i - 1 \in 1..n  BY <1>1, <5>2
          <6>2. g0[i - 1] = f[i - 1]  BY <6>1
          <6> QED  BY <1>3, <5>2, <6>2
        <5> QED  BY <5>1, <5>2
      <4> QED  BY <4>2
    <3>2. C = F(C)  BY <3>1
    <3>3. FlattenSeq(ss) = C[n]  BY <2>2 DEF FlattenSeq
    <3> HIDE DEF C
    <3>4. \A i \in 1..n : C[i] = IF i = 1 THEN ss[i] ELSE C[i - 1] \o ss[i]  BY <3>2
    <3> DEFINE A == {i \in Nat : i < n => C[i + 1] = f[i + 1]}
    <3>5. 0 \in A
      <4>1. 1 \in 1..n  BY <1>1, <2>2
      <4>2. C[1] = ss[1]  BY <3>4, <4>1
      <4>3. g0[1] = ss[1]  BY <3>1, <4>1
      <4>4. f[1] = ss[1]  BY <4>1, <4>3
      <4> QED  BY <4>2, <4>4
    <3>6. ASSUME NEW i \in Nat, i \in A PROVE i + 1 \in A
      <4> SUFFICES ASSUME i + 1 < n PROVE C[i + 2] = f[i + 2]  OBVIOUS
      <4>1. C[i + 1] = f[i + 1]  BY <3>6, <1>1
      <4>2. i + 2 \in 1..n /\ i + 2 # 1 /\ (i + 2) - 1 = i + 1  BY <1>1
      <4>3. C[i + 2] = C[i + 1] \o ss[i + 2]  BY <3>4, <4>2
      <4>4. f[i + 2] = f[i + 1] \o ss[i + 2]  BY <1>3, <4>2
      <4> QED  BY <4>1, <4>3, <4>4
    <3>7. \A i \in Nat : i \in A
      <4> HIDE DEF A
      <4> QED  BY <3>5, <3>6, Induction
    <3>8. n - 1 \in Nat /\ n - 1 < n /\ (n - 1) + 1 = n  BY <1>1, <2>2
    <3>9. C[n] = f[n]  BY <3>7, <3>8
    <3> QED  BY <3>3, <3>9
  <2> QED  BY <2>1, <2>2
<1> QED  BY <1>2, <1>3, <1>4 DEF IsFlattening

LEMMA FlattenType == ASSUME NEW S, NEW ss \in Seq(Seq(S)) PROVE FlattenSeq(ss) \in Seq(S)
<1>1. PICK f \in [0..Len(ss) -> Seq(S)] : IsFlattening(f, ss)  BY FlattenStepwise
<1> QED  BY <1>1 DEF IsFlattening

LEMMA FlattenOfEmpty == FlattenSeq(<<>>) = <<>>
BY DEF FlattenSeq

LEMMA FlattenOfAppend ==
    ASSUME NEW S, NEW ss \in Seq(Seq(S)), NEW s \in Seq(S)
    PROVE  FlattenSeq(Append(ss, s)) = FlattenSeq(ss) \o s
<1> DEFINE n == Len(ss)
           tt == Append(ss, s)
<1>1. /\ n \in Nat /\ tt \in Seq(Seq(S)) /\ Len(tt) = n + 1 /\ tt[n + 1] = s
      /\ \A i \in 1..n : tt[i] = ss[i]
  OBVIOUS
<1> HIDE DEF n, tt
<1>2. PICK f \in [0..n -> Seq(S)] : IsFlattening(f, ss)  BY FlattenStepwise DEF n
<1>3. PICK g \in [0..(n + 1) -> Seq(S)] : IsFlattening(g, tt)  BY <1>1, FlattenStepwise
<1>4. f[0] = <<>> /\ FlattenSeq(ss) = f[n] /\ \A i \in 1..n : f[i] = f[i - 1] \o ss[i]
  BY <1>2 DEF IsFlattening, n
<1>5. /\ g[0] = <<>> /\ FlattenSeq(tt) = g[n + 1]
      /\ \A i \in 1..(n + 1) : g[i] = g[i - 1] \o tt[i]
  BY <1>1, <1>3 DEF IsFlattening
<1> DEFINE A == {i \in Nat : i <= n => g[i] = f[i]}
<1>6. 0 \in A  BY <1>4, <1>5
<1>7. ASSUME NEW i \in Nat, i \in A PROVE i + 1 \in A
  <2> SUFFICES ASSUME i + 1 <= n PROVE g[i + 1] = f[i + 1]  OBVIOUS
  <2>1. i + 1 \in 1..n /\ i + 1 \in 1..(n + 1) /\ (i + 1) - 1 = i  BY <1>1
  <2>2. g[i] = f[i]  BY <1>7, <1>1
  <2>3. f[i + 1] = f[i] \o ss[i + 1]  BY <1>4, <2>1
  <2>4. g[i + 1] = g[i] \o tt[i + 1]  BY <1>5, <2>1
  <2> QED  BY <2>1, <2>2, <2>3, <2>4, <1>1
<1>8. \A i \in Nat : i \in A
  <2> HIDE DEF A
  <2> QED  BY <1>6, <1>7, Induction
<1>9. g[n] = f[n]  BY <1>1, <1>8
<1>10. g[n + 1] = g[n] \o s
  <2>1. n + 1 \in 1..(n + 1) /\ (n + 1) - 1 = n  BY <1>1
  <2> QED  BY <1>1, <1>5, <2>1
<1> QED  BY <1>4, <1>5, <1>9, <1>10 DEF tt
-----------------------------------------------------------------------------
(* Counting                                                                   *)

LEMMA CountOfEmpty == ASSUME NEW X PROVE Count(<<>>, X) = 0
<1>1. {i \in DOMAIN <<>> : <<>>[i] \in X} = {}  OBVIOUS
<1> QED  BY <1>1, FS_EmptySet DEF Count

Places(s, X) == {i \in DOMAIN s : s[i] \in X}

LEMMA PlacesFinite ==
    ASSUME NEW S, NEW s \in Seq(S), NEW X
    PROVE  /\ IsFiniteSet(Places(s, X))
           /\ Count(s, X) = Cardinality(Places(s, X))
           /\ Count(s, X) \in 0..Len(s)
<1>1. DOMAIN s = 1..Len(s) /\ Len(s) \in Nat  OBVIOUS
<1>2. IsFiniteSet(1..Len(s)) /\ Cardinality(1..Len(s)) = Len(s)  BY <1>1, FS_Interval
<1>3. Places(s, X) \in SUBSET (1..Len(s))  BY <1>1 DEF Places
<1>4. IsFiniteSet(Places(s, X)) /\ Cardinality(Places(s, X)) <= Len(s)
  BY <1>2, <1>3, FS_Subset
<1>5. Cardinality(Places(s, X)) \in Nat  BY <1>4, FS_CardinalityType
<1>6. Count(s, X) = Cardinality(Places(s, X))  BY DEF Count, Places
<1> QED  BY <1>1, <1>4, <1>5, <1>6

\* No sequence holds more of them than it has elements.
LEMMA CountBounds ==
    ASSUME NEW S, NEW s \in Seq(S), NEW X
    PROVE  Count(s, X) \in Nat /\ Count(s, X) \in 0..Len(s)
<1>1. Count(s, X) \in 0..Len(s)  BY PlacesFinite
<1> QED  BY <1>1

\* Whoever takes the head off takes it off the count.
LEMMA CountOfTail ==
    ASSUME NEW S, NEW s \in Seq(S), s # <<>>, NEW X
    PROVE  Count(s, X) = Count(Tail(s), X) + (IF Head(s) \in X THEN 1 ELSE 0)
<1> DEFINE rest == Places(Tail(s), X)
           behind == {i \in Places(s, X) : i > 1}
           next == [i \in rest |-> i + 1]
<1>1. /\ Tail(s) \in Seq(S) /\ Len(Tail(s)) = Len(s) - 1 /\ Len(s) \in Nat /\ Len(s) >= 1
      /\ \A i \in 1..(Len(s) - 1) : Tail(s)[i] = s[i + 1]
  OBVIOUS
<1>2. next \in Bijection(rest, behind)
  <2>1. \A i \in rest : i + 1 \in behind  BY <1>1 DEF Places
  <2>2. \A i \in behind : i - 1 \in rest /\ (i - 1) + 1 = i  BY <1>1 DEF Places
  <2>3. \A i, j \in rest : i + 1 = j + 1 => i = j  BY <1>1 DEF Places
  <2> QED  BY <2>1, <2>2, <2>3 DEF Bijection, Injection, Surjection, IsInjective
<1>3. Tail(s) \in Seq(S)  BY <1>1
<1>4. Cardinality(behind) = Cardinality(rest) /\ IsFiniteSet(behind)
  <2>1. IsFiniteSet(rest)  BY <1>3, PlacesFinite, Zenon
  <2>2. ExistsBijection(rest, behind)  BY <1>2 DEF ExistsBijection
  <2> HIDE DEF rest, behind
  <2> QED  BY <2>1, <2>2, FS_Bijection
<1>5. Count(s, X) = Cardinality(Places(s, X)) /\ Count(Tail(s), X) = Cardinality(rest)
  BY <1>3, PlacesFinite, Zenon
<1>6. Count(Tail(s), X) \in Nat  BY <1>3, CountBounds, Zenon
<1>7. Head(s) \in X => Places(s, X) = behind \cup {1} /\ 1 \notin behind
  BY <1>1 DEF Places
<1>8. Head(s) \notin X => Places(s, X) = behind  BY <1>1 DEF Places
<1> HIDE DEF behind, rest
<1>9. 1 \notin behind => Cardinality(behind \cup {1}) = Cardinality(behind) + 1
  BY <1>4, FS_AddElement
<1>10. CASE Head(s) \in X  BY <1>4, <1>5, <1>6, <1>7, <1>9, <1>10
<1>11. CASE Head(s) \notin X  BY <1>4, <1>5, <1>6, <1>8, <1>11
<1> QED  BY <1>10, <1>11

\* Whoever appends adds to the count.
LEMMA CountOfAppend ==
    ASSUME NEW S, NEW s \in Seq(S), NEW e \in S, NEW X
    PROVE  Count(Append(s, e), X) = Count(s, X) + (IF e \in X THEN 1 ELSE 0)
<1> DEFINE before == Places(s, X)
           last == Len(s) + 1
<1>1. /\ Append(s, e) \in Seq(S) /\ Len(Append(s, e)) = last /\ Len(s) \in Nat
      /\ Append(s, e)[last] = e /\ \A i \in 1..Len(s) : Append(s, e)[i] = s[i]
  OBVIOUS
<1>2. last \notin before  BY <1>1 DEF Places
<1>3. e \in X => Places(Append(s, e), X) = before \cup {last}  BY <1>1 DEF Places
<1>4. e \notin X => Places(Append(s, e), X) = before  BY <1>1 DEF Places
<1>5. Append(s, e) \in Seq(S)  BY <1>1
<1>6. /\ Count(s, X) = Cardinality(before) /\ IsFiniteSet(before)
      /\ Count(Append(s, e), X) = Cardinality(Places(Append(s, e), X))
  BY <1>5, PlacesFinite, Zenon
<1>7. Count(s, X) \in Nat  BY CountBounds, Zenon
<1> HIDE DEF before, last
<1>8. Cardinality(before \cup {last}) = Cardinality(before) + 1  BY <1>2, <1>6, FS_AddElement
<1>9. CASE e \in X  BY <1>3, <1>6, <1>7, <1>8, <1>9
<1>10. CASE e \notin X  BY <1>4, <1>6, <1>7, <1>10
<1> QED  BY <1>9, <1>10
=============================================================================
