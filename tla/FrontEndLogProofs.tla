-------------------------- MODULE FrontEndLogProofs -------------------------
(* For any program, any sizes and any latencies: the log of the speculative   *)
(* updates is that of the branches in flight.  The proofs count: the rank of  *)
(* a history among those with an update is its place in the log.              *)
EXTENDS FrontEndParts, SequenceTheorems, WellFoundedInduction, FiniteSetTheorems, TLAPS

-----------------------------------------------------------------------------
(* Sequences, and where a list of histories is cut. *)

LEMMA LogEmptyIsSeq == IsSeq(<< >>) /\ Len(<< >>) = 0
<1>1. << >> \in Seq({}) /\ Len(<< >>) = 0
  BY EmptySeq
<1> QED BY <1>1 DEF IsSeq

LEMMA LogLenIsNat ==
    ASSUME NEW q, IsSeq(q)
    PROVE  Len(q) \in Nat /\ DOMAIN q = 1 .. Len(q) /\ (q = << >> <=> Len(q) = 0)
BY LenProperties, EmptySeq DEF IsSeq

LEMMA LogLeastNat ==
    ASSUME NEW T, T \subseteq Nat, T # {}
    PROVE  \E m \in T : \A k \in T : m <= k
<1>1. IsWellFoundedOn(OpToRel(<, Nat), Nat)
  BY NatLessThanWellFounded, Zenon
<1>2. \E x \in T : \A y \in T : ~(<< y, x >> \in OpToRel(<, Nat))
  BY <1>1, WFMin, Zenon
<1>3. PICK x \in T : \A y \in T : ~(y < x)
  BY <1>2, Zenon DEF OpToRel
<1> QED BY <1>3

LEMMA LogPrefix ==
    ASSUME NEW S, NEW s \in Seq(S), NEW n \in 0 .. Len(s)
    PROVE  /\ SubSeq(s, 1, n) \in Seq(S) /\ Len(SubSeq(s, 1, n)) = n
           /\ \A i \in 1 .. n : SubSeq(s, 1, n)[i] = s[i]
<1>1. Len(s) \in Nat /\ \A i \in 1 .. n : s[i] \in S
  OBVIOUS
<1>2. /\ SubSeq(s, 1, n) \in Seq(S)
      /\ Len(SubSeq(s, 1, n)) = IF 1 <= n THEN n - 1 + 1 ELSE 0
      /\ \A i \in 1 .. n - 1 + 1 : SubSeq(s, 1, n)[i] = s[1 + i - 1]
  BY <1>1, SubSeqProperties
<1> QED BY <1>1, <1>2

LEMMA LogSuffix ==
    ASSUME NEW S, NEW s \in Seq(S), NEW n \in 0 .. Len(s)
    PROVE  /\ SubSeq(s, n + 1, Len(s)) \in Seq(S) /\ Len(SubSeq(s, n + 1, Len(s))) = Len(s) - n
           /\ \A i \in 1 .. Len(s) - n : SubSeq(s, n + 1, Len(s))[i] = s[n + i]
<1>1. Len(s) \in Nat /\ \A i \in n + 1 .. Len(s) : s[i] \in S
  OBVIOUS
<1>2. /\ SubSeq(s, n + 1, Len(s)) \in Seq(S)
      /\ Len(SubSeq(s, n + 1, Len(s))) = IF n + 1 <= Len(s) THEN Len(s) - (n + 1) + 1 ELSE 0
      /\ \A i \in 1 .. Len(s) - (n + 1) + 1 :
            SubSeq(s, n + 1, Len(s))[i] = s[(n + 1) + i - 1]
  BY <1>1, SubSeqProperties
<1> QED BY <1>1, <1>2

LEMMA LogKeptExists ==
    ASSUME NEW s, Len(s) \in Nat, \A i \in 1 .. Len(s) : s[i].sn \in Nat, NEW sn \in Int
    PROVE  \E n \in 0 .. Len(s) : /\ n > 0 => s[n].sn <= sn
                                 /\ \A i \in n + 1 .. Len(s) : s[i].sn > sn
<1> DEFINE T == {n \in 0 .. Len(s) : \A i \in n + 1 .. Len(s) : s[i].sn > sn}
<1>1. T \subseteq Nat /\ Len(s) \in T
  OBVIOUS
<1>2. PICK m \in T : \A k \in T : m <= k
  <2> HIDE DEF T
  <2> QED BY <1>1, LogLeastNat, Zenon
<1>3. m > 0 => s[m].sn <= sn
  <2> SUFFICES ASSUME m > 0, ~(s[m].sn <= sn) PROVE FALSE
    OBVIOUS
  <2>0. m \in 1 .. Len(s) /\ m - 1 \in 0 .. Len(s)
    BY <1>2
  <2>1. m - 1 \notin T
    <3> HIDE DEF T
    <3> QED BY <1>2, <2>0
  <2>2. PICK i \in (m - 1) + 1 .. Len(s) : ~(s[i].sn > sn)
    BY <2>0, <2>1
  <2>3. i # m /\ i \in m + 1 .. Len(s)
    BY <2>0, <2>2
  <2> QED BY <1>2, <2>2, <2>3
<1> QED BY <1>2, <1>3, Zenon

LEMMA LogDoneExists ==
    ASSUME NEW s, Len(s) \in Nat, \A i \in 1 .. Len(s) : s[i].sn \in Nat, NEW sn \in Int
    PROVE  \E n \in 0 .. Len(s) : /\ n < Len(s) => s[n + 1].sn > sn
                                 /\ \A i \in 1 .. n : s[i].sn <= sn
<1> DEFINE T == {n \in 0 .. Len(s) : n < Len(s) => s[n + 1].sn > sn}
<1>1. T \subseteq Nat /\ Len(s) \in T
  OBVIOUS
<1>2. PICK m \in T : \A k \in T : m <= k
  <2> HIDE DEF T
  <2> QED BY <1>1, LogLeastNat, Zenon
<1>3. \A i \in 1 .. m : s[i].sn <= sn
  <2> SUFFICES ASSUME NEW i \in 1 .. m PROVE s[i].sn <= sn
    OBVIOUS
  <2>1. m \in 0 .. Len(s) /\ i \in 1 .. Len(s) /\ i - 1 \in 0 .. Len(s) /\ i - 1 < m
    BY <1>2
  <2>2. i - 1 \notin T
    <3> HIDE DEF T
    <3> QED BY <1>2, <2>1
  <2>3. ~(s[(i - 1) + 1].sn > sn)
    BY <2>1, <2>2
  <2>4. (i - 1) + 1 = i
    BY <2>1
  <2> QED BY <2>1, <2>3, <2>4
<1> QED BY <1>2, <1>3

LEMMA LogInOrderPart ==
    ASSUME NEW s, Len(s) \in Nat, NEW b, InOrder(s, b), NEW t, Len(t) \in Nat, NEW k \in Nat,
           k + Len(t) <= Len(s), \A i \in 1 .. Len(t) : t[i].sn = s[k + i].sn
    PROVE  InOrder(t, b)
<1>1. \A i \in 1 .. Len(t) : k + i \in 1 .. Len(s)
  OBVIOUS
<1>2. \A i, j \in 1 .. Len(t) : i < j => t[i].sn < t[j].sn
  BY <1>1 DEF InOrder
<1>3. \A i \in 1 .. Len(t) : t[i].sn < b
  BY <1>1 DEF InOrder
<1> QED BY <1>2, <1>3 DEF InOrder

LEMMA LogInOrderAppend ==
    ASSUME NEW S, NEW s \in Seq(S), NEW b \in Nat, InOrder(s, b), NEW x \in S, x.sn = b,
           \A i \in 1 .. Len(s) : s[i].sn \in Nat
    PROVE  InOrder(Append(s, x), b + 1)
<1> DEFINE t == Append(s, x)
<1>1. /\ Len(t) = Len(s) + 1 /\ t[Len(s) + 1].sn = b /\ Len(s) \in Nat
      /\ \A i \in 1 .. Len(s) : t[i].sn = s[i].sn
  BY AppendProperties
<1> HIDE DEF t
<1>2. \A i \in 1 .. Len(t) : i \in 1 .. Len(s) \/ i = Len(s) + 1
  BY <1>1
<1>3. ASSUME NEW i \in 1 .. Len(t), NEW j \in 1 .. Len(t), i < j
      PROVE  t[i].sn < t[j].sn
  <2>1. i \in 1 .. Len(s)
    BY <1>1, <1>2, <1>3
  <2>2. CASE j \in 1 .. Len(s)
    BY <1>1, <1>3, <2>1, <2>2 DEF InOrder
  <2>3. CASE j = Len(s) + 1
    BY <1>1, <2>1, <2>3 DEF InOrder
  <2> QED BY <1>2, <2>2, <2>3
<1>4. \A i \in 1 .. Len(t) : t[i].sn < b + 1
  BY <1>1, <1>2 DEF InOrder
<1> QED BY <1>3, <1>4 DEF InOrder, t

-----------------------------------------------------------------------------
(* Sizes of intervals. *)

LEMMA IntervalSize ==
    ASSUME NEW n \in Nat
    PROVE  IsFiniteSet(1 .. n) /\ Cardinality(1 .. n) = n
<1>1. 1 \in Int /\ n \in Int
  OBVIOUS
<1>2. IsFiniteSet(1 .. n) /\ Cardinality(1 .. n) = IF 1 > n THEN 0 ELSE n - 1 + 1
  BY <1>1, FS_Interval, Zenon
<1> QED BY <1>2

-----------------------------------------------------------------------------
(* Counting the members of a set of positions up to a position. *)

Count(S, i) == Cardinality(S \cap 1 .. i)

LEMMA CountFacts ==
    ASSUME NEW n \in Nat, NEW S \in SUBSET (1 .. n), NEW i \in Nat
    PROVE  /\ IsFiniteSet(S) /\ Cardinality(S) \in Nat /\ Cardinality(S) <= n
           /\ Count(S, i) \in Nat /\ Count(S, i) <= Cardinality(S)
           /\ i >= n => Count(S, i) = Cardinality(S)
           /\ i \in S => Count(S, i) >= 1
<1>1. IsFiniteSet(1 .. n) /\ Cardinality(1 .. n) = n
  BY FS_Interval
<1>2. IsFiniteSet(S) /\ Cardinality(S) <= n
  BY <1>1, FS_Subset, Zenon
<1>3. Cardinality(S) \in Nat
  BY <1>2, FS_CardinalityType
<1>4. IsFiniteSet(S \cap 1 .. i) /\ Count(S, i) <= Cardinality(S)
  BY <1>2, FS_Intersection DEF Count
<1>5. Count(S, i) \in Nat
  BY <1>4, FS_CardinalityType DEF Count
<1>6. ASSUME i >= n PROVE Count(S, i) = Cardinality(S)
  <2>1. \A j \in S : j \in 1 .. i
    BY <1>6
  <2>2. S \cap 1 .. i = S
    BY <2>1, Zenon
  <2> QED BY <2>2 DEF Count
<1>7. ASSUME i \in S PROVE Count(S, i) >= 1
  <2>1. i \in S \cap 1 .. i
    BY <1>7
  <2>2. Count(S, i) # 0
    BY <1>4, <2>1, FS_EmptySet, Zenon DEF Count
  <2> QED BY <1>5, <2>2
<1> QED BY <1>2, <1>3, <1>4, <1>5, <1>6, <1>7

LEMMA CountNone ==
    ASSUME NEW S, NEW i \in Nat, S \cap 1 .. i = {}
    PROVE  Count(S, i) = 0
BY FS_EmptySet DEF Count

\* What is after position k.
LEMMA CountRest ==
    ASSUME NEW n \in Nat, NEW S \in SUBSET (1 .. n), NEW k \in 0 .. n
    PROVE  Cardinality(S \cap k + 1 .. n) = Cardinality(S) - Count(S, k)
<1>1. IsFiniteSet(S)
  BY CountFacts
<1>2. \A j \in S : j \notin 1 .. k <=> j \in k + 1 .. n
  OBVIOUS
<1>3. S \ (1 .. k) = S \cap k + 1 .. n
  BY <1>2, Zenon
<1> QED BY <1>1, <1>3, FS_Difference, Zenon DEF Count

\* The ranks of a prefix are those of the whole.
LEMMA CountPrefix ==
    ASSUME NEW S, NEW k \in Nat, NEW i \in 0 .. k
    PROVE  Count(S \cap 1 .. k, i) = Count(S, i)
<1>1. (S \cap 1 .. k) \cap 1 .. i = S \cap 1 .. i
  OBVIOUS
<1> QED BY <1>1 DEF Count

LEMMA CountBetween ==
    ASSUME NEW n \in Nat, NEW S \in SUBSET (1 .. n), NEW k \in Nat, NEW i \in Nat, k <= i
    PROVE  Cardinality(S \cap k + 1 .. i) = Count(S, i) - Count(S, k)
<1> DEFINE R == S \cap 1 .. i
<1>1. R \in SUBSET (1 .. i)
  OBVIOUS
<1>2. R \cap k + 1 .. i = S \cap k + 1 .. i
  OBVIOUS
<1>3. Count(R, k) = Count(S, k)
  BY CountPrefix
<1>4. Cardinality(R) = Count(S, i)
  BY DEF Count
<1>5. Cardinality(R \cap k + 1 .. i) = Cardinality(R) - Count(R, k)
  <2> HIDE DEF R
  <2> QED BY <1>1, CountRest
<1> QED BY <1>2, <1>3, <1>4, <1>5

\* Ranks after the first k positions were dropped.
LEMMA CountShift ==
    ASSUME NEW n \in Nat, NEW S \in SUBSET (1 .. n), NEW k \in 0 .. n,
           NEW T \in SUBSET (1 .. n - k),
           \A j \in 1 .. n - k : j \in T <=> k + j \in S,
           NEW i \in 0 .. n - k
    PROVE  Count(T, i) = Count(S, k + i) - Count(S, k)
<1> DEFINE A == T \cap 1 .. i
           B == S \cap k + 1 .. k + i
           f == [j \in A |-> k + j]
<1>1. f \in [A -> B]
  OBVIOUS
<1>2. \A a, b \in A : f[a] = f[b] => a = b
  OBVIOUS
<1>3. \A t \in B : \E s \in A : f[s] = t
  <2> SUFFICES ASSUME NEW t \in B PROVE \E s \in A : f[s] = t
    OBVIOUS
  <2>1. t - k \in 1 .. n - k /\ t - k <= i /\ k + (t - k) = t
    OBVIOUS
  <2>2. t - k \in A
    BY <2>1
  <2> QED BY <2>1, <2>2
<1>4. IsFiniteSet(A)
  <2>1. n - k \in Nat
    OBVIOUS
  <2>2. IsFiniteSet(T)
    BY <2>1, CountFacts
  <2> QED BY <2>2, FS_Intersection, Zenon
<1> HIDE DEF A, B, f
<1>5. f \in Bijection(A, B)
  BY <1>1, <1>2, <1>3, Zenon DEF Bijection, Injection, Surjection, IsInjective
<1>6. Cardinality(B) = Cardinality(A)
  BY <1>4, <1>5, FS_Bijection, Zenon DEF ExistsBijection
<1>7. Cardinality(B) = Count(S, k + i) - Count(S, k)
  <2>1. k \in Nat /\ k + i \in Nat /\ k <= k + i
    OBVIOUS
  <2> QED BY <2>1, CountBetween, Zenon DEF B
<1> QED BY <1>6, <1>7 DEF Count, A

\* A new last position.
LEMMA CountAdd ==
    ASSUME NEW n \in Nat, NEW S \in SUBSET (1 .. n), NEW x \in Nat, x > n
    PROVE  /\ Cardinality(S \cup {x}) = Cardinality(S) + 1
           /\ Count(S \cup {x}, x) = Cardinality(S) + 1
           /\ \A i \in S : Count(S \cup {x}, i) = Count(S, i)
<1>1. IsFiniteSet(S) /\ x \notin S
  BY CountFacts
<1>2. Cardinality(S \cup {x}) = Cardinality(S) + 1
  BY <1>1, FS_AddElement
<1>3. (S \cup {x}) \cap 1 .. x = S \cup {x}
  <2>1. \A j \in S \cup {x} : j \in 1 .. x
    OBVIOUS
  <2> QED BY <2>1, Zenon
<1>4. \A i \in S : (S \cup {x}) \cap 1 .. i = S \cap 1 .. i
  OBVIOUS
<1> QED BY <1>2, <1>3, <1>4 DEF Count

\* Every rank is taken.
LEMMA CountOnto ==
    ASSUME NEW n \in Nat, NEW S \in SUBSET (1 .. n), NEW k \in 1 .. Cardinality(S)
    PROVE  \E i \in S : Count(S, i) = k
<1> DEFINE T == {i \in 0 .. n : Count(S, i) >= k}
<1>1. \A i \in Nat : Count(S, i) \in Nat /\ (i >= n => Count(S, i) = Cardinality(S))
  BY CountFacts
<1>1a. Cardinality(S) \in Nat
  BY CountFacts
<1>2. n \in T /\ T \subseteq Nat
  BY <1>1, <1>1a
<1>3. PICK m \in T : \A i \in T : m <= i
  <2> HIDE DEF T
  <2> QED BY <1>2, LogLeastNat, Zenon
<1>4. m # 0
  <2>1. S \cap 1 .. 0 = {}
    OBVIOUS
  <2>2. Count(S, 0) = 0
    BY <2>1, CountNone
  <2> QED BY <1>3, <2>2
<1>5. m \in 1 .. n /\ m - 1 \in 0 .. n /\ m - 1 \in Nat
  BY <1>3, <1>4
<1>6. m - 1 \notin T
  <2> HIDE DEF T
  <2> QED BY <1>3, <1>5
<1>7. Count(S, m - 1) < k /\ Count(S, m) >= k
  BY <1>1, <1>3, <1>5, <1>6
<1>8. Cardinality(S \cap (m - 1) + 1 .. m) = Count(S, m) - Count(S, m - 1)
  <2>1. m \in Nat /\ m - 1 <= m
    BY <1>5
  <2> QED BY <1>5, <2>1, CountBetween, Zenon
<1>9. S \cap (m - 1) + 1 .. m = S \cap {m}
  BY <1>5
<1>10. CASE m \in S
  <2>1. S \cap {m} = {m}
    BY <1>10
  <2>2. Cardinality({m}) = 1
    BY FS_Singleton, Zenon
  <2>3. Count(S, m) = k
    BY <1>1, <1>1a, <1>5, <1>7, <1>8, <1>9, <2>1, <2>2
  <2> QED BY <1>10, <2>3
<1>11. CASE m \notin S
  <2>1. S \cap {m} = {}
    BY <1>11
  <2>2. Cardinality({}) = 0
    BY FS_EmptySet
  <2> QED BY <1>1, <1>5, <1>7, <1>8, <1>9, <2>1, <2>2
<1> QED BY <1>10, <1>11

LEMMA RankRange ==
    ASSUME NEW n \in Nat, NEW S \in SUBSET (1 .. n)
    PROVE  IsFiniteSet(S) /\ Cardinality(S) \in Nat /\ \A i \in S : Count(S, i) \in 1 .. Cardinality(S)
<1>1. IsFiniteSet(S) /\ Cardinality(S) \in Nat
  BY CountFacts
<1>2. ASSUME NEW i \in S PROVE Count(S, i) \in 1 .. Cardinality(S)
  <2>1. i \in Nat
    OBVIOUS
  <2>2. Count(S, i) \in Nat /\ Count(S, i) <= Cardinality(S) /\ Count(S, i) >= 1
    BY <1>2, <2>1, CountFacts, Zenon
  <2> QED BY <1>1, <2>2
<1> QED BY <1>1, <1>2

-----------------------------------------------------------------------------
(* The updates of the histories at the positions M of hs, then of those at the *)
(* positions F of the queue q, each at its rank.                               *)

Ranked(log, M, hs, F, q) ==
    /\ Len(log) = Cardinality(M) + Cardinality(F)
    /\ \A i \in M : log[Count(M, i)] = hs[i].id
    /\ \A i \in F : log[Cardinality(M) + Count(F, i)] = q[i].hist.id

\* The histories of the queue are undone.
LEMMA RankedDropQueue ==
    ASSUME NEW I, NEW log \in Seq(I), NEW m \in Nat, NEW M \in SUBSET (1 .. m),
           NEW n \in Nat, NEW F \in SUBSET (1 .. n), NEW hs, NEW q, NEW q2,
           Ranked(log, M, hs, F, q)
    PROVE  /\ SubSeq(log, 1, Len(log) - Cardinality(F)) \in Seq(I)
           /\ Ranked(SubSeq(log, 1, Len(log) - Cardinality(F)), M, hs, {}, q2)
<1>1. Cardinality(M) \in Nat /\ \A i \in M : Count(M, i) \in 1 .. Cardinality(M)
  BY RankRange, Zenon
<1>2. Cardinality(F) \in Nat /\ Cardinality({}) = 0
  BY RankRange, FS_EmptySet, Zenon
<1>3. Len(log) - Cardinality(F) = Cardinality(M) /\ Cardinality(M) \in 0 .. Len(log)
  BY <1>1, <1>2 DEF Ranked
<1> DEFINE log2 == SubSeq(log, 1, Len(log) - Cardinality(F))
<1>4. /\ log2 \in Seq(I) /\ Len(log2) = Cardinality(M)
      /\ \A i \in 1 .. Cardinality(M) : log2[i] = log[i]
  BY <1>3, LogPrefix
<1> HIDE DEF log2
<1>5. \A i \in M : log2[Count(M, i)] = hs[i].id
  BY <1>1, <1>4 DEF Ranked
<1>6. Ranked(log2, M, hs, {}, q2)
  BY <1>1, <1>2, <1>4, <1>5 DEF Ranked
<1> QED BY <1>4, <1>6 DEF log2

\* The histories after position k are undone.
LEMMA RankedDropYoungest ==
    ASSUME NEW I, NEW log \in Seq(I), NEW m \in Nat, NEW M \in SUBSET (1 .. m), NEW k \in 0 .. m,
           NEW hs, NEW hs2, \A i \in M : i <= k => hs2[i].id = hs[i].id, NEW q, NEW q2,
           Ranked(log, M, hs, {}, q)
    PROVE  LET log2 == SubSeq(log, 1, Len(log) - Cardinality(M \cap k + 1 .. m))
           IN  log2 \in Seq(I) /\ Ranked(log2, M \cap 1 .. k, hs2, {}, q2)
<1> DEFINE M2 == M \cap 1 .. k
           log2 == SubSeq(log, 1, Len(log) - Cardinality(M \cap k + 1 .. m))
<1>0. k \in Nat /\ M2 \in SUBSET (1 .. k)
  OBVIOUS
<1>1. Cardinality(M) \in Nat /\ Count(M, k) \in Nat /\ Count(M, k) <= Cardinality(M)
  BY <1>0, CountFacts, Zenon
<1>2. Cardinality({}) = 0 /\ Len(log) = Cardinality(M)
  BY <1>1, FS_EmptySet DEF Ranked
<1>3. Len(log) - Cardinality(M \cap k + 1 .. m) = Count(M, k) /\ Count(M, k) \in 0 .. Len(log)
  <2>1. Cardinality(M \cap k + 1 .. m) = Cardinality(M) - Count(M, k)
    BY CountRest, Zenon
  <2> QED BY <1>1, <1>2, <2>1
<1>4. /\ log2 \in Seq(I) /\ Len(log2) = Count(M, k)
      /\ \A i \in 1 .. Count(M, k) : log2[i] = log[i]
  BY <1>3, LogPrefix, Zenon
<1>5. Cardinality(M2) = Count(M, k)
  BY DEF Count
<1>6. \A i \in M2 : Count(M2, i) = Count(M, i)
  <2> SUFFICES ASSUME NEW i \in M2 PROVE Count(M2, i) = Count(M, i)
    BY Zenon
  <2>1. i \in 0 .. k
    OBVIOUS
  <2> QED BY <1>0, <2>1, CountPrefix
<1> HIDE DEF log2
<1>7. \A i \in M2 : log2[Count(M2, i)] = hs2[i].id
  <2> SUFFICES ASSUME NEW i \in M2 PROVE log2[Count(M2, i)] = hs2[i].id
    BY Zenon
  <2>1. i \in M /\ i <= k
    OBVIOUS
  <2> HIDE DEF M2
  <2>2. Count(M2, i) \in 1 .. Cardinality(M2)
    BY <1>0, RankRange, Zenon
  <2>3. log2[Count(M2, i)] = log[Count(M, i)]
    BY <1>4, <1>5, <1>6, <2>2
  <2> QED BY <2>1, <2>3, Zenon DEF Ranked
<1>8. Ranked(log2, M2, hs2, {}, q2)
  <2> HIDE DEF M2
  <2> QED BY <1>1, <1>2, <1>4, <1>5, <1>7 DEF Ranked
<1> QED BY <1>4, <1>8, Zenon DEF log2

\* The log of a + f entries, a of them of the list, has lost c of those.
RankShift(a, b, c, f, len, r) ==
    /\ a \in Nat /\ b \in Nat /\ c \in Nat /\ f \in Nat /\ r \in 1 .. f
    /\ b = a - c /\ len = a + f

\* The position of a target's entry once the first c entries are gone.
LEMMA SuffixRank ==
    ASSUME NEW a, NEW b, NEW c, NEW f, NEW len, NEW r, RankShift(a, b, c, f, len, r)
    PROVE  b + r \in 1 .. len - c /\ c + (b + r) = a + r
  BY DEF RankShift

\* The first k histories have committed.
LEMMA RankedDropOldest ==
    ASSUME NEW I, NEW log \in Seq(I), NEW m \in Nat, NEW M \in SUBSET (1 .. m), NEW k \in 0 .. m,
           NEW n \in Nat, NEW F \in SUBSET (1 .. n), NEW q, NEW hs, NEW hs2,
           \A j \in 1 .. m - k : hs2[j].id = hs[k + j].id,
           NEW M2 \in SUBSET (1 .. m - k), \A j \in 1 .. m - k : j \in M2 <=> k + j \in M,
           Ranked(log, M, hs, F, q)
    PROVE  LET log2 == SubSeq(log, Count(M, k) + 1, Len(log))
           IN  log2 \in Seq(I) /\ Ranked(log2, M2, hs2, F, q)
<1> DEFINE c == Count(M, k)
           log2 == SubSeq(log, c + 1, Len(log))
<1>0. k \in Nat /\ m - k \in Nat
  OBVIOUS
<1>1. /\ Cardinality(M) \in Nat /\ c \in Nat /\ c <= Cardinality(M)
      /\ Count(M, m) = Cardinality(M)
  <2>1. m >= m
    OBVIOUS
  <2> QED BY <1>0, <2>1, CountFacts, Zenon
<1>2. Cardinality(F) \in Nat /\ \A i \in F : Count(F, i) \in 1 .. Cardinality(F)
  BY RankRange, Zenon
<1>3. \A i \in 0 .. m - k : Count(M2, i) = Count(M, k + i) - c
  BY CountShift
<1>4. Cardinality(M2) = Cardinality(M) - c
  <2>0. m - k >= m - k
    BY <1>0
  <2>1. Count(M2, m - k) = Cardinality(M2)
    BY <1>0, <2>0, CountFacts, Zenon
  <2>2. m - k \in 0 .. m - k /\ k + (m - k) = m
    BY <1>0
  <2> QED BY <1>1, <1>3, <2>1, <2>2
<1>5. \A j \in M2 : Count(M2, j) \in 1 .. Cardinality(M2)
  BY <1>0, RankRange, Zenon
<1> HIDE DEF c
<1>6. Len(log) = Cardinality(M) + Cardinality(F) /\ c \in 0 .. Len(log)
  BY <1>1, <1>2 DEF Ranked
<1>7. /\ log2 \in Seq(I) /\ Len(log2) = Len(log) - c
      /\ \A i \in 1 .. Len(log) - c : log2[i] = log[c + i]
  BY <1>6, LogSuffix, Zenon
<1> HIDE DEF log2
<1>8. ASSUME NEW j \in M2 PROVE log2[Count(M2, j)] = hs2[j].id
  <2>1. j \in 0 .. m - k /\ j \in 1 .. m - k /\ k + j \in M
    BY <1>0
  <2>2. c + Count(M2, j) = Count(M, k + j)
    <3>0. k + j \in Nat
      BY <1>0, <2>1
    <3>1. Count(M, k + j) \in Nat
      BY <3>0, CountFacts, Zenon
    <3> QED BY <1>1, <1>3, <2>1, <3>1
  <2>3. Count(M2, j) \in 1 .. Len(log) - c
    BY <1>1, <1>2, <1>4, <1>5, <1>6
  <2>4. log[Count(M, k + j)] = hs[k + j].id
    BY <2>1 DEF Ranked
  <2> QED BY <1>7, <2>1, <2>2, <2>3, <2>4
<1>8a. Cardinality(M2) \in Nat
  <2>1. \A a, b \in Nat : b <= a => a - b \in Nat
    OBVIOUS
  <2> QED BY <1>1, <1>4, <2>1, Zenon
<1>9. ASSUME NEW i \in F PROVE log2[Cardinality(M2) + Count(F, i)] = q[i].hist.id
  <2>1. Count(F, i) \in 1 .. Cardinality(F)
    BY <1>2
  <2>2. /\ Cardinality(M2) + Count(F, i) \in 1 .. Len(log) - c
        /\ c + (Cardinality(M2) + Count(F, i)) = Cardinality(M) + Count(F, i)
    <3>1. RankShift(Cardinality(M), Cardinality(M2), c, Cardinality(F), Len(log), Count(F, i))
      BY <1>1, <1>2, <1>4, <1>6, <1>8a, <2>1, Zenon DEF RankShift
    <3> QED BY <3>1, SuffixRank
  <2>3. log[Cardinality(M) + Count(F, i)] = q[i].hist.id
    BY DEF Ranked
  <2> QED BY <1>7, <2>2, <2>3
<1>10. Len(log2) = Cardinality(M2) + Cardinality(F)
  BY <1>1, <1>2, <1>4, <1>6, <1>7
<1> QED BY <1>7, <1>8, <1>9, <1>10, Zenon DEF Ranked, log2, c

\* A target with a history is inserted behind the others.
LEMMA RankedAddTarget ==
    ASSUME NEW I, NEW log \in Seq(I), NEW id \in I, NEW m \in Nat, NEW M \in SUBSET (1 .. m),
           NEW n \in Nat, NEW F \in SUBSET (1 .. n), NEW hs, NEW q, NEW q2,
           \A i \in F : q2[i].hist.id = q[i].hist.id, q2[n + 1].hist.id = id,
           Ranked(log, M, hs, F, q)
    PROVE  Ranked(Append(log, id), M, hs, F \cup {n + 1}, q2)
<1> DEFINE log2 == Append(log, id)
           F2 == F \cup {n + 1}
<1>1. Cardinality(M) \in Nat /\ \A i \in M : Count(M, i) \in 1 .. Cardinality(M)
  BY RankRange, Zenon
<1>2. Cardinality(F) \in Nat /\ \A i \in F : Count(F, i) \in 1 .. Cardinality(F)
  BY RankRange, Zenon
<1>3. n + 1 \in Nat /\ n + 1 > n
  OBVIOUS
<1>4. /\ Cardinality(F2) = Cardinality(F) + 1
      /\ Count(F2, n + 1) = Cardinality(F) + 1
      /\ \A i \in F : Count(F2, i) = Count(F, i)
  BY <1>3, CountAdd, Zenon
<1>5. Len(log) = Cardinality(M) + Cardinality(F)
  BY DEF Ranked
<1>6. /\ Len(log2) = Len(log) + 1 /\ log2[Len(log) + 1] = id
      /\ \A i \in 1 .. Len(log) : log2[i] = log[i]
  BY AppendProperties
<1> HIDE DEF log2
<1>7. ASSUME NEW i \in M PROVE log2[Count(M, i)] = hs[i].id
  <2>1. Count(M, i) \in 1 .. Len(log)
    BY <1>1, <1>2, <1>5
  <2> QED BY <1>6, <2>1 DEF Ranked
<1>8. ASSUME NEW i \in F2 PROVE log2[Cardinality(M) + Count(F2, i)] = q2[i].hist.id
  <2>1. CASE i \in F
    <3>0. Count(F, i) \in 1 .. Cardinality(F) /\ Count(F2, i) = Count(F, i)
      BY <1>2, <1>4, <2>1, Zenon
    <3>1. Cardinality(M) + Count(F, i) \in 1 .. Len(log)
      BY <1>1, <1>2, <1>5, <3>0
    <3>2. log[Cardinality(M) + Count(F, i)] = q[i].hist.id
      BY <2>1, Zenon DEF Ranked
    <3> QED BY <1>6, <2>1, <3>0, <3>1, <3>2, Zenon
  <2>2. CASE i = n + 1
    <3>1. Cardinality(M) + Count(F2, i) = Len(log) + 1
      BY <1>1, <1>2, <1>4, <1>5, <2>2
    <3> QED BY <1>6, <2>2, <3>1
  <2> QED BY <2>1, <2>2
<1> HIDE DEF F2
<1>9. Len(log2) = Cardinality(M) + Cardinality(F2)
  BY <1>1, <1>2, <1>4, <1>5, <1>6
<1>10. Ranked(log2, M, hs, F2, q2)
  BY <1>7, <1>8, <1>9, Zenon DEF Ranked
<1> QED BY <1>10 DEF log2, F2

\* A history with an update is added while the queue holds none.
LEMMA RankedAddHist ==
    ASSUME NEW I, NEW log \in Seq(I), NEW id \in I, NEW m \in Nat, NEW M \in SUBSET (1 .. m),
           NEW hs, NEW hs2, \A i \in M : hs2[i].id = hs[i].id, NEW q, NEW q2,
           NEW x \in Nat, x > m, hs2[x].id = id,
           Ranked(log, M, hs, {}, q)
    PROVE  Ranked(Append(log, id), M \cup {x}, hs2, {}, q2)
<1> DEFINE log2 == Append(log, id)
           M2 == M \cup {x}
<1>1. Cardinality(M) \in Nat /\ \A i \in M : Count(M, i) \in 1 .. Cardinality(M)
  BY RankRange, Zenon
<1>2. /\ Cardinality(M2) = Cardinality(M) + 1
      /\ Count(M2, x) = Cardinality(M) + 1
      /\ \A i \in M : Count(M2, i) = Count(M, i)
  BY CountAdd, Zenon
<1>3. Cardinality({}) = 0
  BY FS_EmptySet
<1>4. Len(log) = Cardinality(M)
  BY <1>1, <1>3 DEF Ranked
<1>5. /\ Len(log2) = Len(log) + 1 /\ log2[Len(log) + 1] = id
      /\ \A i \in 1 .. Len(log) : log2[i] = log[i]
  BY AppendProperties
<1> HIDE DEF log2
<1>6. ASSUME NEW i \in M2 PROVE log2[Count(M2, i)] = hs2[i].id
  <2>1. CASE i \in M
    <3>1. Count(M2, i) \in 1 .. Len(log) /\ Count(M2, i) = Count(M, i)
      BY <1>1, <1>2, <1>4, <2>1, Zenon
    <3>2. log[Count(M, i)] = hs[i].id
      BY <2>1 DEF Ranked
    <3> QED BY <1>5, <2>1, <3>1, <3>2
  <2>2. CASE i = x
    BY <1>2, <1>4, <1>5, <2>2
  <2> QED BY <2>1, <2>2
<1> HIDE DEF M2
<1>7. Len(log2) = Cardinality(M2) + Cardinality({})
  BY <1>1, <1>2, <1>3, <1>4, <1>5
<1>8. Ranked(log2, M2, hs2, {}, q2)
  BY <1>6, <1>7, Zenon DEF Ranked
<1> QED BY <1>8 DEF log2, M2

\* The history of the head of the queue moves to the list.
LEMMA RankedMove ==
    ASSUME NEW log, NEW m \in Nat, NEW M \in SUBSET (1 .. m),
           NEW n \in Nat, NEW F \in SUBSET (1 .. n), 1 \in F, NEW q, NEW q2,
           \A i \in F \ {1} : q2[i].hist.id = q[i].hist.id,
           NEW hs, NEW hs2, \A i \in M : hs2[i].id = hs[i].id,
           NEW x \in Nat, x > m, hs2[x].id = q[1].hist.id,
           Ranked(log, M, hs, F, q)
    PROVE  Ranked(log, M \cup {x}, hs2, F \ {1}, q2)
<1> DEFINE M2 == M \cup {x}
           F2 == F \ {1}
<1>1. Cardinality(M) \in Nat /\ \A i \in M : Count(M, i) \in 1 .. Cardinality(M)
  BY RankRange, Zenon
<1>2. /\ Cardinality(M2) = Cardinality(M) + 1
      /\ Count(M2, x) = Cardinality(M) + 1
      /\ \A i \in M : Count(M2, i) = Count(M, i)
  BY CountAdd, Zenon
<1>3. IsFiniteSet(F) /\ Cardinality(F) \in Nat
  BY RankRange, Zenon
<1>4. Cardinality(F2) = Cardinality(F) - 1
  BY <1>3, FS_RemoveElement, Zenon
<1>5. \A i \in F : Count(F, i) \in Nat /\ IsFiniteSet(F \cap 1 .. i)
  <2>1. \A i \in F : Count(F, i) \in 1 .. Cardinality(F)
    BY RankRange, Zenon
  <2>2. \A i \in F : IsFiniteSet(F \cap 1 .. i)
    BY <1>3, FS_Intersection, Zenon
  <2>3. \A i \in F : Count(F, i) \in Nat
    <3> HIDE DEF M2, F2
    <3> QED BY <2>1
  <2> QED BY <2>2, <2>3, Zenon
<1>6. ASSUME NEW i \in F2 PROVE Count(F2, i) = Count(F, i) - 1
  <2>1. F2 \cap 1 .. i = (F \cap 1 .. i) \ {1}
    OBVIOUS
  <2>2. 1 \in F \cap 1 .. i /\ i \in F
    OBVIOUS
  <2> HIDE DEF F2
  <2>3. IsFiniteSet(F \cap 1 .. i)
    BY <1>5, <2>2, Zenon
  <2>4. Cardinality((F \cap 1 .. i) \ {1}) = Cardinality(F \cap 1 .. i) - 1
    BY <2>2, <2>3, FS_RemoveElement, Zenon
  <2> QED BY <2>1, <2>4, Zenon DEF Count
<1>7. Count(F, 1) = 1
  <2>1. F \cap 1 .. 1 = {1}
    OBVIOUS
  <2> QED BY <2>1, FS_Singleton, Zenon DEF Count
<1>8. ASSUME NEW i \in M2 PROVE log[Count(M2, i)] = hs2[i].id
  <2>1. CASE i \in M
    BY <1>2, <2>1, Zenon DEF Ranked
  <2>2. CASE i = x
    BY <1>2, <1>7, <2>2, Zenon DEF Ranked
  <2> QED BY <2>1, <2>2, Zenon
<1>9. ASSUME NEW i \in F2 PROVE log[Cardinality(M2) + Count(F2, i)] = q2[i].hist.id
  <2>1. i \in F
    OBVIOUS
  <2>2. Count(F, i) \in Nat /\ Count(F2, i) = Count(F, i) - 1
    BY <1>5, <1>6, <2>1, Zenon
  <2>3. Cardinality(M2) + Count(F2, i) = Cardinality(M) + Count(F, i)
    BY <1>1, <1>2, <2>2
  <2> QED BY <2>1, <2>3, Zenon DEF Ranked
<1> HIDE DEF M2, F2
<1>10. Len(log) = Cardinality(M2) + Cardinality(F2)
  <2>1. Len(log) = Cardinality(M) + Cardinality(F)
    BY Zenon DEF Ranked
  <2>2. \A a, b \in Nat : (a + 1) + (b - 1) = a + b
    OBVIOUS
  <2>3. Cardinality(M2) + Cardinality(F2) = (Cardinality(M) + 1) + (Cardinality(F) - 1)
    BY <1>2, <1>4, Zenon
  <2>4. (Cardinality(M) + 1) + (Cardinality(F) - 1) = Cardinality(M) + Cardinality(F)
    BY <1>1, <1>3, <2>2, Zenon
  <2> QED BY <2>1, <2>3, <2>4, Zenon
<1>11. Ranked(log, M2, hs2, F2, q2)
  BY <1>8, <1>9, <1>10, Zenon DEF Ranked
<1> QED BY <1>11 DEF M2, F2

\* A head without a history is popped.
LEMMA RankedPop ==
    ASSUME NEW log, NEW M, NEW hs, NEW n \in Nat, n >= 1, NEW F \in SUBSET (1 .. n), 1 \notin F,
           NEW F2 \in SUBSET (1 .. n - 1), \A j \in 1 .. n - 1 : j \in F2 <=> 1 + j \in F,
           NEW q, NEW q2, \A j \in 1 .. n - 1 : q2[j] = q[1 + j],
           Ranked(log, M, hs, F, q)
    PROVE  Ranked(log, M, hs, F2, q2)
<1>0. 1 \in 0 .. n /\ n - 1 \in Nat
  OBVIOUS
<1>1. Count(F, 1) = 0
  <2>1. F \cap 1 .. 1 = {}
    OBVIOUS
  <2> QED BY <2>1, CountNone
<1>2. ASSUME NEW i \in 0 .. n - 1 PROVE Count(F2, i) = Count(F, 1 + i)
  <2>1. Count(F2, i) = Count(F, 1 + i) - Count(F, 1)
    BY <1>0, CountShift, Zenon
  <2>2. 1 + i \in Nat
    OBVIOUS
  <2>3. Count(F, 1 + i) \in Nat
    BY <2>2, CountFacts, Zenon
  <2> QED BY <1>1, <2>1, <2>3
<1>3. Cardinality(F2) = Cardinality(F)
  <2>1. n - 1 >= n - 1 /\ n >= n /\ 1 + (n - 1) = n /\ n - 1 \in 0 .. n - 1
    BY <1>0
  <2>2. Count(F2, n - 1) = Cardinality(F2) /\ Count(F, n) = Cardinality(F)
    BY <1>0, <2>1, CountFacts, Zenon
  <2> QED BY <1>2, <2>1, <2>2
<1>4. ASSUME NEW j \in F2 PROVE log[Cardinality(M) + Count(F2, j)] = q2[j].hist.id
  <2>1. j \in 1 .. n - 1 /\ j \in 0 .. n - 1 /\ 1 + j \in F
    OBVIOUS
  <2> QED BY <1>2, <2>1 DEF Ranked
<1> QED BY <1>3, <1>4, Zenon DEF Ranked

\* Nothing else is in the log.
LEMMA RankedOnto ==
    ASSUME NEW log, NEW m \in Nat, NEW M \in SUBSET (1 .. m), NEW hs,
           NEW n \in Nat, NEW F \in SUBSET (1 .. n), NEW q, Ranked(log, M, hs, F, q),
           NEW C, \A i \in M : hs[i].id \in C, \A i \in F : q[i].hist.id \in C
    PROVE  \A k \in 1 .. Len(log) : log[k] \in C
<1> DEFINE c == Cardinality(M)
           d == Cardinality(F)
<1>1. c \in Nat /\ d \in Nat
  BY RankRange, Zenon
<1>2. /\ Len(log) = c + d
      /\ \A i \in M : log[Count(M, i)] = hs[i].id
      /\ \A i \in F : log[c + Count(F, i)] = q[i].hist.id
  BY Zenon DEF Ranked
<1> HIDE DEF c, d
<1> TAKE k \in 1 .. Len(log)
<1>3. k \in 1 .. c \/ k - c \in 1 .. d
  BY <1>1, <1>2
<1>4. CASE k \in 1 .. c
  <2>1. PICK i \in M : Count(M, i) = k
    BY <1>4, CountOnto DEF c
  <2> QED BY <1>2, <2>1, Zenon
<1>5. CASE k - c \in 1 .. d
  <2>1. PICK i \in F : Count(F, i) = k - c
    BY <1>5, CountOnto, Zenon DEF d
  <2>2. c + Count(F, i) = k
    BY <1>1, <2>1
  <2> QED BY <1>2, <2>1, <2>2, Zenon
<1> QED BY <1>3, <1>4, <1>5

-----------------------------------------------------------------------------
(* A new name. *)

\* A list whose sequence numbers increase is no longer than there are numbers.
LEMMA IncreasingLength ==
    ASSUME NEW s, Len(s) \in Nat, NEW b \in Nat, \A i \in 1 .. Len(s) : s[i].sn \in 1 .. b,
           \A i, j \in 1 .. Len(s) : i < j => s[i].sn < s[j].sn
    PROVE  Len(s) <= b
<1> DEFINE f == [i \in 1 .. Len(s) |-> s[i].sn]
<1>1. f \in [1 .. Len(s) -> 1 .. b]
  OBVIOUS
<1>2. ASSUME NEW i \in 1 .. Len(s), NEW j \in 1 .. Len(s), f[i] = f[j] PROVE i = j
  BY <1>2
<1>3. f \in Injection(1 .. Len(s), 1 .. b)
  BY <1>1, <1>2, Zenon DEF Injection, IsInjective
<1>4. Cardinality(1 .. Len(s)) <= Cardinality(1 .. b) /\ Cardinality(1 .. b) = b
      /\ Cardinality(1 .. Len(s)) = Len(s)
  <2>1. IsFiniteSet(1 .. b) /\ Cardinality(1 .. b) = b /\ Cardinality(1 .. Len(s)) = Len(s)
    BY IntervalSize, Zenon
  <2> DEFINE S == 1 .. Len(s)
             T == 1 .. b
  <2>2. f \in Injection(S, T) /\ IsFiniteSet(T)
    BY <1>3, <2>1
  <2> HIDE DEF f, S, T
  <2>3. Cardinality(S) <= Cardinality(T)
    BY <2>2, FS_Injection
  <2> QED BY <2>1, <2>3 DEF S, T
<1> QED BY <1>4

LEMMA ImageSize ==
    ASSUME NEW S, IsFiniteSet(S), NEW T, NEW f \in [S -> T], \A t \in T : \E x \in S : f[x] = t
    PROVE  IsFiniteSet(T) /\ Cardinality(T) \in Nat /\ Cardinality(T) <= Cardinality(S)
<1>1. f \in Surjection(S, T)
  BY Zenon DEF Surjection
<1>2. IsFiniteSet(T) /\ Cardinality(T) <= Cardinality(S)
  BY <1>1, FS_Surjection, Zenon
<1> QED BY <1>2, FS_CardinalityType, Zenon

LEMMA FreshExists ==
    ASSUME NEW N \in Nat, NEW A, IsFiniteSet(A), NEW B, IsFiniteSet(B),
           Cardinality(A) + Cardinality(B) < N
    PROVE  \E x \in 1 .. N : x \notin A \cup B
<1>1. /\ IsFiniteSet(A \cup B) /\ IsFiniteSet(A \cap B)
      /\ Cardinality(A \cup B) = Cardinality(A) + Cardinality(B) - Cardinality(A \cap B)
  <2>1. A \cap B \in SUBSET A
    OBVIOUS
  <2> QED BY <2>1, FS_Union, FS_Subset, Zenon
<1>2. Cardinality(A) \in Nat /\ Cardinality(B) \in Nat /\ Cardinality(A \cap B) \in Nat
  BY <1>1, FS_CardinalityType, Zenon
<1>3. SUFFICES ASSUME 1 .. N \in SUBSET (A \cup B) PROVE FALSE
  BY Zenon
<1>4. Cardinality(1 .. N) <= Cardinality(A \cup B)
  BY <1>1, <1>3, FS_Subset, Zenon
<1>5. Cardinality(1 .. N) = N
  BY FS_Interval
<1> QED BY <1>1, <1>2, <1>4, <1>5

-----------------------------------------------------------------------------
(* What the operations on histories do to the log. *)

MSet(hs) == {i \in DOMAIN hs : hs[i].modified}

LEMMA Positions ==
    ASSUME NEW hs \in Seq(History), NEW q, IsSeq(q)
    PROVE  /\ Len(hs) \in Nat /\ MSet(hs) \in SUBSET (1 .. Len(hs))
           /\ Len(q) \in Nat /\ FTHist(q) \in SUBSET (1 .. Len(q))
           /\ \A i \in 1 .. Len(hs) : i \in MSet(hs) <=> hs[i].modified
           /\ \A i \in 1 .. Len(q) : i \in FTHist(q) <=> q[i].hist # None
<1>1. Len(hs) \in Nat /\ DOMAIN hs = 1 .. Len(hs)
  OBVIOUS
<1>2. Len(q) \in Nat /\ DOMAIN q = 1 .. Len(q)
  BY LogLenIsNat
<1> QED BY <1>1, <1>2, Zenon DEF MSet, FTHist

LEMMA InForceRanked ==
    ASSUME NEW log, NEW hs \in Seq(History), NEW q, IsSeq(q)
    PROVE  InForce(log, hs, q) <=> Ranked(log, MSet(hs), hs, FTHist(q), q)
<1>1. DOMAIN hs = 1 .. Len(hs) /\ Len(hs) \in Nat
  OBVIOUS
<1>2. Modified(hs, DOMAIN hs) = Cardinality(MSet(hs))
  BY DEF Modified, MSet
<1>3. ASSUME NEW i \in DOMAIN hs PROVE Modified(hs, 1 .. i) = Count(MSet(hs), i)
  <2>1. \A j \in 1 .. i : j \in DOMAIN hs
    BY <1>1
  <2>2. {j \in 1 .. i : hs[j].modified} = MSet(hs) \cap 1 .. i
    BY <2>1, Zenon DEF MSet
  <2> QED BY <2>2, Zenon DEF Modified, Count
<1>4. \A i \in DOMAIN hs : i \in MSet(hs) <=> hs[i].modified
  BY DEF MSet
<1>5. \A i \in MSet(hs) : i \in DOMAIN hs
  BY DEF MSet
<1> QED BY <1>2, <1>3, <1>4, <1>5, Zenon DEF InForce, Ranked, Count

\* squashBpuHistories
LEMMA InForceSquashedFTs ==
    ASSUME NEW log \in Seq(HistId), NEW hs \in Seq(History), IsSeq(ftq),
           InForce(log, hs, ftq), NEW q2, IsSeq(q2), FTHist(q2) = {}
    PROVE  SquashedFTLog(log) \in Seq(HistId) /\ InForce(SquashedFTLog(log), hs, q2)
<1>1. /\ Len(hs) \in Nat /\ MSet(hs) \in SUBSET (1 .. Len(hs))
      /\ Len(ftq) \in Nat /\ FTHist(ftq) \in SUBSET (1 .. Len(ftq))
  BY Positions
<1>2. Ranked(log, MSet(hs), hs, FTHist(ftq), ftq)
  BY InForceRanked, Zenon
<1>3. /\ SquashedFTLog(log) \in Seq(HistId)
      /\ Ranked(SquashedFTLog(log), MSet(hs), hs, {}, q2)
  BY <1>1, <1>2, RankedDropQueue, Zenon DEF SquashedFTLog, Undo
<1>4. Ranked(SquashedFTLog(log), MSet(hs), hs, FTHist(q2), q2)
  BY <1>3
<1> QED BY <1>3, <1>4, InForceRanked, Zenon

\* squash(squashed_sn)
LEMMA InForceKept ==
    ASSUME NEW log \in Seq(HistId), NEW hs \in Seq(History), NEW q, IsSeq(q), FTHist(q) = {},
           InForce(log, hs, q), NEW sn \in Int
    PROVE  /\ KeptHist(hs, sn) \in Seq(History) /\ KeptLog(hs, log, sn) \in Seq(HistId)
           /\ InForce(KeptLog(hs, log, sn), KeptHist(hs, sn), q)
<1> DEFINE k == NumKept(hs, sn)
           m == Len(hs)
           kept == KeptHist(hs, sn)
           M == MSet(hs)
<1>1. m \in Nat /\ M \in SUBSET (1 .. m) /\ \A i \in 1 .. m : i \in M <=> hs[i].modified
  BY Positions
<1>2. k \in 0 .. m
  <2>1. \A i \in 1 .. m : hs[i] \in History
    OBVIOUS
  <2>2. \A i \in 1 .. m : hs[i].sn \in Nat
    BY <2>1 DEF History, SeqNum
  <2> QED BY <1>1, <2>2, LogKeptExists, Zenon DEF NumKept
<1>3. kept \in Seq(History) /\ Len(kept) = k /\ \A i \in 1 .. k : kept[i] = hs[i]
  BY <1>2, LogPrefix, Zenon DEF KeptHist
<1>4. Modified(hs, k + 1 .. m) = Cardinality(M \cap k + 1 .. m)
  <2>1. \A i \in k + 1 .. m : i \in 1 .. m
    BY <1>1, <1>2
  <2>2. {i \in k + 1 .. m : hs[i].modified} = M \cap k + 1 .. m
    BY <1>1, <2>1, Zenon
  <2> QED BY <2>2, Zenon DEF Modified
<1> HIDE DEF M
<1>5. Ranked(log, M, hs, {}, q)
  BY InForceRanked, Zenon DEF M
<1>6. \A i \in M : i <= k => kept[i].id = hs[i].id
  <2>1. \A i \in M : i <= k => i \in 1 .. k
    BY <1>1, <1>2
  <2> QED BY <1>3, <2>1, Zenon
<1> DEFINE log2 == KeptLog(hs, log, sn)
<1>7. log2 = Undo(log, Cardinality(M \cap k + 1 .. m))
  BY <1>4 DEF KeptLog
<1>8. MSet(kept) = M \cap 1 .. k
  <2>0. kept \in Seq(History) /\ DOMAIN kept = 1 .. k
    BY <1>3
  <2>1. \A i \in 1 .. k : i \in 1 .. m
    BY <1>1, <1>2
  <2>2. \A i \in 1 .. k : kept[i].modified <=> i \in M
    BY <1>1, <1>3, <2>1
  <2> QED BY <2>0, <2>2, Zenon DEF MSet
<1> HIDE DEF log2, k, m, kept
<1>9. log2 \in Seq(HistId) /\ Ranked(log2, M \cap 1 .. k, kept, {}, q)
  BY <1>1, <1>2, <1>5, <1>6, <1>7, RankedDropYoungest, Zenon DEF Undo
<1>10. InForce(log2, kept, q)
  BY <1>3, <1>8, <1>9, InForceRanked, Zenon
<1> QED BY <1>3, <1>9, <1>10 DEF log2, kept

\* update(done_sn)
LEMMA InForceUpdated ==
    ASSUME NEW log \in Seq(HistId), NEW hs \in Seq(History), NEW q, IsSeq(q),
           InForce(log, hs, q), NEW sn \in Int
    PROVE  /\ UpdatedHist(hs, sn) \in Seq(History) /\ UpdatedLog(hs, log, sn) \in Seq(HistId)
           /\ InForce(UpdatedLog(hs, log, sn), UpdatedHist(hs, sn), q)
<1> DEFINE k == NumDone(hs, sn)
           m == Len(hs)
           upd == UpdatedHist(hs, sn)
           M == MSet(hs)
           M2 == MSet(upd)
<1>1. /\ m \in Nat /\ M \in SUBSET (1 .. m) /\ \A i \in 1 .. m : i \in M <=> hs[i].modified
      /\ Len(q) \in Nat /\ FTHist(q) \in SUBSET (1 .. Len(q))
  BY Positions
<1>2. k \in 0 .. m
  <2>1. \A i \in 1 .. m : hs[i] \in History
    OBVIOUS
  <2>2. \A i \in 1 .. m : hs[i].sn \in Nat
    BY <2>1 DEF History, SeqNum
  <2> QED BY <1>1, <2>2, LogDoneExists, Zenon DEF NumDone
<1>3. upd \in Seq(History) /\ Len(upd) = m - k /\ \A i \in 1 .. m - k : upd[i] = hs[k + i]
  BY <1>2, LogSuffix, Zenon DEF UpdatedHist
<1>4. Modified(hs, 1 .. k) = Count(M, k)
  <2>1. \A i \in 1 .. k : i \in 1 .. m
    BY <1>1, <1>2
  <2>2. {i \in 1 .. k : hs[i].modified} = M \cap 1 .. k
    BY <1>1, <2>1, Zenon
  <2> QED BY <2>2, Zenon DEF Modified, Count
<1> HIDE DEF M
<1>5. Ranked(log, M, hs, FTHist(q), q)
  BY InForceRanked, Zenon DEF M
<1> DEFINE log2 == UpdatedLog(hs, log, sn)
<1>6. log2 = SubSeq(log, Count(M, k) + 1, Len(log))
  BY <1>4, Zenon DEF UpdatedLog
<1> HIDE DEF log2, k, m, upd
<1>7. M2 \in SUBSET (1 .. m - k) /\ \A j \in 1 .. m - k : j \in M2 <=> k + j \in M
  <2>1. M2 \in SUBSET (1 .. Len(upd)) /\ \A i \in 1 .. Len(upd) : i \in M2 <=> upd[i].modified
    BY <1>3, Positions, Zenon
  <2>2. \A j \in 1 .. m - k : k + j \in 1 .. m
    BY <1>1, <1>2
  <2> HIDE DEF M2
  <2> QED BY <1>1, <1>3, <2>1, <2>2
<1>8. \A j \in 1 .. m - k : upd[j].id = hs[k + j].id
  BY <1>3
<1> HIDE DEF M2
<1>9. log2 \in Seq(HistId) /\ Ranked(log2, M2, upd, FTHist(q), q)
  BY <1>1, <1>2, <1>5, <1>6, <1>7, <1>8, RankedDropOldest, Zenon
<1>10. InForce(log2, upd, q)
  BY <1>3, <1>9, InForceRanked, Zenon DEF M2
<1> QED BY <1>3, <1>9, <1>10 DEF log2, upd

\* The correction of the youngest history: its update is undone and made again.
LEMMA InForceCorrected ==
    ASSUME NEW log \in Seq(HistId), NEW hs \in Seq(History), NEW q, IsSeq(q), FTHist(q) = {},
           InForce(log, hs, q)
    PROVE  /\ CorrectedHist(hs) \in Seq(History) /\ CorrectedLog(hs, log) \in Seq(HistId)
           /\ InForce(CorrectedLog(hs, log), CorrectedHist(hs), q)
<1>1. CASE hs = << >>
  BY <1>1 DEF CorrectedHist, CorrectedLog
<1>2. CASE hs # << >>
  <2> DEFINE n == Len(hs)
             e == [hs[n] EXCEPT !.modified = TRUE]
             new == CorrectedHist(hs)
             M == MSet(hs)
             R == M \cap 1 .. n - 1
             undone == IF hs[n].modified THEN Undo(log, 1) ELSE log
  <2>1. n \in 1 .. Len(hs) /\ hs[n] \in History /\ n \in Nat /\ n >= 1
    BY <1>2
  <2>2. e \in History /\ e.id = hs[n].id /\ e.modified = TRUE /\ hs[n].id \in HistId
    BY <2>1, Zenon DEF History
  <2>3. new = [hs EXCEPT ![n] = e]
    BY <1>2 DEF CorrectedHist
  <2>4. CorrectedLog(hs, log) = Append(undone, hs[n].id)
    BY <1>2 DEF CorrectedLog
  <2>5. n \in Nat /\ M \in SUBSET (1 .. n) /\ \A i \in 1 .. n : i \in M <=> hs[i].modified
    BY Positions
  <2>6. Ranked(log, M, hs, {}, q)
    BY InForceRanked, Zenon
  <2> HIDE DEF M, e, new
  <2>7. /\ new \in Seq(History) /\ Len(new) = n
        /\ \A j \in 1 .. n : new[j] = IF j = n THEN e ELSE hs[j]
    BY <2>1, <2>2, <2>3, ExceptSeq
  <2>8. n - 1 \in Nat /\ n - 1 \in 0 .. n /\ n > n - 1 /\ R \in SUBSET (1 .. n - 1)
    BY <2>1
  <2>9. undone \in Seq(HistId) /\ Ranked(undone, R, hs, {}, q)
    <3>1. CASE hs[n].modified
      <4>1. M \cap (n - 1) + 1 .. n = {n}
        <5>1. n \in M /\ (n - 1) + 1 .. n = {n}
          BY <2>1, <2>5, <3>1
        <5> QED BY <5>1
      <4>2. Cardinality({n}) = 1
        BY FS_Singleton, Zenon
      <4>3. \A i \in M : i <= n - 1 => hs[i].id = hs[i].id
        OBVIOUS
      <4> HIDE DEF n
      <4>4. /\ Undo(log, Cardinality(M \cap (n - 1) + 1 .. n)) \in Seq(HistId)
            /\ Ranked(Undo(log, Cardinality(M \cap (n - 1) + 1 .. n)), M \cap 1 .. n - 1, hs, {}, q)
        BY <2>5, <2>6, <2>8, <4>3, RankedDropYoungest, Zenon DEF Undo
      <4> QED BY <3>1, <4>1, <4>2, <4>4, Zenon
    <3>2. CASE ~hs[n].modified
      <4>1. \A i \in M : i # n
        BY <2>1, <2>5, <3>2
      <4>2. \A i \in M : i \in 1 .. n - 1
        BY <2>1, <2>5, <4>1
      <4>3. R = M
        BY <4>2, Zenon
      <4> QED BY <2>6, <3>2, <4>3, Zenon
    <3> QED BY <3>1, <3>2
  <2>10. MSet(new) = R \cup {n}
    <3>1. MSet(new) \in SUBSET (1 .. n) /\ \A i \in 1 .. n : i \in MSet(new) <=> new[i].modified
      BY <2>7, Positions
    <3>2. \A i \in 1 .. n : new[i].modified <=> i = n \/ i \in M
      BY <2>2, <2>5, <2>7
    <3>3. \A i \in 1 .. n : i \in R \cup {n} <=> i = n \/ i \in M
      BY <2>5
    <3> QED BY <2>1, <2>8, <3>1, <3>2, <3>3
  <2>11. (\A i \in R : new[i].id = hs[i].id) /\ new[n].id = hs[n].id
    BY <2>1, <2>2, <2>5, <2>7, Zenon
  <2> HIDE DEF R, undone
  <2>12. Ranked(Append(undone, hs[n].id), R \cup {n}, new, {}, q)
    <3> HIDE DEF n
    <3> QED BY <2>2, <2>5, <2>8, <2>9, <2>11, RankedAddHist, Zenon
  <2>13. Append(undone, hs[n].id) \in Seq(HistId)
    BY <2>2, <2>9, AppendProperties, Zenon
  <2>14. InForce(Append(undone, hs[n].id), new, q)
    BY <2>7, <2>10, <2>12, InForceRanked, Zenon
  <2> QED BY <2>4, <2>7, <2>13, <2>14 DEF new
<1> QED BY <1>1, <1>2

\* insertPredictorHistory without an update, or with one when the queue holds none.
LEMMA InForceInsert ==
    ASSUME NEW log \in Seq(HistId), NEW hs \in Seq(History), NEW q, IsSeq(q), InForce(log, hs, q),
           NEW sn \in SeqNum, NEW id \in HistId
    PROVE  /\ Append(hs, [sn |-> sn, id |-> id, modified |-> FALSE]) \in Seq(History)
           /\ InForce(log, Append(hs, [sn |-> sn, id |-> id, modified |-> FALSE]), q)
           /\ FTHist(q) = {} =>
                /\ Append(hs, [sn |-> sn, id |-> id, modified |-> TRUE]) \in Seq(History)
                /\ InForce(Append(log, id), Append(hs, [sn |-> sn, id |-> id, modified |-> TRUE]), q)
<1> DEFINE n == Len(hs)
           M == MSet(hs)
<1>1. n \in Nat /\ M \in SUBSET (1 .. n) /\ \A i \in 1 .. n : i \in M <=> hs[i].modified
  BY Positions
<1>2. Ranked(log, M, hs, FTHist(q), q)
  BY InForceRanked, Zenon
<1> HIDE DEF M
<1>3. ASSUME NEW e \in History
      PROVE  /\ Append(hs, e) \in Seq(History)
             /\ \A i \in M : Append(hs, e)[i] = hs[i]
             /\ Append(hs, e)[n + 1] = e
             /\ e.modified = TRUE => MSet(Append(hs, e)) = M \cup {n + 1}
             /\ e.modified = FALSE => MSet(Append(hs, e)) = M
  <2> DEFINE new == Append(hs, e)
  <2>1. /\ new \in Seq(History) /\ Len(new) = n + 1 /\ new[n + 1] = e
        /\ \A i \in 1 .. n : new[i] = hs[i]
    BY AppendProperties
  <2> HIDE DEF new
  <2>2. /\ MSet(new) \in SUBSET (1 .. n + 1)
        /\ \A i \in 1 .. n + 1 : i \in MSet(new) <=> new[i].modified
    BY <2>1, Positions, Zenon
  <2>3. \A i \in 1 .. n + 1 : i \in 1 .. n \/ i = n + 1
    BY <1>1
  <2>4. \A i \in 1 .. n : i \in 1 .. n + 1 /\ i # n + 1
    BY <1>1
  <2>5. n + 1 \in 1 .. n + 1
    BY <1>1
  <2>6. \A i \in 1 .. n : i \in MSet(new) <=> i \in M
    BY <1>1, <2>1, <2>2, <2>4, Zenon
  <2> HIDE DEF n
  <2>7. e.modified = TRUE => MSet(new) = M \cup {n + 1}
    BY <1>1, <2>1, <2>2, <2>3, <2>5, <2>6, Zenon
  <2>8. e.modified = FALSE => MSet(new) = M
    BY <1>1, <2>1, <2>2, <2>3, <2>5, <2>6, Zenon
  <2> QED BY <1>1, <2>1, <2>7, <2>8 DEF new
<1>4. n + 1 \in Nat /\ n + 1 > n
  BY <1>1
<1> HIDE DEF n
<1>5. /\ Append(hs, [sn |-> sn, id |-> id, modified |-> FALSE]) \in Seq(History)
      /\ InForce(log, Append(hs, [sn |-> sn, id |-> id, modified |-> FALSE]), q)
  <2> DEFINE e == [sn |-> sn, id |-> id, modified |-> FALSE]
             new == Append(hs, e)
  <2>1. e \in History /\ e.modified = FALSE
    BY DEF History
  <2> HIDE DEF e
  <2>2. new \in Seq(History) /\ MSet(new) = M /\ \A i \in M : new[i] = hs[i]
    BY <1>3, <2>1, Zenon
  <2> HIDE DEF new
  <2>3. Ranked(log, M, new, FTHist(q), q)
    BY <1>2, <2>2, Zenon DEF Ranked
  <2>4. InForce(log, new, q)
    BY <2>2, <2>3, InForceRanked, Zenon
  <2> QED BY <2>2, <2>4, Zenon DEF new, e
<1>6. ASSUME FTHist(q) = {}
      PROVE  /\ Append(hs, [sn |-> sn, id |-> id, modified |-> TRUE]) \in Seq(History)
             /\ InForce(Append(log, id), Append(hs, [sn |-> sn, id |-> id, modified |-> TRUE]), q)
  <2> DEFINE e == [sn |-> sn, id |-> id, modified |-> TRUE]
             new == Append(hs, e)
  <2>1. e \in History /\ e.modified = TRUE /\ e.id = id
    BY DEF History
  <2> HIDE DEF e
  <2>2. /\ new \in Seq(History) /\ MSet(new) = M \cup {n + 1}
        /\ (\A i \in M : new[i].id = hs[i].id) /\ new[n + 1].id = id
    BY <1>3, <2>1, Zenon
  <2> HIDE DEF new
  <2>3. Ranked(log, M, hs, {}, q)
    BY <1>2, <1>6
  <2>4. Ranked(Append(log, id), M \cup {n + 1}, new, {}, q)
    BY <1>1, <1>4, <2>2, <2>3, RankedAddHist, Zenon
  <2>5. InForce(Append(log, id), new, q)
    BY <1>6, <2>2, <2>4, InForceRanked, Zenon
  <2> QED BY <2>2, <2>5, Zenon DEF new, e
<1> QED BY <1>5, <1>6, Zenon

\* What Append returns, whatever the element.
LEMMA AppendOf ==
    ASSUME NEW S, NEW s \in Seq(S), NEW x
    PROVE  /\ Append(s, x) \in Seq(S \cup {x}) /\ Len(Append(s, x)) = Len(s) + 1
           /\ Append(s, x)[Len(s) + 1] = x
           /\ \A i \in 1 .. Len(s) : Append(s, x)[i] = s[i]
<1>1. s \in Seq(S \cup {x}) /\ x \in S \cup {x}
  BY SeqMonotonic
<1> QED BY <1>1, AppendProperties

\* FTQ::insert, of a target without a history or of one with a history that has just
\* made its update.
LEMMA InForceTarget ==
    ASSUME NEW log \in Seq(HistId), NEW hs \in Seq(History), NEW q, IsSeq(q), InForce(log, hs, q),
           NEW ft
    PROVE  /\ ft.hist = None => InForce(log, hs, Append(q, ft))
           /\ ft.hist # None /\ ft.hist.id \in HistId =>
                InForce(Append(log, ft.hist.id), hs, Append(q, ft))
<1> DEFINE n == Len(q)
           F == FTHist(q)
           new == Append(q, ft)
<1>1. /\ n \in Nat /\ F \in SUBSET (1 .. n) /\ \A i \in 1 .. n : i \in F <=> q[i].hist # None
      /\ Len(hs) \in Nat /\ MSet(hs) \in SUBSET (1 .. Len(hs))
  BY Positions
<1>2. Ranked(log, MSet(hs), hs, F, q)
  BY InForceRanked, Zenon
<1>3. PICK S : q \in Seq(S)
  BY DEF IsSeq
<1>4. /\ new \in Seq(S \cup {ft}) /\ Len(new) = n + 1 /\ new[n + 1] = ft
      /\ \A i \in 1 .. n : new[i] = q[i]
  BY <1>3, AppendOf
<1>5. IsSeq(new)
  BY <1>4 DEF IsSeq
<1> HIDE DEF F, new
<1>6. FTHist(new) \in SUBSET (1 .. n + 1) /\ \A i \in 1 .. n + 1 : i \in FTHist(new) <=> new[i].hist # None
  BY <1>4, <1>5, Positions, Zenon
<1>7. /\ n + 1 \in 1 .. n + 1 /\ (\A i \in 1 .. n : i \in 1 .. n + 1)
      /\ \A i \in 1 .. n + 1 : i \in 1 .. n \/ i = n + 1
  BY <1>1
<1>8. \A i \in 1 .. n : i \in FTHist(new) <=> i \in F
  BY <1>1, <1>4, <1>6, <1>7, Zenon
<1> HIDE DEF n
<1>9. ASSUME ft.hist = None PROVE InForce(log, hs, new)
  <2>1. FTHist(new) = F
    BY <1>1, <1>4, <1>6, <1>7, <1>8, <1>9, Zenon
  <2>2. Ranked(log, MSet(hs), hs, F, new)
    <3>1. \A i \in F : new[i] = q[i]
      BY <1>1, <1>4, Zenon
    <3> QED BY <1>2, <3>1, Zenon DEF Ranked
  <2> QED BY <1>5, <2>1, <2>2, InForceRanked, Zenon
<1>10. ASSUME ft.hist # None, ft.hist.id \in HistId PROVE InForce(Append(log, ft.hist.id), hs, new)
  <2>1. FTHist(new) = F \cup {n + 1}
    BY <1>1, <1>4, <1>6, <1>7, <1>8, <1>10, Zenon
  <2>2. (\A i \in F : new[i].hist.id = q[i].hist.id) /\ new[n + 1].hist.id = ft.hist.id
    BY <1>1, <1>4, Zenon
  <2>3. Ranked(Append(log, ft.hist.id), MSet(hs), hs, F \cup {n + 1}, new)
    BY <1>1, <1>2, <1>10, <2>2, RankedAddTarget, Zenon
  <2> QED BY <1>5, <2>1, <2>3, InForceRanked, Zenon
<1> QED BY <1>9, <1>10 DEF new

\* popHead: the target that goes has no history.
LEMMA InForceTail ==
    ASSUME NEW log, NEW hs \in Seq(History), NEW q, IsSeq(q), q # << >>, InForce(log, hs, q),
           q[1].hist = None
    PROVE  InForce(log, hs, Tail(q))
<1> DEFINE n == Len(q)
           F == FTHist(q)
           new == Tail(q)
<1>1. n \in Nat /\ F \in SUBSET (1 .. n) /\ \A i \in 1 .. n : i \in F <=> q[i].hist # None
  BY Positions
<1>2. Ranked(log, MSet(hs), hs, F, q)
  BY InForceRanked, Zenon
<1>3. PICK S : q \in Seq(S)
  BY DEF IsSeq
<1>4. /\ new \in Seq(S) /\ Len(new) = n - 1 /\ n >= 1
      /\ \A i \in 1 .. n - 1 : new[i] = q[i + 1]
  BY <1>3, HeadTailProperties
<1>5. IsSeq(new)
  BY <1>4 DEF IsSeq
<1> HIDE DEF F, new
<1>6. FTHist(new) \in SUBSET (1 .. n - 1) /\ \A i \in 1 .. n - 1 : i \in FTHist(new) <=> new[i].hist # None
  BY <1>4, <1>5, Positions, Zenon
<1>7. 1 \notin F
  BY <1>1, <1>4
<1> HIDE DEF n
<1>8. \A j \in 1 .. n - 1 : j + 1 = 1 + j /\ 1 + j \in 1 .. n
  BY <1>1
<1>9. \A j \in 1 .. n - 1 : new[j] = q[1 + j] /\ (j \in FTHist(new) <=> 1 + j \in F)
  <2> SUFFICES ASSUME NEW j \in 1 .. n - 1
               PROVE  new[j] = q[1 + j] /\ (j \in FTHist(new) <=> 1 + j \in F)
    OBVIOUS
  <2>1. new[j] = q[1 + j] /\ 1 + j \in 1 .. n
    BY <1>4, <1>8
  <2> QED BY <1>1, <1>6, <2>1, Zenon
<1>10. Ranked(log, MSet(hs), hs, FTHist(new), new)
  BY <1>1, <1>2, <1>4, <1>6, <1>7, <1>9, RankedPop, ZenonT(60)
<1>11. InForce(log, hs, new)
  BY <1>5, <1>10, InForceRanked, Zenon
<1> QED BY <1>11 DEF new

\* The list of targets with the history of the head taken from it.
LEMMA HeadTaken ==
    ASSUME NEW q \in Seq(FetchTarget), q # << >>
    PROVE  LET new == [q EXCEPT ![1].hist = None]
           IN  /\ new \in Seq(FetchTarget) /\ Len(new) = Len(q)
               /\ new[1].hist = None /\ \A i \in 2 .. Len(q) : new[i] = q[i]
               /\ new[1].start = q[1].start /\ new[1].end = q[1].end
               /\ new[1].branch = q[1].branch /\ new[1].next = q[1].next
<1> DEFINE e == [q[1] EXCEPT !.hist = None]
           new == [q EXCEPT ![1].hist = None]
<1>1. q[1] \in FetchTarget /\ 1 \in 1 .. Len(q) /\ Len(q) \in Nat
  OBVIOUS
<1>2. /\ e \in FetchTarget /\ e.hist = None /\ e.start = q[1].start /\ e.end = q[1].end
      /\ e.branch = q[1].branch /\ e.next = q[1].next
  BY <1>1, Zenon DEF FetchTarget
<1>3. new = [q EXCEPT ![1] = e]
  OBVIOUS
<1> HIDE DEF e, new
<1>4. /\ new \in Seq(FetchTarget) /\ Len(new) = Len(q)
      /\ \A j \in 1 .. Len(q) : new[j] = IF j = 1 THEN e ELSE q[j]
  BY <1>1, <1>2, <1>3, ExceptSeq
<1>5. new[1] = e /\ \A i \in 2 .. Len(q) : new[i] = q[i]
  BY <1>1, <1>4
<1> QED BY <1>2, <1>4, <1>5 DEF new

\* Fetch meets the predicted branch: its history moves from the queue to the list.
LEMMA InForceMove ==
    ASSUME NEW log, NEW hs \in Seq(History), NEW q \in Seq(FetchTarget), q # << >>,
           InForce(log, hs, q), q[1].hist # None, NEW sn \in SeqNum
    PROVE  LET e == [sn |-> sn, id |-> q[1].hist.id, modified |-> TRUE]
           IN  /\ Append(hs, e) \in Seq(History)
               /\ InForce(log, Append(hs, e), [q EXCEPT ![1].hist = None])
<1> DEFINE n == Len(q)
           m == Len(hs)
           F == FTHist(q)
           M == MSet(hs)
           q2 == [q EXCEPT ![1].hist = None]
           e == [sn |-> sn, id |-> q[1].hist.id, modified |-> TRUE]
           new == Append(hs, e)
<1>0. IsSeq(q)
  BY DEF IsSeq
<1>1. /\ n \in Nat /\ F \in SUBSET (1 .. n) /\ \A i \in 1 .. n : i \in F <=> q[i].hist # None
      /\ m \in Nat /\ M \in SUBSET (1 .. m) /\ \A i \in 1 .. m : i \in M <=> hs[i].modified
  BY <1>0, Positions
<1>2. Ranked(log, M, hs, F, q)
  BY <1>0, InForceRanked, Zenon
<1>3. q2 \in Seq(FetchTarget) /\ Len(q2) = n /\ q2[1].hist = None /\ \A i \in 2 .. n : q2[i] = q[i]
  BY HeadTaken
<1>4. e \in History /\ e.id = q[1].hist.id /\ e.modified = TRUE
  <2>1. q[1] \in FetchTarget
    OBVIOUS
  <2>2. q[1].hist.id \in HistId
    BY <2>1 DEF FetchTarget
  <2> QED BY <2>2, Zenon DEF History
<1> HIDE DEF e, q2, F, M
<1>5. /\ new \in Seq(History) /\ Len(new) = m + 1 /\ new[m + 1] = e
      /\ \A i \in 1 .. m : new[i] = hs[i]
  BY <1>4, AppendProperties
<1>6. IsSeq(q2)
  BY <1>3 DEF IsSeq
<1> HIDE DEF new
<1>7. /\ FTHist(q2) \in SUBSET (1 .. n) /\ \A i \in 1 .. n : i \in FTHist(q2) <=> q2[i].hist # None
      /\ MSet(new) \in SUBSET (1 .. m + 1)
      /\ \A i \in 1 .. m + 1 : i \in MSet(new) <=> new[i].modified
  BY <1>3, <1>5, <1>6, Positions, Zenon
<1>8. 1 \in 1 .. n /\ \A i \in 1 .. n : i # 1 => i \in 2 .. n
  BY <1>1 DEF F
<1> HIDE DEF n, m
<1>9. FTHist(q2) = F \ {1} /\ 1 \in F
  <2>1. \A i \in 1 .. n : i \in FTHist(q2) <=> i \in F /\ i # 1
    BY <1>1, <1>3, <1>7, <1>8, Zenon
  <2> QED BY <1>1, <1>7, <1>8, <2>1, Zenon
<1>10. MSet(new) = M \cup {m + 1}
  <2>1. /\ m + 1 \in 1 .. m + 1 /\ (\A i \in 1 .. m : i \in 1 .. m + 1)
        /\ \A i \in 1 .. m + 1 : i \in 1 .. m \/ i = m + 1
    BY <1>1
  <2>2. \A i \in 1 .. m : i \in MSet(new) <=> i \in M
    BY <1>1, <1>5, <1>7, <2>1, Zenon
  <2>3. m + 1 \in MSet(new)
    BY <1>4, <1>5, <1>7, <2>1, Zenon
  <2> QED BY <1>1, <1>7, <2>1, <2>2, <2>3, Zenon
<1>11. /\ \A i \in F \ {1} : q2[i].hist.id = q[i].hist.id
       /\ \A i \in M : new[i].id = hs[i].id
       /\ new[m + 1].id = q[1].hist.id
  BY <1>1, <1>3, <1>4, <1>5, <1>8, Zenon
<1>12. m + 1 \in Nat /\ m + 1 > m
  BY <1>1
<1>13. Ranked(log, M \cup {m + 1}, new, F \ {1}, q2)
  BY <1>1, <1>2, <1>9, <1>11, <1>12, RankedMove, Zenon
<1>14. InForce(log, new, q2)
  BY <1>5, <1>6, <1>9, <1>10, <1>13, InForceRanked, ZenonT(30)
<1> QED BY <1>5, <1>14 DEF new, e, q2

LEMMA SquashedFTsType ==
    ASSUME ftq \in Seq(FetchTarget)
    PROVE  /\ SquashedFTs \in Seq(FetchTarget) /\ Len(SquashedFTs) = Len(ftq)
           /\ FTHist(SquashedFTs) = {}
           /\ \A i \in 1 .. Len(ftq) :
                 /\ SquashedFTs[i].hist = None
                 /\ SquashedFTs[i].start = ftq[i].start /\ SquashedFTs[i].end = ftq[i].end
                 /\ SquashedFTs[i].next = ftq[i].next
<1>1. DOMAIN ftq = 1 .. Len(ftq) /\ Len(ftq) \in Nat /\ \A i \in 1 .. Len(ftq) : ftq[i] \in FetchTarget
  OBVIOUS
<1>2. ASSUME NEW i \in 1 .. Len(ftq)
      PROVE  /\ SquashedFTs[i] \in FetchTarget /\ SquashedFTs[i].hist = None
             /\ SquashedFTs[i].start = ftq[i].start /\ SquashedFTs[i].end = ftq[i].end
             /\ SquashedFTs[i].next = ftq[i].next
  <2>1. ftq[i] \in FetchTarget /\ SquashedFTs[i] = [ftq[i] EXCEPT !.hist = None]
    BY <1>1 DEF SquashedFTs
  <2> QED BY <2>1, Zenon DEF FetchTarget
<1>3. SquashedFTs = [i \in 1 .. Len(ftq) |-> SquashedFTs[i]]
  BY <1>1, Zenon DEF SquashedFTs
<1>4. SquashedFTs \in [1 .. Len(ftq) -> FetchTarget]
  BY <1>2, <1>3, Zenon
<1>5. SquashedFTs \in Seq(FetchTarget) /\ Len(SquashedFTs) = Len(ftq)
  BY <1>1, <1>4
<1>6. FTHist(SquashedFTs) = {}
  <2>1. DOMAIN SquashedFTs = 1 .. Len(ftq)
    BY <1>4
  <2> QED BY <1>2, <2>1, Zenon DEF FTHist
<1> QED BY <1>2, <1>5, <1>6

-----------------------------------------------------------------------------
(* The predictor's state. *)

\* The queue and the histories are typed, the histories are in program order, and the
\* log is that of them and of those in the queue.
BpuOK == /\ ftq \in Seq(FetchTarget) /\ Len(ftq) <= numFTQEntries
         /\ predHist \in Seq(History) /\ specLog \in Seq(HistId)
         /\ HistoriesAreUndone
         /\ InOrder(predHist, nextSeq)

\* There are names enough: a history that is generated finds room in the queue, and one
\* that is made for a fetched branch has a sequence number of its own.
LEMMA NewIdFresh ==
    ASSUME BpuOK, nextSeq \in 1 .. MaxSeq + 1,
           Len(ftq) < numFTQEntries \/ nextSeq <= MaxSeq
    PROVE  NewId \in HistId /\ NewId \notin LiveIds
<1> DEFINE F == FTHist(ftq)
           f == [i \in F |-> ftq[i].hist.id]
           P == 1 .. Len(predHist)
           g == [i \in P |-> predHist[i].id]
           A == {f[i] : i \in F}
           B == {g[i] : i \in P}
<1>0. /\ IsSeq(ftq) /\ predHist \in Seq(History) /\ MaxSeq \in Nat /\ numFTQEntries \in Nat
      /\ Len(ftq) <= numFTQEntries
  BY FrontEndAssumption DEF IsSeq, BpuOK
<1>1. /\ Len(ftq) \in Nat /\ F \in SUBSET (1 .. Len(ftq))
      /\ Len(predHist) \in Nat /\ MSet(predHist) \in SUBSET (1 .. Len(predHist))
  BY <1>0, Positions, Zenon
<1>2. IsFiniteSet(F) /\ Cardinality(F) <= Len(ftq) /\ Cardinality(F) \in Nat
  <2>1. 0 \in Nat
    OBVIOUS
  <2> QED BY <1>1, <2>1, CountFacts, Zenon
<1>3. IsFiniteSet(P) /\ Cardinality(P) = Len(predHist)
  BY <1>1, IntervalSize, Zenon
<1>4. Len(predHist) <= nextSeq - 1
  <2>1. \A i \in 1 .. Len(predHist) : predHist[i] \in History
    BY <1>0
  <2>2. \A i \in 1 .. Len(predHist) : predHist[i].sn \in 1 .. nextSeq - 1
    BY <1>0, <2>1 DEF BpuOK, InOrder, History, SeqNum
  <2>3. nextSeq - 1 \in Nat
    BY <1>0
  <2>4. \A i, j \in 1 .. Len(predHist) : i < j => predHist[i].sn < predHist[j].sn
    BY DEF BpuOK, InOrder
  <2> QED BY <1>1, <2>2, <2>3, <2>4, IncreasingLength, Zenon
<1>5. IsFiniteSet(A) /\ Cardinality(A) \in Nat /\ Cardinality(A) <= Cardinality(F)
  <2>1. f \in [F -> A] /\ \A t \in A : \E x \in F : f[x] = t
    BY Zenon
  <2> HIDE DEF f, F, A
  <2> QED BY <1>2, <2>1, ImageSize, Zenon
<1>6. IsFiniteSet(B) /\ Cardinality(B) \in Nat /\ Cardinality(B) <= Cardinality(P)
  <2>1. g \in [P -> B] /\ \A t \in B : \E x \in P : g[x] = t
    BY Zenon
  <2> HIDE DEF g, P, B
  <2> QED BY <1>3, <2>1, ImageSize, Zenon
<1>7. LiveIds = A \cup B
  <2>1. DOMAIN predHist = P /\ DOMAIN specLog = 1 .. Len(specLog)
    BY DEF BpuOK
  <2>2. Ranked(specLog, MSet(predHist), predHist, F, ftq)
    BY <1>0, InForceRanked, Zenon DEF BpuOK, HistoriesAreUndone
  <2>3. /\ A = {ftq[i].hist.id : i \in F} /\ B = {predHist[i].id : i \in P}
        /\ \A i \in F : ftq[i].hist.id \in A \cup B
        /\ \A i \in MSet(predHist) : predHist[i].id \in A \cup B
    BY <1>1, Zenon
  <2>4. LiveIds = A \cup B \cup {specLog[i] : i \in DOMAIN specLog}
    BY <2>1, <2>3, Zenon DEF LiveIds
  <2> DEFINE C == A \cup B
  <2>5. \A k \in 1 .. Len(specLog) : specLog[k] \in C
    <3>1. /\ \A i \in MSet(predHist) : predHist[i].id \in C
          /\ \A i \in F : ftq[i].hist.id \in C
      BY <2>3, Zenon
    <3>2. /\ Len(ftq) \in Nat /\ F \in SUBSET (1 .. Len(ftq))
          /\ Len(predHist) \in Nat /\ MSet(predHist) \in SUBSET (1 .. Len(predHist))
      BY <1>1, Zenon
    <3> HIDE DEF A, B, F, P, C
    <3> QED BY <2>2, <3>1, <3>2, RankedOnto, Zenon
  <2> HIDE DEF A, B, F, P
  <2> QED BY <2>1, <2>4, <2>5, Zenon
<1>8. \E x \in 1 .. (numFTQEntries + MaxSeq) : x \notin A \cup B
  <2> HIDE DEF A, B, F, P
  <2>1. Cardinality(A) + Cardinality(B) < numFTQEntries + MaxSeq /\ numFTQEntries + MaxSeq \in Nat
    BY <1>0, <1>1, <1>2, <1>3, <1>4, <1>5, <1>6, SMTT(30)
  <2> QED BY <1>5, <1>6, <2>1, FreshExists, Zenon
<1>9. \E x \in HistId : x \notin LiveIds
  BY <1>7, <1>8, Zenon DEF HistId
<1> QED BY <1>9, Zenon DEF NewId

LEMMA HistFacts ==
    ASSUME NEW hs \in Seq(History)
    PROVE  Len(hs) \in Nat /\ \A i \in 1 .. Len(hs) : hs[i] \in History /\ hs[i].sn \in Nat
<1>1. \A i \in 1 .. Len(hs) : hs[i] \in History
  OBVIOUS
<1>2. \A i \in 1 .. Len(hs) : hs[i].sn \in Nat
  BY <1>1 DEF History, SeqNum
<1> QED BY <1>1, <1>2

LEMMA KeptInOrder ==
    ASSUME NEW hs \in Seq(History), NEW sn \in Int, NEW b, InOrder(hs, b)
    PROVE  InOrder(KeptHist(hs, sn), b)
<1> DEFINE n == NumKept(hs, sn)
           t == KeptHist(hs, sn)
<1>1. Len(hs) \in Nat /\ n \in 0 .. Len(hs)
  BY HistFacts, LogKeptExists, Zenon DEF NumKept
<1>2. t \in Seq(History) /\ Len(t) = n /\ \A i \in 1 .. n : t[i] = hs[i]
  BY <1>1, LogPrefix, Zenon DEF KeptHist
<1> HIDE DEF n, t
<1>3. /\ 0 \in Nat /\ Len(t) \in Nat /\ 0 + Len(t) <= Len(hs)
      /\ \A i \in 1 .. Len(t) : t[i].sn = hs[0 + i].sn
  BY <1>1, <1>2
<1>4. InOrder(t, b)
  BY <1>1, <1>3, LogInOrderPart, Zenon
<1> QED BY <1>4 DEF t

LEMMA UpdatedInOrder ==
    ASSUME NEW hs \in Seq(History), NEW sn \in Int, NEW b, InOrder(hs, b)
    PROVE  InOrder(UpdatedHist(hs, sn), b)
<1> DEFINE n == NumDone(hs, sn)
           t == UpdatedHist(hs, sn)
<1>1. Len(hs) \in Nat /\ n \in 0 .. Len(hs)
  BY HistFacts, LogDoneExists, Zenon DEF NumDone
<1>2. t \in Seq(History) /\ Len(t) = Len(hs) - n /\ \A i \in 1 .. Len(hs) - n : t[i] = hs[n + i]
  BY <1>1, LogSuffix, Zenon DEF UpdatedHist
<1> HIDE DEF n, t
<1>3. /\ n \in Nat /\ Len(t) \in Nat /\ n + Len(t) <= Len(hs)
      /\ \A i \in 1 .. Len(t) : t[i].sn = hs[n + i].sn
  BY <1>1, <1>2
<1>4. InOrder(t, b)
  BY <1>1, <1>3, LogInOrderPart, Zenon
<1> QED BY <1>4 DEF t

LEMMA CorrectedInOrder ==
    ASSUME NEW hs \in Seq(History), NEW b, InOrder(hs, b)
    PROVE  InOrder(CorrectedHist(hs), b)
<1>1. CASE hs = << >>
  BY <1>1 DEF CorrectedHist
<1>2. CASE hs # << >>
  <2> DEFINE n == Len(hs)
             e == [hs[n] EXCEPT !.modified = TRUE]
             t == CorrectedHist(hs)
  <2>1. n \in 1 .. Len(hs) /\ hs[n] \in History
    BY <1>2, EmptySeq
  <2>2. e \in History /\ e.sn = hs[n].sn
    BY <2>1, Zenon DEF History
  <2>3. t = [hs EXCEPT ![n] = e]
    BY <1>2 DEF CorrectedHist
  <2> HIDE DEF e, t
  <2>4. Len(t) = n /\ \A i \in 1 .. n : t[i] = IF i = n THEN e ELSE hs[i]
    BY <2>1, <2>2, <2>3, ExceptSeq
  <2>5. /\ 0 \in Nat /\ Len(t) \in Nat /\ 0 + Len(t) <= Len(hs)
        /\ \A i \in 1 .. Len(t) : t[i].sn = hs[0 + i].sn
    BY <2>1, <2>2, <2>4
  <2>6. Len(hs) \in Nat
    OBVIOUS
  <2>7. InOrder(t, b)
    BY <2>5, <2>6, LogInOrderPart, Zenon
  <2> QED BY <2>7 DEF t
<1> QED BY <1>1, <1>2

LEMMA DoneSeqNumType ==
    ASSUME TypeOK
    PROVE  doneSeqNum \in 0 .. MaxSeq
<1>1. CASE fromCommit = None
  BY <1>1, FrontEndAssumption DEF doneSeqNum
<1>2. CASE fromCommit # None
  <2>1. fromCommit.sn \in 0 .. MaxSeq
    BY <1>2, Zenon DEF TypeOK
  <2> QED BY <1>2, <2>1 DEF doneSeqNum
<1> QED BY <1>1, <1>2

LEMMA CommittedOK ==
    ASSUME BpuOK, TypeOK
    PROVE  /\ CommittedHist \in Seq(History) /\ CommittedLog \in Seq(HistId)
           /\ InForce(CommittedLog, CommittedHist, ftq)
           /\ InOrder(CommittedHist, nextSeq)
<1>1. doneSeqNum \in Int
  BY DoneSeqNumType, FrontEndAssumption
<1>2. IsSeq(ftq)
  BY DEF TypeOK, IsSeq
<1> QED BY <1>1, <1>2, InForceUpdated, UpdatedInOrder, Zenon
        DEF BpuOK, HistoriesAreUndone, CommittedHist, CommittedLog

LEMMA EmptyQueue == << >> \in Seq(FetchTarget) /\ Len(<< >>) <= numFTQEntries
BY FrontEndAssumption

LEMMA NoTargets == IsSeq(<< >>) /\ FTHist(<< >>) = {}
<1>1. DOMAIN << >> = {}
  OBVIOUS
<1> QED BY <1>1, LogEmptyIsSeq, Zenon DEF FTHist

\* BAC::squash and BPredUnit::squash
LEMMA BpuSquashOK ==
    ASSUME NEW hs \in Seq(History), NEW log \in Seq(HistId), IsSeq(ftq), InForce(log, hs, ftq),
           InOrder(hs, nextSeq), NEW sn \in Int, NEW correct \in BOOLEAN,
           BpuSquash(hs, SquashedFTLog(log), sn, correct), ftq' = << >>, nextSeq' = nextSeq
    PROVE  BpuOK'
<1> DEFINE log1 == SquashedFTLog(log)
           kept == KeptHist(hs, sn)
           log2 == KeptLog(hs, log1, sn)
<1>1. log1 \in Seq(HistId) /\ InForce(log1, hs, << >>)
  BY NoTargets, InForceSquashedFTs, Zenon
<1> HIDE DEF log1
<1>2. kept \in Seq(History) /\ log2 \in Seq(HistId) /\ InForce(log2, kept, << >>)
  BY <1>1, NoTargets, InForceKept, Zenon
<1>3. InOrder(kept, nextSeq)
  BY KeptInOrder, Zenon
<1>4. BpuSquash(hs, log1, sn, correct)
  BY DEF log1
<1>5. CASE ~correct
  <2>1. predHist' = kept /\ specLog' = log2
    BY <1>4, <1>5, Zenon DEF BpuSquash
  <2> HIDE DEF kept, log2
  <2> QED BY <1>2, <1>3, <2>1, EmptyQueue DEF BpuOK, HistoriesAreUndone
<1>6. CASE correct
  <2>1. predHist' = CorrectedHist(kept) /\ specLog' = CorrectedLog(kept, log2)
    BY <1>4, <1>6, Zenon DEF BpuSquash
  <2> HIDE DEF kept, log2
  <2>2. /\ CorrectedHist(kept) \in Seq(History) /\ CorrectedLog(kept, log2) \in Seq(HistId)
        /\ InForce(CorrectedLog(kept, log2), CorrectedHist(kept), << >>)
        /\ InOrder(CorrectedHist(kept), nextSeq)
    BY <1>2, <1>3, NoTargets, InForceCorrected, CorrectedInOrder, Zenon
  <2> QED BY <2>1, <2>2, EmptyQueue DEF BpuOK, HistoriesAreUndone
<1> QED BY <1>5, <1>6

\* What an iteration of the fetch loop does to the queue: it goes on with it, or pops a
\* head that has no history.
LEMMA EndOfInstQ ==
    ASSUME NEW q \in Seq(FetchTarget), q # << >>, NEW status, NEW nextPC, NEW taken,
           EndOfInst(q, status, nextPC, taken)
    PROVE  /\ ftq' \in Seq(FetchTarget) /\ Len(ftq') <= Len(q)
           /\ ftq' = q \/ (ftq' = Tail(q) /\ q[1].hist = None)
<1>1. ftq' = q \/ (ftq' = Tail(q) /\ q[1].hist = None)
  BY DEF EndOfInst
<1>2. Tail(q) \in Seq(FetchTarget) /\ Len(Tail(q)) <= Len(q) /\ Len(q) <= Len(q)
  BY HeadTailProperties
<1> QED BY <1>1, <1>2

LEMMA EndOfInstLog ==
    ASSUME NEW q \in Seq(FetchTarget), q # << >>, Len(q) <= numFTQEntries,
           NEW status, NEW nextPC, NEW taken, EndOfInst(q, status, nextPC, taken),
           NEW log, NEW hs \in Seq(History), InForce(log, hs, q)
    PROVE  InForce(log, hs, ftq') /\ ftq' \in Seq(FetchTarget) /\ Len(ftq') <= numFTQEntries
<1>1. /\ ftq' \in Seq(FetchTarget) /\ Len(ftq') <= Len(q)
      /\ ftq' = q \/ (ftq' = Tail(q) /\ q[1].hist = None)
  BY EndOfInstQ, Zenon
<1>2. IsSeq(q)
  BY DEF IsSeq
<1>3. InForce(log, hs, ftq')
  BY <1>1, <1>2, InForceTail, Zenon
<1>4. Len(ftq') <= numFTQEntries
  BY <1>1, FrontEndAssumption
<1> QED BY <1>1, <1>3, <1>4

LEMMA NewInOrder ==
    ASSUME BpuOK, nextSeq \in SeqNum, NEW id \in HistId, NEW modified \in BOOLEAN,
           Insert(id, modified), nextSeq' = nextSeq + 1
    PROVE  InOrder(predHist', nextSeq')
<1> DEFINE e == [sn |-> nextSeq, id |-> id, modified |-> modified]
<1>1. predHist' = Append(predHist, e) /\ e.sn = nextSeq
  BY DEF Insert
<1>2. e \in History
  BY Zenon DEF History
<1> HIDE DEF e
<1>3. predHist \in Seq(History) /\ InOrder(predHist, nextSeq) /\ nextSeq \in Nat
  BY FrontEndAssumption DEF BpuOK, SeqNum
<1>4. \A i \in 1 .. Len(predHist) : predHist[i].sn \in Nat
  BY <1>3, HistFacts, Zenon
<1>5. InOrder(Append(predHist, e), nextSeq + 1)
  BY <1>1, <1>2, <1>3, <1>4, LogInOrderAppend, Zenon
<1> QED BY <1>1, <1>5

LEMMA Weaker ==
    ASSUME BpuOK, nextSeq \in SeqNum, predHist' = predHist, nextSeq' = nextSeq + 1
    PROVE  InOrder(predHist', nextSeq')
<1>1. \A i \in 1 .. Len(predHist) : predHist[i].sn \in Nat
  BY HistFacts, Zenon DEF BpuOK
<1>2. nextSeq \in Nat
  BY FrontEndAssumption DEF SeqNum
<1> QED BY <1>1, <1>2 DEF BpuOK, InOrder

LEMMA CanFetchFacts ==
    ASSUME BpuOK, TypeOK, inFetchLoop => ftq # << >>, NEW ctl, CanFetch(ctl)
    PROVE  /\ nextSeq \in SeqNum /\ ftq # << >> /\ ftq \in Seq(FetchTarget) /\ IsSeq(ftq)
           /\ Len(ftq) <= numFTQEntries /\ NewId \in HistId
<1>1. /\ nextSeq \in SeqNum /\ ftq # << >> /\ ftq \in Seq(FetchTarget) /\ nextSeq <= MaxSeq
      /\ Len(ftq) <= numFTQEntries
  BY FrontEndAssumption DEF CanFetch, TypeOK, SeqNum
<1>2. NewId \in HistId
  BY <1>1, NewIdFresh, Zenon DEF TypeOK
<1> QED BY <1>1, <1>2 DEF IsSeq

LEMMA BpuFetchPlain ==
    ASSUME BpuOK, TypeOK, inFetchLoop => ftq # << >>, FetchPlain
    PROVE  BpuOK'
<1>1. nextSeq \in SeqNum /\ ftq # << >> /\ ftq \in Seq(FetchTarget) /\ Len(ftq) <= numFTQEntries
  BY CanFetchFacts, Zenon DEF FetchPlain
<1>2. UNCHANGED << predHist, specLog >> /\ nextSeq' = nextSeq + 1
  BY DEF FetchPlain, NewInst
<1>3. EndOfInst(ftq, ftqStatus, advancePC(pc), FALSE)
  BY Zenon DEF FetchPlain
<1>4. InForce(specLog, predHist, ftq') /\ ftq' \in Seq(FetchTarget) /\ Len(ftq') <= numFTQEntries
  BY <1>1, <1>3, EndOfInstLog, Zenon DEF BpuOK, HistoriesAreUndone
<1>5. InOrder(predHist', nextSeq')
  BY <1>1, <1>2, Weaker, Zenon
<1> QED BY <1>2, <1>4, <1>5 DEF BpuOK, HistoriesAreUndone

LEMMA BpuFetchPredicted ==
    ASSUME BpuOK, TypeOK, inFetchLoop => ftq # << >>, FetchPredicted
    PROVE  BpuOK'
<1> DEFINE q == [ftq EXCEPT ![1].hist = None]
           hs == Append(predHist, [sn |-> nextSeq, id |-> ftq[1].hist.id, modified |-> TRUE])
<1>1. nextSeq \in SeqNum /\ ftq # << >> /\ ftq \in Seq(FetchTarget) /\ Len(ftq) <= numFTQEntries
  BY CanFetchFacts, Zenon DEF FetchPredicted
<1>2. ExitHist = ftq[1].hist /\ ftq[1].hist # None
  BY DEF FetchPredicted, Matches, ExitHist
<1>3. /\ specLog' = specLog /\ nextSeq' = nextSeq + 1 /\ Insert(ftq[1].hist.id, TRUE)
  BY <1>2, Zenon DEF FetchPredicted, NewInst
<1>4. PICK nextPC, taken : EndOfInst(q, ftqStatus, nextPC, taken)
  BY DEF FetchPredicted
<1>5. predHist \in Seq(History) /\ InForce(specLog, predHist, ftq)
  BY DEF BpuOK, HistoriesAreUndone
<1>6. hs \in Seq(History) /\ InForce(specLog, hs, q)
  BY <1>1, <1>2, <1>5, InForceMove, Zenon
<1>7. q \in Seq(FetchTarget) /\ q # << >> /\ Len(q) <= numFTQEntries
  <2>1. q \in Seq(FetchTarget) /\ Len(q) = Len(ftq)
    BY <1>1, HeadTaken
  <2> HIDE DEF q
  <2> QED BY <1>1, <2>1
<1>8. predHist' = hs
  BY <1>3, Zenon DEF Insert
<1>9. ftq[1].hist.id \in HistId
  <2>1. ftq[1] \in FetchTarget
    BY <1>1
  <2> QED BY <1>2, <2>1 DEF FetchTarget
<1>10. InOrder(predHist', nextSeq')
  BY <1>1, <1>3, <1>9, NewInOrder, Zenon
<1> HIDE DEF hs, q
<1>11. InForce(specLog, hs, ftq') /\ ftq' \in Seq(FetchTarget) /\ Len(ftq') <= numFTQEntries
  BY <1>4, <1>6, <1>7, EndOfInstLog, Zenon
<1> QED BY <1>3, <1>6, <1>8, <1>10, <1>11 DEF BpuOK, HistoriesAreUndone

\* The queue with its predictions squashed.
LEMMA SquashedQueue ==
    ASSUME BpuOK, ftq # << >>
    PROVE  /\ SquashedFTs \in Seq(FetchTarget) /\ SquashedFTs # << >> /\ IsSeq(SquashedFTs)
           /\ Len(SquashedFTs) <= numFTQEntries /\ FTHist(SquashedFTs) = {}
           /\ SquashedFTLog(specLog) \in Seq(HistId)
           /\ InForce(SquashedFTLog(specLog), predHist, SquashedFTs)
<1>1. /\ SquashedFTs \in Seq(FetchTarget) /\ Len(SquashedFTs) = Len(ftq)
      /\ FTHist(SquashedFTs) = {}
  BY SquashedFTsType, Zenon DEF BpuOK
<1>2. IsSeq(SquashedFTs) /\ IsSeq(ftq) /\ Len(SquashedFTs) <= numFTQEntries
  BY <1>1 DEF IsSeq, BpuOK
<1>3. SquashedFTs # << >>
  BY <1>1, <1>2, LogLenIsNat
<1>4. /\ specLog \in Seq(HistId) /\ predHist \in Seq(History) /\ InForce(specLog, predHist, ftq)
  BY DEF BpuOK, HistoriesAreUndone
<1> QED BY <1>1, <1>2, <1>3, <1>4, InForceSquashedFTs, Zenon

LEMMA BpuFetchComplex ==
    ASSUME BpuOK, TypeOK, inFetchLoop => ftq # << >>, FetchComplex
    PROVE  BpuOK'
<1> DEFINE log == SquashedFTLog(specLog)
           hs == Append(predHist, [sn |-> nextSeq, id |-> NewId, modified |-> TRUE])
<1>1. nextSeq \in SeqNum /\ ftq # << >> /\ NewId \in HistId
  BY CanFetchFacts, Zenon DEF FetchComplex
<1>2. specLog' = Append(log, NewId) /\ nextSeq' = nextSeq + 1 /\ Insert(NewId, TRUE)
  BY Zenon DEF FetchComplex, NewInst
<1>3. PICK nextPC, taken : EndOfInst(SquashedFTs, "Locked", nextPC, taken)
  BY DEF FetchComplex
<1>4. /\ SquashedFTs \in Seq(FetchTarget) /\ SquashedFTs # << >> /\ IsSeq(SquashedFTs)
      /\ FTHist(SquashedFTs) = {} /\ log \in Seq(HistId) /\ InForce(log, predHist, SquashedFTs)
      /\ Len(SquashedFTs) <= numFTQEntries
  BY <1>1, SquashedQueue, Zenon
<1> HIDE DEF log
<1>5. hs \in Seq(History) /\ InForce(Append(log, NewId), hs, SquashedFTs)
  BY <1>1, <1>4, InForceInsert, Zenon DEF BpuOK
<1>6. predHist' = hs
  BY <1>2, Zenon DEF Insert
<1>7. InOrder(predHist', nextSeq')
  BY <1>1, <1>2, NewInOrder, Zenon
<1> HIDE DEF hs
<1>8. /\ InForce(Append(log, NewId), hs, ftq')
      /\ ftq' \in Seq(FetchTarget) /\ Len(ftq') <= numFTQEntries
  BY <1>3, <1>4, <1>5, EndOfInstLog, Zenon
<1>9. Append(log, NewId) \in Seq(HistId)
  BY <1>1, <1>4
<1> QED BY <1>2, <1>5, <1>6, <1>7, <1>8, <1>9 DEF BpuOK, HistoriesAreUndone

LEMMA BpuFetchUnpredicted ==
    ASSUME BpuOK, TypeOK, inFetchLoop => ftq # << >>, FetchUnpredicted
    PROVE  BpuOK'
<1> DEFINE log == SquashedFTLog(specLog)
           hs == Append(predHist, [sn |-> nextSeq, id |-> NewId, modified |-> FALSE])
<1>1. /\ nextSeq \in SeqNum /\ ftq # << >> /\ ftq \in Seq(FetchTarget) /\ NewId \in HistId
      /\ IsSeq(ftq) /\ Len(ftq) <= numFTQEntries
  BY CanFetchFacts, Zenon DEF FetchUnpredicted
<1>2. nextSeq' = nextSeq + 1 /\ Insert(NewId, FALSE)
  BY Zenon DEF FetchUnpredicted, NewInst
<1>3. \/ specLog' = log /\ EndOfInst(SquashedFTs, "Locked", advancePC(pc), FALSE)
      \/ specLog' = specLog /\ EndOfInst(ftq, ftqStatus, advancePC(pc), FALSE)
  BY Zenon DEF FetchUnpredicted
<1>4. /\ SquashedFTs \in Seq(FetchTarget) /\ SquashedFTs # << >> /\ IsSeq(SquashedFTs)
      /\ log \in Seq(HistId) /\ InForce(log, predHist, SquashedFTs)
      /\ Len(SquashedFTs) <= numFTQEntries
  BY <1>1, SquashedQueue, Zenon
<1>5. predHist \in Seq(History) /\ specLog \in Seq(HistId) /\ InForce(specLog, predHist, ftq)
  BY DEF BpuOK, HistoriesAreUndone
<1> HIDE DEF log
<1>6. hs \in Seq(History) /\ InForce(log, hs, SquashedFTs) /\ InForce(specLog, hs, ftq)
  BY <1>1, <1>4, <1>5, InForceInsert, Zenon
<1>7. predHist' = hs
  BY <1>2, Zenon DEF Insert
<1>8. InOrder(predHist', nextSeq')
  BY <1>1, <1>2, NewInOrder, Zenon
<1> HIDE DEF hs
<1>9. /\ specLog' \in Seq(HistId) /\ InForce(specLog', hs, ftq')
      /\ ftq' \in Seq(FetchTarget) /\ Len(ftq') <= numFTQEntries
  BY <1>1, <1>3, <1>4, <1>5, <1>6, EndOfInstLog, Zenon
<1> QED BY <1>6, <1>7, <1>8, <1>9 DEF BpuOK, HistoriesAreUndone

LEMMA NewTarget ==
    ASSUME BpuOK, NEW ft \in FetchTarget, Len(ftq) < numFTQEntries
    PROVE  Append(ftq, ft) \in Seq(FetchTarget) /\ Len(Append(ftq, ft)) <= numFTQEntries
<1>1. ftq \in Seq(FetchTarget) /\ numFTQEntries \in Nat
  BY FrontEndAssumption DEF BpuOK
<1> QED BY <1>1

\* The queue gets a target of its type, with a history or without.
LEMMA TargetType ==
    ASSUME BpuOK, TypeOK, InsertHasRoom, GenerateFallThrough \/ GenerateBranch
    PROVE  \E ft \in FetchTarget, latency \in 0 .. maxLatency :
              /\ InsertFT(ft, latency)
              /\ \/ ft.hist = None /\ specLog' = specLog
                 \/ /\ ft.hist # None /\ ft.hist.id = NewId /\ NewId \in HistId
                    /\ specLog' = Append(specLog, NewId)
<1>1. bacPC \in Addr /\ MaxAddr \in Nat /\ fetchTargetWidth \in Nat
  BY FrontEndAssumption DEF TypeOK
<1>2. LastInWidth \in Addr
  BY <1>1 DEF LastInWidth, Addr
<1>3. \A a \in Addr : FallThrough(a) \in Addr
  BY <1>1 DEF FallThrough, Addr
<1>4. CASE GenerateFallThrough
  <2> DEFINE ft == [start |-> bacPC, end |-> LastInWidth, branch |-> FALSE,
                    taken |-> FALSE, next |-> FallThrough(LastInWidth), hist |-> None]
  <2>1. InsertFT(ft, 0) /\ specLog' = specLog
    BY <1>4, Zenon DEF GenerateFallThrough
  <2>2. FallThrough(LastInWidth) \in Addr
    BY <1>2, <1>3, Zenon
  <2>3. ft \in FetchTarget /\ ft.hist = None
    BY <1>1, <1>2, <2>2 DEF FetchTarget
  <2>4. 0 \in 0 .. maxLatency
    BY FrontEndAssumption
  <2> HIDE DEF ft
  <2> QED BY <2>1, <2>3, <2>4, Zenon
<1>5. CASE GenerateBranch
  <2>1. PICK end \in bacPC .. (IF blockBTB THEN MaxAddr ELSE LastInWidth),
             inst \in BTBInst, taken \in BOOLEAN, t \in Target, latency \in 0 .. maxLatency :
        InsertFT([start |-> bacPC, end |-> end, branch |-> TRUE, taken |-> taken,
                  next |-> IF taken /\ inst.last THEN t ELSE FallThrough(end),
                  hist |-> [id |-> NewId, type |-> inst.type, taken |-> taken]],
                 latency)
    BY <1>5, Zenon DEF GenerateBranch
  <2>2. end \in Addr
    BY <1>1, <1>2 DEF Addr
  <2>3. inst.type \in STRING
    <3>1. PICK p \in PCs : inst = [type |-> Uop(p).type, last |-> IsLastUop(p)]
      BY Zenon DEF BTBInst
    <3>2. PICK a \in Addr : \E u \in 1 .. Len(Code[a]) : p = [a |-> a, u |-> u]
      BY Zenon DEF PCs
    <3>3. PICK u \in 1 .. Len(Code[a]) : p = [a |-> a, u |-> u]
      BY <3>2, Zenon
    <3> DEFINE S == [ctl : BOOLEAN, type : STRING]
               s == Code[a]
    <3>4. s \in Seq(S) /\ u \in 1 .. Len(s) /\ Uop(p) = s[u]
      BY <3>3, FrontEndAssumption DEF Uop
    <3> HIDE DEF S, s
    <3>5. Uop(p) \in S
      BY <3>4
    <3> QED BY <3>1, <3>5 DEF S
  <2>4. NewId \in HistId
    <3>1. Len(ftq) < numFTQEntries
      BY <1>5, Zenon DEF InsertHasRoom, GenerateBranch
    <3> QED BY <3>1, NewIdFresh, Zenon DEF TypeOK
  <2> DEFINE next == IF taken /\ inst.last THEN t ELSE FallThrough(end)
             hist == [id |-> NewId, type |-> inst.type, taken |-> taken]
             ft == [start |-> bacPC, end |-> end, branch |-> TRUE, taken |-> taken,
                    next |-> next, hist |-> hist]
  <2>5. next \in Addr
    BY <1>3, <2>2, FrontEndAssumption
  <2>6. /\ hist \in {None} \cup [id : HistId, type : STRING, taken : BOOLEAN]
        /\ hist # None /\ hist.id = NewId
    BY <2>3, <2>4, Zenon DEF None
  <2>7. InsertFT(ft, latency) /\ specLog' = Append(specLog, NewId)
    BY <1>5, <2>1, Zenon DEF GenerateBranch
  <2> HIDE DEF next, hist
  <2>8. ft \in FetchTarget /\ ft.hist = hist
    BY <1>1, <2>2, <2>5, <2>6, Zenon DEF FetchTarget
  <2> HIDE DEF ft
  <2> QED BY <2>4, <2>6, <2>7, <2>8, Zenon
<1> QED BY <1>4, <1>5

LEMMA BpuGenerate ==
    ASSUME BpuOK, TypeOK, InsertHasRoom, GenerateFallThrough \/ GenerateBranch
    PROVE  BpuOK'
<1>1. /\ specLog \in Seq(HistId) /\ predHist \in Seq(History) /\ InForce(specLog, predHist, ftq)
      /\ IsSeq(ftq)
  BY DEF BpuOK, HistoriesAreUndone, IsSeq
<1>2. PICK ft \in FetchTarget, latency \in 0 .. maxLatency :
              /\ InsertFT(ft, latency)
              /\ \/ ft.hist = None /\ specLog' = specLog
                 \/ /\ ft.hist # None /\ ft.hist.id = NewId /\ NewId \in HistId
                    /\ specLog' = Append(specLog, NewId)
  BY TargetType, Zenon
<1>3. ftq' = Append(ftq, ft) /\ predHist' = predHist /\ nextSeq' = nextSeq
  BY <1>2 DEF InsertFT, backend
<1>4. Append(ftq, ft) \in Seq(FetchTarget) /\ Len(Append(ftq, ft)) <= numFTQEntries
  <2>1. Len(ftq) < numFTQEntries
    BY Zenon DEF InsertHasRoom, GenerateFallThrough, GenerateBranch
  <2> QED BY <2>1, NewTarget, Zenon
<1>5. NewId \in HistId => Append(specLog, NewId) \in Seq(HistId)
  BY <1>1
<1>6. specLog' \in Seq(HistId) /\ InForce(specLog', predHist, Append(ftq, ft))
  BY <1>1, <1>2, <1>5, InForceTarget, Zenon
<1> QED BY <1>3, <1>4, <1>6 DEF BpuOK, HistoriesAreUndone

LEMMA BpuBacSquash ==
    ASSUME BpuOK, TypeOK, BacCommitSquash \/ BacDecodeSquash
    PROVE  BpuOK'
<1>0. /\ predHist \in Seq(History) /\ specLog \in Seq(HistId) /\ IsSeq(ftq)
      /\ InForce(specLog, predHist, ftq) /\ InOrder(predHist, nextSeq)
  BY Zenon DEF BpuOK, HistoriesAreUndone, TypeOK, IsSeq
<1>1. CASE BacCommitSquash
  <2>1. /\ ftq' = << >> /\ nextSeq' = nextSeq
        /\ BpuSquash(predHist, SquashedFTLog(specLog), fromCommit.sn, fromCommit.mispredict)
    BY <1>1, Zenon DEF BacCommitSquash, BacSquash, backend
  <2>2. fromCommit.sn \in Int /\ fromCommit.mispredict \in BOOLEAN
    <3>1. fromCommit # None /\ fromCommit.squash
      BY <1>1 DEF BacCommitSquash, commitSquash
    <3>2. fromCommit \in [squash : {TRUE}, mispredict : BOOLEAN, pc : PCs, sn : 0 .. MaxSeq]
      BY <3>1, Zenon DEF TypeOK
    <3> QED BY <3>2, FrontEndAssumption
  <2> QED BY <1>0, <2>1, <2>2, BpuSquashOK, Zenon
<1>2. CASE BacDecodeSquash
  <2> DEFINE sig == fromDecode[decodeToFetchDelay]
  <2>1. /\ ftq' = << >> /\ nextSeq' = nextSeq
        /\ BpuSquash(CommittedHist, SquashedFTLog(CommittedLog), sig.sn, TRUE)
    BY <1>2, Zenon DEF BacDecodeSquash, BacSquash, backend
  <2>2. sig.sn \in Int
    <3>1. decodeToFetchDelay \in 1 .. decodeToFetchDelay /\ sig # None
      <4>1. decodeToFetchDelay \in 1 .. decodeToFetchDelay
        BY FrontEndAssumption
      <4> QED BY <1>2, <4>1, Zenon DEF BacDecodeSquash, decodeSquash
    <3>2. sig \in [sn : SeqNum, pc : PCs]
      BY <3>1, Zenon DEF TypeOK
    <3> QED BY <3>2, FrontEndAssumption DEF SeqNum
  <2> HIDE DEF sig
  <2> QED BY <1>0, <2>1, <2>2, CommittedOK, BpuSquashOK, Zenon
<1> QED BY <1>1, <1>2

LEMMA BpuBacTick ==
    ASSUME BpuOK, TypeOK, BacFetchSquash \/ BacDrain \/ BacRun
    PROVE  BpuOK'
<1>0. /\ CommittedHist \in Seq(History) /\ CommittedLog \in Seq(HistId) /\ IsSeq(ftq)
      /\ InForce(CommittedLog, CommittedHist, ftq) /\ InOrder(CommittedHist, nextSeq)
  BY CommittedOK, Zenon DEF TypeOK, IsSeq
<1>1. CASE BacFetchSquash \/ BacDrain
  <2>1. /\ ftq' = << >> /\ nextSeq' = nextSeq
        /\ predHist' = CommittedHist /\ specLog' = SquashedFTLog(CommittedLog)
    BY <1>1, Zenon DEF BacFetchSquash, BacDrain, BacSquash, backend
  <2>2. SquashedFTLog(CommittedLog) \in Seq(HistId)
        /\ InForce(SquashedFTLog(CommittedLog), CommittedHist, << >>)
    BY <1>0, NoTargets, InForceSquashedFTs, Zenon
  <2> QED BY <1>0, <2>1, <2>2, EmptyQueue DEF BpuOK, HistoriesAreUndone
<1>2. CASE BacRun
  <2>1. UNCHANGED << ftq, nextSeq >> /\ predHist' = CommittedHist /\ specLog' = CommittedLog
    BY <1>2, ZenonT(30) DEF BacRun, backend, queue
  <2> QED BY <1>0, <2>1 DEF BpuOK, HistoriesAreUndone
<1> QED BY <1>1, <1>2

LEMMA BpuSame ==
    ASSUME BpuOK, UNCHANGED << ftq, predHist, specLog, nextSeq >>
    PROVE  BpuOK'
BY DEF BpuOK, HistoriesAreUndone, InOrder

LEMMA BpuNext ==
    ASSUME BpuOK, TypeOK, InsertHasRoom, inFetchLoop => ftq # << >>, [Next]_vars
    PROVE  BpuOK'
<1>1. CASE BacCommitSquash \/ BacDecodeSquash
  BY <1>1, BpuBacSquash, Zenon
<1>2. CASE BacFetchSquash \/ BacDrain \/ BacRun
  BY <1>2, BpuBacTick, Zenon
<1>3. CASE GenerateFallThrough \/ GenerateBranch
  BY <1>3, BpuGenerate, Zenon
<1>4. CASE \/ BacOverride \/ FetchCommitSquash \/ FetchTrap \/ FetchDecodeSquash \/ FetchIdle
           \/ FetchResteer \/ FetchStart \/ FetchStop
  <2>1. UNCHANGED << ftq, predHist, specLog, nextSeq >>
    BY <1>4, Zenon DEF BacOverride, FetchCommitSquash, FetchTrap, FetchDecodeSquash, FetchIdle,
                       FetchResteer, FetchStart, FetchStop, queue, bpu, backend
  <2> QED BY <2>1, BpuSame
<1>5. CASE Decode \/ Commit \/ DrainResume
  <2>1. UNCHANGED << ftq, predHist, specLog, nextSeq >>
    BY <1>5, Zenon DEF Decode, DecodePass, DecodeSquash, Commit, CommitNothing, CommitInsts,
                       CommitSquash, CommitSquashAfter, DrainResume, queue, bpu
  <2> QED BY <2>1, BpuSame
<1>6. CASE FetchPlain
  BY <1>6, BpuFetchPlain, Zenon
<1>7. CASE FetchQuiesce
  <2>1. UNCHANGED << ftq, predHist, specLog >> /\ nextSeq' = nextSeq + 1
    BY <1>7, Zenon DEF FetchQuiesce, NewInst, queue
  <2>2. nextSeq \in SeqNum
    BY <1>7, CanFetchFacts, Zenon DEF FetchQuiesce
  <2>3. InOrder(predHist', nextSeq')
    BY <2>1, <2>2, Weaker, Zenon
  <2> QED BY <2>1, <2>3 DEF BpuOK, HistoriesAreUndone
<1>8. CASE FetchPredicted
  BY <1>8, BpuFetchPredicted, Zenon
<1>9. CASE FetchComplex
  BY <1>9, BpuFetchComplex, Zenon
<1>10. CASE FetchUnpredicted
  BY <1>10, BpuFetchUnpredicted, Zenon
<1>11. CASE UNCHANGED vars
  BY <1>11, BpuSame DEF vars, queue, bpu, backend
<1> QED BY <1>1, <1>2, <1>3, <1>4, <1>5, <1>6, <1>7, <1>8, <1>9, <1>10, <1>11, Zenon
        DEF Next, Bac, Fetch
=============================================================================
