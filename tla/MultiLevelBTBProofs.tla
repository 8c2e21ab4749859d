------------------------ MODULE MultiLevelBTBProofs ------------------------
(***************************************************************************)
(* The multi-level BTB, for any program, any geometry and any setting of    *)
(* the parameters: what its operators return, what its handlers do to the   *)
(* queue of deferred prefetches, and its types.                             *)
(***************************************************************************)
EXTENDS MultiLevelBTB, WellFoundedInduction, TLAPS

----------------------------------------------------------------------------
(* The storage operators of BTBLevels. *)

USE DEF Paths

LEMMA MergeType ==
    ASSUME NEW old \in Entry, NEW new \in Entry
    PROVE  Merge(old, new) \in Entry
BY DEF Merge, Entry

\* A victim is a branch of PC, and a victim other than the branch to be
\* written is resident.
LEMMA VictimFacts ==
    ASSUME NEW level, NEW index, NEW ways, NEW pc \in PC,
           NEW v \in Victims(level, index, ways, pc)
    PROVE  v \in PC /\ (v # pc => level[v] # NoEntry)
BY DEF Victims, SetMates, Resident

LEMMA ReplaceType ==
    ASSUME NEW level \in Level, NEW v \in PC, NEW pc \in PC, NEW e \in Entry
    PROVE  Replace(level, v, pc, e) \in Level
BY DEF Replace, Level

\* Writing an entry into a level leaves a level.
LEMMA WriteType ==
    ASSUME NEW level \in Level, NEW index, NEW ways, NEW pc \in PC,
           NEW e \in Entry, NEW after \in Write(level, index, ways, pc, e)
    PROVE  after \in Level
<1>1. CASE level[pc] # NoEntry
  <2>1. level[pc] \in Entry
    BY <1>1 DEF Level
  <2>2. after = [level EXCEPT ![pc] = Merge(level[pc], e)]
    BY <1>1 DEF Write
  <2> QED BY <2>1, <2>2, MergeType DEF Level
<1>2. CASE level[pc] = NoEntry
  <2>1. PICK v \in Victims(level, index, ways, pc) : after = Replace(level, v, pc, e)
    BY <1>2 DEF Write
  <2> QED BY <2>1, VictimFacts, ReplaceType
<1> QED BY <1>1, <1>2

\* What a write does to a level: pc gets the target of the entry written, every
\* other branch keeps its entry or loses it.
LEMMA WriteEffect ==
    ASSUME NEW level \in Level, NEW index, NEW ways, NEW pc \in PC,
           NEW e \in Entry, NEW after \in Write(level, index, ways, pc, e)
    PROVE  /\ after[pc] # NoEntry
           /\ after[pc].target = e.target
           /\ \A q \in PC \ {pc} : after[q] = level[q] \/ after[q] = NoEntry
<1>1. CASE level[pc] # NoEntry
  <2>1. level[pc] \in Entry
    BY <1>1 DEF Level
  <2>2. after = [level EXCEPT ![pc] = Merge(level[pc], e)]
    BY <1>1 DEF Write
  <2>3. Merge(level[pc], e) \in Entry /\ Merge(level[pc], e).target = e.target
    BY <2>1, MergeType DEF Merge
  <2> QED BY <2>2, <2>3, NoEntryAssumption DEF Level
<1>2. CASE level[pc] = NoEntry
  <2>1. PICK v \in Victims(level, index, ways, pc) : after = Replace(level, v, pc, e)
    BY <1>2 DEF Write
  <2> QED BY <2>1, NoEntryAssumption DEF Replace
<1> QED BY <1>1, <1>2

----------------------------------------------------------------------------

\* Branch q is found below the L1 as before, or no longer.
Kept(before, after, q) == LowerTarget(after, q) \in {LowerTarget(before, q), NoEntry}

\* Writing an entry of pc into the L3 leaves a hierarchy in which every other
\* branch is kept.
LEMMA WriteL3Effect ==
    ASSUME NEW h \in Hierarchy, NEW pc \in PC, NEW e \in Entry,
           NEW l3x \in Write(h.l3, L3Set, L3Ways, pc, e),
           NEW s, s = [h EXCEPT !.l3 = l3x]
    PROVE  /\ s \in Hierarchy
           /\ s.l1 = h.l1 /\ s.l2 = h.l2 /\ s.l3 = l3x
           /\ s.l3[pc] # NoEntry /\ s.l3[pc].target = e.target
           /\ \A q \in PC \ {pc} : Kept(h, s, q)
<1>1. h.l3 \in Level
  BY DEF Hierarchy
<1>2. l3x \in Level
  BY <1>1, WriteType
<1>3. s \in Hierarchy /\ s.l1 = h.l1 /\ s.l2 = h.l2 /\ s.l3 = l3x
  BY <1>2 DEF Hierarchy
<1>4. /\ l3x[pc] # NoEntry
      /\ l3x[pc].target = e.target
      /\ \A q \in PC \ {pc} : l3x[q] = h.l3[q] \/ l3x[q] = NoEntry
  BY <1>1, WriteEffect
<1>5. ASSUME NEW q \in PC \ {pc} PROVE Kept(h, s, q)
  BY <1>3, <1>4 DEF Kept, LowerTarget
<1> QED BY <1>3, <1>4, <1>5

\* When the entry of an L1 victim has been written to the L2, the L2 holds its
\* target, and every other branch is kept: a replaced L2 entry is in the L3.
LEMMA WriteBackL2Effect ==
    ASSUME NEW h \in Hierarchy, NEW pc \in PC, NEW e \in Entry,
           NEW b \in WriteBackL2(h, pc, e)
    PROVE  /\ b \in Hierarchy
           /\ b.l1 = h.l1
           /\ b.l2[pc] # NoEntry /\ b.l2[pc].target = e.target
           /\ \A q \in PC \ {pc} : Kept(h, b, q)
<1>0. h.l1 \in Level /\ h.l2 \in Level /\ h.l3 \in Level
  BY DEF Hierarchy
<1>1. CASE h.l2[pc] # NoEntry
  <2>1. h.l2[pc] \in Entry
    BY <1>0, <1>1 DEF Level
  <2> DEFINE m == Merge(h.l2[pc], e)
  <2>2. m \in Entry /\ m.target = e.target /\ m # NoEntry
    BY <2>1, MergeType, NoEntryAssumption DEF Merge
  <2>3. b = [h EXCEPT !.l2 = [h.l2 EXCEPT ![pc] = m]]
    BY <1>1 DEF WriteBackL2
  <2> HIDE DEF m
  <2>4. [h.l2 EXCEPT ![pc] = m] \in Level
    BY <1>0, <2>2 DEF Level
  <2>5. b \in Hierarchy /\ b.l1 = h.l1 /\ b.l3 = h.l3 /\ b.l2 = [h.l2 EXCEPT ![pc] = m]
    BY <2>3, <2>4 DEF Hierarchy
  <2>6. b.l2[pc] = m /\ \A q \in PC \ {pc} : b.l2[q] = h.l2[q]
    BY <1>0, <2>5 DEF Level
  <2> QED BY <2>2, <2>5, <2>6 DEF Kept, LowerTarget
<1>2. CASE h.l2[pc] = NoEntry
  <2>0. PICK v \in Victims(h.l2, L2Set, L2Ways, pc) :
           \E s \in SpillL2(h, v) : b = [s EXCEPT !.l2 = Replace(h.l2, v, pc, e)]
    BY <1>2 DEF WriteBackL2
  <2>1. PICK s \in SpillL2(h, v) : b = [s EXCEPT !.l2 = Replace(h.l2, v, pc, e)]
    BY <2>0
  <2> DEFINE r == Replace(h.l2, v, pc, e)
  <2>2. v \in PC /\ (v # pc => h.l2[v] # NoEntry)
    BY VictimFacts
  <2>3. r \in Level /\ r[pc] = e
        /\ \A q \in PC \ {pc} : r[q] = IF q = v THEN NoEntry ELSE h.l2[q]
    BY <1>0, <2>2, ReplaceType, Zenon DEF Replace
  <2>4. /\ s \in Hierarchy /\ s.l1 = h.l1 /\ s.l2 = h.l2
        /\ \A q \in PC \ {v} : Kept(h, s, q)
        /\ v # pc /\ enableL3 => s.l3[v] # NoEntry /\ s.l3[v].target = h.l2[v].target
    <3>1. CASE enableL3 /\ h.l2[v] # NoEntry
      <4>1. PICK l3x \in Write(h.l3, L3Set, L3Ways, v, h.l2[v]) : s = [h EXCEPT !.l3 = l3x]
        BY <3>1 DEF SpillL2
      <4>2. h.l2[v] \in Entry
        BY <1>0, <2>2, <3>1 DEF Level
      <4> QED BY <2>2, <4>1, <4>2, WriteL3Effect
    <3>2. CASE ~(enableL3 /\ h.l2[v] # NoEntry)
      <4>1. s = h
        BY <3>2 DEF SpillL2
      <4> QED BY <2>2, <3>2, <4>1 DEF Kept
    <3> QED BY <3>1, <3>2
  <2> HIDE DEF r
  <2>5. b \in Hierarchy /\ b.l1 = h.l1 /\ b.l2 = r /\ b.l3 = s.l3
    BY <2>1, <2>3, <2>4 DEF Hierarchy, r
  <2>6. ASSUME NEW q \in PC \ {pc} PROVE Kept(h, b, q)
    <3>1. CASE q = v
      BY <2>2, <2>3, <2>4, <2>5, <3>1, Zenon DEF Kept, LowerTarget
    <3>2. CASE q # v
      BY <2>2, <2>3, <2>4, <2>5, <3>2, Zenon DEF Kept, LowerTarget
    <3> QED BY <3>1, <3>2
  <2> QED BY <2>3, <2>5, <2>6, NoEntryAssumption
<1> QED BY <1>1, <1>2

LEMMA WriteBackEffect ==
    ASSUME NEW h \in Hierarchy, NEW pc \in PC, NEW e \in Entry,
           NEW b \in WriteBack(h, pc, e)
    PROVE  /\ b \in Hierarchy
           /\ b.l1 = h.l1
           /\ b.l2[pc] # NoEntry /\ b.l2[pc].target = e.target
           /\ \A q \in PC \ {pc} : Kept(h, b, q)
<1>1. PICK w \in WriteBackL2(h, pc, e) : b \in MirrorL3(w, pc, e)
  BY DEF WriteBack
<1>2. /\ w \in Hierarchy
      /\ w.l1 = h.l1
      /\ w.l2[pc] # NoEntry /\ w.l2[pc].target = e.target
      /\ \A q \in PC \ {pc} : Kept(h, w, q)
  BY <1>1, WriteBackL2Effect
<1>3. CASE nonexclusive /\ enableL3
  <2>1. PICK l3x \in Write(w.l3, L3Set, L3Ways, pc, e) : b = [w EXCEPT !.l3 = l3x]
    BY <1>1, <1>3 DEF MirrorL3
  <2>2. /\ b \in Hierarchy
        /\ b.l1 = w.l1 /\ b.l2 = w.l2
        /\ \A q \in PC \ {pc} : Kept(w, b, q)
    BY <1>2, <2>1, WriteL3Effect
  <2> QED BY <1>2, <2>2 DEF Kept
<1>4. CASE ~(nonexclusive /\ enableL3)
  BY <1>1, <1>2, <1>4 DEF MirrorL3
<1> QED BY <1>3, <1>4

\* freeUpL1Entry: pc gets an L1 way with the given entry, and for every other
\* branch a lookup gives the same target as before, or none.
LEMMA FreeUpL1Effect ==
    ASSUME NEW h \in Hierarchy, NEW pc \in PC, NEW e \in Entry,
           h.l1[pc] = NoEntry,
           NEW a \in FreeUpL1Entry(h, pc, e)
    PROVE  /\ a \in Hierarchy
           /\ a.l1[pc] = e
           /\ \A q \in PC \ {pc} :
                LookupTarget(a, q) \in {LookupTarget(h, q), NoEntry}
<1>0. h.l1 \in Level
  BY DEF Hierarchy
<1>1. PICK v \in Victims(h.l1, L1Set, L1Ways, pc) :
         \E b \in IF h.l1[v] # NoEntry THEN WriteBack(h, v, h.l1[v]) ELSE {h} :
            a = [b EXCEPT !.l1 = Replace(h.l1, v, pc, e)]
  BY DEF FreeUpL1Entry
<1>2. PICK b \in IF h.l1[v] # NoEntry THEN WriteBack(h, v, h.l1[v]) ELSE {h} :
         a = [b EXCEPT !.l1 = Replace(h.l1, v, pc, e)]
  BY <1>1
<1>3. v \in PC /\ (v # pc => h.l1[v] # NoEntry)
  BY VictimFacts
<1> DEFINE r == Replace(h.l1, v, pc, e)
<1>4. r \in Level /\ r[pc] = e
      /\ \A q \in PC \ {pc} : r[q] = IF q = v THEN NoEntry ELSE h.l1[q]
  BY <1>0, <1>3, ReplaceType, Zenon DEF Replace
<1> HIDE DEF r
<1>5. /\ b \in Hierarchy
      /\ v # pc => b.l2[v] # NoEntry /\ b.l2[v].target = h.l1[v].target
      /\ \A q \in PC \ {v} : Kept(h, b, q)
  <2>1. CASE h.l1[v] # NoEntry
    <3>1. h.l1[v] \in Entry
      BY <1>0, <1>3, <2>1 DEF Level
    <3> QED BY <1>2, <1>3, <2>1, <3>1, WriteBackEffect
  <2>2. CASE h.l1[v] = NoEntry
    BY <1>2, <1>3, <2>2 DEF Kept
  <2> QED BY <2>1, <2>2
<1>6. a \in Hierarchy /\ a.l1 = r /\ a.l2 = b.l2 /\ a.l3 = b.l3
  BY <1>2, <1>4, <1>5 DEF Hierarchy, r
<1>7. ASSUME NEW q \in PC \ {pc}
      PROVE  LookupTarget(a, q) \in {LookupTarget(h, q), NoEntry}
  <2>1. CASE q = v
    BY <1>3, <1>4, <1>5, <1>6, <2>1, Zenon DEF LookupTarget, LowerTarget
  <2>2. CASE q # v
    BY <1>3, <1>4, <1>5, <1>6, <2>2, ZenonT(60) DEF LookupTarget, LowerTarget, Kept
  <2> QED BY <2>1, <2>2
<1> QED BY <1>4, <1>6, <1>7

HIDE DEF Paths

----------------------------------------------------------------------------
(* The deferred prefetch queue and the entries a trigger adds. *)

\* The numeric parameters.
LEMMA ParamNumbers ==
    /\ l2Latency \in Nat /\ l3Latency \in Nat
    /\ maxChainTrackerEntries \in Nat /\ MaxChains \in Nat
    /\ prefetchDepth \in Nat /\ prefetchDepth >= 1
    /\ UIntRange \in Nat /\ UIntRange > 0
BY ParamsAssumption

\* The least element of a nonempty set of naturals, as Min chooses it.
LEMMA LeastNat ==
    ASSUME NEW S, S \subseteq Nat, S # {}
    PROVE  Min(S) \in S /\ \A y \in S : Min(S) <= y
<1>1. IsWellFoundedOn(OpToRel(<, Nat), Nat)
  BY NatLessThanWellFounded, Zenon
<1>2. \E x \in S : \A y \in S : ~(<<y, x>> \in OpToRel(<, Nat))
  BY <1>1, WFMin, Zenon
<1>3. PICK x \in S : \A y \in S : ~(y < x)
  BY <1>2, Zenon DEF OpToRel
<1>4. \A y \in S : x <= y
  BY <1>3
<1> QED BY <1>4, Zenon DEF Min

----------------------------------------------------------------------------
(* The deferred prefetch queue. *)

\* Two allocating entries of the same chain and the same path.
SameTrigger(e, f) ==
    /\ e.allocate /\ f.allocate
    /\ e.chainId = f.chainId
    /\ e.path = f.path

Sorted(q) ==
    \A i, j \in 1 .. Len(q) : i < j => q[i].issueIn <= q[j].issueIn

Distinct(q) ==
    \A i, j \in 1 .. Len(q) : i # j => ~SameTrigger(q[i], q[j])

\* Where std::lower_bound points.
LEMMA InsertPosFacts ==
    ASSUME NEW q \in Seq(Deferred), NEW e \in Deferred
    PROVE  /\ InsertPos(q, e) \in 1 .. Len(q) + 1
           /\ \A i \in 1 .. Len(q) :
                i < InsertPos(q, e) => q[i].issueIn < e.issueIn
           /\ InsertPos(q, e) <= Len(q) =>
                q[InsertPos(q, e)].issueIn >= e.issueIn
<1> DEFINE S == {i \in 1 .. Len(q) + 1 :
                   i = Len(q) + 1 \/ q[i].issueIn >= e.issueIn}
<1>1. Len(q) \in Nat
  OBVIOUS
<1>2. S \subseteq Nat /\ Len(q) + 1 \in S
  BY <1>1
<1>3. Min(S) \in S /\ \A y \in S : Min(S) <= y
  <2> HIDE DEF S
  <2> QED BY <1>2, LeastNat, Zenon
<1>4. InsertPos(q, e) = Min(S)
  BY DEF InsertPos
<1>5. \A i \in 1 .. Len(q) : q[i].issueIn \in Int
  <2>1. \A i \in 1 .. Len(q) : q[i] \in Deferred
    OBVIOUS
  <2> QED BY <2>1 DEF Deferred
<1>6. e.issueIn \in Int
  BY DEF Deferred
<1> DEFINE p == Min(S)
<1>7. p \in S /\ \A y \in S : p <= y
  BY <1>3
<1> HIDE DEF p
<1>8. p \in 1 .. Len(q) + 1 /\ (p <= Len(q) => q[p].issueIn >= e.issueIn)
  BY <1>1, <1>7
<1>9. ASSUME NEW i \in 1 .. Len(q), i < p
      PROVE  q[i].issueIn < e.issueIn
  <2>1. i \notin S
    BY <1>1, <1>7, <1>8, <1>9
  <2> QED BY <2>1, <1>1, <1>5, <1>6
<1> QED BY <1>4, <1>8, <1>9 DEF p

\* prefetchViaBBMap's insertion adds exactly its entry and keeps the order.
LEMMA InsertSortedFacts ==
    ASSUME NEW q \in Seq(Deferred), NEW e \in Deferred
    PROVE  /\ InsertSorted(q, e) \in Seq(Deferred)
           /\ Later(InsertSorted(q, e)) = Later(q) \cup {e}
           /\ Sorted(q) => Sorted(InsertSorted(q, e))
           /\ Distinct(q) /\ (\A f \in Later(q) : ~SameTrigger(e, f))
                => Distinct(InsertSorted(q, e))
<1> DEFINE p == InsertPos(q, e)
           n == Len(q)
           r == InsertSorted(q, e)
<1>1. n \in Nat /\ p \in 1 .. n + 1
  BY InsertPosFacts
<1>2. /\ \A i \in 1 .. n : i < p => q[i].issueIn < e.issueIn
      /\ p <= n => q[p].issueIn >= e.issueIn
  BY InsertPosFacts
<1>3. r = [i \in 1 .. n + 1 |->
             IF i < p THEN q[i] ELSE IF i = p THEN e ELSE q[i - 1]]
  BY DEF InsertSorted
<1>4. \A i \in 1 .. n : q[i] \in Deferred
  OBVIOUS
<1> HIDE DEF p, n, r
<1>5. \A i \in 1 .. n + 1 :
        /\ i < p => i \in 1 .. n /\ r[i] = q[i]
        /\ i = p => r[i] = e
        /\ i > p => i - 1 \in 1 .. n /\ r[i] = q[i - 1]
  BY <1>1, <1>3
<1>6. r \in [1 .. n + 1 -> Deferred]
  <2>1. \A i \in 1 .. n + 1 : r[i] \in Deferred
    BY <1>1, <1>4, <1>5
  <2> QED BY <1>3, <2>1
<1>7. r \in Seq(Deferred) /\ Len(r) = n + 1
  BY <1>1, <1>6
<1>8. Later(r) = Later(q) \cup {e}
  <2>1. \A x \in Later(r) : x \in Later(q) \cup {e}
    <3> TAKE x \in Later(r)
    <3>1. PICK i \in 1 .. n + 1 : x = r[i]
      BY <1>7 DEF Later
    <3>2. \A k \in 1 .. n : q[k] \in Later(q)
      BY DEF Later, n
    <3>3. i < p \/ i = p \/ i > p
      BY <1>1
    <3> QED BY <1>5, <3>1, <3>2, <3>3
  <2>2. \A i \in 1 .. n : \E j \in 1 .. n + 1 : r[j] = q[i]
    <3> TAKE i \in 1 .. n
    <3>1. CASE i < p
      BY <1>1, <1>5, <3>1
    <3>2. CASE i >= p
      <4>1. i + 1 \in 1 .. n + 1 /\ i + 1 > p /\ (i + 1) - 1 = i
        BY <1>1, <3>2
      <4> QED BY <1>5, <4>1
    <3> QED BY <1>1, <3>1, <3>2
  <2>3. p \in 1 .. n + 1 /\ r[p] = e
    BY <1>1, <1>5
  <2> QED BY <1>7, <2>1, <2>2, <2>3, Zenon DEF Later, n
<1>9. ASSUME Sorted(q) PROVE Sorted(r)
  <2>1. \A i, j \in 1 .. n : i < j => q[i].issueIn <= q[j].issueIn
    BY <1>9 DEF Sorted, n
  <2>2. \A i \in 1 .. n : q[i].issueIn \in Int
    BY <1>4 DEF Deferred
  <2>3. e.issueIn \in Int
    BY DEF Deferred
  <2>4. \A i \in 1 .. n : i >= p => q[i].issueIn >= e.issueIn
    <3> TAKE i \in 1 .. n
    <3> HAVE i >= p
    <3>1. p \in 1 .. n
      BY <1>1
    <3> QED BY <1>1, <1>2, <2>1, <2>2, <2>3, <3>1
  <2>5. SUFFICES ASSUME NEW i \in 1 .. n + 1, NEW j \in 1 .. n + 1, i < j
                 PROVE  r[i].issueIn <= r[j].issueIn
    BY <1>7 DEF Sorted
  <2>6. CASE j < p
    BY <1>1, <1>5, <2>1, <2>5, <2>6
  <2>7. CASE j = p
    BY <1>1, <1>2, <1>5, <2>2, <2>3, <2>5, <2>7
  <2>8. CASE j > p /\ i < p
    <3>1. /\ i \in 1 .. n /\ r[i] = q[i]
          /\ j - 1 \in 1 .. n /\ r[j] = q[j - 1] /\ i <= j - 1
      BY <1>1, <1>5, <2>5, <2>8
    <3>2. i = j - 1 \/ i < j - 1
      BY <1>1, <3>1
    <3> QED BY <2>1, <2>2, <3>1, <3>2
  <2>9. CASE j > p /\ i = p
    <3>1. j - 1 \in 1 .. n /\ r[j] = q[j - 1] /\ j - 1 >= p /\ r[i] = e
      BY <1>1, <1>5, <2>5, <2>9
    <3> QED BY <2>4, <3>1
  <2>10. CASE j > p /\ i > p
    <3>1. /\ i - 1 \in 1 .. n /\ r[i] = q[i - 1]
          /\ j - 1 \in 1 .. n /\ r[j] = q[j - 1] /\ i - 1 < j - 1
      BY <1>1, <1>5, <2>5, <2>10
    <3> QED BY <2>1, <3>1
  <2> QED BY <1>1, <2>6, <2>7, <2>8, <2>9, <2>10
<1>10. ASSUME Distinct(q), \A f \in Later(q) : ~SameTrigger(e, f)
       PROVE  Distinct(r)
  <2> DEFINE from(i) == IF i < p THEN i ELSE i - 1
  <2>1. \A i \in 1 .. n : q[i] \in Later(q)
    BY DEF Later, n
  <2>2. \A i, j \in 1 .. n : i # j => ~SameTrigger(q[i], q[j])
    BY <1>10 DEF Distinct, n
  <2>3. \A i \in 1 .. n + 1 : i # p => from(i) \in 1 .. n /\ r[i] = q[from(i)]
    BY <1>1, <1>5
  <2>4. \A i, j \in 1 .. n + 1 : i # p /\ j # p /\ i # j => from(i) # from(j)
    BY <1>1
  <2>5. \A f : SameTrigger(f, e) => SameTrigger(e, f)
    BY DEF SameTrigger
  <2> HIDE DEF from
  <2>6. SUFFICES ASSUME NEW i \in 1 .. n + 1, NEW j \in 1 .. n + 1, i # j
                 PROVE  ~SameTrigger(r[i], r[j])
    BY <1>7 DEF Distinct
  <2>7. CASE i = p
    BY <1>5, <1>10, <2>1, <2>3, <2>6, <2>7
  <2>8. CASE j = p
    BY <1>5, <1>10, <2>1, <2>3, <2>5, <2>6, <2>8
  <2>9. CASE i # p /\ j # p
    BY <2>2, <2>3, <2>4, <2>6, <2>9
  <2> QED BY <2>7, <2>8, <2>9
<1> QED BY <1>7, <1>8, <1>9, <1>10 DEF r

ChainArg == [chainId : 1 .. MaxChains, allocate : BOOLEAN,
             depth : 1 .. prefetchDepth]

BBMapOK == bbMap \in [Addr -> PC \cup {NoPC}]

\* What one call of prefetchViaBBMap may add to the queue.
NewEntry(f, path, chain) ==
    /\ f.issueIn >= 1
    /\ f.path = path
    /\ f.chainId = chain.chainId
    /\ f.allocate = chain.allocate
    /\ f.depth = chain.depth

NoTrigger(q, chain, path) ==
    chain.allocate =>
        \A f \in Later(q) : ~(/\ f.allocate
                              /\ f.chainId = chain.chainId
                              /\ f.path = path)

LEMMA ViaBBMapFacts ==
    ASSUME BBMapOK, NEW q \in Seq(Deferred), NEW l2x, NEW l3x,
           NEW addr \in Addr, NEW path \in Paths, NEW base \in Nat,
           NEW type, NEW chain \in ChainArg,
           NEW r, r = PrefetchViaBBMap(q, l2x, l3x, addr, path, base,
                                       type, chain)
    PROVE  /\ r \in Seq(Deferred)
           /\ Later(q) \subseteq Later(r)
           /\ \A f \in Later(r) : f \in Later(q) \/ NewEntry(f, path, chain)
           /\ Sorted(q) => Sorted(r)
           /\ Distinct(q) /\ NoTrigger(q, chain, path) => Distinct(r)
<1> DEFINE pc == bbMap[addr]
           e  == [pc |-> pc, issueIn |-> base + 1,
                  path |-> path, chainId |-> chain.chainId,
                  allocate |-> chain.allocate, depth |-> chain.depth]
<1>1. r = q \/ (pc # NoPC /\ r = InsertSorted(q, e))
  BY DEF PrefetchViaBBMap
<1>2. CASE r = q
  BY <1>2
<1>3. CASE pc # NoPC /\ r = InsertSorted(q, e)
  <2>1. pc \in PC
    BY <1>3 DEF BBMapOK
  <2>2. chain.chainId \in 1 .. MaxChains /\ chain.allocate \in BOOLEAN
        /\ chain.depth \in 1 .. prefetchDepth
    BY DEF ChainArg
  <2>3. base + 1 \in Int /\ base + 1 >= 1
    OBVIOUS
  <2>4. e \in Deferred
    BY <2>1, <2>2, <2>3, Zenon DEF Deferred
  <2>5. NewEntry(e, path, chain)
    BY <2>3 DEF NewEntry
  <2>6. NoTrigger(q, chain, path) =>
          \A f \in Later(q) : ~SameTrigger(e, f)
    BY Zenon DEF NoTrigger, SameTrigger
  <2> HIDE DEF e
  <2> QED BY <1>3, <2>4, <2>5, <2>6, InsertSortedFacts
<1> QED BY <1>1, <1>2, <1>3, Zenon

\* r is q with the entries of one call of PrefetchPaths put in.
PathsAdded(q, r, paths, chain) ==
    /\ r \in Seq(Deferred)
    /\ \A f \in Later(r) :
         \/ f \in Later(q)
         \/ f.path \in paths /\ NewEntry(f, f.path, chain)
    /\ Sorted(q) => Sorted(r)
    /\ /\ Distinct(q)
       /\ NoTrigger(q, chain, "target") /\ NoTrigger(q, chain, "through")
       => Distinct(r)

LEMMA PrefetchPathsFacts ==
    ASSUME BBMapOK, NEW q \in Seq(Deferred), NEW l2x, NEW l3x,
           NEW paths \in SUBSET Paths, NEW pc \in PC, NEW target \in Addr,
           NEW base \in Nat, NEW type, NEW chain \in ChainArg,
           NEW r, r = PrefetchPaths(q, l2x, l3x, paths, pc, target, base, type,
                                    chain)
    PROVE  PathsAdded(q, r, paths, chain)
<1> DEFINE q1 == IF "target" \in paths
                 THEN PrefetchViaBBMap(q, l2x, l3x, target, "target", base, type,
                                       chain)
                 ELSE q
           b1 == IF "target" \in paths THEN base + 1 ELSE base
           ft == pc + minInstSize
           r1 == PrefetchViaBBMap(q1, l2x, l3x, ft, "through", b1, type, chain)
<1>1. r = IF "through" \in paths THEN r1 ELSE q1
  BY DEF PrefetchPaths
<1>2. /\ q1 \in Seq(Deferred)
      /\ Later(q) \subseteq Later(q1)
      /\ \A f \in Later(q1) :
           f \in Later(q) \/ ("target" \in paths /\ NewEntry(f, "target", chain))
      /\ Sorted(q) => Sorted(q1)
      /\ Distinct(q) /\ NoTrigger(q, chain, "target") => Distinct(q1)
  <2>1. CASE "target" \in paths
    <3>1. q1 = PrefetchViaBBMap(q, l2x, l3x, target, "target", base, type, chain)
      BY <2>1
    <3> HIDE DEF q1
    <3> QED BY <2>1, <3>1, ViaBBMapFacts
  <2>2. CASE "target" \notin paths
    BY <2>2
  <2> QED BY <2>1, <2>2, Zenon
<1>3. ft \in Addr /\ b1 \in Nat
  BY ProgramAssumption
<1>4. NoTrigger(q, chain, "through") => NoTrigger(q1, chain, "through")
  BY <1>2, Zenon DEF NoTrigger, NewEntry
<1>5. r1 = PrefetchViaBBMap(q1, l2x, l3x, ft, "through", b1, type, chain)
  OBVIOUS
<1> HIDE DEF q1, b1, ft, r1
<1>6. "through" \in Paths
  BY DEF Paths
<1>7. /\ r1 \in Seq(Deferred)
      /\ Later(q1) \subseteq Later(r1)
      /\ \A f \in Later(r1) : f \in Later(q1) \/ NewEntry(f, "through", chain)
      /\ Sorted(q1) => Sorted(r1)
      /\ Distinct(q1) /\ NoTrigger(q1, chain, "through") => Distinct(r1)
  <2>1. q1 \in Seq(Deferred) /\ ft \in Addr /\ b1 \in Nat
    BY <1>2, <1>3
  <2> QED BY <1>5, <1>6, <2>1, ViaBBMapFacts
<1>8. CASE "through" \in paths
  BY <1>1, <1>2, <1>4, <1>7, <1>8, Zenon DEF PathsAdded, NewEntry
<1>9. CASE "through" \notin paths
  BY <1>1, <1>2, <1>9, Zenon DEF PathsAdded, NewEntry
<1> QED BY <1>8, <1>9

\* applyNewPBitsLogic chooses among the two paths, and with newPBits never both.
LEMMA TriggerPathsFacts ==
    ASSUME NEW type, NEW taken, NEW backward, NEW bits \in SUBSET Paths, NEW loc
    PROVE  /\ TriggerPaths(type, taken, backward, bits, loc) \in SUBSET Paths
           /\ newPBits =>
                ~(/\ "target" \in TriggerPaths(type, taken, backward, bits, loc)
                  /\ "through" \in TriggerPaths(type, taken, backward, bits, loc))
BY DEF TriggerPaths, Paths

\* What the entries added by a trigger look like: they are the allocating
\* entries of a new chain, one per path, and with newPBits of one path only.
OneTrigger(paths, before, after) ==
    /\ paths \in SUBSET Paths
    /\ newPBits => ~("target" \in paths /\ "through" \in paths)
    /\ \A f \in Later(after) :
         \/ f \in Later(before)
         \/ /\ nextChainId' = nextChainId + 1
            /\ f.chainId = nextChainId
            /\ f.allocate
            /\ f.path \in paths
            /\ f.issueIn >= 1
            /\ ~depthOnlyCall => f.depth = prefetchDepth

LEMMA StartChainFacts ==
    ASSUME TypeOK, NEW pc \in PC, NEW entry, entry.target \in Addr,
           NEW base \in Nat, NEW paths \in SUBSET Paths,
           newPBits => ~("target" \in paths /\ "through" \in paths),
           StartChain(pc, entry, paths, base)
    PROVE  /\ nextChainId' \in 1 .. MaxChains + 1
           /\ nextChainId' \in {nextChainId, nextChainId + 1}
           /\ queue' \in Seq(Deferred)
           /\ Sorted(queue) => Sorted(queue')
           /\ OneTrigger(paths, queue, queue')
           /\ Distinct(queue) /\ (\A f \in Later(queue) : f.chainId < nextChainId)
                => Distinct(queue')
<1>1. /\ queue \in Seq(Deferred)
      /\ nextChainId \in 1 .. MaxChains + 1
      /\ BBMapOK
  BY Zenon DEF TypeOK, BBMapOK
<1>2. /\ paths # {} => nextChainId <= MaxChains
      /\ nextChainId' = IF paths # {} THEN nextChainId + 1 ELSE nextChainId
      /\ queue' = PrefetchPaths(queue, l2', l3', paths, pc, entry.target, base,
                                BrType[pc], NewChain(BrType[pc]))
  BY Zenon DEF StartChain
<1>3. CASE paths = {}
  <2>1. queue' = queue /\ nextChainId' = nextChainId
    BY <1>2, <1>3 DEF PrefetchPaths
  <2>2. OneTrigger(paths, queue, queue')
    BY <1>3, <2>1 DEF OneTrigger
  <2> QED BY <1>1, <2>1, <2>2, Zenon
<1>4. CASE paths # {}
  <2> DEFINE chain == NewChain(BrType[pc])
  <2>1. nextChainId \in 1 .. MaxChains /\ nextChainId' = nextChainId + 1
    BY <1>1, <1>2, <1>4, ParamNumbers
  <2>2. /\ chain \in ChainArg
        /\ chain.chainId = nextChainId /\ chain.allocate = TRUE
        /\ ~depthOnlyCall => chain.depth = prefetchDepth
    BY <2>1, ParamNumbers DEF NewChain, ChainArg
  <2>3. PathsAdded(queue, queue', paths, chain)
    <3> HIDE DEF chain
    <3>1. \A x, y, z, type :
            z = PrefetchPaths(queue, x, y, paths, pc, entry.target, base, type,
                              chain)
            => PathsAdded(queue, z, paths, chain)
      BY <1>1, <2>2, PrefetchPathsFacts
    <3> QED BY <1>2, <3>1, Zenon DEF chain
  <2> HIDE DEF chain
  <2>4. OneTrigger(paths, queue, queue')
    BY <2>1, <2>2, <2>3, Zenon DEF OneTrigger, NewEntry, PathsAdded
  <2>5. (\A f \in Later(queue) : f.chainId < nextChainId) =>
          NoTrigger(queue, chain, "target") /\ NoTrigger(queue, chain, "through")
    BY <2>1, <2>2, ParamNumbers DEF NoTrigger
  <2>6. nextChainId' \in 1 .. MaxChains + 1
    BY <2>1, ParamNumbers
  <2> QED BY <2>1, <2>3, <2>4, <2>5, <2>6 DEF PathsAdded
<1> QED BY <1>3, <1>4

LEMMA TriggerFacts ==
    ASSUME TypeOK, NEW pc \in PC,
           NEW entry, entry.target \in Addr, entry.bits \in SUBSET Paths,
           NEW taken, NEW loc, NEW base \in Nat,
           TryInitialTrigger(pc, entry, taken, loc, base)
    PROVE  /\ prevBw' \in [isBw : BOOLEAN, l1Miss : BOOLEAN]
           /\ nextChainId' \in 1 .. MaxChains + 1
           /\ nextChainId' \in {nextChainId, nextChainId + 1}
           /\ queue' \in Seq(Deferred)
           /\ Sorted(queue) => Sorted(queue')
           /\ \E paths : OneTrigger(paths, queue, queue')
           /\ Distinct(queue) /\ (\A f \in Later(queue) : f.chainId < nextChainId)
                => Distinct(queue')
<1> DEFINE bw    == entry.target < pc
           paths == TriggerPaths(BrType[pc], taken, bw, entry.bits, loc)
<1>1. \/ UNCHANGED <<queue, nextChainId, prevBw>>
      \/ /\ prevBw' = [isBw |-> bw, l1Miss |-> loc # "L1Hit"]
         /\ StartChain(pc, entry, paths, base)
  BY Zenon DEF TryInitialTrigger
<1>2. /\ paths \in SUBSET Paths
      /\ newPBits => ~("target" \in paths /\ "through" \in paths)
  BY TriggerPathsFacts, Zenon
<1> HIDE DEF paths
<1>3. CASE UNCHANGED <<queue, nextChainId, prevBw>>
  <2>1. /\ queue \in Seq(Deferred)
        /\ nextChainId \in 1 .. MaxChains + 1
        /\ prevBw \in [isBw : BOOLEAN, l1Miss : BOOLEAN]
    BY Zenon DEF TypeOK
  <2>2. OneTrigger({}, queue, queue')
    BY <1>3, Zenon DEF OneTrigger
  <2> QED BY <1>3, <2>1, <2>2, Zenon
<1>4. CASE /\ prevBw' = [isBw |-> bw, l1Miss |-> loc # "L1Hit"]
           /\ StartChain(pc, entry, paths, base)
  <2>1. bw \in BOOLEAN /\ (loc # "L1Hit") \in BOOLEAN
    BY SMTT(30)
  <2> HIDE DEF bw
  <2>2. prevBw' \in [isBw : BOOLEAN, l1Miss : BOOLEAN]
    BY <1>4, <2>1, Zenon
  <2> QED BY <1>2, <1>4, <2>2, StartChainFacts, Zenon
<1> QED BY <1>1, <1>3, <1>4, Zenon

----------------------------------------------------------------------------
(* The parts of the type invariant. *)

\* What a lookup leaves well typed apart from the levels and the buffer.
RestOK ==
    /\ bbMap \in [Addr -> PC \cup {NoPC}]
    /\ prevBlock \in [pc : PC, target : Addr] \cup {NoEntry}
    /\ prevBw \in [isBw : BOOLEAN, l1Miss : BOOLEAN]
    /\ queue \in Seq(Deferred)
    /\ ready \in Seq(Deferred)
    /\ chainTable \in [Slots -> ActiveChainEntry]
    /\ nextChainId \in 1 .. MaxChains + 1
    /\ demand \subseteq PC
    /\ phase \in {"cpu", "event"}
    /\ issued \in [1 .. MaxChains -> Nat]
    /\ lastSample \in Sample \cup {NoEntry}

BufferOK ==
    /\ pb \in [PC -> PBEntry \cup {NoEntry}]
    /\ pbStale \in [PBSets -> Nat]
    /\ owed \in [PBSets -> Int]

LevelsOK == {l1, l2, l3} \subseteq Level

LEMMA TypeParts ==
    TypeOK <=> LevelsOK /\ BufferOK /\ RestOK
BY Zenon DEF TypeOK, LevelsOK, BufferOK, RestOK

LEMMA NextTypeParts ==
    TypeOK' <=> LevelsOK' /\ BufferOK' /\ RestOK'
BY Zenon DEF TypeOK, LevelsOK, BufferOK, RestOK

----------------------------------------------------------------------------
(* The handlers of the CPU (predictions, updates, memInvalidate) keep the types. *)

----------------------------------------------------------------------------
(* The levels. *)

LEMMA StartsInAddr ==
    Starts \subseteq Addr
BY ProgramAssumption DEF Starts

\* Training changes no target and neither adds nor removes an entry.
SameContent(before, after) ==
    \A pc \in PC :
        /\ before[pc] = NoEntry <=> after[pc] = NoEntry
        /\ before[pc] # NoEntry => after[pc].target = before[pc].target

LEMMA TrainedOnLookupFacts ==
    ASSUME TypeOK, NEW start
    PROVE  /\ TrainedOnLookup(start) \in Level
           /\ SameContent(l1, TrainedOnLookup(start))
<1>1. l1 \in Level
  BY DEF TypeOK
<1>2. CASE trainBitsOnLookup /\ prevBlock # NoEntry /\ l1[prevBlock.pc] # NoEntry
  <2> DEFINE p   == prevBlock.pc
             new == (IF start = prevBlock.target THEN {"target"} ELSE {})
                    \cup (IF start = p + minInstSize THEN {"through"} ELSE {})
  <2>1. p \in PC
    BY <1>2 DEF TypeOK
  <2>2. l1[p] \in Entry
    BY <1>1, <1>2, <2>1 DEF Level
  <2>3. new \subseteq Paths
    BY DEF Paths
  <2>4. TrainedOnLookup(start) = [l1 EXCEPT ![p].bits = @ \cup new]
    BY <1>2, Zenon DEF TrainedOnLookup
  <2>5. [l1[p] EXCEPT !.bits = @ \cup new] \in Entry
    <3> HIDE DEF new
    <3> QED BY <2>2, <2>3 DEF Entry
  <2>6. [l1[p] EXCEPT !.bits = @ \cup new].target = l1[p].target
    BY <2>2 DEF Entry
  <2> DEFINE x == [l1[p] EXCEPT !.bits = @ \cup new]
  <2>7. TrainedOnLookup(start) = [l1 EXCEPT ![p] = x]
    BY <2>4
  <2> HIDE DEF x, p
  <2>8. x \in Entry /\ x.target = l1[p].target
    BY <2>5, <2>6 DEF x
  <2> QED BY <1>1, <1>2, <2>1, <2>2, <2>7, <2>8, NoEntryAssumption, SMTT(30)
          DEF Level, SameContent, p
<1>3. CASE ~(trainBitsOnLookup /\ prevBlock # NoEntry /\ l1[prevBlock.pc] # NoEntry)
  <2>1. TrainedOnLookup(start) = l1
    BY <1>3 DEF TrainedOnLookup
  <2> QED BY <1>1, <2>1 DEF SameContent
<1> QED BY <1>2, <1>3

LEMMA TrainedOnCommitFacts ==
    ASSUME NEW level \in Level, NEW pc \in PC, NEW taken
    PROVE  /\ TrainedOnCommit(level, pc, taken) \in Level
           /\ SameContent(level, TrainedOnCommit(level, pc, taken))
<1> DEFINE path == IF taken THEN {"target"} ELSE {"through"}
<1>1. path \subseteq Paths
  BY DEF Paths
<1>2. CASE trainBitsOnCommit /\ level[pc] # NoEntry
  <2> DEFINE bits == IF cleanBitsOnL1Promotion THEN path
                     ELSE level[pc].bits \cup path
             x == [level[pc] EXCEPT !.bits = bits]
  <2>1. level[pc] \in Entry
    BY <1>2 DEF Level
  <2>2. bits \subseteq Paths
    BY <1>1, <2>1 DEF Entry
  <2>3. TrainedOnCommit(level, pc, taken) = [level EXCEPT ![pc] = x]
    BY <1>2 DEF TrainedOnCommit
  <2>4. x \in Entry /\ x.target = level[pc].target
    <3> HIDE DEF bits
    <3> QED BY <2>1, <2>2 DEF Entry
  <2> HIDE DEF x
  <2> QED BY <1>2, <2>1, <2>3, <2>4, NoEntryAssumption DEF Level, SameContent
<1>3. CASE ~(trainBitsOnCommit /\ level[pc] # NoEntry)
  BY <1>3 DEF TrainedOnCommit, SameContent
<1> QED BY <1>2, <1>3

\* freeUpL1Entry and the fill that follows it.
LEMMA InstallL1Facts ==
    ASSUME NEW h \in Hierarchy, NEW pc \in PC, NEW entry \in Entry,
           h.l1[pc] = NoEntry, InstallL1(h, pc, entry)
    PROVE  /\ {l1', l2', l3'} \subseteq Level
           /\ l1'[pc] = entry
           /\ \A q \in PC \ {pc} :
                LookupTarget(Levels', q) \in {LookupTarget(h, q), NoEntry}
<1>1. PICK a \in FreeUpL1Entry(h, pc, entry) :
         l1' = a.l1 /\ l2' = a.l2 /\ l3' = a.l3
  BY DEF InstallL1
<1>2. /\ a \in Hierarchy
      /\ a.l1[pc] = entry
      /\ \A q \in PC \ {pc} :
           LookupTarget(a, q) \in {LookupTarget(h, q), NoEntry}
  BY FreeUpL1Effect
<1>3. a = Levels'
  BY <1>1, <1>2 DEF Hierarchy, Levels
<1> QED BY <1>1, <1>2, <1>3 DEF Hierarchy

LEMMA LevelsType ==
    TypeOK => Levels \in Hierarchy
BY DEF TypeOK, Levels, Hierarchy

LEMMA PromotedType ==
    ASSUME NEW entry, entry.target \in Addr, entry.bits \in SUBSET Paths
    PROVE  Promoted(entry) \in Entry /\ Promoted(entry).target = entry.target
BY DEF Promoted, Entry, Paths

LEMMA InvalidatedType ==
    ASSUME NEW level \in Level, NEW pc \in PC
    PROVE  Invalidated(level, pc) \in Level
BY DEF Invalidated, Level

----------------------------------------------------------------------------
(* Type correctness. *)

LEMMA LookupRest ==
    ASSUME TypeOK, NEW pc \in PC,
           NEW entry, entry.target \in Addr, entry.bits \in SUBSET Paths,
           NEW taken, NEW basePred, NEW way, NEW loc, NEW base \in Nat,
           LookupStep(pc, entry.target, taken, basePred),
           TryInitialTrigger(pc, entry, way, loc, base)
    PROVE  RestOK'
<1>1. RestOK
  BY TypeParts, Zenon
<1>2. /\ prevBw' \in [isBw : BOOLEAN, l1Miss : BOOLEAN]
      /\ nextChainId' \in 1 .. MaxChains + 1
      /\ queue' \in Seq(Deferred)
  BY TriggerFacts, Zenon
<1>3. /\ demand' \subseteq PC
      /\ prevBlock' \in [pc : PC, target : Addr] \cup {NoEntry}
      /\ UNCHANGED <<bbMap, ready, chainTable, issued, lastSample, phase>>
  BY <1>1, Zenon DEF LookupStep, RestOK
<1> QED BY <1>1, <1>2, <1>3, Zenon DEF RestOK

LEMMA EntryFields ==
    ASSUME NEW entry \in Entry \cup PBEntry
    PROVE  entry.target \in Addr /\ entry.bits \in SUBSET Paths
BY DEF Entry, PBEntry

LEMMA BranchOfBlock ==
    ASSUME TypeOK, NEW start \in Starts, bbMap[start] # NoPC
    PROVE  bbMap[start] \in PC
BY StartsInAddr DEF TypeOK

LEMMA LookupL1HitType ==
    ASSUME TypeOK, NEW start \in Starts, NEW taken, NEW basePred,
           LookupL1Hit(start, taken, basePred)
    PROVE  TypeOK'
<1> DEFINE pc    == bbMap[start]
           entry == TrainedOnLookup(start)[pc]
<1>1. pc \in PC /\ l1[pc] # NoEntry
  BY BranchOfBlock, Zenon DEF LookupL1Hit
<1>2. TrainedOnLookup(start) \in Level /\ entry # NoEntry
  BY <1>1, TrainedOnLookupFacts, Zenon DEF SameContent
<1>3. entry \in Entry
  BY <1>1, <1>2, Zenon DEF Level
<1>4. /\ LookupStep(pc, entry.target, taken, basePred)
      /\ l1' = TrainedOnLookup(start)
      /\ UNCHANGED <<l2, l3, pb, pbStale, owed>>
      /\ TryInitialTrigger(pc, entry, basePred, "L1Hit", 0)
  BY Zenon DEF LookupL1Hit, stats
<1> HIDE DEF pc, entry
<1>5. RestOK'
  BY <1>1, <1>3, <1>4, EntryFields, LookupRest, Zenon
<1>6. LevelsOK' /\ BufferOK'
  BY <1>2, <1>4, TypeParts DEF LevelsOK, BufferOK
<1> QED BY <1>5, <1>6, NextTypeParts

LEMMA LookupPBHitType ==
    ASSUME TypeOK, NEW start \in Starts, NEW taken, NEW basePred,
           LookupPBHit(start, taken, basePred)
    PROVE  TypeOK'
<1> DEFINE pc    == bbMap[start]
           entry == pb[pc]
           base  == IF noPrefetchLatency THEN 0 ELSE entry.arriveIn
           h     == [Levels EXCEPT !.l1 = TrainedOnLookup(start)]
<1>1. pc \in PC /\ l1[pc] = NoEntry /\ entry # NoEntry
  BY BranchOfBlock DEF LookupPBHit
<1>2. entry \in PBEntry
  BY <1>1, Zenon DEF TypeOK
<1>3. base \in Nat
  BY <1>2 DEF PBEntry
<1>4. h \in Hierarchy /\ h.l1[pc] = NoEntry
  BY <1>1, LevelsType, TrainedOnLookupFacts DEF SameContent, Hierarchy
<1>5. /\ LookupStep(pc, entry.target, taken, basePred)
      /\ InstallL1(h, pc, Promoted(entry))
      /\ pb' = [pb EXCEPT ![pc] = NoEntry]
      /\ owed' = [owed EXCEPT ![PBSet[pc]] = @ - 1]
      /\ UNCHANGED pbStale
      /\ TryInitialTrigger(pc, entry, basePred, "PBHit", base)
  BY DEF LookupPBHit
<1> HIDE DEF pc, entry, base, h
<1>6. RestOK'
  BY <1>1, <1>2, <1>3, <1>5, EntryFields, LookupRest, Zenon
<1>7. LevelsOK'
  <2>1. Promoted(entry) \in Entry
    BY <1>2, EntryFields, PromotedType
  <2> QED BY <1>1, <1>4, <1>5, <2>1, InstallL1Facts, Zenon DEF LevelsOK
<1>8. BufferOK'
  <2>1. BufferOK
    BY TypeParts, Zenon
  <2>2. PBSet[pc] \in PBSets
    BY <1>1, Zenon DEF PBSets
  <2>3. pb' \in [PC -> PBEntry \cup {NoEntry}]
    BY <1>1, <1>5, <2>1, Zenon DEF BufferOK
  <2>4. owed' \in [PBSets -> Int]
    BY <1>5, <2>1, <2>2 DEF BufferOK
  <2> QED BY <1>5, <2>1, <2>3, <2>4, Zenon DEF BufferOK
<1> QED BY <1>6, <1>7, <1>8, NextTypeParts

LEMMA LookupL2HitType ==
    ASSUME TypeOK, NEW start \in Starts, NEW taken, NEW basePred,
           LookupL2Hit(start, taken, basePred)
    PROVE  TypeOK'
<1> DEFINE pc    == bbMap[start]
           entry == l2[pc]
           h     == [Levels EXCEPT !.l1 = TrainedOnLookup(start),
                                   !.l2 = Invalidated(l2, pc)]
<1>1. pc \in PC /\ l1[pc] = NoEntry /\ entry # NoEntry
  BY BranchOfBlock DEF LookupL2Hit, MissesBuffers
<1>2. entry \in Entry /\ l2 \in Level
  BY <1>1, Zenon DEF TypeOK, Level
<1>3. h \in Hierarchy /\ h.l1[pc] = NoEntry
  <2>1. Invalidated(l2, pc) \in Level
    BY <1>1, <1>2, InvalidatedType, Zenon
  <2> QED BY <1>1, <2>1, LevelsType, TrainedOnLookupFacts, Zenon
          DEF SameContent, Hierarchy
<1>4. /\ LookupStep(pc, entry.target, taken, basePred)
      /\ InstallL1(h, pc, Promoted(entry))
      /\ UNCHANGED <<pb, pbStale, owed>>
      /\ TryInitialTrigger(pc, entry, taken, "L2Hit", l2Latency)
  BY DEF LookupL2Hit, stats
<1> HIDE DEF pc, entry, h
<1>5. RestOK'
  <2>1. l2Latency \in Nat
    BY ParamNumbers
  <2> QED BY <1>1, <1>2, <1>4, <2>1, EntryFields, LookupRest, Zenon
<1>6. LevelsOK'
  <2>1. Promoted(entry) \in Entry
    BY <1>2, EntryFields, PromotedType, Zenon
  <2> QED BY <1>1, <1>3, <1>4, <2>1, InstallL1Facts, Zenon DEF LevelsOK
<1>7. BufferOK'
  BY <1>4, TypeParts DEF BufferOK
<1> QED BY <1>5, <1>6, <1>7, NextTypeParts

LEMMA LookupL3HitType ==
    ASSUME TypeOK, NEW start \in Starts, NEW taken, NEW basePred,
           LookupL3Hit(start, taken, basePred)
    PROVE  TypeOK'
<1> DEFINE pc    == bbMap[start]
           entry == l3[pc]
           h     == [Levels EXCEPT !.l1 = TrainedOnLookup(start),
                                   !.l3 = Invalidated(l3, pc)]
<1>1. pc \in PC /\ l1[pc] = NoEntry /\ entry # NoEntry
  BY BranchOfBlock DEF LookupL3Hit, MissesBuffers
<1>2. entry \in Entry /\ l3 \in Level
  BY <1>1, Zenon DEF TypeOK, Level
<1>3. h \in Hierarchy /\ h.l1[pc] = NoEntry
  <2>1. Invalidated(l3, pc) \in Level
    BY <1>1, <1>2, InvalidatedType, Zenon
  <2> QED BY <1>1, <2>1, LevelsType, TrainedOnLookupFacts, Zenon
          DEF SameContent, Hierarchy
<1>4. /\ LookupStep(pc, entry.target, taken, basePred)
      /\ InstallL1(h, pc, entry)
      /\ UNCHANGED <<pb, pbStale, owed>>
      /\ TryInitialTrigger(pc, entry, taken, "L3Hit", l3Latency)
  BY DEF LookupL3Hit, stats
<1> HIDE DEF pc, entry, h
<1>5. RestOK'
  <2>1. l3Latency \in Nat
    BY ParamNumbers
  <2> QED BY <1>1, <1>2, <1>4, <2>1, EntryFields, LookupRest, Zenon
<1>6. LevelsOK'
  BY <1>1, <1>2, <1>3, <1>4, InstallL1Facts, Zenon DEF LevelsOK
<1>7. BufferOK'
  BY <1>4, TypeParts DEF BufferOK
<1> QED BY <1>5, <1>6, <1>7, NextTypeParts

\* MultiLevelBTB::update stores the target and otherwise only forgets.
LEMMA UpdatedFacts ==
    ASSUME TypeOK, NEW pc \in PC, NEW target \in Addr,
           NEW a \in Updated(pc, target)
    PROVE  /\ a \in Hierarchy
           /\ a.l1[pc] # NoEntry /\ a.l1[pc].target = target
           /\ \A q \in PC \ {pc} :
                LookupTarget(a, q) \in {LookupTarget(Levels, q), NoEntry}
<1>0. Levels \in Hierarchy /\ Levels.l1 = l1 /\ Levels.l2 = l2 /\ Levels.l3 = l3
  BY LevelsType DEF Levels
<1>1. CASE l1[pc] = NoEntry
  <2> DEFINE fresh == [target |-> target,
                       bits |-> IF UsesPrefetchBitPolicy THEN {"target"} ELSE {}]
  <2>1. a \in FreeUpL1Entry(Levels, pc, fresh)
    BY <1>1 DEF Updated
  <2>2. fresh \in Entry /\ fresh.target = target /\ fresh # NoEntry
    BY NoEntryAssumption DEF Entry, Paths
  <2> HIDE DEF fresh
  <2>3. /\ a \in Hierarchy
        /\ a.l1[pc] = fresh
        /\ \A q \in PC \ {pc} :
             LookupTarget(a, q) \in {LookupTarget(Levels, q), NoEntry}
    BY <1>0, <1>1, <2>1, <2>2, FreeUpL1Effect, Zenon
  <2> QED BY <2>2, <2>3
<1>2. CASE l1[pc] # NoEntry
  <2>1. PICK new : /\ new \in Entry /\ new.target = target
                   /\ a = [Levels EXCEPT !.l1 = [l1 EXCEPT ![pc] = new]]
    <3> DEFINE alternates == /\ UsesPrefetchBitPolicy
                             /\ indirectAltBit
                             /\ IsIndirect(BrType[pc])
                             /\ l1[pc].target # target
               new == [target |-> target,
                       bits |-> IF alternates THEN Paths ELSE l1[pc].bits]
    <3>1. l1[pc].bits \in SUBSET Paths
      BY <1>2, Zenon DEF TypeOK, Level, Entry
    <3>2. new \in Entry /\ new.target = target
      <4> HIDE DEF alternates
      <4> QED BY <3>1, Zenon DEF Entry
    <3>3. a = [Levels EXCEPT !.l1 = [l1 EXCEPT ![pc] = new]]
      BY <1>2 DEF Updated
    <3> QED BY <3>2, <3>3, Zenon
  <2>2. a.l1 = [l1 EXCEPT ![pc] = new] /\ a.l2 = l2 /\ a.l3 = l3
    BY <1>0, <2>1 DEF Hierarchy
  <2>3. l1 \in Level
    BY Zenon DEF TypeOK
  <2>4. a.l1 \in Level /\ a.l1[pc] = new
        /\ \A q \in PC \ {pc} : a.l1[q] = l1[q]
    BY <2>1, <2>2, <2>3 DEF Level
  <2>5. a \in Hierarchy
    BY <1>0, <2>1, <2>4, Zenon DEF Hierarchy
  <2>6. new # NoEntry
    BY <2>1, NoEntryAssumption
  <2> QED BY <1>0, <2>1, <2>2, <2>4, <2>5, <2>6 DEF LookupTarget, LowerTarget
<1> QED BY <1>1, <1>2, Zenon

LEMMA SquashUpdateType ==
    ASSUME TypeOK, NEW pc \in PC, NEW target \in TargetsOf[pc],
           NEW start \in StartsOf[pc], SquashUpdate(pc, target, start)
    PROVE  TypeOK'
<1>1. target \in Addr /\ start \in Addr
  BY ProgramAssumption
<1>2. PICK a \in Updated(pc, target) : l1' = a.l1 /\ l2' = a.l2 /\ l3' = a.l3
  BY Zenon DEF SquashUpdate
<1>3. LevelsOK'
  <2>1. a \in Hierarchy
    BY <1>1, <1>2, UpdatedFacts, Zenon
  <2>2. {a.l1, a.l2, a.l3} \subseteq Level
    BY <2>1, Zenon DEF Hierarchy
  <2> QED BY <1>2, <2>2, Zenon DEF LevelsOK
<1>4. /\ bbMap' = [bbMap EXCEPT ![start] = pc]
      /\ UNCHANGED <<pb, prevBlock, prevBw, chains, ready, demand, phase, stats>>
  BY Zenon DEF SquashUpdate
<1> QED BY <1>1, <1>3, <1>4, Zenon DEF TypeOK, LevelsOK, chains, stats

LEMMA CommitUpdateType ==
    ASSUME TypeOK, NEW pc \in PC, NEW target \in TargetsOf[pc],
           NEW start \in StartsOf[pc], CommitUpdate(pc, target, start)
    PROVE  TypeOK'
<1>1. target \in Addr /\ start \in Addr
  BY ProgramAssumption
<1>2. PICK a \in Updated(pc, target) :
         l1' = TrainedOnCommit(a.l1, pc, TRUE) /\ l2' = a.l2 /\ l3' = a.l3
  BY Zenon DEF CommitUpdate
<1>3. a \in Hierarchy
  BY <1>1, <1>2, UpdatedFacts, Zenon
<1>4. \A taken : TrainedOnCommit(a.l1, pc, taken) \in Level
  BY <1>3, TrainedOnCommitFacts, Zenon DEF Hierarchy
<1>5. LevelsOK'
  BY <1>2, <1>3, <1>4, Zenon DEF Hierarchy, LevelsOK
<1>6. /\ bbMap' = [bbMap EXCEPT ![start] = pc]
      /\ UNCHANGED <<pb, prevBlock, prevBw, chains, ready, demand, phase, stats>>
  BY Zenon DEF CommitUpdate
<1> QED BY <1>1, <1>5, <1>6, Zenon DEF TypeOK, LevelsOK, chains, stats

LEMMA CommitTrainType ==
    ASSUME TypeOK, NEW pc \in PC, NEW taken, CommitTrain(pc, taken)
    PROVE  TypeOK'
<1>1. l1' \in Level
  BY TrainedOnCommitFacts DEF TypeOK, CommitTrain
<1> QED BY <1>1, Zenon DEF TypeOK, CommitTrain, chains, stats

\* A set of branches has a number of elements.
Countable == \A S : S \subseteq PC => Cardinality(S) \in Nat

LEMMA MemInvalidateType ==
    ASSUME Countable, TypeOK, MemInvalidate
    PROVE  TypeOK'
<1>1. \A s \in PBSets :
        Cardinality({pc \in Resident(pb) : PBSet[pc] = s}) \in Nat
  <2> TAKE s \in PBSets
  <2>1. {pc \in Resident(pb) : PBSet[pc] = s} \subseteq PC
    BY DEF Resident
  <2> QED BY <2>1, Zenon DEF Countable
<1>2. pbStale' \in [PBSets -> Nat]
  <2> DEFINE n(s) == Cardinality({pc \in Resident(pb) : PBSet[pc] = s})
  <2>1. pbStale' = [s \in PBSets |-> pbStale[s] + n(s)]
    BY Zenon DEF MemInvalidate
  <2>2. \A s \in PBSets : pbStale[s] \in Nat /\ n(s) \in Nat
    BY <1>1, Zenon DEF TypeOK
  <2> HIDE DEF n
  <2> QED BY <2>1, <2>2
<1>3. {l1', l2', l3'} \subseteq Level
  BY ZenonT(30) DEF MemInvalidate, TypeOK, Level
<1>4. queue' \in Seq(Deferred)
  <2>1. queue' = <<>>
    BY Zenon DEF MemInvalidate
  <2> QED BY <2>1
<1>5. chainTable' \in [Slots -> ActiveChainEntry]
  <2>1. MaxChains \in Nat /\ prefetchDepth \in Nat
    BY ParamNumbers
  <2>2. FreeSlot \in ActiveChainEntry
    BY <2>1 DEF FreeSlot, ActiveChainEntry, EndReasons
  <2> QED BY <2>2, Zenon DEF MemInvalidate
<1> QED BY <1>2, <1>3, <1>4, <1>5, Zenon DEF TypeOK, MemInvalidate

----------------------------------------------------------------------------
(* The handler of the prefetch event keeps the types. *)

\* The prefix of the queue that is due.
LEMMA ReadyCountFacts ==
    ASSUME queue \in Seq(Deferred)
    PROVE  /\ ReadyCount \in 0 .. Len(queue)
           /\ ~noPrefetchLatency =>
                /\ \A i \in 1 .. ReadyCount : queue[i].issueIn <= 0
                /\ ReadyCount < Len(queue) => queue[ReadyCount + 1].issueIn > 0
           /\ noPrefetchLatency => ReadyCount = Len(queue)
<1>1. Len(queue) \in Nat
  OBVIOUS
<1>2. CASE noPrefetchLatency
  <2>1. ReadyCount = Len(queue)
    BY <1>2, Zenon DEF ReadyCount
  <2> QED BY <1>1, <1>2, <2>1
<1>3. CASE ~noPrefetchLatency
  <2> DEFINE S == {n \in 0 .. Len(queue) :
                     n = Len(queue) \/ queue[n + 1].issueIn > 0}
             m == Min(S)
  <2>1. S \subseteq Nat /\ Len(queue) \in S
    BY <1>1
  <2>2. m \in S /\ \A y \in S : m <= y
    <3> HIDE DEF S
    <3> QED BY <2>1, LeastNat, Zenon
  <2>3. ReadyCount = m
    BY <1>3 DEF ReadyCount
  <2> HIDE DEF m
  <2>4. m \in 0 .. Len(queue) /\ (m < Len(queue) => queue[m + 1].issueIn > 0)
    BY <1>1, <2>2
  <2>5. ASSUME NEW i \in 1 .. m PROVE queue[i].issueIn <= 0
    <3>1. i \in 1 .. Len(queue) /\ i - 1 \in 0 .. Len(queue) /\ i - 1 < m
          /\ (i - 1) + 1 = i
      BY <1>1, <2>4
    <3>2. i - 1 \notin S
      <4> HIDE DEF S
      <4> QED BY <1>1, <2>2, <2>4, <3>1
    <3>3. ~(queue[i].issueIn > 0)
      BY <3>1, <3>2
    <3>4. queue[i] \in Deferred
      BY <3>1
    <3>5. queue[i].issueIn \in Int
      BY <3>4 DEF Deferred
    <3> QED BY <3>3, <3>5
  <2> QED BY <1>3, <2>3, <2>4, <2>5
<1> QED BY <1>2, <1>3, Zenon

\* Splitting the queue in two.
LEMMA SplitFacts ==
    ASSUME NEW q \in Seq(Deferred), NEW n \in 0 .. Len(q),
           NEW a, a = SubSeq(q, 1, n), NEW b, b = SubSeq(q, n + 1, Len(q))
    PROVE  /\ a \in Seq(Deferred) /\ Len(a) = n
           /\ \A i \in 1 .. n : a[i] = q[i]
           /\ b \in Seq(Deferred) /\ Len(b) = Len(q) - n
           /\ \A i \in 1 .. Len(q) - n : b[i] = q[n + i]
<1>1. Len(q) \in Nat /\ \A i \in 1 .. Len(q) : q[i] \in Deferred
  OBVIOUS
<1>2. /\ a \in Seq(Deferred)
      /\ Len(a) = IF 1 <= n THEN n - 1 + 1 ELSE 0
      /\ \A i \in 1 .. n - 1 + 1 : a[i] = q[1 + i - 1]
  BY <1>1
<1>3. /\ b \in Seq(Deferred)
      /\ Len(b) = IF n + 1 <= Len(q) THEN Len(q) - (n + 1) + 1 ELSE 0
      /\ \A i \in 1 .. Len(q) - (n + 1) + 1 : b[i] = q[(n + 1) + i - 1]
  BY <1>1
<1>4. \A i \in 1 .. n : i \in 1 .. n - 1 + 1 /\ 1 + i - 1 = i
  BY <1>1
<1>5. \A i \in 1 .. Len(q) - n :
        i \in 1 .. Len(q) - (n + 1) + 1 /\ (n + 1) + i - 1 = n + i
  BY <1>1
<1>6. Len(a) = n /\ Len(b) = Len(q) - n
  <2>1. (IF 1 <= n THEN n - 1 + 1 ELSE 0) = n
    BY <1>1
  <2>2. (IF n + 1 <= Len(q) THEN Len(q) - (n + 1) + 1 ELSE 0) = Len(q) - n
    BY <1>1
  <2> QED BY <1>2, <1>3, <2>1, <2>2, Zenon
<1> QED BY <1>2, <1>3, <1>4, <1>5, <1>6, Zenon

LEMMA BeginEventType ==
    ASSUME TypeOK, BeginEvent
    PROVE  TypeOK'
<1>1. queue \in Seq(Deferred)
  BY DEF TypeOK
<1>2. ready' \in Seq(Deferred) /\ queue' \in Seq(Deferred)
  BY <1>1, ReadyCountFacts, SplitFacts, Zenon DEF BeginEvent
<1> QED BY <1>2, Zenon DEF TypeOK, BeginEvent, levels, stats

LEMMA EndEventType ==
    ASSUME TypeOK, EndEvent
    PROVE  TypeOK'
<1>1. queue \in Seq(Deferred) /\ Len(queue) \in Nat
      /\ \A i \in 1 .. Len(queue) : queue[i] \in Deferred
  BY DEF TypeOK
<1>2. queue' \in Seq(Deferred)
  <2>0. \A e \in Deferred : [e EXCEPT !.issueIn = @ - 1] \in Deferred
    BY DEF Deferred
  <2>1. \A i \in 1 .. Len(queue) :
          [queue[i] EXCEPT !.issueIn = @ - 1] \in Deferred
    BY <1>1, <2>0
  <2>2. queue' \in [1 .. Len(queue) -> Deferred]
    BY <2>1 DEF EndEvent
  <2> QED BY <1>1, <2>2
<1>3. pb' \in [PC -> PBEntry \cup {NoEntry}]
  <2>0. \A e \in PBEntry : e.arriveIn > 0 =>
          [e EXCEPT !.arriveIn = @ - 1] \in PBEntry
    BY DEF PBEntry
  <2>1. \A pc \in PC : pb[pc] # NoEntry /\ pb[pc].arriveIn > 0 =>
          [pb[pc] EXCEPT !.arriveIn = @ - 1] \in PBEntry
    BY <2>0 DEF TypeOK
  <2>2. \A pc \in PC : pb[pc] \in PBEntry \cup {NoEntry}
    BY DEF TypeOK
  <2> QED BY <2>1, <2>2 DEF EndEvent
<1> QED BY <1>2, <1>3, Zenon DEF TypeOK, EndEvent, levels, stats

\* The head of the entries that are due, and what is left.
LEMMA ReadyFacts ==
    ASSUME TypeOK, ready # <<>>
    PROVE  /\ Head(ready) \in Deferred
           /\ Head(ready) = ready[1]
           /\ Tail(ready) \in Seq(Deferred)
           /\ Len(ready) \in Nat /\ Len(ready) >= 1
           /\ Len(Tail(ready)) = Len(ready) - 1
           /\ \A i \in 1 .. Len(ready) - 1 : Tail(ready)[i] = ready[i + 1]
<1>1. ready \in Seq(Deferred)
  BY DEF TypeOK
<1> QED BY <1>1

LEMMA SlotFacts ==
    ASSUME TypeOK, NEW c \in 1 .. MaxChains, maxChainTrackerEntries > 0
    PROVE  /\ SlotOf(c) \in Slots
           /\ chainTable[SlotOf(c)].chainId \in 0 .. MaxChains
           /\ chainTable[SlotOf(c)].remaining \in 0 .. prefetchDepth
           /\ chainTable[SlotOf(c)].reason \in EndReasons
<1>1. maxChainTrackerEntries \in Nat /\ MaxChains \in Nat
  BY ParamNumbers
<1>2. SlotOf(c) \in Slots
  BY <1>1 DEF SlotOf, Slots
<1>3. chainTable[SlotOf(c)] \in ActiveChainEntry
  BY <1>2, Zenon DEF TypeOK
<1> QED BY <1>2, <1>3, Zenon DEF ActiveChainEntry

LEMMA EndsWithType ==
    ASSUME TypeOK, ready # <<>>, NEW e, e = Head(ready),
           NEW reason \in EndReasons, EndsWith(e, reason)
    PROVE  TypeOK'
<1>1. e \in Deferred /\ ready' \in Seq(Deferred)
  BY ReadyFacts DEF EndsWith
<1>2. e.chainId \in 1 .. MaxChains
  BY <1>1 DEF Deferred
<1>3. chainTable' \in [Slots -> ActiveChainEntry]
  <2>1. CASE Tracked(e) /\ ~e.allocate
    <3>1. SlotOf(e.chainId) \in Slots
      BY <1>2, <2>1, SlotFacts, Zenon DEF Tracked
    <3>2. chainTable' = [chainTable EXCEPT ![SlotOf(e.chainId)].reason = reason]
      BY <2>1 DEF EndsWith
    <3>3. chainTable \in [Slots -> ActiveChainEntry]
      BY Zenon DEF TypeOK
    <3> QED BY <3>1, <3>2, <3>3 DEF ActiveChainEntry
  <2>2. CASE ~(Tracked(e) /\ ~e.allocate)
    BY <2>2 DEF EndsWith, TypeOK
  <2> QED BY <2>1, <2>2
<1> QED BY <1>1, <1>3 DEF TypeOK, EndsWith, levels, stats

LEMMA DropEntryType ==
    ASSUME TypeOK, ready # <<>>, NEW e, e = Head(ready), DropEntry(e)
    PROVE  TypeOK'
<1>1. ready' \in Seq(Deferred)
  BY ReadyFacts DEF DropEntry
<1> QED BY <1>1, Zenon DEF TypeOK, DropEntry, levels, chains, stats

LEMMA EnqueuePrefetchType ==
    ASSUME TypeOK, NEW pc \in PC, NEW entry \in PBEntry,
           EnqueuePrefetch(pc, entry)
    PROVE  BufferOK'
<1>1. BufferOK /\ PBSet[pc] \in PBSets
  BY TypeParts DEF PBSets
<1>2. PICK v \in Victims(pb, PBSet, PBWays, pc), flagged \in BOOLEAN :
         /\ v = pc /\ flagged => pbStale[PBSet[pc]] > 0
         /\ pb' = Replace(pb, v, pc, entry)
         /\ pbStale' = IF v = pc /\ flagged
                       THEN [pbStale EXCEPT ![PBSet[pc]] = @ - 1] ELSE pbStale
         /\ owed' = IF flagged THEN owed ELSE [owed EXCEPT ![PBSet[pc]] = @ + 1]
  BY Zenon DEF EnqueuePrefetch
<1>3. pb' \in [PC -> PBEntry \cup {NoEntry}]
  BY <1>1, <1>2, Zenon DEF BufferOK, Replace
<1>4. pbStale' \in [PBSets -> Nat]
  <2>1. CASE v = pc /\ flagged
    <3>1. pbStale[PBSet[pc]] \in Nat /\ pbStale[PBSet[pc]] > 0
      BY <1>1, <1>2, <2>1, Zenon DEF BufferOK
    <3>2. pbStale[PBSet[pc]] - 1 \in Nat
      <4>1. \A x \in Nat : x > 0 => x - 1 \in Nat
        OBVIOUS
      <4> QED BY <3>1, <4>1, Zenon
    <3>3. pbStale' = [pbStale EXCEPT ![PBSet[pc]] = @ - 1]
      BY <1>2, <2>1, Zenon
    <3> QED BY <1>1, <3>2, <3>3 DEF BufferOK
  <2>2. CASE ~(v = pc /\ flagged)
    BY <1>1, <1>2, <2>2, Zenon DEF BufferOK
  <2> QED BY <2>1, <2>2
<1>5. owed' \in [PBSets -> Int]
  <2>1. CASE flagged
    BY <1>1, <1>2, <2>1, Zenon DEF BufferOK
  <2>2. CASE ~flagged
    <3>1. owed' = [owed EXCEPT ![PBSet[pc]] = @ + 1]
      BY <1>2, <2>2, Zenon
    <3> QED BY <1>1, <3>1 DEF BufferOK
  <2> QED BY <2>1, <2>2
<1> QED BY <1>3, <1>4, <1>5 DEF BufferOK

\* What issuing a prefetch does to its chain.
SlotStep(e, old, new) ==
    /\ new \in ActiveChainEntry
    /\ new.chainId = e.chainId
    /\ \/ /\ old.chainId = e.chainId
          /\ old.remaining # 0
          /\ new.remaining = old.remaining - 1
          /\ new.remaining # 0 => new.reason \in {"RetFilter", old.reason}
       \/ /\ old.chainId # e.chainId
          /\ e.allocate
          /\ new.remaining = e.depth - 1
          /\ new.remaining # 0 => new.reason \in {"RetFilter", "None"}
    /\ new.remaining = 0 => new.reason = "DepthExhaust"

\* The entry that is prefetched.
LEMMA SourceFacts ==
    ASSUME TypeOK, NEW e \in Deferred, IssuePrefetch(e)
    PROVE  /\ Source(e) \in Entry
           /\ ArrivesIn(e) \in Nat
           /\ FromL3(e) \in BOOLEAN
<1>1. e.pc \in PC /\ e.issueIn \in Int
  BY DEF Deferred
<1>2. InLower(l2, l3, e.pc)
  BY Zenon DEF IssuePrefetch
<1>3. l2 \in Level /\ l3 \in Level
  BY DEF TypeOK
<1>4. Source(e) \in Entry
  BY <1>1, <1>2, <1>3 DEF InLower, Level, Source, FromL3
<1>5. ArrivesIn(e) \in Nat
  BY <1>1, ParamNumbers DEF ArrivesIn
<1> QED BY <1>4, <1>5, Zenon DEF FromL3

\* The slot as the chain finds it, and as the prefetch leaves it.
LEMMA ChainSlotFacts ==
    ASSUME TypeOK, NEW e \in Deferred, IssuePrefetch(e), Tracked(e)
    PROVE  /\ SlotOf(e.chainId) \in Slots
           /\ OldSlot(e) \in ActiveChainEntry
           /\ ChainSlot(e).remaining \in 1 .. prefetchDepth
           /\ ChainSlot(e).chainId = e.chainId
           /\ ChainSlot(e).reason \in EndReasons
           /\ ~Steals(e) => OldSlot(e).chainId = e.chainId
<1>1. /\ e.chainId \in 1 .. MaxChains /\ e.allocate \in BOOLEAN
      /\ e.depth \in 1 .. prefetchDepth
  BY DEF Deferred
<1>2. SlotOf(e.chainId) \in Slots
  BY <1>1, SlotFacts, Zenon DEF Tracked
<1>3. chainTable \in [Slots -> ActiveChainEntry]
  BY Zenon DEF TypeOK
<1>4. OldSlot(e) \in ActiveChainEntry
  BY <1>2, <1>3 DEF OldSlot
<1>5. IF OldSlot(e).chainId = e.chainId THEN OldSlot(e).remaining # 0
      ELSE e.allocate
  BY Zenon DEF IssuePrefetch, ValidChain, OldSlot
<1>6. CASE Steals(e)
  <2>1. ChainSlot(e) = [chainId |-> e.chainId, remaining |-> e.depth,
                        reason |-> "None"]
    BY <1>6, Zenon DEF ChainSlot
  <2>2. /\ ChainSlot(e).chainId = e.chainId /\ ChainSlot(e).remaining = e.depth
        /\ ChainSlot(e).reason = "None"
    BY <2>1
  <2>3. ChainSlot(e).reason \in EndReasons
    BY <2>2 DEF EndReasons
  <2> QED BY <1>1, <1>2, <1>4, <1>6, <2>2, <2>3, Zenon
<1>7. CASE ~Steals(e)
  <2>1. ChainSlot(e) = OldSlot(e) /\ OldSlot(e).chainId = e.chainId
        /\ OldSlot(e).remaining # 0
    BY <1>5, <1>7, Zenon DEF ChainSlot, Steals
  <2>2. prefetchDepth \in Nat
    BY ParamNumbers
  <2>3. OldSlot(e).remaining \in 0 .. prefetchDepth /\ OldSlot(e).reason \in EndReasons
    BY <1>4, Zenon DEF ActiveChainEntry
  <2>4. OldSlot(e).remaining \in 1 .. prefetchDepth
    BY <2>1, <2>2, <2>3
  <2> QED BY <1>2, <1>4, <2>1, <2>3, <2>4, Zenon
<1> QED BY <1>6, <1>7, Zenon

LEMMA SlotRecord ==
    ASSUME NEW c \in 0 .. MaxChains, NEW k \in 0 .. prefetchDepth, NEW r \in EndReasons,
           NEW s, s = [chainId |-> c, remaining |-> k, reason |-> r]
    PROVE  s \in ActiveChainEntry /\ s.chainId = c /\ s.remaining = k /\ s.reason = r
BY DEF ActiveChainEntry

LEMMA SlotStepFacts ==
    ASSUME TypeOK, NEW e \in Deferred, IssuePrefetch(e), Tracked(e)
    PROVE  SlotStep(e, OldSlot(e), CountedSlot(e))
<1> DEFINE slot == ChainSlot(e)
           r    == RecordedReason(e)
           new  == CountedSlot(e)
<1> SUFFICES SlotStep(e, OldSlot(e), new)
  OBVIOUS
<1>1. prefetchDepth \in Nat /\ MaxChains \in Nat
  BY ParamNumbers
<1>2. e.chainId \in 1 .. MaxChains /\ e.depth \in 1 .. prefetchDepth
  BY DEF Deferred
<1>3. /\ slot.remaining \in 1 .. prefetchDepth /\ slot.chainId = e.chainId
      /\ slot.reason \in EndReasons
  BY ChainSlotFacts, Zenon
<1>0. slot.remaining \in Nat \ {0}
  BY <1>1, <1>3
<1>4. /\ slot.remaining = 1 => r = "DepthExhaust"
      /\ slot.remaining # 1 => r \in {"RetFilter", slot.reason}
  BY Zenon DEF RecordedReason
<1>5. r \in EndReasons
  BY <1>3, <1>4, Zenon DEF EndReasons
<1>6. new = [chainId |-> slot.chainId, remaining |-> slot.remaining - 1,
             reason |-> r]
  <2>1. ChainSlot(e).remaining > 0
    BY <1>1, <1>3
  <2> QED BY <2>1, Zenon DEF CountedSlot
<1>7. /\ new \in ActiveChainEntry
      /\ new.chainId = e.chainId
      /\ new.remaining = slot.remaining - 1
      /\ new.reason = r
  <2> HIDE DEF slot, new, r
  <2>1. slot.chainId \in 0 .. MaxChains /\ slot.remaining - 1 \in 0 .. prefetchDepth
    <3>1. \A x \in 1 .. MaxChains : x \in 0 .. MaxChains
      BY <1>1
    <3>2. \A x \in 1 .. prefetchDepth : x - 1 \in 0 .. prefetchDepth
      BY <1>1
    <3> QED BY <1>2, <1>3, <3>1, <3>2, Zenon
  <2>2. /\ new \in ActiveChainEntry /\ new.chainId = slot.chainId
        /\ new.remaining = slot.remaining - 1 /\ new.reason = r
    BY <1>5, <1>6, <2>1, SlotRecord
  <2> QED BY <1>3, <2>2, Zenon
<1>8. CASE Steals(e)
  <2>1. slot.remaining = e.depth /\ slot.reason = "None"
    BY <1>8, Zenon DEF ChainSlot
  <2>2. OldSlot(e).chainId # e.chainId /\ e.allocate
    BY <1>8, Zenon DEF Steals
  <2>3. new.remaining = e.depth - 1 /\ (new.remaining = 0 <=> slot.remaining = 1)
    <3> HIDE DEF slot, new, r
    <3> QED BY <1>0, <1>7, <2>1
  <2> HIDE DEF slot, new, r
  <2> QED BY <1>4, <1>7, <2>1, <2>2, <2>3, Zenon DEF SlotStep
<1>9. CASE ~Steals(e)
  <2>1. slot = OldSlot(e) /\ OldSlot(e).chainId = e.chainId
    BY <1>9, ChainSlotFacts, Zenon DEF ChainSlot
  <2>2. /\ OldSlot(e).chainId = e.chainId /\ OldSlot(e).remaining = slot.remaining
        /\ OldSlot(e).reason = slot.reason
    BY <2>1, Zenon
  <2>3. slot.remaining # 0 /\ (new.remaining = 0 <=> slot.remaining = 1)
    <3> HIDE DEF slot, new, r
    <3> QED BY <1>0, <1>7
  <2> HIDE DEF slot, new, r
  <2> QED BY <1>4, <1>7, <2>2, <2>3, Zenon DEF SlotStep
<1> QED BY <1>8, <1>9

LEMMA SampleType ==
    ASSUME TypeOK, NEW e \in Deferred, NEW old \in ActiveChainEntry,
           old.chainId # 0
    PROVE  ChainEndSample(old, e) \in Sample
<1>1. /\ old.chainId \in 1 .. MaxChains /\ old.remaining \in Int
      /\ old.reason \in EndReasons
  BY ParamNumbers DEF ActiveChainEntry
<1>2. e.depth \in Int
  BY ParamNumbers DEF Deferred
<1>3. (e.depth - old.remaining) % UIntRange \in Nat
  BY <1>1, <1>2, ParamNumbers
<1>4. issued[old.chainId] \in Nat
  BY <1>1, Zenon DEF TypeOK
<1> DEFINE x == (e.depth - old.remaining) % UIntRange
<1>5. x \in Nat
  BY <1>3
<1> HIDE DEF x
<1> QED BY <1>1, <1>4, <1>5, Zenon DEF ChainEndSample, Sample, x

LEMMA IssueFacts ==
    ASSUME TypeOK, NEW e \in Deferred, IssuePrefetch(e), Tracked(e)
    PROVE  /\ \E new : /\ SlotStep(e, chainTable[SlotOf(e.chainId)], new)
                       /\ chainTable' = [chainTable EXCEPT ![SlotOf(e.chainId)] = new]
           /\ \E paths : PathsAdded(queue, queue', paths, Successor(e))
           /\ lastSample' \in Sample \cup {NoEntry}
<1>1. /\ chainTable' = [chainTable EXCEPT ![SlotOf(e.chainId)] = CountedSlot(e)]
      /\ queue' = PrefetchPaths(queue, l2, l3, FollowedPaths(e), e.pc,
                                Source(e).target, ArrivesIn(e),
                                BrType[e.pc], Successor(e))
      /\ lastSample' = IF Steals(e) /\ OldSlot(e).chainId # 0
                       THEN ChainEndSample(OldSlot(e), e) ELSE lastSample
  BY Zenon DEF IssuePrefetch
<1>2. SlotStep(e, chainTable[SlotOf(e.chainId)], CountedSlot(e))
  BY SlotStepFacts DEF OldSlot
<1>3. PathsAdded(queue, queue', FollowedPaths(e), Successor(e))
  <2>1. Source(e).target \in Addr /\ Source(e).bits \in SUBSET Paths
    BY SourceFacts DEF Entry
  <2>2. FollowedPaths(e) \in SUBSET Paths
    BY <2>1, Zenon DEF FollowedPaths
  <2>3. e.pc \in PC /\ Successor(e) \in ChainArg
    BY ParamNumbers DEF Deferred, Successor, ChainArg
  <2>4. queue \in Seq(Deferred) /\ BBMapOK
    BY Zenon DEF TypeOK, BBMapOK
  <2>5. ArrivesIn(e) \in Nat
    BY SourceFacts
  <2> QED BY <1>1, <2>1, <2>2, <2>3, <2>4, <2>5, PrefetchPathsFacts, Zenon
<1>4. lastSample' \in Sample \cup {NoEntry}
  <2>1. lastSample \in Sample \cup {NoEntry}
    BY Zenon DEF TypeOK
  <2>2. OldSlot(e).chainId # 0 => ChainEndSample(OldSlot(e), e) \in Sample
    BY ChainSlotFacts, SampleType
  <2> QED BY <1>1, <2>1, <2>2, Zenon
<1> QED BY <1>1, <1>2, <1>3, <1>4, Zenon

LEMMA IssuePrefetchType ==
    ASSUME TypeOK, ready # <<>>, NEW e, e = Head(ready), IssuePrefetch(e)
    PROVE  TypeOK'
<1>1. e \in Deferred /\ Tail(ready) \in Seq(Deferred)
  BY ReadyFacts
<1>2. e.pc \in PC /\ e.chainId \in 1 .. MaxChains
  BY <1>1 DEF Deferred
<1>3. BufferOK'
  <2> DEFINE entry == [target |-> Source(e).target, bits |-> Source(e).bits,
                       arriveIn |-> ArrivesIn(e), fromL3 |-> FromL3(e)]
  <2>1. EnqueuePrefetch(e.pc, entry)
    BY Zenon DEF IssuePrefetch
  <2>2. entry \in PBEntry
    BY <1>1, SourceFacts, Zenon DEF Entry, PBEntry
  <2> HIDE DEF entry
  <2> QED BY <1>2, <2>1, <2>2, EnqueuePrefetchType
<1>4. /\ issued' = [issued EXCEPT ![e.chainId] = @ + 1]
      /\ ready' = Tail(ready)
      /\ UNCHANGED <<l1, l2, l3, bbMap, prevBlock, prevBw, nextChainId, demand,
                     phase>>
  BY Zenon DEF IssuePrefetch, levels
<1>5. issued' \in [1 .. MaxChains -> Nat]
  <2>1. issued \in [1 .. MaxChains -> Nat]
    BY Zenon DEF TypeOK
  <2> QED BY <1>2, <1>4, <2>1
<1>6. /\ chainTable' \in [Slots -> ActiveChainEntry]
      /\ queue' \in Seq(Deferred)
      /\ lastSample' \in Sample \cup {NoEntry}
  <2>0. /\ chainTable \in [Slots -> ActiveChainEntry]
        /\ queue \in Seq(Deferred)
        /\ lastSample \in Sample \cup {NoEntry}
    BY Zenon DEF TypeOK
  <2>1. CASE Tracked(e)
    <3>1. PICK new : /\ SlotStep(e, chainTable[SlotOf(e.chainId)], new)
                     /\ chainTable' = [chainTable EXCEPT ![SlotOf(e.chainId)] = new]
      BY <1>1, <2>1, IssueFacts, Zenon
    <3>2. queue' \in Seq(Deferred) /\ lastSample' \in Sample \cup {NoEntry}
      BY <1>1, <2>1, IssueFacts, Zenon DEF PathsAdded
    <3>3. new \in ActiveChainEntry
      BY <3>1, Zenon DEF SlotStep
    <3> QED BY <2>0, <3>1, <3>2, <3>3, Zenon
  <2>2. CASE ~Tracked(e)
    <3>1. UNCHANGED <<chainTable, queue, lastSample>>
      BY <2>2, Zenon DEF IssuePrefetch
    <3> QED BY <2>0, <3>1
  <2> QED BY <2>1, <2>2
<1>7. LevelsOK' /\ RestOK'
  <2>1. LevelsOK /\ RestOK
    BY TypeParts
  <2> QED BY <1>1, <1>4, <1>5, <1>6, <2>1, Zenon DEF LevelsOK, RestOK
<1> QED BY <1>3, <1>7, NextTypeParts

LEMMA ProcessEntryType ==
    ASSUME TypeOK, ProcessEntry
    PROVE  TypeOK'
<1> DEFINE e == Head(ready)
<1>1. ready # <<>>
  BY DEF ProcessEntry
<1>2. CASE DropEntry(e)
  BY <1>1, <1>2, DropEntryType
<1>3. CASE SkipForDemand(e)
  BY <1>1, <1>3, EndsWithType DEF SkipForDemand, EndReasons
<1>4. CASE SkipForPresence(e)
  BY <1>1, <1>4, EndsWithType DEF SkipForPresence, EndReasons
<1>5. CASE SkipForMiss(e)
  <2> DEFINE reason == IF enableL3 THEN "L3Miss" ELSE "L2Miss"
  <2>1. reason \in EndReasons /\ EndsWith(e, reason)
    BY <1>5 DEF SkipForMiss, EndReasons
  <2> HIDE DEF reason
  <2> QED BY <1>1, <2>1, EndsWithType
<1>6. CASE IssuePrefetch(e)
  BY <1>1, <1>6, IssuePrefetchType
<1> QED BY <1>2, <1>3, <1>4, <1>5, <1>6 DEF ProcessEntry

----------------------------------------------------------------------------
(* Type correctness. *)

LEMMA InitType ==
    Init => TypeOK
<1> SUFFICES ASSUME Init PROVE TypeOK
  OBVIOUS
<1>1. MaxChains \in Nat /\ prefetchDepth \in Nat
  BY ParamNumbers
<1>2. FreeSlot \in ActiveChainEntry
  BY <1>1 DEF FreeSlot, ActiveChainEntry, EndReasons
<1>3. LevelsOK
  BY DEF Init, Level, LevelsOK
<1>4. BufferOK
  BY DEF Init, BufferOK
<1>5. bbMap \in [Addr -> PC \cup {NoPC}] /\ chainTable \in [Slots -> ActiveChainEntry]
  BY <1>2 DEF Init
<1>6. /\ queue \in Seq(Deferred) /\ ready \in Seq(Deferred) /\ nextChainId \in 1 .. MaxChains + 1
      /\ issued \in [1 .. MaxChains -> Nat]
  BY <1>1 DEF Init
<1>7. /\ prevBlock \in [pc : PC, target : Addr] \cup {NoEntry} /\ demand \subseteq PC
      /\ prevBw \in [isBw : BOOLEAN, l1Miss : BOOLEAN]
      /\ phase \in {"cpu", "event"} /\ lastSample \in Sample \cup {NoEntry}
  BY DEF Init
<1> QED BY <1>3, <1>4, <1>5, <1>6, <1>7, TypeParts, Zenon DEF RestOK

LEMMA TypesKept ==
    ASSUME Countable
    PROVE  Spec => []TypeOK
<1>1. ASSUME TypeOK, [Next]_vars PROVE TypeOK'
  <2>1. CASE Lookup
    <3>1. PICK start \in Starts, taken \in BOOLEAN, basePred \in BOOLEAN :
             \/ LookupL1Hit(start, taken, basePred)
             \/ LookupPBHit(start, taken, basePred)
             \/ LookupL2Hit(start, taken, basePred)
             \/ LookupL3Hit(start, taken, basePred)
      BY <2>1 DEF Lookup
    <3> QED BY <1>1, <3>1, LookupL1HitType, LookupPBHitType, LookupL2HitType,
               LookupL3HitType
  <2>2. CASE Resolve
    <3>1. PICK pc \in PC :
             \/ \E target \in TargetsOf[pc], start \in StartsOf[pc] :
                   SquashUpdate(pc, target, start) \/ CommitUpdate(pc, target, start)
             \/ \E taken \in BOOLEAN : CommitTrain(pc, taken)
      BY <2>2, Zenon DEF Resolve
    <3> QED BY <1>1, <3>1, SquashUpdateType, CommitUpdateType, CommitTrainType, Zenon
  <2>3. CASE MemInvalidate
    BY <1>1, <2>3, MemInvalidateType
  <2>4. CASE Event
    BY <1>1, <2>4, BeginEventType, ProcessEntryType, EndEventType DEF Event
  <2>5. CASE UNCHANGED vars
    BY <1>1, <2>5, Zenon DEF TypeOK, vars, levels, chains, stats
  <2> QED BY <1>1, <2>1, <2>2, <2>3, <2>4, <2>5, SMTT(30) DEF Next
<1> QED BY <1>1, InitType, PTL DEF Spec
============================================================================
