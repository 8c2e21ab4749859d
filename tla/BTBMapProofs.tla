---------------------------- MODULE BTBMapProofs ---------------------------
(***************************************************************************)
(* The levels of the BTB and its prefetch buffer: every prefetch is         *)
(* accounted for, no lookup reaches the panic, and without a prefetch       *)
(* policy the levels together are one map.                                  *)
(***************************************************************************)
EXTENDS MultiLevelBTBProofs, FiniteSetTheorems

\* The invariant TypeOK holds: whatever the program, the geometry and the
\* policy, the handlers of MultiLevelBTB and BPredUnit keep every piece of state
\* within its type; in particular remainingPrefetches never wraps below zero.
THEOREM TypeCorrect ==
    Spec => []TypeOK
<1>1. Countable
  BY FS_Subset, FS_CardinalityType, AddrAssumption, Zenon DEF Countable
<1> QED BY <1>1, TypesKept, Zenon

\* The outcome set is never empty: the replacement always finds a way.
LEMMA VictimsNonEmpty ==
    ASSUME NEW level, NEW index, NEW ways \in Nat \ {0}, NEW pc \in PC
    PROVE  Victims(level, index, ways, pc) # {}
<1>1. CASE SetMates(level, index, pc) = {}
  <2>1. Cardinality(SetMates(level, index, pc)) = 0
    BY <1>1, FS_EmptySet
  <2> QED BY <2>1 DEF Victims
<1>2. CASE SetMates(level, index, pc) # {}
  BY <1>2 DEF Victims
<1> QED BY <1>1, <1>2

----------------------------------------------------------------------------
(* The statistics of the prefetch buffer. *)

\* The ways of a set of the prefetch buffer that hold an entry.
Occupied(buffer, s) == {pc \in Resident(buffer) : PBSet[pc] = s}

LEMMA OccupiedFinite ==
    ASSUME NEW buffer, NEW s
    PROVE  IsFiniteSet(Occupied(buffer, s)) /\ Cardinality(Occupied(buffer, s)) \in Nat
<1>1. Occupied(buffer, s) \subseteq PC
  BY DEF Occupied, Resident
<1> QED BY <1>1, FS_Subset, FS_CardinalityType, AddrAssumption, Zenon

\* Accounted(s, ...) is what EveryPrefetchAccounted says of a set.
Accounted(s, buffer, owing, stale) ==
    /\ owing[s] = Cardinality(Occupied(buffer, s)) + stale[s]
    /\ owing[s] <= PBWays

LEMMA AccountedForm ==
    EveryPrefetchAccounted <=> \A s \in PBSets : Accounted(s, pb, owed, pbStale)
BY DEF EveryPrefetchAccounted, Accounted, Occupied

LEMMA AccountedSame ==
    ASSUME EveryPrefetchAccounted, UNCHANGED <<owed, pbStale>>,
           \A pc \in PC : pb'[pc] = NoEntry <=> pb[pc] = NoEntry
    PROVE  EveryPrefetchAccounted'
<1>1. Resident(pb') = Resident(pb)
  BY DEF Resident
<1> QED BY <1>1 DEF EveryPrefetchAccounted

\* A prefetch that is used leaves its way.
LEMMA AccountedHit ==
    ASSUME TypeOK, EveryPrefetchAccounted, NEW pc \in PC, pb[pc] # NoEntry,
           pb' = [pb EXCEPT ![pc] = NoEntry],
           owed' = [owed EXCEPT ![PBSet[pc]] = @ - 1], pbStale' = pbStale
    PROVE  EveryPrefetchAccounted'
<1>1. pb \in [PC -> PBEntry \cup {NoEntry}] /\ owed \in [PBSets -> Int] /\ pbStale \in [PBSets -> Nat]
  BY DEF TypeOK
<1> SUFFICES ASSUME NEW s \in PBSets
             PROVE  Accounted(s, pb', owed', pbStale')
  BY Zenon DEF EveryPrefetchAccounted, Accounted, Occupied
<1>2. Accounted(s, pb, owed, pbStale)
  BY AccountedForm
<1>3. IsFiniteSet(Occupied(pb, s)) /\ Cardinality(Occupied(pb, s)) \in Nat
  BY OccupiedFinite
<1>4. owed[s] \in Int /\ pbStale[s] \in Nat /\ PBWays \in Nat
  BY <1>1, GeometryAssumption
<1>5. CASE PBSet[pc] = s
  <2>1. Occupied(pb', s) = Occupied(pb, s) \ {pc} /\ pc \in Occupied(pb, s)
    BY <1>1, <1>5 DEF Occupied, Resident
  <2>2. Cardinality(Occupied(pb', s)) = Cardinality(Occupied(pb, s)) - 1
    BY <1>3, <2>1, FS_RemoveElement, Zenon
  <2>3. owed'[s] = owed[s] - 1
    BY <1>1, <1>5
  <2> QED BY <1>2, <1>3, <1>4, <2>2, <2>3 DEF Accounted
<1>6. CASE PBSet[pc] # s
  <2>1. Occupied(pb', s) = Occupied(pb, s)
    BY <1>1, <1>6 DEF Occupied, Resident
  <2>2. owed'[s] = owed[s]
    BY <1>1, <1>6
  <2> QED BY <1>2, <2>1, <2>2 DEF Accounted
<1> QED BY <1>5, <1>6

\* A prefetch is counted when it comes, and its victim if that was never used.
LEMMA AccountedEnqueue ==
    ASSUME TypeOK, EveryPrefetchAccounted, NEW pc \in PC, pb[pc] = NoEntry,
           NEW entry, entry # NoEntry, EnqueuePrefetch(pc, entry)
    PROVE  EveryPrefetchAccounted'
<1>1. pb \in [PC -> PBEntry \cup {NoEntry}] /\ owed \in [PBSets -> Int] /\ pbStale \in [PBSets -> Nat]
  BY DEF TypeOK
<1> DEFINE set == PBSet[pc]
<1>2. PICK v \in Victims(pb, PBSet, PBWays, pc), flagged \in BOOLEAN :
          /\ v # pc => flagged
          /\ v = pc /\ flagged => pbStale[set] > 0
          /\ v = pc /\ ~flagged => pbStale[set] < PBWays - Cardinality(SetMates(pb, PBSet, pc))
          /\ pb' = Replace(pb, v, pc, entry)
          /\ pbStale' = IF v = pc /\ flagged
                        THEN [pbStale EXCEPT ![set] = @ - 1] ELSE pbStale
          /\ owed' = IF flagged THEN owed ELSE [owed EXCEPT ![set] = @ + 1]
  BY DEF EnqueuePrefetch
<1>3. set \in PBSets
  BY DEF PBSets
<1>4. SetMates(pb, PBSet, pc) = Occupied(pb, set)
  BY DEF SetMates, Occupied
<1>5. v \in PC /\ (v # pc => v \in Occupied(pb, set))
  BY <1>4 DEF Victims, Occupied, Resident
<1>6. pb' = [q \in PC |-> IF q = pc THEN entry ELSE IF q = v THEN NoEntry ELSE pb[q]]
  BY <1>2 DEF Replace
<1> HIDE DEF set
<1> SUFFICES ASSUME NEW s \in PBSets
             PROVE  Accounted(s, pb', owed', pbStale')
  BY DEF EveryPrefetchAccounted, Accounted, Occupied
<1>7. Accounted(s, pb, owed, pbStale)
  BY AccountedForm
<1>8. IsFiniteSet(Occupied(pb, s)) /\ Cardinality(Occupied(pb, s)) \in Nat
  BY OccupiedFinite
<1>9. owed[s] \in Int /\ pbStale[s] \in Nat /\ PBWays \in Nat
  BY <1>1, GeometryAssumption
<1>10. CASE s = set
  <2>0. PBSet[pc] = s /\ pc \notin Occupied(pb, s)
    BY <1>10 DEF set, Occupied, Resident
  <2>1. CASE v = pc
    <3>1. Occupied(pb', s) = Occupied(pb, s) \cup {pc}
      BY <1>6, <2>0, <2>1 DEF Occupied, Resident
    <3>2. Cardinality(Occupied(pb', s)) = Cardinality(Occupied(pb, s)) + 1
      BY <1>8, <2>0, <3>1, FS_AddElement, Zenon
    <3>3. CASE flagged
      <4>1. pbStale'[s] = pbStale[s] - 1 /\ owed'[s] = owed[s]
        BY <1>1, <1>2, <1>10, <2>1, <3>3, SMTT(30)
      <4> QED BY <1>7, <1>8, <1>9, <3>2, <4>1 DEF Accounted
    <3>4. CASE ~flagged
      <4>1. pbStale'[s] = pbStale[s] /\ owed'[s] = owed[s] + 1
        BY <1>1, <1>2, <1>10, <2>1, <3>4
      <4>2. pbStale[s] < PBWays - Cardinality(Occupied(pb, s))
        BY <1>2, <1>4, <1>10, <2>1, <3>4, SMTT(30)
      <4> QED BY <1>7, <1>8, <1>9, <3>2, <4>1, <4>2, SMTT(30) DEF Accounted
    <3> QED BY <3>3, <3>4
  <2>2. CASE v # pc
    <3>1. /\ Occupied(pb', s) = (Occupied(pb, s) \ {v}) \cup {pc}
          /\ v \in Occupied(pb, s)
      BY <1>5, <1>6, <1>10, <2>0, <2>2, SMTT(30) DEF Occupied, Resident
    <3>2. /\ IsFiniteSet(Occupied(pb, s) \ {v})
          /\ Cardinality(Occupied(pb, s) \ {v}) = Cardinality(Occupied(pb, s)) - 1
      BY <1>8, <3>1, FS_RemoveElement
    <3>3. pc \notin Occupied(pb, s) \ {v}
      BY <2>0
    <3>4. Cardinality((Occupied(pb, s) \ {v}) \cup {pc}) = Cardinality(Occupied(pb, s) \ {v}) + 1
      BY <3>2, <3>3, FS_AddElement, Zenon
    <3>5. pbStale' = pbStale /\ owed' = owed
      BY <1>2, <2>2
    <3> QED BY <1>7, <1>8, <1>9, <3>1, <3>2, <3>4, <3>5, SMTT(30) DEF Accounted
  <2> QED BY <2>1, <2>2
<1>11. CASE s # set
  <2>1. Occupied(pb', s) = Occupied(pb, s)
    <3>1. PBSet[pc] # s /\ PBSet[v] # s
      BY <1>5, <1>11 DEF set, Occupied
    <3> QED BY <1>6, <3>1 DEF Occupied, Resident
  <2>2. owed'[s] = owed[s] /\ pbStale'[s] = pbStale[s]
    BY <1>1, <1>2, <1>11
  <2> QED BY <1>7, <2>1, <2>2 DEF Accounted
<1> QED BY <1>10, <1>11

\* memInvalidate leaves the flags of the ways it clears.
LEMMA AccountedInvalidate ==
    ASSUME TypeOK, EveryPrefetchAccounted, MemInvalidate
    PROVE  EveryPrefetchAccounted'
<1> SUFFICES ASSUME NEW s \in PBSets
             PROVE  Accounted(s, pb', owed', pbStale')
  BY DEF EveryPrefetchAccounted, Accounted, Occupied
<1>1. /\ pb' = [pc \in PC |-> NoEntry] /\ owed' = owed
      /\ pbStale'[s] = pbStale[s] + Cardinality(Occupied(pb, s))
  BY Zenon DEF MemInvalidate, Occupied
<1>2. Occupied(pb', s) = {}
  BY <1>1 DEF Occupied, Resident
<1>3. Cardinality(Occupied(pb', s)) = 0
  BY <1>2, FS_EmptySet
<1>4. owed[s] \in Int /\ pbStale[s] \in Nat /\ Cardinality(Occupied(pb, s)) \in Nat
  BY OccupiedFinite DEF TypeOK
<1>5. Accounted(s, pb, owed, pbStale)
  BY AccountedForm
<1> QED BY <1>1, <1>3, <1>4, <1>5 DEF Accounted

LEMMA AccountedInit == Init => EveryPrefetchAccounted
<1> SUFFICES ASSUME Init, NEW s \in PBSets PROVE Accounted(s, pb, owed, pbStale)
  BY AccountedForm
<1>1. pb = [pc \in PC |-> NoEntry] /\ owed[s] = 0 /\ pbStale[s] = 0
  BY DEF Init
<1>2. Occupied(pb, s) = {}
  BY <1>1 DEF Occupied, Resident
<1>3. Cardinality(Occupied(pb, s)) = 0
  BY <1>2, FS_EmptySet
<1>4. PBWays \in Nat
  BY GeometryAssumption
<1> QED BY <1>1, <1>3, <1>4 DEF Accounted

LEMMA AccountedNext ==
    ASSUME TypeOK, EveryPrefetchAccounted, [Next]_vars
    PROVE  EveryPrefetchAccounted'
<1>1. CASE UNCHANGED <<pb, owed, pbStale>>
  BY <1>1, AccountedSame
<1>2. CASE Lookup
  <2>1. PICK start \in Starts, taken \in BOOLEAN, basePred \in BOOLEAN :
           \/ LookupL1Hit(start, taken, basePred)
           \/ LookupPBHit(start, taken, basePred)
           \/ LookupL2Hit(start, taken, basePred)
           \/ LookupL3Hit(start, taken, basePred)
    BY <1>2 DEF Lookup
  <2>2. CASE LookupPBHit(start, taken, basePred)
    <3> DEFINE pc == bbMap[start]
    <3>1. pc \in PC
      BY <2>2, BranchOfBlock DEF LookupPBHit
    <3>2. /\ pb[pc] # NoEntry /\ pb' = [pb EXCEPT ![pc] = NoEntry]
          /\ owed' = [owed EXCEPT ![PBSet[pc]] = @ - 1] /\ pbStale' = pbStale
      BY <2>2, Zenon DEF LookupPBHit
    <3> HIDE DEF pc
    <3> QED BY <3>1, <3>2, AccountedHit, Zenon
  <2>3. ~LookupPBHit(start, taken, basePred) => UNCHANGED <<pb, owed, pbStale>>
    BY <2>1, Zenon DEF LookupL1Hit, LookupL2Hit, LookupL3Hit, stats
  <2> QED BY <1>1, <2>2, <2>3
<1>3. CASE Resolve
  <2>1. UNCHANGED <<pb, owed, pbStale>>
    BY <1>3, Zenon DEF Resolve, SquashUpdate, CommitUpdate, CommitTrain, stats
  <2> QED BY <1>1, <2>1
<1>4. CASE MemInvalidate
  BY <1>4, AccountedInvalidate
<1>5. CASE BeginEvent
  BY <1>1, <1>5 DEF BeginEvent, stats
<1>6. CASE ProcessEntry
  <2> DEFINE e == Head(ready)
  <2>1. e \in Deferred
    BY <1>6, ReadyFacts DEF ProcessEntry
  <2>2. DropEntry(e) \/ SkipForDemand(e) \/ SkipForPresence(e) \/ SkipForMiss(e) \/ IssuePrefetch(e)
    BY <1>6, Zenon DEF ProcessEntry
  <2> HIDE DEF e
  <2>3. CASE IssuePrefetch(e)
    <3> DEFINE entry == [target |-> Source(e).target, bits |-> Source(e).bits,
                         arriveIn |-> ArrivesIn(e), fromL3 |-> FromL3(e)]
    <3>1. EnqueuePrefetch(e.pc, entry) /\ ~InBuffers(e.pc)
      BY <2>3, Zenon DEF IssuePrefetch
    <3>2. e.pc \in PC
      BY <2>1 DEF Deferred
    <3>3. pb[e.pc] = NoEntry
      BY <3>1, Zenon DEF InBuffers
    <3>4. Source(e) \in Entry /\ ArrivesIn(e) \in Nat /\ FromL3(e) \in BOOLEAN
      BY <2>1, <2>3, SourceFacts
    <3>5. entry \in PBEntry
      BY <3>4 DEF Entry, PBEntry
    <3> HIDE DEF entry
    <3>6. entry # NoEntry
      BY <3>5, NoEntryIsNoRecord, Zenon
    <3> QED BY <3>1, <3>2, <3>3, <3>6, AccountedEnqueue, Zenon
  <2>4. ~IssuePrefetch(e) => UNCHANGED <<pb, owed, pbStale>>
    BY <2>2, Zenon DEF DropEntry, SkipForDemand, SkipForPresence, SkipForMiss, EndsWith, stats
  <2> QED BY <1>1, <2>3, <2>4
<1>7. CASE EndEvent
  <2>1. UNCHANGED <<owed, pbStale>>
    BY <1>7 DEF EndEvent, stats
  <2>2. pb' = [pc \in PC |-> IF pb[pc] # NoEntry /\ pb[pc].arriveIn > 0
                             THEN [pb[pc] EXCEPT !.arriveIn = @ - 1] ELSE pb[pc]]
    BY <1>7, Zenon DEF EndEvent
  <2>3. ASSUME NEW pc \in PC, pb[pc] # NoEntry, pb[pc].arriveIn > 0
        PROVE  [pb[pc] EXCEPT !.arriveIn = @ - 1] # NoEntry
    <3>1. pb[pc] \in PBEntry
      BY <2>3 DEF TypeOK
    <3>2. [pb[pc] EXCEPT !.arriveIn = @ - 1] \in PBEntry
      BY <2>3, <3>1 DEF PBEntry
    <3> QED BY <3>2, NoEntryIsNoRecord, Zenon
  <2>4. \A pc \in PC : pb'[pc] = NoEntry <=> pb[pc] = NoEntry
    BY <2>2, <2>3, Zenon
  <2> QED BY <2>1, <2>4, AccountedSame
<1>8. CASE UNCHANGED vars
  BY <1>1, <1>8 DEF vars, stats
<1> QED BY <1>2, <1>3, <1>4, <1>5, <1>6, <1>7, <1>8, Zenon DEF Next, Event

\* EveryPrefetchAccounted: whatever the policy and the sizes, the prefetches counted in
\* totalPrefetches that are neither hits nor useless yet are the flagged ways of the
\* prefetch buffer, those cleared by memInvalidate included, and no set holds more
\* of them than it has ways.
THEOREM PrefetchesAccounted ==
    Spec => []EveryPrefetchAccounted
<1>1. ASSUME TypeOK, EveryPrefetchAccounted, [Next]_vars PROVE EveryPrefetchAccounted'
  BY <1>1, AccountedNext, Zenon
<1> QED BY <1>1, AccountedInit, TypeCorrect, PTL DEF Spec

----------------------------------------------------------------------------
(* Without a prefetch policy. *)

\* No entry of a level has a prefetch bit.
Blank(level) == \A pc \in PC : level[pc] # NoEntry => level[pc].bits = {}

BlankHierarchy(h) == Blank(h.l1) /\ Blank(h.l2) /\ Blank(h.l3)

LEMMA BlankMerge ==
    ASSUME NEW old, NEW new, old.bits = {}, new.bits = {}
    PROVE  Merge(old, new).bits = {}
BY DEF Merge

LEMMA BlankExcept ==
    ASSUME NEW level \in Level, Blank(level), NEW pc \in PC, NEW e, e # NoEntry => e.bits = {}
    PROVE  Blank([level EXCEPT ![pc] = e])
BY DEF Blank, Level

LEMMA BlankReplace ==
    ASSUME NEW level, Blank(level), NEW v, NEW pc \in PC, NEW e, e.bits = {}
    PROVE  Blank(Replace(level, v, pc, e))
BY DEF Blank, Replace

LEMMA BlankWrite ==
    ASSUME NEW level \in Level, Blank(level), NEW index, NEW ways, NEW pc \in PC,
           NEW e, e.bits = {}, NEW after \in Write(level, index, ways, pc, e)
    PROVE  Blank(after)
<1>1. CASE level[pc] # NoEntry
  <2> DEFINE m == Merge(level[pc], e)
  <2>1. after = [level EXCEPT ![pc] = m]
    BY <1>1, Zenon DEF Write
  <2>2. m.bits = {}
    BY <1>1, BlankMerge DEF Blank
  <2> HIDE DEF m
  <2> QED BY <2>1, <2>2, BlankExcept, Zenon
<1>2. CASE level[pc] = NoEntry
  <2>1. PICK v \in Victims(level, index, ways, pc) : after = Replace(level, v, pc, e)
    BY <1>2, Zenon DEF Write
  <2> QED BY <2>1, BlankReplace
<1> QED BY <1>1, <1>2

LEMMA BlankL3 ==
    ASSUME NEW h \in Hierarchy, BlankHierarchy(h), NEW pc \in PC, NEW e \in Entry, e.bits = {},
           NEW l3x \in Write(h.l3, L3Set, L3Ways, pc, e),
           NEW s, s = [h EXCEPT !.l3 = l3x]
    PROVE  BlankHierarchy(s)
<1>1. h.l3 \in Level
  BY DEF Hierarchy
<1>2. Blank(l3x)
  BY <1>1, BlankWrite DEF BlankHierarchy
<1>3. s.l1 = h.l1 /\ s.l2 = h.l2 /\ s.l3 = l3x
  BY WriteL3Effect
<1> QED BY <1>2, <1>3, Zenon DEF BlankHierarchy

LEMMA BlankWriteBackL2 ==
    ASSUME NEW h \in Hierarchy, BlankHierarchy(h), NEW pc \in PC, NEW e \in Entry, e.bits = {},
           NEW b \in WriteBackL2(h, pc, e)
    PROVE  BlankHierarchy(b)
<1>0. h.l1 \in Level /\ h.l2 \in Level /\ h.l3 \in Level
  BY DEF Hierarchy
<1>1. CASE h.l2[pc] # NoEntry
  <2> DEFINE m == Merge(h.l2[pc], e)
             l == [h.l2 EXCEPT ![pc] = m]
  <2>1. b = [h EXCEPT !.l2 = l]
    BY <1>1 DEF WriteBackL2
  <2>2. m.bits = {}
    BY <1>1, BlankMerge DEF BlankHierarchy, Blank
  <2> HIDE DEF m
  <2>3. Blank(l)
    BY <1>0, <2>2, BlankExcept DEF BlankHierarchy
  <2> HIDE DEF l
  <2>4. b.l1 = h.l1 /\ b.l2 = l /\ b.l3 = h.l3
    BY <2>1 DEF Hierarchy
  <2> QED BY <2>3, <2>4, Zenon DEF BlankHierarchy
<1>2. CASE h.l2[pc] = NoEntry
  <2>0. PICK v \in Victims(h.l2, L2Set, L2Ways, pc) :
           \E s \in SpillL2(h, v) : b = [s EXCEPT !.l2 = Replace(h.l2, v, pc, e)]
    BY <1>2 DEF WriteBackL2
  <2>1. PICK s \in SpillL2(h, v) : b = [s EXCEPT !.l2 = Replace(h.l2, v, pc, e)]
    BY <2>0
  <2> DEFINE r == Replace(h.l2, v, pc, e)
  <2>2. v \in PC
    BY VictimFacts
  <2>3. Blank(r)
    BY BlankReplace DEF BlankHierarchy
  <2>4. s \in Hierarchy /\ BlankHierarchy(s)
    <3>1. CASE enableL3 /\ h.l2[v] # NoEntry
      <4>1. PICK l3x \in Write(h.l3, L3Set, L3Ways, v, h.l2[v]) : s = [h EXCEPT !.l3 = l3x]
        BY <3>1 DEF SpillL2
      <4>2. h.l2[v] \in Entry /\ h.l2[v].bits = {}
        BY <1>0, <2>2, <3>1, Zenon DEF Level, BlankHierarchy, Blank
      <4> QED BY <2>2, <4>1, <4>2, WriteL3Effect, BlankL3, Zenon
    <3>2. CASE ~(enableL3 /\ h.l2[v] # NoEntry)
      BY <3>2 DEF SpillL2
    <3> QED BY <3>1, <3>2
  <2> HIDE DEF r
  <2>5. b.l1 = s.l1 /\ b.l2 = r /\ b.l3 = s.l3
    BY <2>1, <2>4 DEF Hierarchy, r
  <2> QED BY <2>3, <2>4, <2>5, Zenon DEF BlankHierarchy
<1> QED BY <1>1, <1>2

LEMMA BlankFreeUp ==
    ASSUME NEW h \in Hierarchy, BlankHierarchy(h), NEW pc \in PC, NEW e \in Entry, e.bits = {},
           NEW a \in FreeUpL1Entry(h, pc, e)
    PROVE  BlankHierarchy(a)
<1>1. PICK v \in Victims(h.l1, L1Set, L1Ways, pc) :
         \E b \in IF h.l1[v] # NoEntry THEN WriteBack(h, v, h.l1[v]) ELSE {h} :
            a = [b EXCEPT !.l1 = Replace(h.l1, v, pc, e)]
  BY DEF FreeUpL1Entry
<1>2. PICK b \in IF h.l1[v] # NoEntry THEN WriteBack(h, v, h.l1[v]) ELSE {h} :
         a = [b EXCEPT !.l1 = Replace(h.l1, v, pc, e)]
  BY <1>1
<1>3. v \in PC
  BY VictimFacts
<1>4. b \in Hierarchy /\ BlankHierarchy(b)
  <2>1. CASE h.l1[v] # NoEntry
    <3>1. h.l1[v] \in Entry /\ h.l1[v].bits = {}
      BY <1>3, <2>1 DEF Hierarchy, Level, BlankHierarchy, Blank
    <3>2. b \in WriteBack(h, v, h.l1[v])
      BY <1>2, <2>1
    <3> DEFINE x == h.l1[v]
    <3>3. x \in Entry /\ x.bits = {} /\ b \in WriteBack(h, v, x)
      BY <3>1, <3>2
    <3> HIDE DEF x
    <3>4. PICK w \in WriteBackL2(h, v, x) : b \in MirrorL3(w, v, x)
      BY <3>3, Zenon DEF WriteBack
    <3>5. w \in Hierarchy /\ BlankHierarchy(w)
      BY <1>3, <3>3, <3>4, WriteBackL2Effect, BlankWriteBackL2, Zenon
    <3>6. CASE nonexclusive /\ enableL3
      <4>1. PICK l3x \in Write(w.l3, L3Set, L3Ways, v, x) : b = [w EXCEPT !.l3 = l3x]
        BY <3>4, <3>6, Zenon DEF MirrorL3
      <4> QED BY <1>3, <3>3, <3>5, <4>1, WriteL3Effect, BlankL3
    <3>7. CASE ~(nonexclusive /\ enableL3)
      BY <3>4, <3>5, <3>7 DEF MirrorL3
    <3> QED BY <3>6, <3>7
  <2>2. CASE h.l1[v] = NoEntry
    BY <1>2, <2>2
  <2> QED BY <2>1, <2>2
<1> DEFINE r == Replace(h.l1, v, pc, e)
<1>5. Blank(r) /\ a = [b EXCEPT !.l1 = r]
  BY <1>2, BlankReplace DEF BlankHierarchy
<1> HIDE DEF r
<1>6. a.l1 = r /\ a.l2 = b.l2 /\ a.l3 = b.l3
  BY <1>4, <1>5 DEF Hierarchy
<1> QED BY <1>4, <1>5, <1>6, Zenon DEF BlankHierarchy

\* No bits, no chains and nothing in the prefetch buffer.  The last part alone is not
\* inductive: an L1 hit may trigger by its bits whatever the policy.
Quiet ==
    /\ BlankHierarchy(Levels)
    /\ queue = << >> /\ ready = << >>
    /\ \A pc \in PC : pb[pc] = NoEntry

LEMMA NoTriggerPaths ==
    ASSUME ~UsesPrefetchBitPolicy, NEW type, NEW taken, NEW backward,
           NEW loc \in {"L1Hit", "L2Hit", "L3Hit"}
    PROVE  TriggerPaths(type, taken, backward, {}, loc) = {}
<1>1. {} # Paths
  BY DEF Paths
<1> QED BY <1>1 DEF TriggerPaths, MayTrigger

LEMMA NoChainStarts ==
    ASSUME ~UsesPrefetchBitPolicy, queue = << >>, NEW pc, NEW entry, entry.bits = {}, NEW taken,
           NEW loc \in {"L1Hit", "L2Hit", "L3Hit"}, NEW base,
           TryInitialTrigger(pc, entry, taken, loc, base)
    PROVE  queue' = << >>
<1>1. CASE queue' = queue
  BY <1>1
<1>2. CASE StartChain(pc, entry, {}, base)
  BY <1>2 DEF StartChain, PrefetchPaths
<1>3. queue' = queue \/ StartChain(pc, entry,
            TriggerPaths(BrType[pc], taken, entry.target < pc, entry.bits, loc), base)
  BY Zenon DEF TryInitialTrigger
<1>4. TriggerPaths(BrType[pc], taken, entry.target < pc, entry.bits, loc) = {}
  BY NoTriggerPaths
<1> QED BY <1>1, <1>2, <1>3, <1>4

LEMMA QuietInit == Init => Quiet
BY DEF Init, Quiet, BlankHierarchy, Blank, Levels

\* The L1 after training is the L1.
LEMMA NoTraining ==
    ASSUME ~UsesPrefetchBitPolicy
    PROVE  /\ \A start : TrainedOnLookup(start) = l1
           /\ \A level, pc, taken : TrainedOnCommit(level, pc, taken) = level
BY DEF UsesPrefetchBitPolicy, TrainedOnLookup, TrainedOnCommit

LEMMA NoTrainingUpdate ==
    ASSUME ~UsesPrefetchBitPolicy, NEW pc \in PC, NEW target \in TargetsOf[pc],
           UpdateOf(pc, target)
    PROVE  \E a \in Updated(pc, target) : l1' = a.l1 /\ l2' = a.l2 /\ l3' = a.l3
<1>0. PICK start \in StartsOf[pc] :
         SquashUpdate(pc, target, start) \/ CommitUpdate(pc, target, start)
  BY DEF UpdateOf
<1>1. SquashUpdate(pc, target, start) => \E a \in Updated(pc, target) :
         l1' = a.l1 /\ l2' = a.l2 /\ l3' = a.l3
  BY Zenon DEF SquashUpdate
<1>2. CommitUpdate(pc, target, start) => \E a \in Updated(pc, target) :
         l1' = TrainedOnCommit(a.l1, pc, TRUE) /\ l2' = a.l2 /\ l3' = a.l3
  BY Zenon DEF CommitUpdate
<1>3. \A a : TrainedOnCommit(a.l1, pc, TRUE) = a.l1
  BY NoTraining, Zenon
<1> QED BY <1>0, <1>1, <1>2, <1>3, Zenon

LEMMA QuietLookup ==
    ASSUME ~UsesPrefetchBitPolicy, TypeOK, Quiet, Lookup
    PROVE  Quiet'
<1>1. PICK start \in Starts, taken \in BOOLEAN, basePred \in BOOLEAN :
         \/ LookupL1Hit(start, taken, basePred)
         \/ LookupPBHit(start, taken, basePred)
         \/ LookupL2Hit(start, taken, basePred)
         \/ LookupL3Hit(start, taken, basePred)
  BY DEF Lookup
<1>2. TrainedOnLookup(start) = l1
  BY NoTraining
<1> DEFINE pc == bbMap[start]
<1>3. pc \in PC /\ pb' = pb /\ ready' = ready
  <2>1. pc # NoPC /\ pb' = pb /\ ready' = ready
    BY <1>1, Zenon DEF LookupL1Hit, LookupPBHit, LookupL2Hit, LookupL3Hit, LookupStep
  <2> QED BY <2>1, BranchOfBlock
<1>4. Levels \in Hierarchy /\ Levels.l1 = l1 /\ Levels.l2 = l2 /\ Levels.l3 = l3
  BY LevelsType DEF Levels
<1>5. Blank(l1) /\ Blank(l2) /\ Blank(l3) /\ queue = << >> /\ ready = << >>
  BY <1>4, Zenon DEF Quiet, BlankHierarchy
<1> HIDE DEF pc
<1>6. ASSUME NEW h \in Hierarchy, BlankHierarchy(h), NEW e \in Entry, e.bits = {},
             InstallL1(h, pc, e)
      PROVE  BlankHierarchy(Levels')
  <2>1. PICK a \in FreeUpL1Entry(h, pc, e) : l1' = a.l1 /\ l2' = a.l2 /\ l3' = a.l3
    BY <1>6 DEF InstallL1
  <2>2. BlankHierarchy(a)
    BY <1>3, <1>6, <2>1, BlankFreeUp
  <2>3. Levels'.l1 = a.l1 /\ Levels'.l2 = a.l2 /\ Levels'.l3 = a.l3
    BY <2>1 DEF Levels
  <2> QED BY <2>2, <2>3, Zenon DEF BlankHierarchy
<1>7. \A level \in Level : Blank(level) => Invalidated(level, pc) \in Level /\ Blank(Invalidated(level, pc))
  BY <1>3, InvalidatedType, BlankExcept DEF Invalidated
<1>8. CASE LookupL1Hit(start, taken, basePred)
  <2>1. l1' = l1 /\ l2' = l2 /\ l3' = l3 /\ l1[pc] # NoEntry
    BY <1>2, <1>8, Zenon DEF LookupL1Hit, pc
  <2>2. l1[pc].bits = {}
    BY <1>3, <1>5, <2>1, Zenon DEF Blank
  <2>3. TryInitialTrigger(pc, l1[pc], basePred, "L1Hit", 0)
    BY <1>2, <1>8, Zenon DEF LookupL1Hit, pc
  <2>4. queue' = << >>
    BY <1>5, <2>2, <2>3, NoChainStarts, Zenon
  <2>5. BlankHierarchy(Levels)'
    BY <2>1, Zenon DEF Quiet, BlankHierarchy, Blank, Levels
  <2> QED BY <1>3, <1>5, <2>4, <2>5, Zenon DEF Quiet
<1>9. CASE LookupPBHit(start, taken, basePred)
  BY <1>9, Zenon DEF LookupPBHit
<1>10. CASE LookupL2Hit(start, taken, basePred)
  <2> DEFINE h == [Levels EXCEPT !.l1 = TrainedOnLookup(start), !.l2 = Invalidated(l2, pc)]
  <2>1. /\ l2[pc] # NoEntry /\ InstallL1(h, pc, Promoted(l2[pc]))
        /\ TryInitialTrigger(pc, l2[pc], taken, "L2Hit", l2Latency)
    BY <1>10, Zenon DEF LookupL2Hit, pc
  <2>2. l2[pc] \in Entry /\ l2[pc].bits = {}
    BY <1>3, <1>4, <1>5, <2>1 DEF Hierarchy, Level, Blank
  <2>3. Promoted(l2[pc]) \in Entry /\ Promoted(l2[pc]).bits = {}
    BY <2>2 DEF Promoted, Entry
  <2>4. Invalidated(l2, pc) \in Level /\ Blank(Invalidated(l2, pc))
    BY <1>4, <1>5, <1>7 DEF Hierarchy
  <2>5. h \in Hierarchy /\ h.l1 = l1 /\ h.l2 = Invalidated(l2, pc) /\ h.l3 = l3
    BY <1>2, <1>4, <2>4, Zenon DEF Hierarchy
  <2> HIDE DEF h
  <2>6. BlankHierarchy(h)
    BY <1>5, <2>4, <2>5, Zenon DEF BlankHierarchy
  <2>7. BlankHierarchy(Levels')
    BY <1>6, <2>1, <2>3, <2>5, <2>6, Zenon
  <2>8. queue' = << >>
    BY <1>5, <2>1, <2>2, NoChainStarts, Zenon
  <2> QED BY <1>3, <1>5, <2>7, <2>8, Zenon DEF Quiet
<1>11. CASE LookupL3Hit(start, taken, basePred)
  <2> DEFINE h == [Levels EXCEPT !.l1 = TrainedOnLookup(start), !.l3 = Invalidated(l3, pc)]
  <2>1. /\ l3[pc] # NoEntry /\ InstallL1(h, pc, l3[pc])
        /\ TryInitialTrigger(pc, l3[pc], taken, "L3Hit", l3Latency)
    BY <1>11, Zenon DEF LookupL3Hit, pc
  <2>2. l3[pc] \in Entry /\ l3[pc].bits = {}
    BY <1>3, <1>4, <1>5, <2>1 DEF Hierarchy, Level, Blank
  <2>4. Invalidated(l3, pc) \in Level /\ Blank(Invalidated(l3, pc))
    BY <1>4, <1>5, <1>7 DEF Hierarchy
  <2>5. h \in Hierarchy /\ h.l1 = l1 /\ h.l2 = l2 /\ h.l3 = Invalidated(l3, pc)
    BY <1>2, <1>4, <2>4, Zenon DEF Hierarchy
  <2> HIDE DEF h
  <2>6. BlankHierarchy(h)
    BY <1>5, <2>4, <2>5, Zenon DEF BlankHierarchy
  <2>7. BlankHierarchy(Levels')
    BY <1>6, <2>1, <2>2, <2>5, <2>6, Zenon
  <2>8. queue' = << >>
    BY <1>5, <2>1, <2>2, NoChainStarts, Zenon
  <2> QED BY <1>3, <1>5, <2>7, <2>8, Zenon DEF Quiet
<1> QED BY <1>1, <1>8, <1>9, <1>10, <1>11

LEMMA QuietUpdated ==
    ASSUME ~UsesPrefetchBitPolicy, TypeOK, Quiet, NEW pc \in PC, NEW target \in Addr,
           NEW a \in Updated(pc, target)
    PROVE  BlankHierarchy(a)
<1>0. Levels \in Hierarchy /\ Levels.l1 = l1 /\ Levels.l2 = l2 /\ Levels.l3 = l3
  BY LevelsType DEF Levels
<1>1. BlankHierarchy(Levels)
  BY DEF Quiet
<1>2. CASE l1[pc] = NoEntry
  <2> DEFINE fresh == [target |-> target, bits |-> {}]
  <2>1. a \in FreeUpL1Entry(Levels, pc, fresh)
    BY <1>2 DEF Updated
  <2>2. fresh \in Entry /\ fresh.bits = {}
    BY DEF Entry, Paths
  <2> HIDE DEF fresh
  <2> QED BY <1>0, <1>1, <2>1, <2>2, BlankFreeUp
<1>3. CASE l1[pc] # NoEntry
  <2> DEFINE new == [target |-> target, bits |-> l1[pc].bits]
             l == [l1 EXCEPT ![pc] = new]
  <2>1. a = [Levels EXCEPT !.l1 = l]
    BY <1>3 DEF Updated
  <2>2. l1 \in Level /\ Blank(l1)
    BY <1>0, <1>1 DEF Hierarchy, BlankHierarchy
  <2>3. new.bits = {}
    BY <1>3, <2>2, SMTT(30) DEF Blank
  <2> HIDE DEF new
  <2>4. Blank(l)
    BY <2>2, <2>3, BlankExcept
  <2> HIDE DEF l
  <2>5. a.l1 = l /\ a.l2 = l2 /\ a.l3 = l3
    BY <1>0, <2>1 DEF Hierarchy
  <2> QED BY <1>0, <1>1, <2>4, <2>5, Zenon DEF BlankHierarchy
<1> QED BY <1>2, <1>3

LEMMA QuietNext ==
    ASSUME ~UsesPrefetchBitPolicy, TypeOK, Quiet, [Next]_vars
    PROVE  Quiet'
<1>0. /\ BlankHierarchy(Levels) /\ queue = << >> /\ ready = << >>
      /\ \A pc \in PC : pb[pc] = NoEntry
  BY Zenon DEF Quiet
<1>1. ASSUME UNCHANGED <<l1, l2, l3, pb, queue, ready>> PROVE Quiet'
  BY <1>0, <1>1, Zenon DEF Quiet, Levels
<1>2. CASE Lookup
  BY <1>2, QuietLookup, SMTT(30)
<1>3. CASE Resolve
  <2>1. PICK pc \in PC :
           \/ \E target \in TargetsOf[pc], start \in StartsOf[pc] :
                 SquashUpdate(pc, target, start) \/ CommitUpdate(pc, target, start)
           \/ \E taken \in BOOLEAN : CommitTrain(pc, taken)
    BY <1>3, Zenon DEF Resolve
  <2>2. UNCHANGED <<pb, queue, ready>>
    BY <1>3, Zenon DEF Resolve, SquashUpdate, CommitUpdate, CommitTrain, chains
  <2>3. CASE \E taken \in BOOLEAN : CommitTrain(pc, taken)
    <3>1. l1' = l1 /\ l2' = l2 /\ l3' = l3
      BY <2>3, NoTraining, Zenon DEF CommitTrain
    <3> QED BY <1>1, <2>2, <3>1
  <2>4. CASE \E target \in TargetsOf[pc], start \in StartsOf[pc] :
                SquashUpdate(pc, target, start) \/ CommitUpdate(pc, target, start)
    <3>1. PICK target \in TargetsOf[pc] : UpdateOf(pc, target)
      BY <2>4, Zenon DEF UpdateOf
    <3>2. PICK a \in Updated(pc, target) : l1' = a.l1 /\ l2' = a.l2 /\ l3' = a.l3
      BY <3>1, NoTrainingUpdate, Zenon
    <3>3. target \in Addr
      BY ProgramAssumption
    <3>4. BlankHierarchy(a)
      BY <3>2, <3>3, QuietUpdated, SMTT(30)
    <3>5. Levels'.l1 = a.l1 /\ Levels'.l2 = a.l2 /\ Levels'.l3 = a.l3
      BY <3>2 DEF Levels
    <3>6. BlankHierarchy(Levels')
      BY <3>4, <3>5, Zenon DEF BlankHierarchy
    <3> QED BY <1>0, <2>2, <3>6, Zenon DEF Quiet
  <2> QED BY <2>1, <2>3, <2>4
<1>4. CASE MemInvalidate
  <2>1. /\ l1' = [pc \in PC |-> NoEntry] /\ l2' = [pc \in PC |-> NoEntry]
        /\ l3' \in {l3, [pc \in PC |-> NoEntry]} /\ pb' = [pc \in PC |-> NoEntry]
        /\ queue' = << >> /\ ready' = ready
    BY <1>4 DEF MemInvalidate
  <2>2. Blank([pc \in PC |-> NoEntry]) /\ \A pc \in PC : pb'[pc] = NoEntry
    BY <2>1 DEF Blank
  <2>3. Levels.l3 = l3 /\ Levels'.l1 = l1' /\ Levels'.l2 = l2' /\ Levels'.l3 = l3'
    BY DEF Levels
  <2>4. BlankHierarchy(Levels')
    BY <1>0, <2>1, <2>2, <2>3 DEF BlankHierarchy
  <2> QED BY <1>0, <2>1, <2>2, <2>4, ZenonT(30) DEF Quiet
<1>5. CASE BeginEvent
  <2>1. UNCHANGED <<l1, l2, l3, pb>>
    BY <1>5 DEF BeginEvent, levels
  <2>2. queue \in Seq(Deferred) /\ Len(queue) = 0
    BY <1>0
  <2>3. ReadyCount = 0
    BY <2>2, ReadyCountFacts
  <2>4. ready' = << >> /\ queue' = << >>
    BY <1>0, <1>5, <2>2, <2>3 DEF BeginEvent
  <2>5. Levels' = Levels
    BY <2>1 DEF Levels
  <2> QED BY <1>0, <2>1, <2>4, <2>5, Zenon DEF Quiet
<1>6. CASE ProcessEntry
  BY <1>0, <1>6, Zenon DEF ProcessEntry
<1>7. CASE EndEvent
  <2>1. UNCHANGED <<l1, l2, l3, ready>> /\ Len(queue) = 0
    BY <1>0, <1>7 DEF EndEvent, levels
  <2>2. queue' = << >>
    BY <1>7, <2>1 DEF EndEvent
  <2>3. \A pc \in PC : pb'[pc] = NoEntry
    BY <1>0, <1>7 DEF EndEvent
  <2>4. Levels' = Levels
    BY <2>1 DEF Levels
  <2> QED BY <1>0, <2>1, <2>2, <2>3, <2>4, Zenon DEF Quiet
<1>8. CASE UNCHANGED vars
  BY <1>1, <1>8 DEF vars, levels, chains
<1> QED BY <1>2, <1>3, <1>4, <1>5, <1>6, <1>7, <1>8, Zenon DEF Next, Event

\* LookupNeverPanics: valid() looks into the prefetch buffer always, but
\* lookupWithLatency does so only with a prefetch policy.  The panic at its end is
\* out of reach all the same, for without a policy nothing is ever prefetched.
THEOREM LookupsNeverPanic ==
    Spec => []LookupNeverPanics
<1> DEFINE Inv == UsesPrefetchBitPolicy \/ Quiet
<1>1. ASSUME TypeOK, Inv, [Next]_vars PROVE Inv'
  <2>1. UsesPrefetchBitPolicy' = UsesPrefetchBitPolicy
    BY DEF UsesPrefetchBitPolicy
  <2> QED BY <1>1, <2>1, QuietNext, Zenon
<1>2. ASSUME Inv PROVE LookupNeverPanics
  BY <1>2, Zenon DEF LookupNeverPanics, Valid, Quiet
<1>3. Init => Inv
  BY QuietInit
<1> QED BY <1>1, <1>2, <1>3, TypeCorrect, PTL DEF Spec

----------------------------------------------------------------------------
(* The refinement of the abstract map. *)

LEMMA ServedIsLookup ==
    ASSUME Quiet, NEW pc \in PC
    PROVE  Served(pc) = LookupTarget(Levels, pc)
<1>1. Levels.l1 = l1 /\ Levels.l2 = l2 /\ Levels.l3 = l3 /\ pb[pc] = NoEntry
  BY DEF Levels, Quiet
<1> QED BY <1>1, Zenon DEF Served, LookupTarget, LowerTarget

LEMMA ServedMapNext ==
    ServedMap' = [q \in PC |-> Served(q)']
BY DEF ServedMap

\* A step after which pc has its target and every other branch its own or none.
Keeps(pc) ==
    /\ Served(pc)' = Served(pc)
    /\ \A q \in PC : Served(q)' \in {Served(q), NoEntry}

LEMMA KeepsMaps ==
    ASSUME NEW pc \in PC, Keeps(pc)
    PROVE  Abstract!AbsLookup(pc)
<1> DEFINE gone == {q \in PC : Served(q)' # Served(q)}
           new == [b \in PC |-> IF b \in gone THEN NoEntry ELSE ServedMap[b]]
<1>1. \A q \in PC : ServedMap[q] = Served(q) /\ ServedMap'[q] = Served(q)'
  BY ServedMapNext DEF ServedMap
<1>2. \A q \in PC : Served(q)' = IF q \in gone THEN NoEntry ELSE ServedMap[q]
  BY <1>1 DEF Keeps
<1>3. ServedMap' = new
  BY <1>2, ServedMapNext, Zenon
<1>4. gone \in SUBSET PC
  OBVIOUS
<1>5. Abstract!Forget(ServedMap)
  BY <1>3, <1>4, Zenon DEF Abstract!Forget
<1>6. ServedMap'[pc] = ServedMap[pc]
  BY <1>1, Zenon DEF Keeps
<1> QED BY <1>5, <1>6, Zenon DEF Abstract!AbsLookup

LEMMA UpdateMaps ==
    ASSUME NEW pc \in PC, NEW t \in Addr, Served(pc)' = t,
           \A q \in PC \ {pc} : Served(q)' \in {Served(q), NoEntry}
    PROVE  Abstract!AbsUpdate(pc, t)
<1> DEFINE before == [ServedMap EXCEPT ![pc] = t]
           gone == {q \in PC : Served(q)' # before[q]}
           new == [b \in PC |-> IF b \in gone THEN NoEntry ELSE before[b]]
<1>1. ServedMap'[pc] = t
  BY ServedMapNext
<1>2. before[pc] = t /\ \A q \in PC \ {pc} : before[q] = Served(q)
  BY DEF ServedMap
<1>3. \A q \in PC : Served(q)' = IF q \in gone THEN NoEntry ELSE before[q]
  BY <1>2, Zenon
<1>4. ServedMap' = new
  BY <1>3, ServedMapNext, Zenon
<1>5. gone \in SUBSET PC
  OBVIOUS
<1>6. Abstract!Forget(before)
  BY <1>4, <1>5, Zenon DEF Abstract!Forget
<1> QED BY <1>1, <1>6, Zenon DEF Abstract!AbsUpdate

\* A hit below the L1 moves the entry of pc and leaves every other target or
\* forgets one.
LEMMA InstallKeeps ==
    ASSUME Quiet, Quiet', NEW h \in Hierarchy, NEW pc \in PC, NEW e \in Entry,
           h.l1 = l1, h.l1[pc] = NoEntry, InstallL1(h, pc, e), e.target = Served(pc),
           \A q \in PC \ {pc} : h.l2[q] = l2[q] /\ h.l3[q] = l3[q]
    PROVE  Keeps(pc)
<1>1. /\ l1'[pc] = e
      /\ \A q \in PC \ {pc} : LookupTarget(Levels', q) \in {LookupTarget(h, q), NoEntry}
  BY InstallL1Facts, Zenon
<1>2. \A q \in PC : Served(q) = LookupTarget(Levels, q)
  BY ServedIsLookup, Zenon
<1>3. \A q \in PC : Served(q)' = LookupTarget(Levels', q)
  <2> TAKE q \in PC
  <2>1. Levels'.l1 = l1' /\ Levels'.l2 = l2' /\ Levels'.l3 = l3' /\ pb'[q] = NoEntry
    BY Zenon DEF Levels, Quiet
  <2> QED BY <2>1, Zenon DEF Served, LookupTarget, LowerTarget
<1>4. Levels.l1 = l1 /\ Levels.l2 = l2 /\ Levels.l3 = l3 /\ Levels'.l1 = l1'
  BY Zenon DEF Levels
<1>5. \A q \in PC \ {pc} : LookupTarget(h, q) = LookupTarget(Levels, q)
  BY <1>4, Zenon DEF LookupTarget, LowerTarget
<1>6. e # NoEntry
  BY NoEntryAssumption, Zenon
<1>7. Served(pc)' = Served(pc)
  BY <1>1, <1>3, <1>4, <1>6, ZenonT(30) DEF LookupTarget
<1> QED BY <1>1, <1>2, <1>3, <1>5, <1>7, Zenon DEF Keeps

LEMMA LookupKeeps ==
    ASSUME ~UsesPrefetchBitPolicy, TypeOK, Quiet, Quiet', Lookup
    PROVE  \E pc \in PC : LookupOf(pc) /\ Keeps(pc)
<1>1. PICK start \in Starts, taken \in BOOLEAN, basePred \in BOOLEAN :
         \/ LookupL1Hit(start, taken, basePred)
         \/ LookupPBHit(start, taken, basePred)
         \/ LookupL2Hit(start, taken, basePred)
         \/ LookupL3Hit(start, taken, basePred)
  BY DEF Lookup
<1>2. TrainedOnLookup(start) = l1
  BY NoTraining
<1>3. PICK pc \in PC : pc = bbMap[start]
  <2>1. bbMap[start] # NoPC
    BY <1>1, Zenon DEF LookupL1Hit, LookupPBHit, LookupL2Hit, LookupL3Hit
  <2> QED BY <2>1, BranchOfBlock
<1>4. Levels \in Hierarchy /\ Levels.l1 = l1 /\ Levels.l2 = l2 /\ Levels.l3 = l3
  BY LevelsType, Zenon DEF Levels
<1>5. pb[pc] = NoEntry
  BY <1>3, Zenon DEF Quiet
<1>6. LookupOf(pc)
  BY <1>1, <1>3, Zenon DEF LookupOf
<1> SUFFICES Keeps(pc)
  BY <1>6
<1>7. \A level \in Level : /\ Invalidated(level, pc) \in Level
                           /\ \A q \in PC \ {pc} : Invalidated(level, pc)[q] = level[q]
  BY <1>3, InvalidatedType, Zenon DEF Invalidated, Level
<1>8. CASE LookupL1Hit(start, taken, basePred)
  <2>1. l1' = l1 /\ l2' = l2 /\ l3' = l3 /\ pb' = pb
    BY <1>2, <1>8, Zenon DEF LookupL1Hit
  <2>2. \A q : Served(q)' = Served(q)
    BY <2>1, Zenon DEF Served
  <2> QED BY <2>2, Zenon DEF Keeps
<1>9. CASE LookupPBHit(start, taken, basePred)
  BY <1>9, Zenon DEF LookupPBHit
<1>10. CASE LookupL2Hit(start, taken, basePred)
  <2> DEFINE h == [Levels EXCEPT !.l1 = TrainedOnLookup(start), !.l2 = Invalidated(l2, pc)]
  <2>1. l1[pc] = NoEntry /\ l2[pc] # NoEntry /\ InstallL1(h, pc, Promoted(l2[pc]))
    BY <1>3, <1>10, Zenon DEF LookupL2Hit, MissesBuffers
  <2>2. l2[pc] \in Entry /\ l2 \in Level /\ Served(pc) = l2[pc].target
    BY <1>3, <1>4, <1>5, <2>1, SMTT(30) DEF Hierarchy, Level, Served
  <2>3. Promoted(l2[pc]) \in Entry /\ Promoted(l2[pc]).target = l2[pc].target
    BY <2>2, EntryFields, PromotedType, Zenon
  <2>4. Invalidated(l2, pc) \in Level /\ \A q \in PC \ {pc} : Invalidated(l2, pc)[q] = l2[q]
    BY <1>7, <2>2
  <2>5. h \in Hierarchy /\ h.l1 = l1 /\ h.l2 = Invalidated(l2, pc) /\ h.l3 = l3
    BY <1>2, <1>4, <2>4, Zenon DEF Hierarchy
  <2> HIDE DEF h
  <2>6. h.l1[pc] = NoEntry /\ \A q \in PC \ {pc} : h.l2[q] = l2[q] /\ h.l3[q] = l3[q]
    BY <2>1, <2>4, <2>5, Zenon
  <2> QED BY <1>3, <2>1, <2>2, <2>3, <2>5, <2>6, InstallKeeps, Zenon
<1>11. CASE LookupL3Hit(start, taken, basePred)
  <2> DEFINE h == [Levels EXCEPT !.l1 = TrainedOnLookup(start), !.l3 = Invalidated(l3, pc)]
  <2>1. l1[pc] = NoEntry /\ l2[pc] = NoEntry /\ enableL3 /\ l3[pc] # NoEntry /\ InstallL1(h, pc, l3[pc])
    BY <1>3, <1>11, Zenon DEF LookupL3Hit, MissesBuffers
  <2>2. l3[pc] \in Entry /\ l3 \in Level /\ l3[pc].target = Served(pc)
    BY <1>3, <1>4, <1>5, <2>1, SMTT(30) DEF Hierarchy, Level, Served
  <2>4. Invalidated(l3, pc) \in Level /\ \A q \in PC \ {pc} : Invalidated(l3, pc)[q] = l3[q]
    BY <1>7, <2>2
  <2>5. h \in Hierarchy /\ h.l1 = l1 /\ h.l2 = l2 /\ h.l3 = Invalidated(l3, pc)
    BY <1>2, <1>4, <2>4, Zenon DEF Hierarchy
  <2> HIDE DEF h
  <2>6. h.l1[pc] = NoEntry /\ \A q \in PC \ {pc} : h.l2[q] = l2[q] /\ h.l3[q] = l3[q]
    BY <2>1, <2>4, <2>5, Zenon
  <2> QED BY <1>3, <2>1, <2>2, <2>5, <2>6, InstallKeeps, Zenon
<1> QED BY <1>1, <1>8, <1>9, <1>10, <1>11, SMTT(30)

LEMMA UpdatedMaps ==
    ASSUME ~UsesPrefetchBitPolicy, TypeOK, Quiet, Quiet', NEW pc \in PC, NEW target \in Addr,
           NEW a \in Updated(pc, target), l1' = a.l1, l2' = a.l2, l3' = a.l3
    PROVE  Abstract!AbsUpdate(pc, target)
<1>1. /\ a.l1[pc] # NoEntry /\ a.l1[pc].target = target
      /\ \A q \in PC \ {pc} : LookupTarget(a, q) \in {LookupTarget(Levels, q), NoEntry}
  BY UpdatedFacts, Zenon
<1>2. \A q \in PC : Served(q) = LookupTarget(Levels, q)
  BY ServedIsLookup
<1>3. \A q \in PC : Served(q)' = LookupTarget(a, q)
  <2> TAKE q \in PC
  <2>1. pb'[q] = NoEntry
    BY Zenon DEF Quiet
  <2> QED BY <2>1, Zenon DEF Served, LookupTarget, LowerTarget
<1>4. Served(pc)' = target
  BY <1>1, <1>3, Zenon DEF LookupTarget
<1>5. \A q \in PC \ {pc} : Served(q)' \in {Served(q), NoEntry}
  BY <1>1, <1>2, <1>3
<1> QED BY <1>4, <1>5, UpdateMaps

LEMMA StepMaps ==
    ASSUME ~UsesPrefetchBitPolicy, TypeOK, Quiet, Quiet', Next
    PROVE  CallStep \/ UNCHANGED ServedMap
<1>1. ASSUME UNCHANGED <<l1, l2, l3>> PROVE UNCHANGED ServedMap
  <2>1. \A pc \in PC : pb[pc] = NoEntry /\ pb'[pc] = NoEntry
    BY DEF Quiet
  <2>2. \A pc \in PC : Served(pc)' = Served(pc)
    BY <1>1, <2>1, Zenon DEF Served
  <2> QED BY <2>2, ServedMapNext, Zenon DEF ServedMap
<1>2. CASE Lookup
  BY <1>2, LookupKeeps, KeepsMaps, Zenon DEF CallStep
<1>3. CASE Resolve
  <2>1. PICK pc \in PC :
           \/ \E target \in TargetsOf[pc], start \in StartsOf[pc] :
                 SquashUpdate(pc, target, start) \/ CommitUpdate(pc, target, start)
           \/ \E taken \in BOOLEAN : CommitTrain(pc, taken)
    BY <1>3 DEF Resolve
  <2>2. CASE \E taken \in BOOLEAN : CommitTrain(pc, taken)
    <3>1. l1' = l1 /\ l2' = l2 /\ l3' = l3
      BY <2>2, NoTraining, Zenon DEF CommitTrain
    <3> QED BY <1>1, <3>1
  <2>3. CASE \E target \in TargetsOf[pc], start \in StartsOf[pc] :
                SquashUpdate(pc, target, start) \/ CommitUpdate(pc, target, start)
    <3>1. PICK target \in TargetsOf[pc] : UpdateOf(pc, target)
      BY <2>3, Zenon DEF UpdateOf
    <3>2. PICK a \in Updated(pc, target) : l1' = a.l1 /\ l2' = a.l2 /\ l3' = a.l3
      BY <3>1, NoTrainingUpdate, Zenon
    <3>3. target \in Addr
      BY ProgramAssumption
    <3>4. Abstract!AbsUpdate(pc, target)
      BY <3>2, <3>3, UpdatedMaps
    <3> QED BY <3>1, <3>4, Zenon DEF CallStep
  <2> QED BY <2>1, <2>2, <2>3, ZenonT(30)
<1>4. CASE MemInvalidate
  <2>1. \A pc \in PC : l1'[pc] = NoEntry /\ l2'[pc] = NoEntry /\ (enableL3 => l3'[pc] = NoEntry)
    BY <1>4, Zenon DEF MemInvalidate
  <2>2. \A pc \in PC : pb'[pc] = NoEntry
    BY DEF Quiet
  <2>3. \A pc \in PC : Served(pc)' = NoEntry
    BY <2>1, <2>2, Zenon DEF Served
  <2>4. Abstract!AbsInvalidate
    BY <2>3, ServedMapNext, Zenon DEF Abstract!AbsInvalidate
  <2> QED BY <1>4, <2>4, Zenon DEF CallStep
<1>5. CASE Event
  <2>1. UNCHANGED <<l1, l2, l3>>
    <3>1. ready = << >>
      BY DEF Quiet
    <3> QED BY <1>5, <3>1, Zenon DEF Event, BeginEvent, ProcessEntry, EndEvent, levels
  <2> QED BY <1>1, <2>1
<1> QED BY <1>2, <1>3, <1>4, <1>5 DEF Next

\* The step of a call is one of the abstract steps.
LEMMA CallStepMaps ==
    CallStep => Abstract!AbsNext
<1>1. \A pc \in PC : \A target \in TargetsOf[pc] : target \in Addr
  BY ProgramAssumption
<1> QED BY <1>1, Zenon DEF CallStep, Abstract!AbsNext

LEMMA InitMaps ==
    Init => Abstract!AbsInit
<1> SUFFICES ASSUME Init PROVE Abstract!AbsInit
  OBVIOUS
<1>1. \A pc \in PC : Served(pc) = NoEntry
  BY DEF Init, Served
<1> QED BY <1>1, Zenon DEF Abstract!AbsInit, ServedMap

\* ImplementsMap: without a prefetch policy the three levels of MultiLevelBTB are
\* one map, exclusive or not and whatever their sizes.  Only update stores a target,
\* the one it is called with, for its own branch; lookupWithLatency keeps the target
\* it answers with, and neither brings back what a lower level or an eviction has
\* left behind.  With a policy it is false: update leaves the copy in the prefetch
\* buffer alone.
THEOREM BehavesAsMap ==
    ASSUME ~UsesPrefetchBitPolicy
    PROVE  Spec => ImplementsMap
<1>1. ASSUME TypeOK, Quiet, [Next]_vars PROVE Quiet'
  BY <1>1, QuietNext, Zenon
<1>2. ASSUME TypeOK, Quiet, Quiet', [Next]_vars PROVE [CallStep]_ServedMap
  <2>1. CASE Next
    BY <1>2, <2>1, StepMaps, Zenon
  <2>2. CASE UNCHANGED vars
    <3>1. UNCHANGED <<l1, l2, l3, pb>>
      BY <2>2 DEF vars, levels
    <3>2. \A pc : Served(pc)' = Served(pc)
      BY <3>1, Zenon DEF Served
    <3> QED BY <3>2, ServedMapNext, Zenon DEF ServedMap
  <2> QED BY <1>2, <2>1, <2>2
<1>3. ASSUME [CallStep]_ServedMap PROVE [Abstract!AbsNext]_ServedMap
  BY <1>3, CallStepMaps, Zenon
<1> QED BY <1>1, <1>2, <1>3, TypeCorrect, QuietInit, InitMaps, PTL
        DEF Spec, ImplementsMap, Abstract!AbsSpec
============================================================================
