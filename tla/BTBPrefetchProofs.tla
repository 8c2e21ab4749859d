-------------------------- MODULE BTBPrefetchProofs -------------------------
(***************************************************************************)
(* The prefetches of the multi-level BTB: they are issued on time, a chain   *)
(* keeps to its budget and stays ended once it has used it up, and the       *)
(* statistics of a chain say what it has issued.                             *)
(***************************************************************************)
EXTENDS MultiLevelBTBProofs, FiniteSetTheorems

LEMMA Types == Spec => []TypeOK
<1>1. Countable
  BY FS_Subset, FS_CardinalityType, AddrAssumption, Zenon DEF Countable
<1> QED BY <1>1, TypesKept, Zenon

----------------------------------------------------------------------------
(* What the actions of the CPU do to the queue and to the buffer. *)

TriggerStep ==
    /\ phase = "cpu"
    /\ UNCHANGED <<ready, chainTable, issued, lastSample, phase>>
    /\ nextChainId' \in 1 .. MaxChains + 1
    /\ nextChainId' \in {nextChainId, nextChainId + 1}
    /\ queue' \in Seq(Deferred)
    /\ Sorted(queue) => Sorted(queue')
    /\ \E paths : OneTrigger(paths, queue, queue')
    /\ Distinct(queue) /\ (\A f \in Later(queue) : f.chainId < nextChainId)
         => Distinct(queue')

BufferShrinks == \A pc \in PC : pb'[pc] \in {pb[pc], NoEntry}

LEMMA TriggerStepFacts ==
    ASSUME TypeOK, NEW pc \in PC,
           NEW entry, entry.target \in Addr, entry.bits \in SUBSET Paths,
           NEW taken, NEW basePred, NEW way, NEW loc, NEW base \in Nat,
           LookupStep(pc, entry.target, taken, basePred),
           TryInitialTrigger(pc, entry, way, loc, base)
    PROVE  TriggerStep
<1>1. phase = "cpu" /\ UNCHANGED <<ready, chainTable, issued, lastSample, phase>>
  BY DEF LookupStep
<1>2. /\ nextChainId' \in 1 .. MaxChains + 1
      /\ nextChainId' \in {nextChainId, nextChainId + 1}
      /\ queue' \in Seq(Deferred)
      /\ Sorted(queue) => Sorted(queue')
      /\ \E paths : OneTrigger(paths, queue, queue')
      /\ Distinct(queue) /\ (\A f \in Later(queue) : f.chainId < nextChainId)
           => Distinct(queue')
  BY TriggerFacts
<1> QED BY <1>1, <1>2 DEF TriggerStep

LEMMA LookupEffect ==
    ASSUME TypeOK, Lookup
    PROVE  TriggerStep /\ BufferShrinks
<1>1. PICK start \in Starts, taken \in BOOLEAN, basePred \in BOOLEAN :
         \/ LookupL1Hit(start, taken, basePred)
         \/ LookupPBHit(start, taken, basePred)
         \/ LookupL2Hit(start, taken, basePred)
         \/ LookupL3Hit(start, taken, basePred)
  BY DEF Lookup
<1> DEFINE pc == bbMap[start]
<1>2. CASE LookupL1Hit(start, taken, basePred)
  <2> DEFINE entry == TrainedOnLookup(start)[pc]
  <2>1. pc \in PC /\ l1[pc] # NoEntry
    BY <1>2, BranchOfBlock DEF LookupL1Hit
  <2>2. TrainedOnLookup(start) \in Level /\ entry # NoEntry
    BY <2>1, TrainedOnLookupFacts DEF SameContent
  <2>3. entry \in Entry
    BY <2>1, <2>2 DEF Level
  <2>4. /\ LookupStep(pc, entry.target, taken, basePred)
        /\ pb' = pb
        /\ TryInitialTrigger(pc, entry, basePred, "L1Hit", 0)
    BY <1>2 DEF LookupL1Hit
  <2> HIDE DEF pc, entry
  <2> QED BY <2>1, <2>3, <2>4, EntryFields, TriggerStepFacts DEF BufferShrinks
<1>3. CASE LookupPBHit(start, taken, basePred)
  <2> DEFINE entry == pb[pc]
             base  == IF noPrefetchLatency THEN 0 ELSE entry.arriveIn
  <2>1. pc \in PC /\ entry # NoEntry
    BY <1>3, BranchOfBlock DEF LookupPBHit
  <2>2. entry \in PBEntry
    BY <2>1 DEF TypeOK
  <2>3. base \in Nat
    BY <2>2 DEF PBEntry
  <2>4. /\ LookupStep(pc, entry.target, taken, basePred)
        /\ pb' = [pb EXCEPT ![pc] = NoEntry]
        /\ TryInitialTrigger(pc, entry, basePred, "PBHit", base)
    BY <1>3 DEF LookupPBHit
  <2>5. BufferShrinks
    BY <2>1, <2>4 DEF BufferShrinks, TypeOK
  <2> HIDE DEF pc, entry, base
  <2> QED BY <2>1, <2>2, <2>3, <2>4, <2>5, EntryFields, TriggerStepFacts, SMTT(30)
<1>4. CASE LookupL2Hit(start, taken, basePred)
  <2> DEFINE entry == l2[pc]
  <2>1. pc \in PC /\ entry # NoEntry
    BY <1>4, BranchOfBlock DEF LookupL2Hit
  <2>2. entry \in Entry /\ l2Latency \in Nat
    BY <2>1, ParamNumbers DEF TypeOK, Level
  <2>3. /\ LookupStep(pc, entry.target, taken, basePred)
        /\ pb' = pb
        /\ TryInitialTrigger(pc, entry, taken, "L2Hit", l2Latency)
    BY <1>4 DEF LookupL2Hit
  <2> HIDE DEF pc, entry
  <2> QED BY <2>1, <2>2, <2>3, EntryFields, TriggerStepFacts, SMTT(30) DEF BufferShrinks
<1>5. CASE LookupL3Hit(start, taken, basePred)
  <2> DEFINE entry == l3[pc]
  <2>1. pc \in PC /\ entry # NoEntry
    BY <1>5, BranchOfBlock DEF LookupL3Hit
  <2>2. entry \in Entry /\ l3Latency \in Nat
    BY <2>1, ParamNumbers DEF TypeOK, Level
  <2>3. /\ LookupStep(pc, entry.target, taken, basePred)
        /\ pb' = pb
        /\ TryInitialTrigger(pc, entry, taken, "L3Hit", l3Latency)
    BY <1>5 DEF LookupL3Hit
  <2> HIDE DEF pc, entry
  <2> QED BY <2>1, <2>2, <2>3, EntryFields, TriggerStepFacts DEF BufferShrinks
<1> QED BY <1>1, <1>2, <1>3, <1>4, <1>5, SMTT(30)

LEMMA ResolveEffect ==
    ASSUME Resolve
    PROVE  UNCHANGED <<queue, ready, chainTable, nextChainId, issued, lastSample,
                       pb, phase>>
BY Zenon DEF Resolve, SquashUpdate, CommitUpdate, CommitTrain, chains

----------------------------------------------------------------------------
(* What the event does to the queue. *)

LEMMA BeginEventEffect ==
    ASSUME TypeOK, BeginEvent
    PROVE  /\ Len(ready') = ReadyCount
           /\ \A i \in 1 .. Len(ready') : ready'[i] = queue[i]
           /\ Len(queue') = Len(queue) - ReadyCount
           /\ \A i \in 1 .. Len(queue') : queue'[i] = queue[ReadyCount + i]
           /\ Later(queue') \cup Later(ready') = Later(queue)
<1>1. queue \in Seq(Deferred) /\ Len(queue) \in Nat
  BY DEF TypeOK
<1>2. ReadyCount \in 0 .. Len(queue)
  BY <1>1, ReadyCountFacts
<1>3. /\ ready' = SubSeq(queue, 1, ReadyCount)
      /\ queue' = SubSeq(queue, ReadyCount + 1, Len(queue))
  BY DEF BeginEvent
<1> DEFINE n == ReadyCount
<1>4. n \in 0 .. Len(queue) /\ ready' = SubSeq(queue, 1, n)
      /\ queue' = SubSeq(queue, n + 1, Len(queue))
  BY <1>2, <1>3
<1> HIDE DEF n
<1>5. /\ Len(ready') = n
      /\ \A i \in 1 .. n : ready'[i] = queue[i]
      /\ Len(queue') = Len(queue) - n
      /\ \A i \in 1 .. Len(queue) - n : queue'[i] = queue[n + i]
  BY <1>1, <1>4, SplitFacts
<1>6. \A x \in Later(queue') \cup Later(ready') : x \in Later(queue)
  BY <1>1, <1>4, <1>5 DEF Later
<1>7. \A x \in Later(queue) : x \in Later(queue') \cup Later(ready')
  <2> TAKE x \in Later(queue)
  <2>1. PICK i \in 1 .. Len(queue) : x = queue[i]
    BY DEF Later
  <2>2. CASE i <= n
    BY <1>1, <1>4, <1>5, <2>1, <2>2 DEF Later
  <2>3. CASE i > n
    <3>1. i - n \in 1 .. Len(queue) - n /\ n + (i - n) = i
      BY <1>1, <1>4, <2>3
    <3> QED BY <1>5, <2>1, <3>1 DEF Later
  <2> QED BY <1>1, <1>4, <2>2, <2>3
<1> QED BY <1>5, <1>6, <1>7 DEF n

LEMMA TailLater ==
    ASSUME TypeOK, ready # <<>>
    PROVE  /\ Later(ready) = {Head(ready)} \cup Later(Tail(ready))
           /\ Distinct(ready) =>
                /\ Distinct(Tail(ready))
                /\ \A f \in Later(Tail(ready)) : ~SameTrigger(Head(ready), f)
<1>1. /\ Head(ready) = ready[1]
      /\ Len(ready) \in Nat /\ Len(ready) >= 1
      /\ Len(Tail(ready)) = Len(ready) - 1
      /\ \A i \in 1 .. Len(ready) - 1 : Tail(ready)[i] = ready[i + 1]
  BY ReadyFacts
<1>2. \A i \in 1 .. Len(ready) - 1 : i + 1 \in 1 .. Len(ready) /\ i + 1 # 1
  BY <1>1
<1>3. \A x \in Later(ready) : x \in {Head(ready)} \cup Later(Tail(ready))
  <2> TAKE x \in Later(ready)
  <2>1. PICK i \in 1 .. Len(ready) : x = ready[i]
    BY DEF Later
  <2>2. CASE i = 1
    BY <1>1, <2>1, <2>2
  <2>3. CASE i # 1
    <3>1. i - 1 \in 1 .. Len(ready) - 1 /\ (i - 1) + 1 = i
      BY <1>1, <2>3
    <3> QED BY <1>1, <2>1, <3>1 DEF Later
  <2> QED BY <2>2, <2>3
<1>4. \A x \in {Head(ready)} \cup Later(Tail(ready)) : x \in Later(ready)
  BY <1>1, <1>2 DEF Later
<1>5. ASSUME Distinct(ready)
      PROVE  /\ Distinct(Tail(ready))
             /\ \A f \in Later(Tail(ready)) : ~SameTrigger(Head(ready), f)
  <2>1. \A i, j \in 1 .. Len(ready) : i # j => ~SameTrigger(ready[i], ready[j])
    BY <1>5 DEF Distinct
  <2>2. \A i, j \in 1 .. Len(ready) - 1 : i # j => i + 1 # j + 1
    BY <1>1
  <2> QED BY <1>1, <1>2, <2>1, <2>2 DEF Distinct, Later
<1> QED BY <1>3, <1>4, <1>5

\* One cycle passes: only the times change.
LEMMA EndEventEffect ==
    ASSUME TypeOK, EndEvent
    PROVE  /\ Len(queue') = Len(queue)
           /\ \A i \in 1 .. Len(queue) :
                /\ queue[i] \in Deferred
                /\ queue'[i].issueIn = queue[i].issueIn - 1
                /\ queue'[i].chainId = queue[i].chainId
                /\ queue'[i].allocate = queue[i].allocate
                /\ queue'[i].path = queue[i].path
                /\ queue'[i].depth = queue[i].depth
<1>1. queue \in Seq(Deferred) /\ Len(queue) \in Nat
      /\ \A i \in 1 .. Len(queue) : queue[i] \in Deferred
  BY DEF TypeOK
<1>2. queue' = [i \in 1 .. Len(queue) |-> [queue[i] EXCEPT !.issueIn = @ - 1]]
  BY DEF EndEvent
<1>3. \A e \in Deferred : /\ [e EXCEPT !.issueIn = @ - 1] \in Deferred
                          /\ [e EXCEPT !.issueIn = @ - 1].issueIn = e.issueIn - 1
                          /\ [e EXCEPT !.issueIn = @ - 1].chainId = e.chainId
                          /\ [e EXCEPT !.issueIn = @ - 1].allocate = e.allocate
                          /\ [e EXCEPT !.issueIn = @ - 1].path = e.path
                          /\ [e EXCEPT !.issueIn = @ - 1].depth = e.depth
  BY DEF Deferred
<1>4. queue' \in [1 .. Len(queue) -> Deferred]
  BY <1>1, <1>2, <1>3
<1>5. Len(queue') = Len(queue)
  BY <1>1, <1>4
<1> QED BY <1>1, <1>2, <1>3, <1>5, Zenon

----------------------------------------------------------------------------
(* Timing. *)

\* The inductive invariant: the queue is sorted by issue time, and nothing is
\* ready outside the event.  Without the order an entry could sit behind a
\* later one and miss its cycle.
TimeInv ==
    /\ Sorted(queue)
    /\ phase = "cpu" => ready = <<>>
    /\ IssuedOnTime
    /\ CoveredCycleDefined

LEMMA LaterTimes ==
    ASSUME TypeOK
    PROVE  /\ \A f \in Later(queue) : f \in Deferred /\ f.issueIn \in Int
           /\ \A f \in Later(ready) : f \in Deferred /\ f.issueIn \in Int
<1>1. \A f \in Later(queue) \cup Later(ready) : f \in Deferred
  BY DEF TypeOK, Later
<1> QED BY <1>1 DEF Deferred

LEMMA CoveredKept ==
    ASSUME CoveredCycleDefined, BufferShrinks
    PROVE  CoveredCycleDefined'
BY DEF CoveredCycleDefined, BufferShrinks, Resident

LEMMA LookupTime ==
    ASSUME TypeOK, TimeInv, TriggerStep, BufferShrinks
    PROVE  TimeInv'
<1>1. phase' = "cpu" /\ phase = "cpu" /\ ready' = <<>> /\ ready = <<>>
  BY DEF TriggerStep, TimeInv
<1>2. PICK paths : OneTrigger(paths, queue, queue')
  BY DEF TriggerStep
<1>3. \A f \in Later(queue) : f.issueIn >= 0
  BY <1>1 DEF TimeInv, IssuedOnTime
<1>4. queue' \in Seq(Deferred)
  BY DEF TriggerStep
<1>5. \A f \in Later(queue') : f.issueIn \in Int
  <2>1. \A f \in Later(queue') : f \in Deferred
    BY <1>4 DEF Later
  <2> QED BY <2>1 DEF Deferred
<1>6. \A f \in Later(queue') : f.issueIn >= 0
  BY <1>2, <1>3, <1>5 DEF OneTrigger
<1>7. Later(ready') = {}
  BY <1>1 DEF Later
<1>8. IssuedOnTime'
  BY <1>1, <1>6, <1>7 DEF IssuedOnTime
<1>9. CoveredCycleDefined'
  BY CoveredKept DEF TimeInv
<1> QED BY <1>1, <1>8, <1>9 DEF TimeInv, TriggerStep

LEMMA BeginEventTime ==
    ASSUME TypeOK, TimeInv, BeginEvent
    PROVE  TimeInv'
<1> DEFINE n == ReadyCount
<1>1. queue \in Seq(Deferred) /\ Len(queue) \in Nat
  BY DEF TypeOK
<1>2. /\ n \in 0 .. Len(queue)
      /\ ~noPrefetchLatency =>
           /\ \A i \in 1 .. n : queue[i].issueIn <= 0
           /\ n < Len(queue) => queue[n + 1].issueIn > 0
      /\ noPrefetchLatency => n = Len(queue)
  BY <1>1, ReadyCountFacts
<1>3. /\ Len(ready') = n
      /\ \A i \in 1 .. n : ready'[i] = queue[i]
      /\ Len(queue') = Len(queue) - n
      /\ \A i \in 1 .. Len(queue) - n : queue'[i] = queue[n + i]
  BY BeginEventEffect
<1>4. phase = "cpu" /\ phase' = "event" /\ pb' = pb
  BY DEF BeginEvent
<1> HIDE DEF n
<1>5. \A i \in 1 .. Len(queue) : queue[i].issueIn \in Int /\ queue[i].issueIn >= 0
  <2>1. \A i \in 1 .. Len(queue) : queue[i] \in Later(queue)
    BY DEF Later
  <2> QED BY <1>4, <2>1, LaterTimes DEF TimeInv, IssuedOnTime
<1>6. \A i, j \in 1 .. Len(queue) : i < j => queue[i].issueIn <= queue[j].issueIn
  BY DEF TimeInv, Sorted
<1>7. \A i \in 1 .. Len(queue) - n : n + i \in 1 .. Len(queue)
  BY <1>1, <1>2
<1>8. Sorted(queue')
  BY <1>1, <1>2, <1>3, <1>6, <1>7 DEF Sorted
<1>9. \A i \in 1 .. Len(queue) - n : queue'[i].issueIn >= 1
  <2> TAKE i \in 1 .. Len(queue) - n
  <2>1. ~noPrefetchLatency /\ n < Len(queue)
    BY <1>1, <1>2
  <2>2. queue[n + 1].issueIn > 0 /\ n + 1 \in 1 .. Len(queue)
    BY <1>1, <1>2, <2>1
  <2>3. n + 1 = n + i \/ n + 1 < n + i
    BY <1>1, <1>2
  <2> QED BY <1>3, <1>5, <1>6, <1>7, <2>2, <2>3, SMTT(30)
<1>10. ~noPrefetchLatency => \A i \in 1 .. n : ready'[i].issueIn = 0
  BY <1>1, <1>2, <1>3, <1>5
<1>11. IssuedOnTime'
  BY <1>3, <1>4, <1>9, <1>10 DEF IssuedOnTime, Later
<1>12. CoveredCycleDefined'
  BY <1>4, CoveredKept DEF TimeInv, BufferShrinks
<1> QED BY <1>4, <1>8, <1>11, <1>12 DEF TimeInv

LEMMA EndEventTime ==
    ASSUME TypeOK, TimeInv, EndEvent
    PROVE  TimeInv'
<1>1. /\ Len(queue') = Len(queue)
      /\ \A i \in 1 .. Len(queue) : queue'[i].issueIn = queue[i].issueIn - 1
  BY EndEventEffect
<1>2. phase = "event" /\ phase' = "cpu" /\ ready = <<>> /\ ready' = <<>>
  BY DEF EndEvent
<1>3. \A i \in 1 .. Len(queue) : queue[i].issueIn \in Int /\ queue[i].issueIn >= 1
  <2>1. \A i \in 1 .. Len(queue) : queue[i] \in Later(queue)
    BY DEF Later
  <2> QED BY <1>2, <2>1, LaterTimes DEF TimeInv, IssuedOnTime
<1>4. Sorted(queue')
  BY <1>1, <1>3 DEF TimeInv, Sorted
<1>5. IssuedOnTime'
  BY <1>1, <1>2, <1>3 DEF IssuedOnTime, Later
<1>6. CoveredCycleDefined'
  <2>1. \A e \in PBEntry : e.arriveIn > 0 =>
          /\ [e EXCEPT !.arriveIn = @ - 1].arriveIn = e.arriveIn - 1
          /\ [e EXCEPT !.arriveIn = @ - 1].fromL3 = e.fromL3
    BY DEF PBEntry
  <2>2. \A e \in PBEntry : e.arriveIn \in Nat
    BY DEF PBEntry
  <2>3. \A pc \in PC : pb[pc] # NoEntry => pb[pc] \in PBEntry
    BY DEF TypeOK
  <2>4. pb' = [pc \in PC |->
                 IF pb[pc] # NoEntry /\ pb[pc].arriveIn > 0
                 THEN [pb[pc] EXCEPT !.arriveIn = @ - 1] ELSE pb[pc]]
    BY DEF EndEvent
  <2>5. \A pc \in PC : pb'[pc] # NoEntry =>
          /\ pb[pc] # NoEntry
          /\ pb'[pc].arriveIn <= pb[pc].arriveIn
          /\ pb'[pc].fromL3 = pb[pc].fromL3
          /\ pb'[pc].arriveIn \in Int
    BY <2>1, <2>2, <2>3, <2>4
  <2>6. {l2Latency, l3Latency} \subseteq Nat
    BY ParamNumbers
  <2> QED BY <2>2, <2>3, <2>5, <2>6 DEF TimeInv, CoveredCycleDefined, Resident
<1> QED BY <1>2, <1>4, <1>5, <1>6 DEF TimeInv

\* An entry that is dropped or skipped.
SkipStep(e) ==
    /\ ready' = Tail(ready)
    /\ UNCHANGED <<queue, pb, phase, issued, lastSample, nextChainId>>

LEMMA ProcessCases ==
    ASSUME ProcessEntry
    PROVE  /\ phase = "event" /\ ready # <<>>
           /\ \/ DropEntry(Head(ready)) /\ SkipStep(Head(ready))
                 /\ UNCHANGED chainTable
              \/ /\ SkipStep(Head(ready)) /\ ValidChain(Head(ready))
                 /\ \E reason \in EndReasons \ {"DepthExhaust"} :
                       EndsWith(Head(ready), reason)
              \/ IssuePrefetch(Head(ready))
<1> DEFINE e == Head(ready)
<1>1. \A reason : EndsWith(e, reason) => SkipStep(e)
  BY DEF EndsWith, SkipStep, stats
<1>2. DropEntry(e) => SkipStep(e) /\ UNCHANGED chainTable
  BY DEF DropEntry, SkipStep, chains
<1>3. SkipForDemand(e) => ValidChain(e) /\ EndsWith(e, "Demand")
  BY DEF SkipForDemand
<1>4. SkipForPresence(e) => ValidChain(e) /\ EndsWith(e, "Presence")
  BY DEF SkipForPresence
<1>5. SkipForMiss(e) => ValidChain(e) /\ (EndsWith(e, "L3Miss") \/ EndsWith(e, "L2Miss"))
  BY DEF SkipForMiss
<1>6. {"Demand", "Presence", "L2Miss", "L3Miss"} \subseteq EndReasons \ {"DepthExhaust"}
  BY DEF EndReasons
<1>7. /\ phase = "event" /\ ready # <<>>
      /\ DropEntry(e) \/ SkipForDemand(e) \/ SkipForPresence(e)
         \/ SkipForMiss(e) \/ IssuePrefetch(e)
  BY DEF ProcessEntry
<1> HIDE DEF e
<1>8. (\E reason \in {"Demand", "Presence", "L2Miss", "L3Miss"} :
         ValidChain(e) /\ EndsWith(e, reason))
      \/ DropEntry(e) \/ IssuePrefetch(e)
  BY <1>3, <1>4, <1>5, <1>7
<1> QED BY <1>1, <1>2, <1>6, <1>7, <1>8 DEF e

LEMMA IssueQueue ==
    ASSUME TypeOK, NEW e \in Deferred, IssuePrefetch(e)
    PROVE  /\ queue' \in Seq(Deferred)
           /\ Sorted(queue) => Sorted(queue')
           /\ Distinct(queue) => Distinct(queue')
           /\ \A f \in Later(queue') :
                \/ f \in Later(queue)
                \/ Tracked(e) /\ f.issueIn >= 1 /\ f.chainId = e.chainId
                   /\ ~f.allocate
<1>1. CASE Tracked(e)
  <2>1. PICK paths : PathsAdded(queue, queue', paths, Successor(e))
    BY <1>1, IssueFacts
  <2>2. Successor(e).allocate = FALSE /\ Successor(e).chainId = e.chainId
    BY DEF Successor
  <2>3. NoTrigger(queue, Successor(e), "target")
        /\ NoTrigger(queue, Successor(e), "through")
    BY <2>2 DEF NoTrigger
  <2> QED BY <1>1, <2>1, <2>2, <2>3, Zenon DEF PathsAdded, NewEntry
<1>2. CASE ~Tracked(e)
  BY <1>2, Zenon DEF IssuePrefetch, TypeOK
<1> QED BY <1>1, <1>2

LEMMA ProcessEntryTime ==
    ASSUME TypeOK, TimeInv, ProcessEntry
    PROVE  TimeInv'
<1> DEFINE e == Head(ready)
<1>1. phase = "event" /\ ready # <<>>
  BY ProcessCases
<1>2. Later(ready) = {e} \cup Later(Tail(ready)) /\ e \in Deferred
  BY <1>1, TailLater, ReadyFacts
<1>3. ~noPrefetchLatency => \A f \in Later(ready) : f.issueIn = 0
  BY DEF TimeInv, IssuedOnTime
<1>4. CASE SkipStep(e)
  <2>1. ready' = Tail(ready) /\ UNCHANGED <<queue, pb, phase>>
    BY <1>4 DEF SkipStep
  <2>2. CoveredCycleDefined'
    BY <2>1, CoveredKept DEF TimeInv, BufferShrinks
  <2>3. IssuedOnTime'
    BY <1>2, <1>3, <2>1 DEF TimeInv, IssuedOnTime
  <2> QED BY <1>1, <2>1, <2>2, <2>3 DEF TimeInv
<1>5. CASE IssuePrefetch(e)
  <2>1. ready' = Tail(ready) /\ phase' = phase
    BY <1>5, Zenon DEF IssuePrefetch
  <2>2. /\ queue' \in Seq(Deferred)
        /\ Sorted(queue')
        /\ \A f \in Later(queue') : f \in Later(queue) \/ f.issueIn >= 1
    BY <1>2, <1>5, IssueQueue DEF TimeInv
  <2>3. IssuedOnTime'
    BY <1>1, <1>2, <1>3, <2>1, <2>2, SMTT(30) DEF TimeInv, IssuedOnTime
  <2>4. CoveredCycleDefined'
    <3> DEFINE latency == IF FromL3(e) THEN l3Latency ELSE l2Latency
               entry   == [target |-> Source(e).target, bits |-> Source(e).bits,
                           arriveIn |-> ArrivesIn(e), fromL3 |-> FromL3(e)]
    <3>1. EnqueuePrefetch(e.pc, entry)
      BY <1>5, Zenon DEF IssuePrefetch
    <3>2. PICK v \in Victims(pb, PBSet, PBWays, e.pc) :
             pb' = Replace(pb, v, e.pc, entry)
      BY <3>1, Zenon DEF EnqueuePrefetch
    <3>3. \A pc \in PC : pb'[pc] # NoEntry => pb'[pc] = entry \/ pb'[pc] = pb[pc]
      BY <3>2, Zenon DEF Replace
    <3>4. latency \in Nat
      BY ParamNumbers
    <3>5. ~noPrefetchLatency => ArrivesIn(e) = latency
      BY <1>2, <1>3, <3>4 DEF ArrivesIn
    <3>6. /\ entry.arriveIn = ArrivesIn(e)
          /\ latency = IF entry.fromL3 THEN l3Latency ELSE l2Latency
      OBVIOUS
    <3> HIDE DEF entry, latency
    <3> QED BY <3>3, <3>4, <3>5, <3>6
            DEF TimeInv, CoveredCycleDefined, Resident
  <2> QED BY <1>1, <2>1, <2>2, <2>3, <2>4 DEF TimeInv
<1> QED BY <1>4, <1>5, ProcessCases

LEMMA InitTime ==
    Init => TimeInv
BY DEF Init, TimeInv, Sorted, IssuedOnTime, CoveredCycleDefined, Later, Resident

LEMMA TimeInductive ==
    Spec => []TimeInv
<1>1. ASSUME TypeOK, TimeInv, [Next]_vars PROVE TimeInv'
  <2>1. CASE Lookup
    BY <1>1, <2>1, LookupEffect, LookupTime
  <2>2. CASE Resolve
    <3>1. UNCHANGED <<queue, ready, pb, phase>>
      BY <2>2, ResolveEffect
    <3> QED BY <1>1, <3>1 DEF TimeInv, Sorted, IssuedOnTime,
                              CoveredCycleDefined, Later, Resident
  <2>3. CASE MemInvalidate
    <3>1. /\ phase = "cpu" /\ UNCHANGED <<ready, phase>> /\ queue' = <<>>
          /\ pb' = [pc \in PC |-> NoEntry]
      BY <2>3 DEF MemInvalidate
    <3>2. ready' = <<>>
      BY <1>1, <3>1 DEF TimeInv
    <3>3. Len(queue') = 0 /\ Later(queue') = {} /\ Later(ready') = {}
      BY <3>1, <3>2 DEF Later
    <3>4. Sorted(queue')
      BY <3>3 DEF Sorted
    <3>5. IssuedOnTime'
      BY <3>3 DEF IssuedOnTime
    <3>6. CoveredCycleDefined'
      BY <3>1 DEF CoveredCycleDefined, Resident
    <3> QED BY <3>2, <3>4, <3>5, <3>6 DEF TimeInv
  <2>4. CASE Event
    BY <1>1, <2>4, BeginEventTime, ProcessEntryTime, EndEventTime, SMTT(30) DEF Event
  <2>5. CASE UNCHANGED vars
    <3>1. UNCHANGED <<queue, ready, pb, phase>>
      BY <2>5 DEF vars, chains
    <3> QED BY <1>1, <3>1 DEF TimeInv, Sorted, IssuedOnTime,
                              CoveredCycleDefined, Later, Resident
  <2> QED BY <1>1, <2>1, <2>2, <2>3, <2>4, <2>5 DEF Next
<1> QED BY <1>1, InitTime, Types, PTL DEF Spec

\* IssuedOnTime: prefetchViaBBMap keeps deferredPrefetchQueue sorted, so that
\* processDeferredPrefetchQueue takes every entry in the cycle of its issueTime.
THEOREM OnTime ==
    Spec => []IssuedOnTime
<1>1. TimeInv => IssuedOnTime
  BY DEF TimeInv
<1> QED BY <1>1, TimeInductive, PTL

\* CoveredCycleDefined: the Cycles subtraction in handlePBufferHit is never
\* negative, because entries are issued on time.
THEOREM CoveredCycleSafe ==
    Spec => []CoveredCycleDefined
<1>1. TimeInv => CoveredCycleDefined
  BY DEF TimeInv
<1> QED BY <1>1, TimeInductive, PTL

----------------------------------------------------------------------------
(* The budget of a chain. *)

\* Some entry still to be handled would allocate a slot for chain c.
Allocating(c, path) ==
    \E e \in Later(queue) \cup Later(ready) :
        e.allocate /\ e.chainId = c /\ e.path = path

\* The prefetches chain c may still issue: through an entry that is to allocate
\* its slot, and through the slot itself.
Promised(c, path) == IF Allocating(c, path) THEN prefetchDepth ELSE 0

Remaining(c) ==
    IF maxChainTrackerEntries > 0 /\ chainTable[SlotOf(c)].chainId = c
    THEN chainTable[SlotOf(c)].remaining ELSE 0

Budget == IF newPBits THEN prefetchDepth ELSE 2 * prefetchDepth

WithinBudget ==
    \A c \in 1 .. MaxChains :
        issued[c] + Remaining(c) + Promised(c, "target") + Promised(c, "through")
            <= Budget

\* No two allocating entries of a chain follow the same path, and identifiers
\* from nextChainId on are unused.
Identified ==
    /\ Distinct(queue) /\ Distinct(ready)
    /\ \A e \in Later(queue), f \in Later(ready) : ~SameTrigger(e, f)
    /\ \A e \in Later(queue) \cup Later(ready) : e.chainId < nextChainId
    /\ \A s \in Slots : chainTable[s].chainId < nextChainId
    /\ \A c \in 1 .. MaxChains : c >= nextChainId => issued[c] = 0

\* The inductive invariant.  ChainBudget alone is not inductive: a chain that
\* has lost its slot could get a second one.
ChainInv ==
    /\ phase = "cpu" => ready = <<>>
    /\ Identified
    /\ ChainEntryNonNull
    /\ ExhaustedIsFinal
    /\ WithinBudget

LEMMA BudgetNumbers ==
    ASSUME TypeOK, NEW c \in 1 .. MaxChains
    PROVE  /\ issued[c] \in Nat
           /\ Remaining(c) \in 0 .. prefetchDepth
           /\ \A path : Promised(c, path) \in {0, prefetchDepth}
           /\ prefetchDepth \in Nat /\ Budget \in Nat
<1>1. issued[c] \in Nat
  BY Zenon DEF TypeOK
<1>2. prefetchDepth \in Nat
  BY ParamNumbers
<1>3. Remaining(c) \in 0 .. prefetchDepth
  <2>1. CASE maxChainTrackerEntries > 0
    BY <1>2, <2>1, SlotFacts DEF Remaining
  <2>2. CASE ~(maxChainTrackerEntries > 0)
    BY <1>2, <2>2 DEF Remaining
  <2> QED BY <2>1, <2>2
<1> QED BY <1>1, <1>2, <1>3 DEF Promised, Budget

\* A step that issues nothing and promises nothing new keeps the budget.
LEMMA BudgetKept ==
    ASSUME TypeOK, WithinBudget, issued' = issued,
           \A c \in 1 .. MaxChains : Remaining(c)' \in {Remaining(c), 0},
           \A c \in 1 .. MaxChains, path \in Paths :
              Allocating(c, path)' => Allocating(c, path)
    PROVE  WithinBudget'
<1> SUFFICES ASSUME NEW c \in 1 .. MaxChains
             PROVE  (issued[c] + Remaining(c) + Promised(c, "target")
                       + Promised(c, "through") <= Budget)'
  BY DEF WithinBudget
<1>1. \A path \in Paths : Promised(c, path)' \in {Promised(c, path), 0}
  BY DEF Promised
<1>2. "target" \in Paths /\ "through" \in Paths
  BY DEF Paths
<1>3. Promised(c, "target")' \in {Promised(c, "target"), 0}
      /\ Promised(c, "through")' \in {Promised(c, "through"), 0}
  BY <1>1, <1>2
<1>4. /\ issued[c] \in Nat
      /\ Remaining(c) \in 0 .. prefetchDepth
      /\ Promised(c, "target") \in {0, prefetchDepth}
      /\ Promised(c, "through") \in {0, prefetchDepth}
      /\ prefetchDepth \in Nat /\ Budget \in Nat
  BY BudgetNumbers
<1>5. issued[c] + Remaining(c) + Promised(c, "target")
        + Promised(c, "through") <= Budget
  BY DEF WithinBudget
<1>6. Budget' = Budget /\ issued'[c] = issued[c]
  BY DEF Budget
<1>7. Remaining(c)' \in {Remaining(c), 0}
  OBVIOUS
<1> QED BY <1>3, <1>4, <1>5, <1>6, <1>7, SMTT(30)

LEMMA RemainingKept ==
    ASSUME chainTable' = chainTable
    PROVE  \A c : Remaining(c)' = Remaining(c)
BY DEF Remaining

\* A lookup: at most one new chain, with one allocating entry per path.
LEMMA LookupChain ==
    ASSUME TypeOK, ChainInv, TriggerStep
    PROVE  ChainInv'
<1>1. /\ phase = "cpu" /\ ready = <<>>
      /\ UNCHANGED <<ready, chainTable, issued, phase>>
      /\ nextChainId \in 1 .. MaxChains + 1
      /\ nextChainId' \in 1 .. MaxChains + 1
      /\ nextChainId' \in {nextChainId, nextChainId + 1}
  BY Zenon DEF TriggerStep, ChainInv, TypeOK
<1>2. PICK paths : OneTrigger(paths, queue, queue')
  BY DEF TriggerStep
<1>3. \A f \in Later(queue') :
         \/ f \in Later(queue)
         \/ /\ nextChainId' = nextChainId + 1
            /\ f.chainId = nextChainId /\ f.allocate /\ f.path \in paths
  BY <1>2 DEF OneTrigger
<1>4. Later(ready) = {} /\ Later(ready') = {} /\ Distinct(ready')
  BY <1>1 DEF Later, Distinct
<1>5. \A f \in Later(queue) \cup Later(ready) : f.chainId \in Int
  <2>1. \A f \in Later(queue) \cup Later(ready) : f \in Deferred
    BY LaterTimes
  <2> QED BY <2>1, ParamNumbers DEF Deferred
<1>6. \A f \in Later(queue) : f.chainId < nextChainId
  BY DEF ChainInv, Identified
<1>7. MaxChains \in Nat
  BY ParamNumbers
<1>8. \A s \in Slots : chainTable[s].chainId \in Int
                       /\ chainTable[s].chainId < nextChainId
  <2>1. chainTable \in [Slots -> ActiveChainEntry]
    BY Zenon DEF TypeOK
  <2>2. \A s \in Slots : chainTable[s].chainId \in Int
    BY <1>7, <2>1 DEF ActiveChainEntry
  <2> QED BY <2>2, Zenon DEF ChainInv, Identified
<1>9. Identified'
  <2>1. Distinct(queue')
    BY <1>6 DEF TriggerStep, ChainInv, Identified
  <2>2. \A f \in Later(queue') \cup Later(ready') : f.chainId < nextChainId'
    BY <1>1, <1>3, <1>4, <1>5, <1>6, SMTT(30)
  <2>3. \A s \in Slots : chainTable'[s].chainId < nextChainId'
    BY <1>1, <1>8
  <2>4. \A c \in 1 .. MaxChains : c >= nextChainId' => issued'[c] = 0
    BY <1>1, <1>7 DEF ChainInv, Identified
  <2> QED BY <1>4, <2>1, <2>2, <2>3, <2>4, Zenon DEF Identified
<1>10. ChainEntryNonNull'
  BY <1>3, <1>4 DEF ChainInv, ChainEntryNonNull, Tracked
<1>11. ExhaustedIsFinal'
  BY <1>1 DEF ChainInv, ExhaustedIsFinal
<1>12. WithinBudget'
  <2> SUFFICES ASSUME NEW c \in 1 .. MaxChains
               PROVE  (issued[c] + Remaining(c) + Promised(c, "target")
                         + Promised(c, "through") <= Budget)'
    BY DEF WithinBudget
  <2>1. Budget' = Budget /\ issued'[c] = issued[c]
        /\ Remaining(c)' = Remaining(c)
    BY <1>1, RemainingKept DEF Budget
  <2>2. CASE c = nextChainId
    <3>1. issued[c] = 0
      BY <1>1, <1>7, <2>2 DEF ChainInv, Identified
    <3>2. Remaining(c) = 0
      <4>1. CASE maxChainTrackerEntries > 0
        BY <1>8, <2>2, <4>1, SlotFacts, SMTT(30) DEF Remaining
      <4> QED BY <4>1 DEF Remaining
    <3>3. ~Allocating(c, "target") /\ ~Allocating(c, "through")
      BY <1>1, <1>4, <1>5, <1>6, <2>2, SMTT(30) DEF Allocating
    <3>4. /\ Allocating(c, "target")' => "target" \in paths
          /\ Allocating(c, "through")' => "through" \in paths
      BY <1>3, <1>4, <3>3 DEF Allocating
    <3>5. newPBits => ~(Allocating(c, "target")' /\ Allocating(c, "through")')
      BY <1>2, <3>4 DEF OneTrigger
    <3>6. prefetchDepth \in Nat
      BY ParamNumbers
    <3> QED BY <2>1, <3>1, <3>2, <3>5, <3>6, SMTT(30) DEF Promised, Budget
  <2>3. CASE c # nextChainId
    <3>1. \A path : Allocating(c, path)' => Allocating(c, path)
      BY <1>3, <1>4, <2>3 DEF Allocating
    <3>2. \A path : Promised(c, path)' \in {Promised(c, path), 0}
      BY <3>1 DEF Promised
    <3>3. /\ issued[c] \in Nat
          /\ Remaining(c) \in 0 .. prefetchDepth
          /\ Promised(c, "target") \in {0, prefetchDepth}
          /\ Promised(c, "through") \in {0, prefetchDepth}
          /\ prefetchDepth \in Nat /\ Budget \in Nat
      BY BudgetNumbers
    <3>4. issued[c] + Remaining(c) + Promised(c, "target")
            + Promised(c, "through") <= Budget
      BY DEF WithinBudget, ChainInv
    <3>5. /\ Promised(c, "target")' \in {Promised(c, "target"), 0}
          /\ Promised(c, "through")' \in {Promised(c, "through"), 0}
      BY <3>2
    <3> QED BY <2>1, <3>3, <3>4, <3>5
  <2> QED BY <2>2, <2>3
<1> QED BY <1>1, <1>9, <1>10, <1>11, <1>12, SMTT(30) DEF ChainInv

LEMMA BeginEventChain ==
    ASSUME TypeOK, ChainInv, BeginEvent
    PROVE  ChainInv'
<1>1. /\ phase' = "event"
      /\ UNCHANGED <<chainTable, nextChainId, issued>>
      /\ Later(ready) = {}
  BY DEF BeginEvent, ChainInv, Later
<1>2. Later(queue') \cup Later(ready') = Later(queue) \cup Later(ready)
  BY <1>1, BeginEventEffect, SMTT(30)
<1>3. queue \in Seq(Deferred) /\ Len(queue) \in Nat /\ ReadyCount \in 0 .. Len(queue)
  BY ReadyCountFacts DEF TypeOK
<1>4. \A i, j \in 1 .. Len(queue) : i # j => ~SameTrigger(queue[i], queue[j])
  BY DEF ChainInv, Identified, Distinct
<1>5. Distinct(queue') /\ Distinct(ready')
      /\ \A e \in Later(queue'), f \in Later(ready') : ~SameTrigger(e, f)
  <2> DEFINE n == ReadyCount
  <2>1. /\ Len(ready') = n
        /\ \A i \in 1 .. Len(ready') : ready'[i] = queue[i]
        /\ Len(queue') = Len(queue) - n
        /\ \A i \in 1 .. Len(queue') : queue'[i] = queue[n + i]
    BY BeginEventEffect
  <2>2. n \in 0 .. Len(queue)
    BY <1>3
  <2> HIDE DEF n
  <2>3. \A i, j \in 1 .. Len(queue') :
          /\ n + i \in 1 .. Len(queue) /\ n + j \in 1 .. Len(queue)
          /\ i # j => n + i # n + j
    BY <1>3, <2>1, <2>2
  <2>4. \A i \in 1 .. Len(queue'), j \in 1 .. Len(ready') :
          n + i \in 1 .. Len(queue) /\ j \in 1 .. Len(queue) /\ n + i # j
    BY <1>3, <2>1, <2>2, SMTT(30)
  <2>5. Distinct(queue')
    BY <1>4, <2>1, <2>3, Zenon DEF Distinct
  <2>6. Distinct(ready')
    <3>1. \A i \in 1 .. Len(ready') : i \in 1 .. Len(queue)
      BY <1>3, <2>1, <2>2
    <3> QED BY <1>4, <2>1, <3>1, Zenon DEF Distinct
  <2> QED BY <1>4, <2>1, <2>4, <2>5, <2>6 DEF Later
<1>6. Identified'
  BY <1>1, <1>2, <1>5, Zenon DEF ChainInv, Identified
<1>7. ChainEntryNonNull'
  BY <1>2 DEF ChainInv, ChainEntryNonNull, Tracked
<1>8. ExhaustedIsFinal'
  BY <1>1 DEF ChainInv, ExhaustedIsFinal
<1>9. WithinBudget'
  <2>1. \A c \in 1 .. MaxChains : Remaining(c)' \in {Remaining(c), 0}
    BY <1>1, RemainingKept
  <2>2. \A c \in 1 .. MaxChains, path \in Paths :
          Allocating(c, path)' => Allocating(c, path)
    BY <1>2 DEF Allocating
  <2> QED BY <1>1, <2>1, <2>2, BudgetKept DEF ChainInv
<1> QED BY <1>1, <1>6, <1>7, <1>8, <1>9 DEF ChainInv

LEMMA EndEventChain ==
    ASSUME TypeOK, ChainInv, EndEvent
    PROVE  ChainInv'
<1>1. /\ ready = <<>> /\ ready' = <<>>
      /\ UNCHANGED <<chainTable, nextChainId, issued>>
      /\ Later(ready) = {} /\ Later(ready') = {} /\ Distinct(ready')
  BY DEF EndEvent, Later, Distinct
<1>2. /\ Len(queue') = Len(queue)
      /\ \A i \in 1 .. Len(queue) :
           /\ queue[i] \in Deferred
           /\ queue'[i].chainId = queue[i].chainId
           /\ queue'[i].allocate = queue[i].allocate
           /\ queue'[i].path = queue[i].path
  BY EndEventEffect, SMTT(30)
<1>3. \A f \in Later(queue') : \E g \in Later(queue) :
        f.chainId = g.chainId /\ f.allocate = g.allocate /\ f.path = g.path
  BY <1>2 DEF Later
<1>4. Distinct(queue')
  <2>1. Distinct(queue)
    BY Zenon DEF ChainInv, Identified
  <2> SUFFICES ASSUME NEW i \in 1 .. Len(queue'), NEW j \in 1 .. Len(queue'), i # j
               PROVE  ~SameTrigger(queue'[i], queue'[j])
    BY Zenon DEF Distinct
  <2>2. i \in 1 .. Len(queue) /\ j \in 1 .. Len(queue)
    BY <1>2, Zenon
  <2>3. ~SameTrigger(queue[i], queue[j])
    BY <2>1, <2>2, Zenon DEF Distinct
  <2> QED BY <1>2, <2>2, <2>3, Zenon DEF SameTrigger
<1>5. Identified'
  BY <1>1, <1>3, <1>4, Zenon DEF ChainInv, Identified
<1>6. ChainEntryNonNull'
  BY <1>1, <1>3 DEF ChainInv, ChainEntryNonNull, Tracked
<1>7. ExhaustedIsFinal'
  BY <1>1, Zenon DEF ChainInv, ExhaustedIsFinal
<1>8. WithinBudget'
  <2>1. \A c \in 1 .. MaxChains : Remaining(c)' \in {Remaining(c), 0}
    BY <1>1, RemainingKept
  <2>2. \A c \in 1 .. MaxChains, path \in Paths :
          Allocating(c, path)' => Allocating(c, path)
    BY <1>1, <1>3 DEF Allocating
  <2> QED BY <1>1, <2>1, <2>2, BudgetKept DEF ChainInv
<1> QED BY <1>1, <1>5, <1>6, <1>7, <1>8 DEF ChainInv

\* Dropping or skipping the first entry; at most the reason of its slot changes.
LEMMA SkipChain ==
    ASSUME TypeOK, ChainInv, phase = "event", ready # <<>>,
           NEW e, e = Head(ready), SkipStep(e),
           \/ UNCHANGED chainTable
           \/ /\ ValidChain(e)
              /\ \E reason \in EndReasons \ {"DepthExhaust"} : EndsWith(e, reason)
    PROVE  ChainInv'
<1>1. ready' = Tail(ready) /\ UNCHANGED <<queue, phase, issued, nextChainId>>
  BY DEF SkipStep
<1>2. /\ Later(ready) = {e} \cup Later(Tail(ready)) /\ e \in Deferred
      /\ Distinct(ready')
  BY <1>1, TailLater, ReadyFacts, Zenon DEF ChainInv, Identified
<1>3. \A s \in Slots :
        /\ chainTable'[s].chainId = chainTable[s].chainId
        /\ chainTable'[s].remaining = chainTable[s].remaining
        /\ \/ chainTable'[s].reason = chainTable[s].reason
           \/ /\ chainTable[s].remaining # 0
              /\ chainTable'[s].reason # "DepthExhaust"
              /\ chainTable[s].reason # "DepthExhaust"
  <2>1. CASE UNCHANGED chainTable
    BY <2>1, Zenon
  <2>2. CASE /\ ValidChain(e)
             /\ \E reason \in EndReasons \ {"DepthExhaust"} : EndsWith(e, reason)
    <3>1. PICK reason \in EndReasons \ {"DepthExhaust"} : EndsWith(e, reason)
      BY <2>2
    <3>2. CASE Tracked(e) /\ ~e.allocate
      <4> DEFINE k == SlotOf(e.chainId)
      <4>1. k \in Slots /\ e.chainId \in 1 .. MaxChains
        BY <1>2, <3>2, SlotFacts, Zenon DEF Tracked, Deferred
      <4>2. chainTable' = [chainTable EXCEPT ![k].reason = reason]
        BY <3>1, <3>2, Zenon DEF EndsWith
      <4>3. chainTable[k].chainId = e.chainId /\ chainTable[k].remaining # 0
        BY <2>2, <3>2, Zenon DEF ValidChain
      <4>4. chainTable[k].reason # "DepthExhaust"
        <5>1. e.chainId # 0
          BY <1>2, <4>1, ParamNumbers, SMTT(30)
        <5> QED BY <4>1, <4>3, <5>1, ZenonT(30) DEF ChainInv, ExhaustedIsFinal
      <4>5. chainTable \in [Slots -> ActiveChainEntry]
        BY Zenon DEF TypeOK
      <4> HIDE DEF k
      <4> QED BY <4>1, <4>2, <4>3, <4>4, <4>5
    <3>3. CASE ~(Tracked(e) /\ ~e.allocate)
      BY <3>1, <3>3, Zenon DEF EndsWith
    <3> QED BY <3>2, <3>3, Zenon
  <2> QED BY <2>1, <2>2, Zenon
<1>4. Identified'
  BY <1>1, <1>2, <1>3, ZenonT(30) DEF ChainInv, Identified
<1>5. ChainEntryNonNull'
  BY <1>1, <1>2, SMTT(30) DEF ChainInv, ChainEntryNonNull, Tracked
<1>6. ExhaustedIsFinal'
  BY <1>3, Zenon DEF ChainInv, ExhaustedIsFinal
<1>7. WithinBudget'
  <2>1. \A c \in 1 .. MaxChains : Remaining(c)' \in {Remaining(c), 0}
    <3> TAKE c \in 1 .. MaxChains
    <3>1. CASE maxChainTrackerEntries > 0
      BY <1>3, <3>1, SlotFacts, ZenonT(30) DEF Remaining
    <3> QED BY <3>1, Zenon DEF Remaining
  <2>2. \A c \in 1 .. MaxChains, path \in Paths :
          Allocating(c, path)' => Allocating(c, path)
    BY <1>1, <1>2, SMTT(30) DEF Allocating
  <2> QED BY <1>1, <2>1, <2>2, BudgetKept, Zenon DEF ChainInv
<1> QED BY <1>1, <1>4, <1>5, <1>6, <1>7, SMTT(30) DEF ChainInv

\* The terms of the budget of chain c are numbers, before and after a step.
BudgetTypes(c) ==
    /\ issued[c] \in Nat /\ Remaining(c) \in Nat
    /\ Promised(c, "target") \in Nat /\ Promised(c, "through") \in Nat
    /\ Promised(c, "target")' \in Nat /\ Promised(c, "through")' \in Nat
    /\ prefetchDepth \in Nat /\ Budget \in Nat /\ Budget' = Budget

\* A sum of four terms of which the first grows by one and the others pay for it.
Paid(i, r, t, h, i2, r2, t2, h2, d, b) ==
    /\ i \in Nat /\ r \in Nat /\ t \in Nat /\ h \in Nat /\ t2 \in Nat /\ h2 \in Nat
    /\ d \in Nat /\ b \in Nat /\ i2 = i + 1 /\ i + r + t + h <= b
    /\ \/ r2 = r - 1 /\ t2 <= t /\ h2 <= h
       \/ r2 \in Int /\ r2 + 1 <= r + d /\ t2 + h2 + d <= t + h

LEMMA PaidSum ==
    ASSUME NEW i, NEW r, NEW t, NEW h, NEW i2, NEW r2, NEW t2, NEW h2, NEW d, NEW b,
           Paid(i, r, t, h, i2, r2, t2, h2, d, b)
    PROVE  i2 + r2 + t2 + h2 <= b
BY DEF Paid

\* A prefetch is paid for by what the slot of the chain has left.
LEMMA BudgetSpent ==
    ASSUME NEW c, BudgetTypes(c), issued'[c] = issued[c] + 1,
           Remaining(c)' = Remaining(c) - 1,
           Promised(c, "target")' <= Promised(c, "target"),
           Promised(c, "through")' <= Promised(c, "through"),
           issued[c] + Remaining(c) + Promised(c, "target")
             + Promised(c, "through") <= Budget
    PROVE  (issued[c] + Remaining(c) + Promised(c, "target")
              + Promised(c, "through") <= Budget)'
<1>1. Paid(issued[c], Remaining(c), Promised(c, "target"), Promised(c, "through"),
           issued'[c], Remaining(c)', Promised(c, "target")', Promised(c, "through")',
           prefetchDepth, Budget)
  BY ZenonT(30) DEF BudgetTypes, Paid
<1>2. issued'[c] + Remaining(c)' + Promised(c, "target")' + Promised(c, "through")' <= Budget
  BY <1>1, PaidSum
<1> QED BY <1>2, Zenon DEF BudgetTypes

\* A prefetch is paid for by an allocating entry that is no longer waiting.
LEMMA BudgetConverted ==
    ASSUME NEW c, BudgetTypes(c), issued'[c] = issued[c] + 1,
           Remaining(c)' \in Int,
           Remaining(c)' + 1 <= Remaining(c) + prefetchDepth,
           Promised(c, "target")' + Promised(c, "through")' + prefetchDepth
             <= Promised(c, "target") + Promised(c, "through"),
           issued[c] + Remaining(c) + Promised(c, "target")
             + Promised(c, "through") <= Budget
    PROVE  (issued[c] + Remaining(c) + Promised(c, "target")
              + Promised(c, "through") <= Budget)'
<1>1. Paid(issued[c], Remaining(c), Promised(c, "target"), Promised(c, "through"),
           issued'[c], Remaining(c)', Promised(c, "target")', Promised(c, "through")',
           prefetchDepth, Budget)
  BY ZenonT(30) DEF BudgetTypes, Paid
<1>2. issued'[c] + Remaining(c)' + Promised(c, "target")' + Promised(c, "through")' <= Budget
  BY <1>1, PaidSum, SMTT(30)
<1> QED BY <1>2, Zenon DEF BudgetTypes

\* Issuing the prefetch of the first entry: what its chain has left goes down
\* by one, or an allocating entry is turned into a slot.
LEMMA IssueChain ==
    ASSUME TypeOK, ChainInv, phase = "event", ready # <<>>,
           NEW e, e = Head(ready), IssuePrefetch(e)
    PROVE  ChainInv'
<1>1. /\ ready' = Tail(ready) /\ UNCHANGED <<phase, nextChainId>>
      /\ issued' = [issued EXCEPT ![e.chainId] = @ + 1]
  BY Zenon DEF IssuePrefetch
<1>2. /\ Later(ready) = {e} \cup Later(ready') /\ e \in Deferred
      /\ Distinct(ready')
      /\ \A f \in Later(ready') : ~SameTrigger(e, f)
  BY <1>1, TailLater, ReadyFacts, ZenonT(30) DEF ChainInv, Identified
<1>3. /\ e.chainId \in 1 .. MaxChains /\ e.depth \in 1 .. prefetchDepth
      /\ e.path \in Paths /\ e.allocate \in BOOLEAN
  BY <1>2 DEF Deferred
<1>4. /\ Distinct(queue')
      /\ \A f \in Later(queue') :
           \/ f \in Later(queue)
           \/ Tracked(e) /\ f.chainId = e.chainId /\ ~f.allocate
  BY <1>2, IssueQueue, Zenon DEF ChainInv, Identified
<1>5. e.chainId < nextChainId /\ MaxChains \in Nat /\ nextChainId \in Nat
  <2>1. e.chainId < nextChainId /\ nextChainId \in 1 .. MaxChains + 1
    BY <1>2, ZenonT(30) DEF ChainInv, Identified, TypeOK
  <2>2. MaxChains \in Nat /\ \A x \in 1 .. MaxChains + 1 : x \in Nat
    BY ParamNumbers
  <2> QED BY <2>1, <2>2, Zenon
<1>6. \/ maxChainTrackerEntries > 0 /\ Tracked(e)
      \/ ~(maxChainTrackerEntries > 0) /\ ~Tracked(e) /\ e.allocate
         /\ chainTable' = chainTable
  <2>1. CASE Tracked(e)
    BY <2>1 DEF Tracked
  <2>2. CASE ~Tracked(e)
    <3>1. e.allocate
      BY <1>2, <1>3, <2>2, ZenonT(30) DEF ChainInv, ChainEntryNonNull
    <3>2. ~(maxChainTrackerEntries > 0)
      BY <1>3, <1>5, <2>2 DEF Tracked
    <3> QED BY <2>2, <3>1, <3>2, Zenon DEF IssuePrefetch
  <2> QED BY <2>1, <2>2, Zenon
<1> DEFINE k == SlotOf(e.chainId)
<1>7. ASSUME maxChainTrackerEntries > 0, Tracked(e)
      PROVE  /\ k \in Slots
             /\ \E new : /\ SlotStep(e, chainTable[k], new)
                         /\ chainTable' = [chainTable EXCEPT ![k] = new]
  BY <1>2, <1>3, <1>7, IssueFacts, SlotFacts, Zenon
<1>8. chainTable \in [Slots -> ActiveChainEntry]
  BY DEF TypeOK
<1>9. Identified'
  <2>1. \A s \in Slots : chainTable'[s].chainId < nextChainId
    <3>1. CASE maxChainTrackerEntries > 0 /\ Tracked(e)
      BY <1>5, <1>7, <1>8, <3>1, Zenon DEF ChainInv, Identified, SlotStep
    <3>2. CASE chainTable' = chainTable
      BY <3>2, Zenon DEF ChainInv, Identified
    <3> QED BY <1>6, <3>1, <3>2, Zenon
  <2>2. \A c \in 1 .. MaxChains : c >= nextChainId' => issued'[c] = 0
    <3>1. \A c \in 1 .. MaxChains : c >= nextChainId => c # e.chainId
      BY <1>3, <1>5
    <3>2. issued \in [1 .. MaxChains -> Nat]
      BY Zenon DEF TypeOK
    <3>3. \A c \in 1 .. MaxChains : c # e.chainId => issued'[c] = issued[c]
      BY <1>1, <3>2, Zenon
    <3> QED BY <1>1, <3>1, <3>3, Zenon DEF ChainInv, Identified
  <2>3. \A f \in Later(queue') \cup Later(ready') : f.chainId < nextChainId'
    BY <1>1, <1>2, <1>4, <1>5, Zenon DEF ChainInv, Identified
  <2>4. \A f \in Later(queue'), g \in Later(ready') : ~SameTrigger(f, g)
    BY <1>2, <1>4, Zenon DEF ChainInv, Identified, SameTrigger
  <2>5. \A s \in Slots : chainTable'[s].chainId < nextChainId'
    BY <1>1, <2>1, Zenon
  <2> QED BY <1>2, <1>4, <2>2, <2>3, <2>4, <2>5, ZenonT(30) DEF Identified
<1>10. ChainEntryNonNull'
  BY <1>2, <1>4, ZenonT(30) DEF ChainInv, ChainEntryNonNull, Tracked
<1>11. ExhaustedIsFinal'
  <2>1. CASE maxChainTrackerEntries > 0 /\ Tracked(e)
    <3>1. PICK new : /\ SlotStep(e, chainTable[k], new)
                     /\ chainTable' = [chainTable EXCEPT ![k] = new]
      BY <1>7, <2>1
    <3>2. new.remaining = 0 <=> new.reason = "DepthExhaust"
      <4>1. chainTable[k].chainId = e.chainId /\ chainTable[k].remaining # 0
              => chainTable[k].reason # "DepthExhaust"
        BY <1>3, <1>7, <2>1, SMTT(30) DEF ChainInv, ExhaustedIsFinal
      <4> QED BY <3>1, <4>1, ZenonT(30) DEF SlotStep
    <3> QED BY <1>7, <1>8, <2>1, <3>1, <3>2, Zenon DEF ChainInv, ExhaustedIsFinal
  <2>2. CASE chainTable' = chainTable
    BY <2>2 DEF ChainInv, ExhaustedIsFinal
  <2> QED BY <1>6, <2>1, <2>2
<1>12. WithinBudget'
  <2> SUFFICES ASSUME NEW c \in 1 .. MaxChains
               PROVE  (issued[c] + Remaining(c) + Promised(c, "target")
                         + Promised(c, "through") <= Budget)'
    BY DEF WithinBudget
  <2>1. /\ issued[c] \in Nat
        /\ Remaining(c) \in 0 .. prefetchDepth
        /\ Promised(c, "target") \in {0, prefetchDepth}
        /\ Promised(c, "through") \in {0, prefetchDepth}
        /\ prefetchDepth \in Nat /\ Budget \in Nat /\ Budget' = Budget
    BY BudgetNumbers DEF Budget
  <2>2. issued[c] + Remaining(c) + Promised(c, "target")
          + Promised(c, "through") <= Budget
    BY DEF WithinBudget, ChainInv
  <2>3. \A path : Allocating(c, path)' => Allocating(c, path)
    BY <1>2, <1>4 DEF Allocating
  <2>4. /\ Promised(c, "target")' \in {Promised(c, "target"), 0}
        /\ Promised(c, "through")' \in {Promised(c, "through"), 0}
    BY <2>3, SMTT(30) DEF Promised
  <2>5. CASE c # e.chainId
    <3>1. issued'[c] = issued[c]
      BY <1>1, <2>5, SMTT(30) DEF TypeOK
    <3>2. Remaining(c)' \in {Remaining(c), 0}
      <4>1. CASE maxChainTrackerEntries > 0 /\ Tracked(e)
        <5>1. SlotOf(c) \in Slots
          BY <4>1, SlotFacts
        <5>2. chainTable'[SlotOf(c)] = chainTable[SlotOf(c)]
              \/ chainTable'[SlotOf(c)].chainId = e.chainId
          BY <1>7, <1>8, <4>1, <5>1, Zenon DEF SlotStep
        <5> QED BY <2>5, <5>2, SMTT(30) DEF Remaining
      <4>2. CASE chainTable' = chainTable
        BY <4>2, RemainingKept, SMTT(30)
      <4> QED BY <1>6, <4>1, <4>2, SMTT(30)
    <3> QED BY <2>1, <2>2, <2>4, <3>1, <3>2, SMTT(90)
  <2>6. CASE c = e.chainId
    <3>1. issued'[c] = issued[c] + 1
      BY <1>1, <2>6, SMTT(30) DEF TypeOK
    <3>2. e.allocate => Allocating(c, e.path) /\ ~Allocating(c, e.path)'
      <4>1. ASSUME e.allocate PROVE Allocating(c, e.path)
        BY <1>2, <2>6, <4>1, SMTT(30) DEF Allocating
      <4>2. ASSUME e.allocate PROVE ~Allocating(c, e.path)'
        <5>1. \A f \in Later(queue) : ~SameTrigger(f, e)
          BY <1>2, Zenon DEF ChainInv, Identified
        <5> QED BY <1>2, <1>4, <2>6, <4>2, <5>1, SMTT(90) DEF Allocating, SameTrigger
      <4> QED BY <4>1, <4>2
    <3>3. e.path \in {"target", "through"}
      BY <1>3 DEF Paths
    <3>4. e.allocate =>
             Promised(c, "target")' + Promised(c, "through")' + prefetchDepth
               <= Promised(c, "target") + Promised(c, "through")
      <4>1. e.allocate /\ e.path = "target" =>
               Promised(c, "target") = prefetchDepth /\ Promised(c, "target")' = 0
        BY <3>2 DEF Promised
      <4>2. e.allocate /\ e.path = "through" =>
               Promised(c, "through") = prefetchDepth /\ Promised(c, "through")' = 0
        BY <3>2 DEF Promised
      <4> QED BY <2>1, <2>4, <3>3, <4>1, <4>2, SMTT(30)
    <3>5. BudgetTypes(c)
      BY <2>1, <2>4, <3>1, SMTT(30) DEF BudgetTypes
    <3>6. /\ Promised(c, "target")' <= Promised(c, "target")
          /\ Promised(c, "through")' <= Promised(c, "through")
      BY <2>1, <2>4
    <3>7. Remaining(c) \in Nat /\ prefetchDepth \in Nat
      BY <2>1
    <3>8. CASE maxChainTrackerEntries > 0 /\ Tracked(e)
      <4>1. PICK new : /\ SlotStep(e, chainTable[k], new)
                       /\ chainTable' = [chainTable EXCEPT ![k] = new]
        BY <1>7, <3>8
      <4>2. chainTable'[k] = new /\ new.chainId = c
        <5>1. k \in Slots
          BY <1>7, <3>8
        <5>2. new.chainId = c
          BY <2>6, <4>1, ZenonT(30) DEF SlotStep
        <5> HIDE DEF k
        <5> QED BY <1>8, <4>1, <5>1, <5>2, SMTT(30)
      <4>3. Remaining(c)' = new.remaining
        BY <2>6, <3>8, <4>2 DEF Remaining
      <4>4. /\ chainTable[k].chainId = c =>
                 Remaining(c) = chainTable[k].remaining
                 /\ new.remaining = chainTable[k].remaining - 1
            /\ chainTable[k].chainId # c =>
                 Remaining(c) = 0 /\ e.allocate
                 /\ new.remaining = e.depth - 1
        BY <2>6, <3>8, <4>1, Zenon DEF Remaining, SlotStep
      <4>5. \/ Remaining(c)' = Remaining(c) - 1
            \/ Remaining(c) = 0 /\ e.allocate /\ Remaining(c)' = e.depth - 1
        BY <4>3, <4>4, Zenon
      <4> HIDE DEF k
      <4>6. e.depth \in Nat /\ e.depth <= prefetchDepth
        BY <1>3, <2>1, SMTT(30)
      <4>7. CASE Remaining(c)' = Remaining(c) - 1
        BY <2>2, <3>1, <3>5, <3>6, <4>7, BudgetSpent, SMTT(90)
      <4>8. CASE Remaining(c) = 0 /\ e.allocate /\ Remaining(c)' = e.depth - 1
        <5>1. Remaining(c)' \in Int /\ Remaining(c)' + 1 <= prefetchDepth
          BY <2>1, <4>6, <4>8
        <5>2. Remaining(c)' + 1 <= Remaining(c) + prefetchDepth
          BY <3>7, <4>8, <5>1
        <5> QED BY <2>2, <3>1, <3>4, <3>5, <4>8, <5>1, <5>2, BudgetConverted, Zenon
      <4> QED BY <4>5, <4>7, <4>8, SMTT(30)
    <3>9. CASE e.allocate /\ chainTable' = chainTable
      <4>1. Remaining(c)' = Remaining(c) /\ prefetchDepth >= 1
        BY <1>3, <2>1, <3>9, RemainingKept, SMTT(30)
      <4>2. Remaining(c)' \in Int /\ Remaining(c)' + 1 <= Remaining(c) + prefetchDepth
        BY <3>7, <4>1
      <4> QED BY <2>2, <3>1, <3>4, <3>5, <3>9, <4>2, BudgetConverted, Zenon
    <3> QED BY <1>6, <3>8, <3>9, SMTT(30)
  <2> QED BY <2>5, <2>6
<1> QED BY <1>1, <1>9, <1>10, <1>11, <1>12, SMTT(30) DEF ChainInv

LEMMA MemInvalidateChain ==
    ASSUME TypeOK, ChainInv, MemInvalidate
    PROVE  ChainInv'
<1>1. /\ phase = "cpu" /\ UNCHANGED <<phase, ready, nextChainId, issued>>
      /\ queue' = <<>> /\ chainTable' = [s \in Slots |-> FreeSlot]
  BY Zenon DEF MemInvalidate
<1>2. /\ Later(queue') = {} /\ Later(ready') = {} /\ ready' = <<>>
      /\ Distinct(queue') /\ Distinct(ready')
  BY <1>1 DEF ChainInv, Later, Distinct
<1>3. /\ \A s \in Slots : chainTable'[s].chainId = 0
                          /\ chainTable'[s].remaining = 0
      /\ nextChainId \in Nat /\ nextChainId > 0
  <2>1. nextChainId \in 1 .. MaxChains + 1
    BY Zenon DEF TypeOK
  <2>2. nextChainId \in Nat /\ nextChainId > 0
    BY <2>1, ParamNumbers
  <2>3. FreeSlot.chainId = 0 /\ FreeSlot.remaining = 0
    BY DEF FreeSlot
  <2> QED BY <1>1, <2>2, <2>3, Zenon
<1>4. Identified'
  BY <1>1, <1>2, <1>3, Zenon DEF ChainInv, Identified
<1>5. ChainEntryNonNull' /\ ExhaustedIsFinal'
  BY <1>2, <1>3, Zenon DEF ChainEntryNonNull, ExhaustedIsFinal
<1>6. WithinBudget'
  <2>1. \A c \in 1 .. MaxChains : Remaining(c)' \in {Remaining(c), 0}
    <3> TAKE c \in 1 .. MaxChains
    <3>1. CASE maxChainTrackerEntries > 0
      BY <1>3, <3>1, SlotFacts DEF Remaining
    <3> QED BY <3>1, SMTT(30) DEF Remaining
  <2>2. \A c \in 1 .. MaxChains, path \in Paths :
          Allocating(c, path)' => Allocating(c, path)
    BY <1>2 DEF Allocating
  <2> QED BY <1>1, <2>1, <2>2, BudgetKept, SMTT(30) DEF ChainInv
<1> QED BY <1>2, <1>4, <1>5, <1>6 DEF ChainInv

LEMMA InitChain ==
    ASSUME Init
    PROVE  ChainInv
<1>1. /\ ready = <<>> /\ queue = <<>> /\ chainTable = [s \in Slots |-> FreeSlot]
      /\ nextChainId = 1 /\ issued = [c \in 1 .. MaxChains |-> 0]
  BY DEF Init
<1>2. /\ Later(queue) = {} /\ Later(ready) = {}
      /\ Distinct(queue) /\ Distinct(ready)
  BY <1>1 DEF Later, Distinct
<1>3. \A s \in Slots : chainTable[s].chainId = 0
  BY <1>1 DEF FreeSlot
<1>4. Identified /\ ChainEntryNonNull /\ ExhaustedIsFinal
  BY <1>1, <1>2, <1>3 DEF Identified, ChainEntryNonNull, ExhaustedIsFinal
<1>5. ASSUME NEW c \in 1 .. MaxChains
      PROVE  issued[c] + Remaining(c) + Promised(c, "target")
               + Promised(c, "through") <= Budget
  <2>1. prefetchDepth \in Nat /\ maxChainTrackerEntries \in Nat /\ MaxChains \in Nat
    BY ParamNumbers
  <2>2. maxChainTrackerEntries > 0 => SlotOf(c) \in Slots
    BY <2>1 DEF SlotOf, Slots
  <2>3. Remaining(c) = 0
    BY <1>3, <2>1, <2>2 DEF Remaining
  <2>4. Promised(c, "target") = 0 /\ Promised(c, "through") = 0
    BY <1>2 DEF Promised, Allocating
  <2> QED BY <1>1, <2>1, <2>3, <2>4 DEF Budget
<1> QED BY <1>1, <1>4, <1>5 DEF ChainInv, WithinBudget

LEMMA ChainInductive ==
    Spec => []ChainInv
<1>1. ASSUME TypeOK, ChainInv, [Next]_vars PROVE ChainInv'
  <2>1. CASE Lookup
    BY <1>1, <2>1, LookupEffect, LookupChain
  <2>2. CASE UNCHANGED <<queue, ready, chainTable, nextChainId, issued, phase>>
    <3>0. Identified /\ ChainEntryNonNull /\ ExhaustedIsFinal /\ WithinBudget
      BY <1>1, Zenon DEF ChainInv
    <3>1. Identified'
      BY <2>2, <3>0, Zenon DEF Identified
    <3>4. ChainEntryNonNull'
      BY <2>2, <3>0 DEF ChainEntryNonNull
    <3>5. ExhaustedIsFinal'
      BY <2>2, <3>0 DEF ExhaustedIsFinal
    <3>2. WithinBudget'
      BY <2>2, <3>0, Zenon DEF WithinBudget, Remaining, Promised, Allocating
    <3> QED BY <1>1, <2>2, <3>1, <3>2, <3>4, <3>5 DEF ChainInv
  <2>3. CASE MemInvalidate
    BY <1>1, <2>3, MemInvalidateChain
  <2>4. CASE ProcessEntry
    BY <1>1, <2>4, ProcessCases, SkipChain, IssueChain, SMTT(30)
  <2>5. CASE BeginEvent \/ EndEvent
    BY <1>1, <2>5, BeginEventChain, EndEventChain, SMTT(30)
  <2>6. Resolve \/ UNCHANGED vars =>
          UNCHANGED <<queue, ready, chainTable, nextChainId, issued, phase>>
    BY ResolveEffect DEF vars, chains
  <2> QED BY <1>1, <2>1, <2>2, <2>3, <2>4, <2>5, <2>6, SMTT(30) DEF Next, Event
<1>2. Init => ChainInv
  BY InitChain
<1> QED BY <1>1, <1>2, Types, PTL DEF Spec

\* ChainBudget: over its whole life, and however the slots of chainTable
\* are stolen and allocated again, a chain issues at most prefetchDepth
\* prefetches per path its trigger follows.
THEOREM BudgetKeptForever ==
    Spec => []ChainBudget
<1>1. TypeOK /\ ChainInv => ChainBudget
  <2> SUFFICES ASSUME TypeOK, ChainInv, NEW c \in 1 .. MaxChains
               PROVE  issued[c] <= Budget
    BY DEF ChainBudget, Budget
  <2>1. /\ issued[c] \in Nat
        /\ Remaining(c) \in 0 .. prefetchDepth
        /\ Promised(c, "target") \in {0, prefetchDepth}
        /\ Promised(c, "through") \in {0, prefetchDepth}
        /\ prefetchDepth \in Nat /\ Budget \in Nat
    BY BudgetNumbers
  <2>2. issued[c] + Remaining(c) + Promised(c, "target")
          + Promised(c, "through") <= Budget
    BY DEF ChainInv, WithinBudget
  <2> QED BY <2>1, <2>2
<1> QED BY <1>1, ChainInductive, Types, PTL

\* ExhaustedIsFinal: lastEndReason is DepthExhaust exactly while the slot's
\* remaining depth is zero; processDeferredPrefetchQueue never overwrites it
\* with the reason of a later entry of the chain.
THEOREM ExhaustionFinal ==
    Spec => []ExhaustedIsFinal
<1>1. ChainInv => ExhaustedIsFinal
  BY DEF ChainInv
<1> QED BY <1>1, ChainInductive, PTL

\* ChainEntryNonNull: the unchecked use of chainEntry in
\* processDeferredPrefetchQueue is safe for every size of the chain table,
\* zero included.
THEOREM ChainEntrySafe ==
    Spec => []ChainEntryNonNull
<1>1. ChainInv => ChainEntryNonNull
  BY DEF ChainInv
<1> QED BY <1>1, ChainInductive, PTL

----------------------------------------------------------------------------
(* What a chain that loses its slot is charged with. *)

\* A slot is the slot of its chain, which has issued what the slot is short of
\* prefetchDepth.
SlotCounts(s) ==
    chainTable[s].chainId # 0 =>
        /\ SlotOf(chainTable[s].chainId) = s
        /\ issued[chainTable[s].chainId] + chainTable[s].remaining = prefetchDepth

\* The inductive invariant: the sample is taken from the depth of the entry
\* that steals the slot, so that depth has to be the one the old chain began
\* with.
Exact ==
    /\ \A s \in Slots : SlotCounts(s)
    /\ \A e \in Later(queue) \cup Later(ready) :
          e.allocate => e.depth = prefetchDepth
    /\ SampleIsExact

\* A step that issues nothing and queues no new trigger.
LEMMA ExactKept ==
    ASSUME TypeOK, Exact, UNCHANGED <<issued, lastSample>>,
           \A s \in Slots : \/ chainTable'[s].chainId = 0
                            \/ /\ chainTable'[s].chainId = chainTable[s].chainId
                               /\ chainTable'[s].remaining = chainTable[s].remaining,
           \A f \in Later(queue') \cup Later(ready') : f.allocate =>
              \/ f.depth = prefetchDepth
              \/ \E g \in Later(queue) \cup Later(ready) :
                    g.allocate /\ g.depth = f.depth
    PROVE  Exact'
<1>1. \A s \in Slots : SlotCounts(s)'
  BY Zenon DEF Exact, SlotCounts
<1>2. \A f \in Later(queue') \cup Later(ready') : f.allocate => f.depth = prefetchDepth
  BY Zenon DEF Exact
<1>3. SampleIsExact'
  BY Zenon DEF Exact, SampleIsExact
<1> QED BY <1>1, <1>2, <1>3, Zenon DEF Exact

\* An allocating entry finds its chain without a slot and with nothing issued.
LEMMA FirstIsFresh ==
    ASSUME TypeOK, ChainInv, newPBits, NEW e \in Later(ready), e.allocate
    PROVE  issued[e.chainId] = 0 /\ Remaining(e.chainId) = 0
<1>1. e \in Deferred /\ e.chainId \in 1 .. MaxChains /\ e.path \in {"target", "through"}
  BY LaterTimes DEF Deferred, Paths
<1> DEFINE c == e.chainId
<1>2. Allocating(c, e.path)
  BY DEF Allocating
<1>3. /\ issued[c] \in Nat
      /\ Remaining(c) \in 0 .. prefetchDepth
      /\ Promised(c, "target") \in {0, prefetchDepth}
      /\ Promised(c, "through") \in {0, prefetchDepth}
      /\ prefetchDepth \in Nat /\ Budget = prefetchDepth
  BY <1>1, BudgetNumbers DEF Budget
<1>4. Promised(c, "target") = prefetchDepth \/ Promised(c, "through") = prefetchDepth
  BY <1>1, <1>2 DEF Promised
<1>5. issued[c] + Remaining(c) + Promised(c, "target") + Promised(c, "through")
        <= Budget
  BY <1>1 DEF ChainInv, WithinBudget
<1> HIDE DEF c
<1>6. issued[c] = 0 /\ Remaining(c) = 0
  BY <1>3, <1>4, <1>5
<1> QED BY <1>6 DEF c

\* The sample of a chain that is about to lose its slot to entry e.
LEMMA StolenSample ==
    ASSUME TypeOK, Exact, NEW e \in Deferred, e.depth = prefetchDepth,
           NEW old \in ActiveChainEntry, old.chainId # 0,
           issued[old.chainId] + old.remaining = prefetchDepth
    PROVE  ChainEndSample(old, e).sample = ChainEndSample(old, e).issued
<1>1. /\ old.chainId \in 1 .. MaxChains /\ old.remaining \in 0 .. prefetchDepth
      /\ MaxChains \in Nat /\ prefetchDepth \in Nat
      /\ UIntRange \in Nat /\ UIntRange > prefetchDepth
  <2>1. old.chainId \in 0 .. MaxChains /\ old.remaining \in 0 .. prefetchDepth
    BY DEF ActiveChainEntry
  <2>2. /\ MaxChains \in Nat /\ prefetchDepth \in Nat
        /\ UIntRange \in Nat /\ UIntRange > prefetchDepth
    BY ParamsAssumption
  <2>3. old.chainId \in 1 .. MaxChains
    BY <2>1, <2>2
  <2> QED BY <2>1, <2>2, <2>3, Zenon
<1>2. issued[old.chainId] \in Nat
  <2>1. issued \in [1 .. MaxChains -> Nat]
    BY Zenon DEF TypeOK
  <2> QED BY <1>1, <2>1, Zenon
<1>3. \A x \in 0 .. prefetchDepth : x % UIntRange = x
  BY <1>1
<1>4. e.depth - old.remaining = issued[old.chainId]
  BY <1>1, <1>2
<1>5. issued[old.chainId] \in 0 .. prefetchDepth
  BY <1>1, <1>2
<1> QED BY <1>3, <1>4, <1>5, Zenon DEF ChainEndSample

LEMMA IssueSample ==
    ASSUME TypeOK, ChainInv, Exact, newPBits,
           NEW e \in Deferred, Later(ready) = {e} \cup Later(ready'),
           IssuePrefetch(e)
    PROVE  Exact'
<1>1. /\ issued' = [issued EXCEPT ![e.chainId] = @ + 1]
      /\ Tracked(e) =>
           lastSample' = IF Steals(e) /\ OldSlot(e).chainId # 0
                         THEN ChainEndSample(OldSlot(e), e) ELSE lastSample
      /\ ~Tracked(e) => UNCHANGED <<chainTable, lastSample>>
  BY Zenon DEF IssuePrefetch
<1>2. e \in Later(ready)
  OBVIOUS
<1>3. /\ e.chainId \in 1 .. MaxChains /\ e.depth \in 1 .. prefetchDepth
      /\ MaxChains \in Nat /\ prefetchDepth \in Nat
      /\ issued \in [1 .. MaxChains -> Nat]
      /\ chainTable \in [Slots -> ActiveChainEntry]
  <2>1. issued \in [1 .. MaxChains -> Nat] /\ chainTable \in [Slots -> ActiveChainEntry]
    BY Zenon DEF TypeOK
  <2> QED BY <1>2, <2>1, ParamNumbers DEF Deferred
<1>4. e.allocate => e.depth = prefetchDepth
  BY <1>2 DEF Exact
<1>5. e.allocate => issued[e.chainId] = 0
  BY <1>2, FirstIsFresh, Zenon
<1>6. \A f \in Later(queue') \cup Later(ready') : f.allocate => f.depth = prefetchDepth
  BY <1>2, IssueQueue DEF Exact
<1> DEFINE k == SlotOf(e.chainId)
<1>7. CASE Tracked(e)
  <2>1. k \in Slots /\ chainTable[k] \in ActiveChainEntry
    BY <1>3, <1>7, SlotFacts, SMTT(30) DEF Tracked
  <2>2. PICK new : /\ SlotStep(e, chainTable[k], new)
                   /\ chainTable' = [chainTable EXCEPT ![k] = new]
    BY <1>2, <1>7, IssueFacts
  <2>3. SlotCounts(k)
    BY <2>1 DEF Exact
  <2>4. SampleIsExact'
    <3>1. CASE Steals(e) /\ OldSlot(e).chainId # 0
      <4>1. lastSample' = ChainEndSample(OldSlot(e), e)
        BY <1>1, <1>7, <3>1
      <4>2. OldSlot(e) = chainTable[k] /\ e.allocate
        BY <3>1, Zenon DEF OldSlot, Steals
      <4>3. issued[chainTable[k].chainId] + chainTable[k].remaining = prefetchDepth
        BY <2>3, <3>1, <4>2, Zenon DEF SlotCounts
      <4> HIDE DEF k
      <4> QED BY <1>2, <1>4, <2>1, <3>1, <4>1, <4>2, <4>3, StolenSample, Zenon
              DEF SampleIsExact
    <3>2. CASE ~(Steals(e) /\ OldSlot(e).chainId # 0)
      BY <1>1, <1>7, <3>2, Zenon DEF Exact, SampleIsExact
    <3> QED BY <3>1, <3>2
  <2>5. issued'[e.chainId] = issued[e.chainId] + 1
        /\ issued[e.chainId] \in Nat
    BY <1>1, <1>3
  <2>6. ASSUME NEW s \in Slots PROVE SlotCounts(s)'
    <3>1. CASE s = k
      <4>1. chainTable'[s] = new /\ new.chainId = e.chainId
        BY <1>3, <2>1, <2>2, <3>1 DEF SlotStep
      <4>2. SlotOf(e.chainId)' = s
        BY <3>1 DEF SlotOf
      <4>3. issued'[e.chainId] + new.remaining = prefetchDepth
        <5>1. CASE chainTable[k].chainId = e.chainId
          <6>1. new.remaining = chainTable[k].remaining - 1
            BY <2>2, <5>1, Zenon DEF SlotStep
          <6>2. issued[e.chainId] + chainTable[k].remaining = prefetchDepth
            BY <1>3, <2>3, <5>1, SMTT(30) DEF SlotCounts
          <6>3. chainTable[k].remaining \in Int
            BY <1>3, <2>1 DEF ActiveChainEntry
          <6>4. new.remaining \in Int /\ prefetchDepth \in Int /\ issued[e.chainId] \in Int
            BY <1>3, <2>5, <6>1, <6>3, SMTT(30)
          <6> DEFINE old == chainTable[k].remaining
                     left == new.remaining
                     done == issued[e.chainId]
          <6>5. /\ left = old - 1 /\ done + old = prefetchDepth
                /\ old \in Int /\ left \in Int /\ done \in Int /\ prefetchDepth \in Int
            BY <6>1, <6>2, <6>3, <6>4, Zenon
          <6> HIDE DEF old, left, done
          <6>6. (done + 1) + left = prefetchDepth
            BY <6>5, SMTT(30)
          <6> QED BY <2>5, <6>6, Zenon DEF left, done
        <5>2. CASE chainTable[k].chainId # e.chainId
          <6>1. new.remaining = e.depth - 1 /\ e.allocate
            BY <2>2, <5>2, Zenon DEF SlotStep
          <6> HIDE DEF k
          <6> QED BY <1>3, <1>4, <1>5, <2>5, <6>1, SMTT(30)
        <5> QED BY <5>1, <5>2
      <4> QED BY <4>1, <4>2, <4>3, Zenon DEF SlotCounts
    <3>2. CASE s # k
      <4>1. chainTable'[s] = chainTable[s]
        BY <1>3, <2>2, <3>2
      <4>2. CASE chainTable[s].chainId # 0
        <5>1. /\ SlotOf(chainTable[s].chainId) = s
              /\ issued[chainTable[s].chainId] + chainTable[s].remaining
                   = prefetchDepth
          BY <4>2, Zenon DEF Exact, SlotCounts
        <5>2. chainTable[s].chainId # e.chainId
          BY <3>2, <5>1, Zenon
        <5>3. chainTable[s].chainId \in 1 .. MaxChains
          BY <1>3, <4>2 DEF ActiveChainEntry
        <5>4. issued'[chainTable[s].chainId] = issued[chainTable[s].chainId]
          BY <1>1, <1>3, <5>2, <5>3, Zenon
        <5> QED BY <4>1, <5>1, <5>4, Zenon DEF SlotCounts, SlotOf
      <4>3. CASE chainTable[s].chainId = 0
        BY <4>1, <4>3, Zenon DEF SlotCounts
      <4> QED BY <4>2, <4>3
    <3> QED BY <3>1, <3>2
  <2> QED BY <1>6, <2>4, <2>6, SMTT(30) DEF Exact
<1>8. CASE ~Tracked(e)
  <2>1. maxChainTrackerEntries = 0
    BY <1>3, <1>8, ParamNumbers DEF Tracked
  <2>2. Slots = {}
    BY <2>1 DEF Slots
  <2>3. SampleIsExact'
    BY <1>1, <1>8, Zenon DEF Exact, SampleIsExact
  <2> QED BY <1>6, <2>2, <2>3 DEF Exact
<1> QED BY <1>7, <1>8

LEMMA SkipSample ==
    ASSUME TypeOK, Exact, ready # <<>>, NEW e, e = Head(ready), SkipStep(e),
           UNCHANGED chainTable \/ \E reason : EndsWith(e, reason)
    PROVE  Exact'
<1>1. ready' = Tail(ready) /\ UNCHANGED <<queue, issued, lastSample>>
  BY DEF SkipStep
<1>2. Later(ready') \subseteq Later(ready)
  BY <1>1, TailLater
<1>3. chainTable \in [Slots -> ActiveChainEntry]
  BY DEF TypeOK
<1>4. \A s \in Slots : /\ chainTable'[s].chainId = chainTable[s].chainId
                       /\ chainTable'[s].remaining = chainTable[s].remaining
  <2>1. CASE UNCHANGED chainTable
    BY <2>1
  <2>2. CASE \E reason : EndsWith(e, reason)
    <3>1. PICK reason : EndsWith(e, reason)
      BY <2>2
    <3> DEFINE k == SlotOf(e.chainId)
    <3>2. chainTable' = chainTable
          \/ chainTable' = [chainTable EXCEPT ![k].reason = reason]
      BY <3>1 DEF EndsWith
    <3> HIDE DEF k
    <3>3. \A s \in Slots : chainTable[s] \in ActiveChainEntry
      BY <1>3
    <3> QED BY <1>3, <3>2, <3>3 DEF ActiveChainEntry
  <2> QED BY <2>1, <2>2
<1> QED BY <1>1, <1>2, <1>4, ExactKept, Zenon

LEMMA SampleNext ==
    ASSUME newPBits, ~depthOnlyCall, TypeOK, ChainInv, Exact, [Next]_vars
    PROVE  Exact'
<1>1. CASE Lookup
  <2>1. TriggerStep
    BY <1>1, LookupEffect
  <2>2. UNCHANGED <<ready, chainTable, issued, lastSample>>
    BY <2>1 DEF TriggerStep
  <2>3. \A f \in Later(queue') : f \in Later(queue) \/ f.depth = prefetchDepth
    BY <2>1 DEF TriggerStep, OneTrigger
  <2> QED BY <2>2, <2>3, ExactKept, Zenon
<1>2. CASE Resolve \/ UNCHANGED vars
  <2>1. UNCHANGED <<queue, ready, chainTable, issued, lastSample>>
    BY <1>2, ResolveEffect DEF vars, chains
  <2> QED BY <2>1, ExactKept, Zenon
<1>3. CASE MemInvalidate
  <2>1. /\ UNCHANGED <<issued, lastSample>> /\ Later(queue') = {} /\ Later(ready') = {}
        /\ chainTable' = [s \in Slots |-> FreeSlot]
    <3>1. /\ queue' = <<>> /\ ready' = ready /\ ready = <<>> /\ UNCHANGED <<issued, lastSample>>
          /\ chainTable' = [s \in Slots |-> FreeSlot]
      BY <1>3, Zenon DEF MemInvalidate, ChainInv
    <3>2. Later(<<>>) = {}
      BY DEF Later
    <3> QED BY <3>1, <3>2, Zenon
  <2>2. \A s \in Slots : chainTable'[s].chainId = 0
    BY <2>1 DEF FreeSlot
  <2> QED BY <2>1, <2>2, ExactKept, Zenon
<1>4. CASE ProcessEntry
  <2>1. ready # <<>>
    BY <1>4 DEF ProcessEntry
  <2>2. CASE IssuePrefetch(Head(ready))
    <3>1. Later(ready) = {Head(ready)} \cup Later(ready') /\ Head(ready) \in Deferred
      BY <2>1, <2>2, TailLater, ReadyFacts, ZenonT(30) DEF IssuePrefetch
    <3> QED BY <2>2, <3>1, IssueSample
  <2>3. CASE ~IssuePrefetch(Head(ready))
    BY <1>4, <2>1, <2>3, ProcessCases, SkipSample, SMTT(30)
  <2> QED BY <2>2, <2>3
<1>5. CASE BeginEvent
  <2>1. UNCHANGED <<chainTable, issued, lastSample>> /\ Later(ready) = {}
    BY <1>5 DEF BeginEvent, ChainInv, Later
  <2>2. Later(queue') \cup Later(ready') = Later(queue) \cup Later(ready)
    BY <1>5, <2>1, BeginEventEffect
  <2> QED BY <2>1, <2>2, ExactKept, Zenon
<1>6. CASE EndEvent
  <2>1. UNCHANGED <<ready, chainTable, issued, lastSample>>
    BY <1>6, SMTT(30) DEF EndEvent
  <2>2. \A f \in Later(queue') : \E g \in Later(queue) :
          f.allocate = g.allocate /\ f.depth = g.depth
    BY <1>6, EndEventEffect, SMTT(30) DEF Later
  <2> QED BY <2>1, <2>2, ExactKept, Zenon
<1> QED BY <1>1, <1>2, <1>3, <1>4, <1>5, <1>6, SMTT(30) DEF Next, Event

LEMMA SampleInit ==
    ASSUME Init
    PROVE  Exact
<1>1. /\ ready = <<>> /\ queue = <<>> /\ chainTable = [s \in Slots |-> FreeSlot]
      /\ lastSample = NoEntry
  BY DEF Init
<1>2. Later(queue) = {} /\ Later(ready) = {}
  BY <1>1 DEF Later
<1>3. \A s \in Slots : chainTable[s].chainId = 0
  BY <1>1 DEF FreeSlot
<1> QED BY <1>1, <1>2, <1>3, ZenonT(30) DEF Exact, SlotCounts, SampleIsExact

\* SampleIsExact: when an allocating entry takes a slot of chainTable from a
\* chain, processDeferredPrefetchQueue samples into prefetchesPerTrigger exactly
\* the number of prefetches that chain has issued.  It holds when a trigger
\* follows one path only (newPBits) and every trigger has the same depth: the
\* sample is taken from the depth of the new owner of the slot, so with
\* depthOnlyCall it may count from a depth that was not the old chain's.
THEOREM SamplesExact ==
    ASSUME newPBits, ~depthOnlyCall
    PROVE  Spec => []SampleIsExact
<1>1. TypeOK /\ ChainInv /\ Exact /\ [Next]_vars => Exact'
  BY SampleNext
<1>2. Init => Exact
  BY SampleInit
<1>3. Exact => SampleIsExact
  BY DEF Exact
<1> QED BY <1>1, <1>2, <1>3, Types, ChainInductive, PTL DEF Spec
=============================================================================
