---------------------------- MODULE MultiLevelBTB ----------------------------
(***************************************************************************)
(* The multi-level branch target buffer with the BTB-Ferret prefetcher      *)
(* (gem5/src/cpu/pred/multilevel_btb.cc) and the calls BPredUnit makes on   *)
(* it (gem5/src/cpu/pred/bpred_unit.cc).                                    *)
(*                                                                         *)
(* A cycle has two phases.  In phase "cpu" the CPU ticks: any number of     *)
(* predictions (Lookup...), squashes and commits, in any order.  Then       *)
(* pfqEvent runs processDeferredPrefetchQueue: BeginEvent takes the ready   *)
(* prefix off the queue, one action handles each ready entry, EndEvent ends *)
(* the cycle.  Times are kept relative to the current cycle.                *)
(***************************************************************************)
EXTENDS BTBLevels, Integers, Sequences, FiniteSetsExt

CONSTANTS
    BrType,       \* the type of each branch, read off its instruction
    TargetsOf,    \* the targets each branch can take
    StartsOf,     \* starts of the fetch targets in which each branch is met
    minInstSize, l2Latency, l3Latency,
    trainBitsOnLookup, trainBitsOnCommit, prefetchOnPrefetchHit,
    cleanBitsOnL1Promotion, noPrefetchLatency,
    prefetchDepth, maxChainTrackerEntries,
    depthOnlyCall, limitRet, newPBits, onlyCall, onlyCallAndBackward,
    callFallthrough, forwardLoopExit, backwardLoopExit, allConditional,
    prefetchFwExitOnL1Hit, indirectAltBit,
    requiresBTBHit, updateBTBAtSquash,  \* parameters of BPredUnit
    UIntRange,    \* number of values of an unsigned (2^32)
    MaxChains     \* bound: prefetch chains started in a behaviour

BranchTypes == {"Return", "CallDirect", "CallIndirect", "DirectCond",
                "DirectUncond", "IndirectCond", "IndirectUncond"}

ASSUME ProgramAssumption ==
    /\ BrType \in [PC -> BranchTypes]
    /\ TargetsOf \in [PC -> SUBSET Addr]
    /\ StartsOf \in [PC -> SUBSET Addr]
    /\ \A pc \in PC : \A start \in StartsOf[pc] : start <= pc
    /\ minInstSize \in Nat \ {0}
    /\ \A pc \in PC : pc + minInstSize \in Addr

ASSUME ParamsAssumption ==
    /\ {l2Latency, l3Latency, maxChainTrackerEntries, MaxChains} \subseteq Nat
    /\ prefetchDepth \in Nat \ {0}
    /\ UIntRange \in Nat /\ UIntRange > prefetchDepth
    /\ {trainBitsOnLookup, trainBitsOnCommit, prefetchOnPrefetchHit,
        cleanBitsOnL1Promotion, noPrefetchLatency, depthOnlyCall, limitRet,
        newPBits, onlyCall, onlyCallAndBackward, callFallthrough,
        forwardLoopExit, backwardLoopExit, allConditional,
        prefetchFwExitOnL1Hit, indirectAltBit, requiresBTBHit,
        updateBTBAtSquash} \subseteq BOOLEAN

VARIABLES
    l1, l2, l3,   \* the BTB levels
    pb,           \* the prefetch buffer
    bbMap,        \* block start -> branch ending the block (BPredUnit)
    prevBlock,    \* prevBlockInfo: the last branch looked up, or NoEntry
    prevBw,       \* prevBwBranch
    queue,        \* deferredPrefetchQueue
    ready,        \* readyEntries not yet handled by the running event
    chainTable,
    nextChainId,
    demand,       \* currentCycleDemand
    phase,
    pbStale,      \* per pBuffer set: invalid ways whose prefetched flag is set
    owed,         \* per pBuffer set: totalPrefetches - prefetchHits - uselessPrefetches
    issued,       \* prefetches each chain has put into the prefetch buffer
    lastSample    \* the last chain end put into the statistics, or NoEntry

levels == <<l1, l2, l3>>
chains == <<queue, chainTable, nextChainId, issued, lastSample>>
stats  == <<pbStale, owed>>
vars   == <<levels, pb, bbMap, prevBlock, prevBw, chains, ready, demand,
            phase, stats>>

Starts == UNION {StartsOf[pc] : pc \in PC}

NoPC == 0   \* MaxAddr in lookupBBBranch, end() in the map

IsCall(type)     == type \in {"CallDirect", "CallIndirect"}
IsIndirect(type) == type \in {"CallIndirect", "IndirectCond", "IndirectUncond"}
IsCond(type)     == type \in {"DirectCond", "IndirectCond"}

UsesPrefetchBitPolicy == trainBitsOnLookup \/ trainBitsOnCommit

PBEntry == [target : Addr, bits : SUBSET Paths, arriveIn : Nat,
            fromL3 : BOOLEAN]

\* DeferredPrefetchEntry; path is its takenPrefetched.
Deferred == [pc : PC, issueIn : Int, path : Paths,
             chainId : 1 .. MaxChains, allocate : BOOLEAN,
             depth : 1 .. prefetchDepth]

\* ChainEndReason, as far as lastEndReason takes the value.
EndReasons == {"None", "Demand", "Presence", "L2Miss", "L3Miss", "RetFilter",
               "DepthExhaust"}

\* A slot of the chainTable; chainId 0 is a free one.
ActiveChainEntry == [chainId : 0 .. MaxChains, remaining : 0 .. prefetchDepth,
                     reason : EndReasons]

\* The record ChainEndSample makes.
Sample == [chain : 1 .. MaxChains, reason : EndReasons \cup {"Evicted"},
           sample : Nat, issued : Nat]

ASSUME NoEntryIsNoRecord ==
    NoEntry \notin PBEntry \cup Sample \cup [pc : PC, target : Addr]

FreeSlot == [chainId |-> 0, remaining |-> 0, reason |-> "None"]
Slots    == 0 .. maxChainTrackerEntries - 1
PBSets   == {PBSet[pc] : pc \in PC}

Init ==
    /\ l1 = [pc \in PC |-> NoEntry]
    /\ l2 = [pc \in PC |-> NoEntry]
    /\ l3 = [pc \in PC |-> NoEntry]
    /\ pb = [pc \in PC |-> NoEntry]
    /\ bbMap = [a \in Addr |-> NoPC]
    /\ prevBlock = NoEntry
    \* prevBwBranch has no initialiser
    /\ prevBw \in [isBw : BOOLEAN, l1Miss : BOOLEAN]
    /\ queue = <<>>
    /\ ready = <<>>
    /\ chainTable = [s \in Slots |-> FreeSlot]
    /\ nextChainId = 1
    /\ demand = {}
    /\ phase = "cpu"
    /\ pbStale = [s \in PBSets |-> 0]
    /\ owed = [s \in PBSets |-> 0]
    /\ issued = [c \in 1 .. MaxChains |-> 0]
    /\ lastSample = NoEntry

Levels == [l1 |-> l1, l2 |-> l2, l3 |-> l3]

----------------------------------------------------------------------------
(* Queueing a prefetch. *)

\* std::lower_bound on issueTime, then insert: before entries of equal time.
InsertPos(q, e) ==
    Min({i \in 1 .. Len(q) + 1 : i = Len(q) + 1 \/ q[i].issueIn >= e.issueIn})

\* Mutant: the entry goes to the end of the queue.
Appended(q, e) == Append(q, e)

InsertSorted(q, e) ==
    LET p == InsertPos(q, e)
    IN  [i \in 1 .. Len(q) + 1 |->
           IF i < p THEN q[i] ELSE IF i = p THEN e ELSE q[i - 1]]

InLower(l2x, l3x, pc) == l2x[pc] # NoEntry \/ (enableL3 /\ l3x[pc] # NoEntry)

\* Mutant: every entry is queued as one of an existing chain.
QueuedAsSuccessor(q, l2x, l3x, addr, path, base, type, chain) ==
    LET pc == bbMap[addr] IN
    IF pc = NoPC \/ ~InLower(l2x, l3x, pc) \/ (limitRet /\ type = "Return")
    THEN q
    ELSE InsertSorted(q, [pc |-> pc, issueIn |-> base + 1,
                          path |-> path, chainId |-> chain.chainId,
                          allocate |-> FALSE, depth |-> chain.depth])

\* Mutant: every entry may allocate a slot of full depth for its chain.
QueuedAsTrigger(q, l2x, l3x, addr, path, base, type, chain) ==
    LET pc == bbMap[addr] IN
    IF pc = NoPC \/ ~InLower(l2x, l3x, pc) \/ (limitRet /\ type = "Return")
    THEN q
    ELSE InsertSorted(q, [pc |-> pc, issueIn |-> base + 1,
                          path |-> path, chainId |-> chain.chainId,
                          allocate |-> TRUE, depth |-> prefetchDepth])

\* prefetchViaBBMap: queue a prefetch of the branch that ends the block at
\* addr, base + 1 cycles from now, for a chain [chainId, allocate, depth].
PrefetchViaBBMap(q, l2x, l3x, addr, path, base, type, chain) ==
    LET pc == bbMap[addr] IN
    IF \/ pc = NoPC
       \/ chain.allocate /\ ~InLower(l2x, l3x, pc)
       \/ limitRet /\ type = "Return"
    THEN q
    ELSE InsertSorted(q, [pc |-> pc, issueIn |-> base + 1,
                          path |-> path, chainId |-> chain.chainId,
                          allocate |-> chain.allocate, depth |-> chain.depth])

\* The target path first, then the fall-through one cycle later.
PrefetchPaths(q, l2x, l3x, paths, pc, target, base, type, chain) ==
    LET q1 == IF "target" \in paths
              THEN PrefetchViaBBMap(q, l2x, l3x, target, "target", base, type,
                                    chain)
              ELSE q
        b1 == IF "target" \in paths THEN base + 1 ELSE base
    IN  IF "through" \in paths
        THEN PrefetchViaBBMap(q1, l2x, l3x, pc + minInstSize, "through", b1,
                              type, chain)
        ELSE q1

\* Mutant: a hit below the L1 triggers whatever the policy.
TriggersOnAnyMiss(loc) == loc # "L1Hit" \/ prefetchFwExitOnL1Hit

\* The first test of applyNewPBitsLogic: which hits may start a chain.
MayTrigger(loc) ==
    \/ loc = "L1Hit" /\ prefetchFwExitOnL1Hit
    \/ loc \in {"L2Hit", "L3Hit"} /\ UsesPrefetchBitPolicy
    \/ loc = "PBHit" /\ prefetchOnPrefetchHit

\* applyNewPBitsLogic: the paths a trigger really prefetches.
TriggerPaths(type, taken, backward, bits, loc) ==
    LET alternating == bits = Paths
        forwardExit == prevBw.isBw /\ prevBw.l1Miss /\ alternating /\ ~taken
    IN  IF ~MayTrigger(loc) THEN {}
        ELSE IF ~newPBits THEN bits
        ELSE IF forwardLoopExit /\ forwardExit THEN {"target"}
        ELSE IF \/ loc = "L1Hit"
                \/ onlyCall /\ ~IsCall(type)
                \/ /\ onlyCallAndBackward
                   /\ ~IsCall(type)
                   /\ ~(backward /\ alternating)
        THEN {}
        ELSE IF callFallthrough /\ IsCall(type) THEN {"through"}
        ELSE IF backwardLoopExit /\ backward /\ taken /\ alternating
        THEN {"through"}
        ELSE IF ~allConditional \/ ~alternating THEN {}
        ELSE IF taken THEN {"through"} ELSE {"target"}

\* What the entries of a new chain carry of it.
NewChain(type) ==
    [chainId  |-> nextChainId,
     allocate |-> TRUE,
     depth    |-> IF depthOnlyCall /\ ~IsCall(type) THEN 1 ELSE prefetchDepth]

\* Start a chain along the given paths, if there are any.
StartChain(pc, entry, paths, base) ==
    /\ paths # {} => nextChainId <= MaxChains
    /\ nextChainId' = IF paths # {} THEN nextChainId + 1 ELSE nextChainId
    /\ queue' = PrefetchPaths(queue, l2', l3', paths, pc, entry.target, base,
                              BrType[pc], NewChain(BrType[pc]))

\* tryInitialTrigger: start a chain from the entry of a branch that was hit.
\* The levels below are already the ones after the migration to the L1.
TryInitialTrigger(pc, entry, taken, loc, base) ==
    LET type == BrType[pc]
        bw   == entry.target < pc
    IN  IF indirectAltBit /\ newPBits /\ entry.bits = Paths /\ IsIndirect(type)
        THEN UNCHANGED <<queue, nextChainId, prevBw>>
        ELSE /\ prevBw' = [isBw |-> bw, l1Miss |-> loc # "L1Hit"]
             /\ StartChain(pc, entry,
                           TriggerPaths(type, taken, bw, entry.bits, loc), base)

----------------------------------------------------------------------------
(* Predictions: lookupWithLatency, called by BPredUnit::predict. *)

\* valid
Valid(pc) ==
    l1[pc] # NoEntry \/ pb[pc] # NoEntry \/ InLower(l2, l3, pc)

\* With trainBitsOnLookup the start of this block shows which way the previous
\* branch went; its bit is set if the L1 still holds it.
TrainedOnLookup(start) ==
    IF trainBitsOnLookup /\ prevBlock # NoEntry /\ l1[prevBlock.pc] # NoEntry
    THEN [l1 EXCEPT ![prevBlock.pc].bits = @
            \cup (IF start = prevBlock.target THEN {"target"} ELSE {})
            \cup (IF start = prevBlock.pc + minInstSize THEN {"through"} ELSE {})]
    ELSE l1

\* What every lookup does.  BAC only predicts the branch that bbMap gives for
\* the block at start, and only if the BTB holds it.  The base prediction can
\* differ from the final one for conditional branches only.
LookupStep(pc, target, taken, basePred) ==
    /\ phase = "cpu"
    /\ ~IsCond(BrType[pc]) => taken /\ basePred
    /\ demand' = demand \cup {pc}
    /\ prevBlock' = IF trainBitsOnLookup THEN [pc |-> pc, target |-> target]
                    ELSE prevBlock
    /\ UNCHANGED <<bbMap, ready, chainTable, issued, lastSample, phase>>

\* handleL1Hit
LookupL1Hit(start, taken, basePred) ==
    LET pc    == bbMap[start]
        entry == TrainedOnLookup(start)[pc]
    IN  /\ pc # NoPC
        /\ l1[pc] # NoEntry
        /\ LookupStep(pc, entry.target, taken, basePred)
        /\ l1' = TrainedOnLookup(start)
        /\ UNCHANGED <<l2, l3, pb, stats>>
        /\ TryInitialTrigger(pc, entry, basePred, "L1Hit", 0)

\* Mutant: the whole way of the prefetch buffer is copied.
PromotedWhole(entry) == entry

Promoted(entry) ==
    [target |-> entry.target,
     bits   |-> IF cleanBitsOnL1Promotion THEN {} ELSE entry.bits]

\* Mutant: the content of the L1 victim is not written back.
InstallWithoutWriteBack(h, pc, entry) ==
    \E v \in Victims(h.l1, L1Set, L1Ways, pc) :
        /\ l1' = Replace(h.l1, v, pc, entry)
        /\ l2' = h.l2
        /\ l3' = h.l3

\* Mutant: the way is filled before its old content is written back.
InstallBeforeWriteBack(h, pc, entry) ==
    \E v \in Victims(h.l1, L1Set, L1Ways, pc) :
    \E after \in IF h.l1[v] # NoEntry THEN WriteBack(h, v, entry) ELSE {h} :
        /\ l1' = Replace(h.l1, v, pc, entry)
        /\ l2' = after.l2
        /\ l3' = after.l3

\* Give pc an L1 way holding entry, starting from the hierarchy h.
InstallL1(h, pc, entry) ==
    \E after \in FreeUpL1Entry(h, pc, entry) :
        /\ l1' = after.l1
        /\ l2' = after.l2
        /\ l3' = after.l3

\* handlePBufferHit
LookupPBHit(start, taken, basePred) ==
    LET pc        == bbMap[start]
        entry     == pb[pc]
        remaining == IF noPrefetchLatency THEN 0 ELSE entry.arriveIn
    IN  /\ pc # NoPC
        /\ l1[pc] = NoEntry
        /\ UsesPrefetchBitPolicy
        /\ entry # NoEntry
        /\ LookupStep(pc, entry.target, taken, basePred)
        /\ InstallL1([Levels EXCEPT !.l1 = TrainedOnLookup(start)], pc,
                     Promoted(entry))
        /\ pb' = [pb EXCEPT ![pc] = NoEntry]
        /\ owed' = [owed EXCEPT ![PBSet[pc]] = @ - 1]
        /\ UNCHANGED pbStale
        /\ TryInitialTrigger(pc, entry, basePred, "PBHit", remaining)

MissesBuffers(pc) ==
    l1[pc] = NoEntry /\ (UsesPrefetchBitPolicy => pb[pc] = NoEntry)

Invalidated(level, pc) ==
    IF nonexclusive THEN level ELSE [level EXCEPT ![pc] = NoEntry]

\* handleL2Hit
LookupL2Hit(start, taken, basePred) ==
    LET pc    == bbMap[start]
        entry == l2[pc]
    IN  /\ pc # NoPC
        /\ MissesBuffers(pc)
        /\ entry # NoEntry
        /\ LookupStep(pc, entry.target, taken, basePred)
        /\ InstallL1([Levels EXCEPT !.l1 = TrainedOnLookup(start),
                                    !.l2 = Invalidated(l2, pc)],
                     pc, Promoted(entry))
        /\ UNCHANGED <<pb, stats>>
        /\ TryInitialTrigger(pc, entry, taken, "L2Hit", l2Latency)

\* handleL3Hit
LookupL3Hit(start, taken, basePred) ==
    LET pc    == bbMap[start]
        entry == l3[pc]
    IN  /\ pc # NoPC
        /\ MissesBuffers(pc)
        /\ l2[pc] = NoEntry
        /\ enableL3
        /\ entry # NoEntry
        /\ LookupStep(pc, entry.target, taken, basePred)
        /\ InstallL1([Levels EXCEPT !.l1 = TrainedOnLookup(start),
                                    !.l3 = Invalidated(l3, pc)],
                     pc, entry)
        /\ UNCHANGED <<pb, stats>>
        /\ TryInitialTrigger(pc, entry, taken, "L3Hit", l3Latency)

----------------------------------------------------------------------------
(* Squash and commit. *)

\* BPredUnit::updateBTB skips returns and indirect branches if they can be
\* predicted without a BTB hit.
InBTB(pc) ==
    requiresBTBHit \/ ~(BrType[pc] = "Return" \/ IsIndirect(BrType[pc]))

\* MultiLevelBTB::update: the hierarchies it can leave.
Updated(pc, target) ==
    LET fresh == [target |-> target,
                  bits   |-> IF UsesPrefetchBitPolicy THEN {"target"} ELSE {}]
        alternates == /\ UsesPrefetchBitPolicy
                      /\ indirectAltBit
                      /\ IsIndirect(BrType[pc])
                      /\ l1[pc].target # target
    IN  IF l1[pc] = NoEntry
        THEN FreeUpL1Entry(Levels, pc, fresh)
        ELSE {[Levels EXCEPT !.l1 = [l1 EXCEPT ![pc] =
                 [target |-> target,
                  bits   |-> IF alternates THEN Paths ELSE l1[pc].bits]]]}

\* BPredUnit::squash of a mispredicted branch that turns out taken: updateBTB.
SquashUpdate(pc, target, start) ==
    /\ phase = "cpu"
    /\ updateBTBAtSquash
    /\ InBTB(pc)
    /\ \E after \in Updated(pc, target) :
          l1' = after.l1 /\ l2' = after.l2 /\ l3' = after.l3
    /\ bbMap' = [bbMap EXCEPT ![start] = pc]
    /\ UNCHANGED <<pb, prevBlock, prevBw, chains, ready, demand, phase, stats>>

\* trainPrefetchBitsOnCommit
TrainedOnCommit(level, pc, taken) ==
    LET path == IF taken THEN {"target"} ELSE {"through"} IN
    IF trainBitsOnCommit /\ level[pc] # NoEntry
    THEN [level EXCEPT ![pc].bits =
            IF cleanBitsOnL1Promotion THEN path ELSE @ \cup path]
    ELSE level

\* BPredUnit::commitBranch where no BTB update is due.
CommitTrain(pc, taken) ==
    /\ phase = "cpu"
    /\ ~IsCond(BrType[pc]) => taken
    /\ taken => updateBTBAtSquash \/ ~InBTB(pc)
    /\ l1' = TrainedOnCommit(l1, pc, taken)
    /\ UNCHANGED <<l2, l3, pb, bbMap, prevBlock, prevBw, chains, ready, demand,
                   phase, stats>>

\* BPredUnit::commitBranch of a taken branch: updateBTB, then train.
CommitUpdate(pc, target, start) ==
    /\ phase = "cpu"
    /\ ~updateBTBAtSquash
    /\ InBTB(pc)
    /\ \E after \in Updated(pc, target) :
          /\ l1' = TrainedOnCommit(after.l1, pc, TRUE)
          /\ l2' = after.l2
          /\ l3' = after.l3
    /\ bbMap' = [bbMap EXCEPT ![start] = pc]
    /\ UNCHANGED <<pb, prevBlock, prevBw, chains, ready, demand, phase, stats>>

\* memInvalidate: the contents of the BTB are dropped.  Clearing a way leaves
\* its prefetched flag as it was.
MemInvalidate ==
    /\ phase = "cpu"
    /\ l1' = [pc \in PC |-> NoEntry]
    /\ l2' = [pc \in PC |-> NoEntry]
    /\ l3' = IF enableL3 THEN [pc \in PC |-> NoEntry] ELSE l3
    /\ pb' = [pc \in PC |-> NoEntry]
    /\ pbStale' = [s \in PBSets |->
         pbStale[s] + Cardinality({pc \in Resident(pb) : PBSet[pc] = s})]
    /\ queue' = <<>>
    /\ chainTable' = [s \in Slots |-> FreeSlot]
    /\ UNCHANGED <<bbMap, prevBlock, prevBw, nextChainId, issued, lastSample,
                   ready, demand, phase, owed>>

----------------------------------------------------------------------------
(* pfqEvent: processDeferredPrefetchQueue. *)

\* Mutant: entries due in the next cycle are taken as well.
ReadyOneEarly ==
    IF noPrefetchLatency THEN Len(queue)
    ELSE Min({n \in 0 .. Len(queue) :
                n = Len(queue) \/ queue[n + 1].issueIn > 1})

\* The length of the prefix of the queue whose time has come.
ReadyCount ==
    IF noPrefetchLatency THEN Len(queue)
    ELSE Min({n \in 0 .. Len(queue) :
                n = Len(queue) \/ queue[n + 1].issueIn > 0})

BeginEvent ==
    /\ phase = "cpu"
    /\ phase' = "event"
    /\ ready' = SubSeq(queue, 1, ReadyCount)
    /\ queue' = SubSeq(queue, ReadyCount + 1, Len(queue))
    /\ UNCHANGED <<levels, pb, bbMap, prevBlock, prevBw, chainTable,
                   nextChainId, issued, lastSample, demand, stats>>

SlotOf(chainId) == chainId % maxChainTrackerEntries

Tracked(e) == e.chainId # 0 /\ maxChainTrackerEntries > 0

\* Mutant: a chain that has used up its depth goes on.
ChainAlive(e) ==
    Tracked(e) => chainTable[SlotOf(e.chainId)].chainId = e.chainId \/ e.allocate

\* An entry is dropped if its chain has lost its slot (unless the entry is
\* there to allocate it) or has used up its depth.
ValidChain(e) ==
    Tracked(e) =>
        LET slot == chainTable[SlotOf(e.chainId)]
        IN  IF slot.chainId = e.chainId THEN slot.remaining # 0 ELSE e.allocate

InBuffers(pc) == l1[pc] # NoEntry \/ pb[pc] # NoEntry

\* Mutant: an entry that cannot be issued is tried again in the next cycle.
EndsWithRetry(e, reason) ==
    /\ ready' = Tail(ready)
    /\ queue' = InsertSorted(queue, [e EXCEPT !.issueIn = 1])
    /\ UNCHANGED <<levels, pb, bbMap, prevBlock, prevBw, chainTable, nextChainId,
                   issued, lastSample, demand, phase, stats>>

\* What is common to the entries that end here: at most the reason is noted.
EndsWith(e, reason) ==
    /\ ready' = Tail(ready)
    /\ chainTable' = IF Tracked(e) /\ ~e.allocate
                     THEN [chainTable EXCEPT ![SlotOf(e.chainId)].reason = reason]
                     ELSE chainTable
    /\ UNCHANGED <<levels, pb, bbMap, prevBlock, prevBw, queue, nextChainId,
                   issued, lastSample, demand, phase, stats>>

DropEntry(e) ==
    /\ ~ValidChain(e)
    /\ ready' = Tail(ready)
    /\ UNCHANGED <<levels, pb, bbMap, prevBlock, prevBw, chains, demand, phase,
                   stats>>

SkipForDemand(e) ==
    /\ ValidChain(e)
    /\ e.pc \in demand
    /\ EndsWith(e, "Demand")

SkipForPresence(e) ==
    /\ ValidChain(e)
    /\ e.pc \notin demand
    /\ InBuffers(e.pc)
    /\ EndsWith(e, "Presence")

SkipForMiss(e) ==
    /\ ValidChain(e)
    /\ e.pc \notin demand
    /\ ~InBuffers(e.pc)
    /\ ~InLower(l2, l3, e.pc)
    /\ EndsWith(e, IF enableL3 THEN "L3Miss" ELSE "L2Miss")

\* Mutant: the prefetched flag of the victim is not looked at.
EnqueueUncounted(pc, entry) ==
    \E v \in Victims(pb, PBSet, PBWays, pc) :
        /\ pb' = Replace(pb, v, pc, entry)
        /\ owed' = [owed EXCEPT ![PBSet[pc]] = @ + 1]
        /\ UNCHANGED pbStale

\* enqueuePrefetch: put the entry into the prefetch buffer.  A victim whose
\* prefetched flag is still set was a useless prefetch; the flag of a free way
\* can be set only if the way was cleared by memInvalidate.
EnqueuePrefetch(pc, entry) ==
    LET set  == PBSet[pc]
        free == PBWays - Cardinality(SetMates(pb, PBSet, pc))
    IN  \E v \in Victims(pb, PBSet, PBWays, pc), flagged \in BOOLEAN :
          /\ v # pc => flagged
          /\ v = pc /\ flagged => pbStale[set] > 0
          /\ v = pc /\ ~flagged => pbStale[set] < free
          /\ pb' = Replace(pb, v, pc, entry)
          /\ pbStale' = IF v = pc /\ flagged
                        THEN [pbStale EXCEPT ![set] = @ - 1] ELSE pbStale
          /\ owed' = IF flagged THEN owed ELSE [owed EXCEPT ![set] = @ + 1]

Later(q) == {q[i] : i \in 1 .. Len(q)}

\* isChainDead looks at deferredPrefetchQueue only.
IsChainDead(chainId) == \A e \in Later(queue) : e.chainId # chainId

\* Mutant: the depth left over is sampled instead of the depth used.
SampleOfRest(old, e) ==
    [chain  |-> old.chainId,
     reason |-> old.reason,
     sample |-> old.remaining,
     issued |-> issued[old.chainId]]

\* The end of the chain that loses its slot to entry e, as it enters the
\* statistics: the reason counted, the value sampled into
\* prefetchesPerTrigger, and, to compare with, what the chain really did.
ChainEndSample(old, e) ==
    [chain  |-> old.chainId,
     reason |-> IF IsChainDead(old.chainId) \/ old.remaining = 0
                THEN old.reason ELSE "Evicted",
     sample |-> (e.depth - old.remaining) % UIntRange,
     issued |-> issued[old.chainId]]

\* The entry that is prefetched, the L2's before the L3's, and the cycles until
\* it arrives.
FromL3(e) == l2[e.pc] = NoEntry

Source(e) == IF FromL3(e) THEN l3[e.pc] ELSE l2[e.pc]

ArrivesIn(e) ==
    LET arrival == e.issueIn + (IF FromL3(e) THEN l3Latency ELSE l2Latency)
    IN  IF arrival > 0 THEN arrival ELSE 0

\* The slot of the chain in the chainTable, and the slot once an allocating
\* entry has taken it from another chain.
OldSlot(e) == chainTable[SlotOf(e.chainId)]

Steals(e) == e.allocate /\ OldSlot(e).chainId # e.chainId

ChainSlot(e) ==
    IF Steals(e)
    THEN [chainId |-> e.chainId, remaining |-> e.depth, reason |-> "None"]
    ELSE OldSlot(e)

\* The paths along which the chain goes on.
FollowedPaths(e) ==
    LET alternates == /\ indirectAltBit
                      /\ IsIndirect(BrType[e.pc])
                      /\ Source(e).bits = Paths
    IN  IF ChainSlot(e).remaining <= 1 \/ alternates THEN {} ELSE Source(e).bits

\* The end reason recorded, and the slot counted down.
RecordedReason(e) ==
    IF ChainSlot(e).remaining = 1 THEN "DepthExhaust"
    ELSE IF "target" \in FollowedPaths(e) /\ limitRet /\ BrType[e.pc] = "Return"
    THEN "RetFilter" ELSE ChainSlot(e).reason

CountedSlot(e) ==
    IF ChainSlot(e).remaining > 0
    THEN [chainId |-> ChainSlot(e).chainId,
          remaining |-> ChainSlot(e).remaining - 1,
          reason |-> RecordedReason(e)]
    ELSE ChainSlot(e)

\* What the entries that follow e in its chain carry of it.
Successor(e) == [chainId |-> e.chainId, allocate |-> FALSE, depth |-> 1]

\* A ready entry whose branch is in the L2 or L3 but not nearer: prefetch it,
\* allocate the chain's slot if this is its first, count down its depth, and
\* queue what follows on the paths whose bits are set.
IssuePrefetch(e) ==
    /\ ValidChain(e)
    /\ e.pc \notin demand
    /\ ~InBuffers(e.pc)
    /\ InLower(l2, l3, e.pc)
    /\ EnqueuePrefetch(e.pc, [target |-> Source(e).target, bits |-> Source(e).bits,
                              arriveIn |-> ArrivesIn(e), fromL3 |-> FromL3(e)])
    /\ issued' = [issued EXCEPT ![e.chainId] = @ + 1]
    /\ ready' = Tail(ready)
    /\ IF Tracked(e)
       THEN /\ chainTable' = [chainTable EXCEPT ![SlotOf(e.chainId)] = CountedSlot(e)]
            /\ queue' = PrefetchPaths(queue, l2, l3, FollowedPaths(e), e.pc,
                                      Source(e).target, ArrivesIn(e),
                                      BrType[e.pc], Successor(e))
            /\ lastSample' = IF Steals(e) /\ OldSlot(e).chainId # 0
                             THEN ChainEndSample(OldSlot(e), e) ELSE lastSample
       ELSE UNCHANGED <<chainTable, queue, lastSample>>
    /\ UNCHANGED <<levels, bbMap, prevBlock, prevBw, nextChainId, demand, phase>>

\* One iteration of the loop over readyEntries.
ProcessEntry ==
    /\ phase = "event"
    /\ ready # <<>>
    /\ LET e == Head(ready)
       IN  \/ DropEntry(e)
           \/ SkipForDemand(e)
           \/ SkipForPresence(e)
           \/ SkipForMiss(e)
           \/ IssuePrefetch(e)

\* The event is over and the next cycle begins.
EndEvent ==
    /\ phase = "event"
    /\ ready = <<>>
    /\ phase' = "cpu"
    /\ demand' = {}
    /\ queue' = [i \in 1 .. Len(queue) |->
                   [queue[i] EXCEPT !.issueIn = @ - 1]]
    /\ pb' = [pc \in PC |->
                IF pb[pc] # NoEntry /\ pb[pc].arriveIn > 0
                THEN [pb[pc] EXCEPT !.arriveIn = @ - 1] ELSE pb[pc]]
    /\ UNCHANGED <<levels, bbMap, prevBlock, prevBw, chainTable, nextChainId,
                   issued, lastSample, ready, stats>>

----------------------------------------------------------------------------

Lookup ==
    \E start \in Starts, taken, basePred \in BOOLEAN :
        \/ LookupL1Hit(start, taken, basePred)
        \/ LookupPBHit(start, taken, basePred)
        \/ LookupL2Hit(start, taken, basePred)
        \/ LookupL3Hit(start, taken, basePred)

Resolve ==
    \E pc \in PC :
        \/ \E target \in TargetsOf[pc], start \in StartsOf[pc] :
              SquashUpdate(pc, target, start) \/ CommitUpdate(pc, target, start)
        \/ \E taken \in BOOLEAN : CommitTrain(pc, taken)

Event == BeginEvent \/ ProcessEntry \/ EndEvent

Next == Lookup \/ Resolve \/ MemInvalidate \/ Event

Spec == Init /\ [][Next]_vars

\* pfqEvent reschedules itself for every cycle and its handler always returns.
FairSpec == Spec /\ WF_vars(Event)

----------------------------------------------------------------------------
(* Properties. *)

\* Every variable holds a value of its C++ type: only complete BTB entries in
\* the levels, only branches known to bbMap in the queue, chain slots whose
\* counter never leaves 0 .. prefetchDepth.
TypeOK ==
    /\ {l1, l2, l3} \subseteq Level
    /\ pb \in [PC -> PBEntry \cup {NoEntry}]
    /\ bbMap \in [Addr -> PC \cup {NoPC}]
    /\ prevBlock \in [pc : PC, target : Addr] \cup {NoEntry}
    /\ prevBw \in [isBw : BOOLEAN, l1Miss : BOOLEAN]
    /\ queue \in Seq(Deferred)
    /\ ready \in Seq(Deferred)
    /\ chainTable \in [Slots -> ActiveChainEntry]
    /\ nextChainId \in 1 .. MaxChains + 1
    /\ demand \subseteq PC
    /\ phase \in {"cpu", "event"}
    /\ pbStale \in [PBSets -> Nat]
    /\ owed \in [PBSets -> Int]
    /\ issued \in [1 .. MaxChains -> Nat]
    /\ lastSample \in Sample \cup {NoEntry}

Pending(chainId) ==
    \E e \in Later(queue) \cup Later(ready) : e.chainId = chainId

\* A prefetch chain never brings more than prefetchDepth branches into the
\* prefetch buffer, however its slot of the chain table is taken away, given
\* back or shared in the meantime; a trigger that follows both paths of a
\* branch (possible without newPBits only) has two allocating entries and at
\* most twice that budget.
ChainBudget ==
    \A c \in 1 .. MaxChains :
        issued[c] <= IF newPBits THEN prefetchDepth ELSE 2 * prefetchDepth

\* A chain that has used up its depth stays ended for that reason: no entry
\* of it still waiting in the queue overwrites lastEndReason or revives it.
ExhaustedIsFinal ==
    \A s \in Slots : chainTable[s].chainId # 0 =>
        (chainTable[s].remaining = 0 <=> chainTable[s].reason = "DepthExhaust")

\* No deferred prefetch is handled late: the event takes each entry off the
\* queue in the very cycle of its issueTime, because prefetchViaBBMap keeps
\* the queue sorted while entries of several chains are mixed in.
IssuedOnTime ==
    /\ \A e \in Later(queue) : e.issueIn >= (IF phase = "cpu" THEN 0 ELSE 1)
    /\ ~noPrefetchLatency => \A e \in Later(ready) : e.issueIn = 0

\* The subtraction totalLatency - remainingTime in handlePBufferHit never goes
\* below zero (the Cycles operator throws if it does): a prefetch in flight is
\* never further away than the latency of the level it comes from.
CoveredCycleDefined ==
    ~noPrefetchLatency =>
        \A pc \in Resident(pb) :
            pb[pc].arriveIn <= IF pb[pc].fromL3 THEN l3Latency ELSE l2Latency

\* Every prefetch counted in totalPrefetches is counted once more as a hit or
\* as useless, or its flagged way is still in the prefetch buffer, also across
\* memInvalidate, which clears the ways but not their flags.
EveryPrefetchAccounted ==
    \A s \in PBSets :
        /\ owed[s] = Cardinality({pc \in Resident(pb) : PBSet[pc] = s})
                       + pbStale[s]
        /\ owed[s] <= PBWays

\* The value sampled into prefetchesPerTrigger when a chain loses its slot is
\* the number of prefetches this chain has issued.
SampleIsExact ==
    lastSample # NoEntry => lastSample.sample = lastSample.issued

\* Whenever valid() answers yes, lookupWithLatency finds the branch in a level
\* it really searches and does not reach its panic.
LookupNeverPanics ==
    \A pc \in PC : Valid(pc) =>
        \/ l1[pc] # NoEntry
        \/ UsesPrefetchBitPolicy /\ pb[pc] # NoEntry
        \/ InLower(l2, l3, pc)

\* processDeferredPrefetchQueue writes lastEndReason through chainEntry when it
\* skips a non-allocating entry for a demand access, without testing the
\* pointer: such an entry is only ever there if the chain table has slots.
ChainEntryNonNull ==
    \A e \in Later(queue) \cup Later(ready) : ~e.allocate => Tracked(e)

\* The cycles of latency that a late prefetch has covered, the index which
\* handlePBufferHit uses in latePrefetchByPBHit and latePrefetchByL2Hit, is
\* below the size the two vectors are given (init(5)).
LateIndexInRange ==
    ~noPrefetchLatency =>
        \A pc \in Resident(pb) : pb[pc].arriveIn > 0 =>
            (IF pb[pc].fromL3 THEN l3Latency ELSE l2Latency) - pb[pc].arriveIn < 5

\* Every chain dies out: from some point on no deferred prefetch of it is left,
\* although each prefetch may queue two more and lookups never stop.
ChainsEnd ==
    \A c \in 1 .. MaxChains : Pending(c) ~> []~Pending(c)

----------------------------------------------------------------------------
(* The BTB as the abstract map. *)

\* The target lookupWithLatency returns for pc, if valid() says it is there.
Served(pc) ==
    IF l1[pc] # NoEntry THEN l1[pc].target
    ELSE IF pb[pc] # NoEntry THEN pb[pc].target
    ELSE IF l2[pc] # NoEntry THEN l2[pc].target
    ELSE IF enableL3 /\ l3[pc] # NoEntry THEN l3[pc].target
    ELSE NoEntry

ServedMap == [pc \in PC |-> Served(pc)]

Abstract == INSTANCE AbstractBTB
              WITH Branch <- PC, Target <- Addr, NoTarget <- NoEntry,
                   map <- ServedMap

\* The calls on the BTB: a lookup that hits pc, and an update of pc.
LookupOf(pc) ==
    \E start \in Starts, taken, basePred \in BOOLEAN :
        /\ bbMap[start] = pc
        /\ \/ LookupL1Hit(start, taken, basePred)
           \/ LookupPBHit(start, taken, basePred)
           \/ LookupL2Hit(start, taken, basePred)
           \/ LookupL3Hit(start, taken, basePred)

UpdateOf(pc, target) ==
    \E start \in StartsOf[pc] :
        SquashUpdate(pc, target, start) \/ CommitUpdate(pc, target, start)

\* What each call may do to the map.  Training and the prefetch event are not
\* among them: they leave the map as it is.
CallStep ==
    \/ \E pc \in PC : \E target \in TargetsOf[pc] :
          UpdateOf(pc, target) /\ Abstract!AbsUpdate(pc, target)
    \/ \E pc \in PC : LookupOf(pc) /\ Abstract!AbsLookup(pc)
    \/ MemInvalidate /\ Abstract!AbsInvalidate

\* Seen from outside, the levels behave as one map, call by call: only an
\* update stores a target, the one it is called with and only for its own
\* branch; a lookup keeps the target of the branch it hits and, like the
\* update, at most forgets others when it moves entries between L1, L2 and L3;
\* memInvalidate forgets everything; training and the prefetch event change
\* no answer.  So no old target that a lower level still held comes back.
ImplementsMap ==
    Abstract!AbsSpec /\ [][CallStep]_ServedMap
=============================================================================
