--------------------------- MODULE FrontEndProofs ---------------------------
(***************************************************************************)
(* The invariants of the front end for every program and for all sizes: the *)
(* parts that the other modules prove about, put together.                  *)
(***************************************************************************)
EXTENDS FrontEndLogProofs, FrontEndFlowProofs, FrontEndQueueProofs

\* The types, the log, the instructions and the signals; the queue has room; the targets
\* in it are linked; histories are those of branches in flight, or about to go.
IInv == /\ TypeOK /\ BpuOK /\ BackOK /\ Room /\ Targets
        /\ NoExtra /\ Heard /\ Drains

LEMMA BackInit == Init => BackOK
<1> SUFFICES ASSUME Init PROVE BackOK
  OBVIOUS
<1>1. /\ insts = << >> /\ numDecoded = 0 /\ nextSeq = 1 /\ trapRemaining = 0 /\ draining = "no"
      /\ fromCommit = None /\ fromDecode = [i \in 1 .. decodeToFetchDelay |-> None]
  BY DEF Init
<1>2. insts \in Seq(FetchedInst) /\ Len(insts) = 0 /\ numDecoded \in 0 .. Len(insts)
  BY <1>1
<1>3. /\ nextSeq \in 1 .. MaxSeq + 1 /\ trapRemaining \in 0 .. trapLatency
      /\ draining \in {"no", "pending", "removing", "empty"}
  BY <1>1, FrontEndAssumption, SMTT(30)
<1>4. /\ fromDecode \in [1 .. decodeToFetchDelay -> Signal]
      /\ \A i \in 1 .. decodeToFetchDelay : fromDecode[i] = None
  BY <1>1, Zenon DEF Signal
<1>5. InOrder(insts, nextSeq)
  BY <1>2 DEF InOrder
<1>6. DecodedOlder
  BY <1>4, Zenon DEF DecodedOlder
<1> QED BY <1>1, <1>2, <1>3, <1>4, <1>5, <1>6, Zenon DEF BackOK, BackTypes, FetchedInst, Signal

LEMMA BpuInit == Init => BpuOK
<1> SUFFICES ASSUME Init PROVE BpuOK
  OBVIOUS
<1>1. predHist = << >> /\ specLog = << >> /\ ftq = << >>
  BY DEF Init
<1>2. predHist \in Seq(History) /\ specLog \in Seq(HistId) /\ Len(predHist) = 0 /\ Len(specLog) = 0
  BY <1>1, SMTT(30)
<1>3. InOrder(predHist, nextSeq)
  BY <1>2, SMTT(30) DEF InOrder
<1>4. InForce(specLog, predHist, ftq)
  <2>1. DOMAIN predHist = {} /\ FTHist(ftq) = {}
    BY <1>1, NoTargets, SMTT(30)
  <2>2. Modified(predHist, {}) = 0 /\ Cardinality({}) = 0
    <3>1. {i \in {} : predHist[i].modified} = {}
      OBVIOUS
    <3> QED BY <3>1, FS_EmptySet, Zenon DEF Modified
  <2> QED BY <1>2, <2>1, <2>2, SMTT(30) DEF InForce
<1> QED BY <1>1, <1>2, <1>3, <1>4, EmptyQueue, ZenonT(30) DEF BpuOK, HistoriesAreUndone

LEMMA FrontInit == Init => FrontTypes
<1> SUFFICES ASSUME Init PROVE FrontTypes
  OBVIOUS
<1>1. 0 \in Addr /\ 0 \in 0 .. maxLatency
  BY FrontEndAssumption DEF Addr
<1>2. At(0) \in PCs
  BY <1>1, AtType, ZenonT(30)
<1>3. phase = "bac" /\ ftqStatus = "Valid" /\ bacStatus = "Running" /\ fetchStatus = "Running"
  BY DEF Init
<1> QED BY <1>1, <1>2, <1>3, Zenon DEF FrontTypes, Init

LEMMA IInvInit == Init => IInv
<1> SUFFICES ASSUME Init PROVE IInv
  OBVIOUS
<1>1. BackOK /\ BpuOK /\ FrontTypes /\ Room /\ Targets
  BY BackInit, BpuInit, FrontInit, RoomInit, TargetsInit, ZenonT(30)
<1>2. TypeOK
  BY <1>1, TypeParts, Zenon DEF BackOK, BpuOK
<1>3. predHist = << >> /\ insts = << >> /\ phase = "bac" /\ draining = "no"
  BY DEF Init
<1>4. Sns(predHist) = {}
  BY <1>1, <1>3, HistSns, Zenon DEF BpuOK
<1>5. NoExtra /\ Heard
  BY <1>3, <1>4 DEF NoExtra, Heard
<1>6. Drains
  BY <1>3 DEF Drains, stalled
<1> QED BY <1>1, <1>2, <1>5, <1>6, SMTT(30) DEF IInv

LEMMA IInvNext == IInv /\ [Next]_vars => IInv'
<1> SUFFICES ASSUME IInv, [Next]_vars PROVE IInv'
  OBVIOUS
<1>1. TypeOK /\ BpuOK /\ BackOK /\ Room /\ Targets /\ NoExtra /\ Heard /\ Drains /\ HistOK
  BY Zenon DEF IInv, BpuOK, HistOK
<1>2. InsertHasRoom /\ (inFetchLoop => ftq # << >>)
  BY <1>1, Zenon DEF Room
<1>3. BpuOK'
  BY <1>1, <1>2, BpuNext, Zenon
<1>4. BackOK'
  BY <1>1, BackNext, ZenonT(30)
<1>5. FrontTypes'
  BY <1>1, <1>2, FrontNext, Zenon
<1>6. TypeOK'
  BY <1>3, <1>4, <1>5, ZenonT(30) DEF TypeOK, FrontTypes, BackTypes, BackOK, BpuOK
<1>7. Room' /\ Targets'
  BY <1>1, RoomNext, TargetsNext, Zenon
<1>8. NoExtra' /\ Heard' /\ Drains'
  BY <1>1, ExtraNext, DrainsNext, ZenonT(30)
<1> QED BY <1>3, <1>4, <1>6, <1>7, <1>8, Zenon DEF IInv

LEMMA Inductive == Spec => []IInv
BY IInvInit, IInvNext, PTL DEF Spec

\* The invariant TypeOK for any program and sizes; in particular the queue keeps within
\* numFTQEntries (ftq.cc), and the histories within the identities that HistId has.
THEOREM TypeCorrect == Spec => []TypeOK
<1>1. IInv => TypeOK
  BY ZenonT(30) DEF IInv
<1> QED BY <1>1, Inductive, PTL

\* The invariant HistoriesAreUndone, for any program, sizes and delays: no order of
\* squashes, resteers, commits and drains drops a history without undoing its update of
\* the predictors, undoes one twice, or undoes them out of order (squashBpuHistories,
\* BPredUnit::squash and update).
THEOREM HistoriesUndone == Spec => []HistoriesAreUndone
<1>1. IInv => HistoriesAreUndone
  BY Zenon DEF IInv, BpuOK
<1> QED BY <1>1, Inductive, PTL

\* The invariant FetchInTarget, for any program, sizes and delays: what fetch.cc and
\* updatePreDecode assert about the head of the queue holds in every iteration of the
\* fetch loop.
THEOREM FetchStaysInTarget == Spec => []FetchInTarget
<1>1. IInv => FetchInTarget
  BY Zenon DEF IInv, Targets
<1> QED BY <1>1, Inductive, PTL

\* The invariant DrainedIsClean, for any program, sizes and delays: when isCpuDrained
\* holds, BAC and BPredUnit pass their drainSanityCheck.
THEOREM DrainLeavesNothing == Spec => []DrainedIsClean
<1>1. ASSUME IInv, isCpuDrained PROVE predHist = << >> /\ specLog = << >>
  <2>1. predHist = << >> /\ ftq = << >>
    BY <1>1 DEF IInv, Drains, isCpuDrained
  <2>2. InForce(specLog, predHist, ftq) /\ specLog \in Seq(HistId)
    BY <1>1, Zenon DEF IInv, BpuOK, HistoriesAreUndone
  <2>3. DOMAIN predHist = {} /\ FTHist(ftq) = {}
    BY <2>1, NoTargets
  <2>4. Modified(predHist, {}) = 0 /\ Cardinality({}) = 0
    <3>1. {i \in {} : predHist[i].modified} = {}
      OBVIOUS
    <3> QED BY <3>1, FS_EmptySet, Zenon DEF Modified
  <2>5. Len(specLog) = 0
    BY <2>2, <2>3, <2>4, SMTT(30) DEF InForce
  <2> QED BY <2>1, <2>2, <2>5, SMTT(30)
<1>2. IInv => DrainedIsClean
  BY <1>1, Zenon DEF DrainedIsClean
<1> QED BY <1>2, Inductive, PTL

\* The invariant DecodeSquashIsFresh, for any program and sizes, as long as decode's
\* signals take at most one cycle more than commit's: fetch ignores decode while it is
\* squashing, and that is long enough for a signal that commit has overtaken to pass.
THEOREM ObeyedSquashIsFresh ==
    ASSUME decodeToFetchDelay <= 2
    PROVE  Spec => []DecodeSquashIsFresh
<1>1. ASSUME Init PROVE Fresh
  <2>1. \A i \in 1 .. decodeToFetchDelay : fromDecode[i] = None
    BY <1>1, Zenon DEF Init
  <2> QED BY <2>1, Zenon DEF Fresh
<1>2. ASSUME IInv, Fresh, [Next]_vars PROVE Fresh'
  BY <1>2, FreshNext, Zenon DEF IInv
<1>3. IInv /\ Fresh => DecodeSquashIsFresh
  BY FreshImplies, Zenon DEF IInv
<1> QED BY <1>1, <1>2, <1>3, Inductive, PTL DEF Spec

\* The invariant EveryBranchTracked, for any program and sizes, as long as decode's
\* signals are no slower than commit's: BPredUnit::update, squash and updatePreDecode
\* keep one history for each branch in flight and none for anything else.
THEOREM BranchesTracked ==
    ASSUME decodeToFetchDelay = 1
    PROVE  Spec => []EveryBranchTracked
<1>1. ASSUME IInv, Tracked PROVE EveryBranchTracked
  <2> SUFFICES ASSUME phase = "fetch", ~decodePending
               PROVE  /\ {predHist[i].sn : i \in DOMAIN predHist}
                           = {insts[i].sn : i \in {j \in DOMAIN insts : insts[j].ctl}}
                      /\ \A i, j \in DOMAIN predHist : i < j => predHist[i].sn < predHist[j].sn
    BY Zenon DEF EveryBranchTracked
  <2>1. HistOK /\ BackOK /\ NoExtra /\ AllTracked
    BY <1>1, Zenon DEF IInv, BpuOK, HistOK, Tracked
  <2>2. DOMAIN predHist = 1 .. Len(predHist) /\ DOMAIN insts = 1 .. Len(insts)
    BY <2>1, BackFacts, SMTT(30) DEF HistOK
  <2>3. \A k \in Sns(predHist) : InFlight(k)
    <3>1. \A i \in 1 .. decodeToFetchDelay - 1 : i \in 1 .. decodeToFetchDelay
      BY FrontEndAssumption
    <3>2. \A k : ~Dropped(k, decodeToFetchDelay - 1)
      BY <3>1, Zenon DEF Dropped, decodePending
    <3> QED BY <2>1, <3>2, ZenonT(30) DEF NoExtra, Doomed
  <2>4. \A k : InFlight(k) => k \in Sns(predHist)
    BY <2>1, Zenon DEF InFlight, AllTracked, Has, Sns
  <2>5. \A i, j \in DOMAIN predHist : i < j => predHist[i].sn < predHist[j].sn
    BY <2>1, <2>2, Zenon DEF HistOK, InOrder
  <2>6. {predHist[i].sn : i \in DOMAIN predHist} = Sns(predHist)
    BY <2>2, Zenon DEF Sns
  <2>7. \A k : k \in {insts[i].sn : i \in {j \in DOMAIN insts : insts[j].ctl}} <=> InFlight(k)
    BY <2>2, Zenon DEF InFlight
  <2>8. \A k : k \in Sns(predHist) <=> k \in {insts[i].sn : i \in {j \in DOMAIN insts : insts[j].ctl}}
    BY <2>3, <2>4, <2>7, Zenon
  <2> QED BY <2>5, <2>6, <2>8, ZenonT(30)
<1>2. Init => Tracked
  BY TrackedInit, Zenon
<1>3. ASSUME Tracked, [Next]_vars PROVE Tracked'
  BY <1>3, TrackedNext, ZenonT(30)
<1> QED BY <1>1, <1>2, <1>3, Inductive, PTL DEF Spec
=============================================================================
