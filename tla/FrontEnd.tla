------------------------------ MODULE FrontEnd ------------------------------
(***************************************************************************)
(* The decoupled front end of the O3 CPU, cycle by cycle and for one        *)
(* thread: the branch address calculation stage (o3/bac.cc) predicts ahead  *)
(* and fills the fetch target queue (o3/ftq.cc), fetch (o3/fetch.cc)        *)
(* consumes it one instruction at a time, and decode and commit send        *)
(* squashes back over wires that take a number of cycles.  The stages tick  *)
(* in the order of CPU::tick: BAC, fetch, decode, ..., commit.              *)
(*                                                                          *)
(* Every predicted branch has a PredictorHistory.  It is born on a fetch    *)
(* target, moves to the predHist list of the BPredUnit when fetch meets the *)
(* branch, and dies when the branch commits or is squashed.  Its update of  *)
(* the speculative predictor state (the global history of TAGE, the return  *)
(* address stack) is recorded in specLog: undoing a history removes the     *)
(* youngest entry, whichever history that belongs to.                       *)
(*                                                                          *)
(* Addresses count instructions and wrap around after MaxAddr.  What the    *)
(* BTB and the predictors answer, the latencies, the bandwidth limits and   *)
(* the outcome of a branch are free choices.                                *)
(***************************************************************************)
EXTENDS Integers, Sequences, FiniteSets

CONSTANTS
    MaxAddr,             \* the last instruction address
    Code,                \* the micro-ops of the instruction at each address
    Target,              \* where taken branches and squashes may lead
    fetchTargetWidth,    \* in instructions
    blockBTB,            \* look for the exit branch of a block, or scan
    numFTQEntries,
    maxLatency,          \* of an overriding prediction
    decodeToFetchDelay,  \* cycles from decode to BAC and fetch
    trapLatency,         \* cycles from a fault to the squash
    MaxSeq               \* instructions fetched in a behaviour

Addr    == 0 .. MaxAddr
SeqNum  == 1 .. MaxSeq
HistId  == 1 .. (numFTQEntries + MaxSeq)

ASSUME FrontEndAssumption ==
    /\ MaxAddr \in Nat /\ Target \subseteq Addr
    /\ fetchTargetWidth \in Nat /\ blockBTB \in BOOLEAN
    /\ numFTQEntries \in Nat \ {0} /\ maxLatency \in Nat
    /\ decodeToFetchDelay \in Nat \ {0} /\ trapLatency \in Nat \ {0}
    /\ MaxSeq \in Nat
    /\ DOMAIN Code = Addr
    /\ \A a \in Addr : /\ Code[a] \in Seq([ctl : BOOLEAN, type : STRING])
                       /\ Code[a] # << >>

VARIABLES
    phase,          \* the stage whose tick comes next, or the loop it is in
    ftq, ftqStatus,                        \* o3/ftq.hh
    bacStatus, bacPC, branchPredictRemaining,
    fetchStatus, pc,
    fromFetch,      \* wire fetch -> BAC (fetchToBacDelay = 1)
    fromDecode,     \* wire decode -> BAC and fetch: newest signal first
    fromCommit,     \* wire commit -> BAC and fetch (commitToFetchDelay = 1)
    predHist,       \* histories of the fetched branches, oldest first
    specLog,        \* who updated the speculative state, oldest first
    insts,          \* fetched and neither committed nor squashed, oldest first
    numDecoded,     \* how many of them have left decode
    nextSeq,        \* the sequence number of the next instruction
    trapRemaining,  \* cycles until commit squashes for a trap, or 0
    draining        \* "no", or commit has told BAC and fetch to drain: "pending"
                    \* until it squashes what is younger, "removing" until that has
                    \* left the CPU, then "empty"

queue   == << ftq, ftqStatus >>
bac     == << bacStatus, bacPC, branchPredictRemaining >>
fetcher == << fetchStatus, pc >>
bpu     == << predHist, specLog >>
wires   == << fromFetch, fromDecode, fromCommit >>
backend == << insts, numDecoded, nextSeq, trapRemaining, draining >>
vars    == << phase, queue, bac, fetcher, bpu, wires, backend >>

-----------------------------------------------------------------------------
\* Instructions and program counters.

None == [none |-> TRUE]

At(a)  == [a |-> a, u |-> 1]
PCs    == UNION {{[a |-> a, u |-> u] : u \in 1 .. Len(Code[a])} : a \in Addr}
Uop(p) == Code[p.a][p.u]
IsLastUop(p) == p.u = Len(Code[p.a])

FallThrough(a) == IF a = MaxAddr THEN 0 ELSE a + 1

advancePC(p) == IF IsLastUop(p) THEN At(FallThrough(p.a)) ELSE [p EXCEPT !.u = @ + 1]

\* Where a squash may send the front end: also into a micro-coded instruction.
SquashPC == {p \in PCs : p.a \in Target}

\* The control micro-ops the BTB may return: partial tags alias, so any of
\* them for any address.
BTBInst == {[type |-> Uop(p).type, last |-> IsLastUop(p)] :
                p \in {q \in PCs : Uop(q).ctl}}

-----------------------------------------------------------------------------
\* Predictor histories (pred/bpred_unit.cc).

FTHist(q)    == {i \in DOMAIN q : q[i].hist # None}
LiveIds      == {ftq[i].hist.id : i \in FTHist(ftq)}
                  \cup {predHist[i].id : i \in DOMAIN predHist}
                  \cup {specLog[i] : i \in DOMAIN specLog}
\* A history is a new heap object, different from every live one.
NewId        == CHOOSE id \in HistId : id \notin LiveIds

Undo(log, n) == SubSeq(log, 1, Len(log) - n)

Modified(hs, is) == Cardinality({i \in is : hs[i].modified})

\* Mutant: the squash takes the branch itself as well.
NumOlder(hs, sn) ==
    CHOOSE n \in 0 .. Len(hs) : /\ n > 0 => hs[n].sn < sn
                               /\ \A i \in n + 1 .. Len(hs) : hs[i].sn >= sn

\* squash(squashed_sn): the youngest histories go while they are younger.
NumKept(hs, sn) ==
    CHOOSE n \in 0 .. Len(hs) : /\ n > 0 => hs[n].sn <= sn
                               /\ \A i \in n + 1 .. Len(hs) : hs[i].sn > sn
KeptHist(hs, sn)     == SubSeq(hs, 1, NumKept(hs, sn))
KeptLog(hs, log, sn) == Undo(log, Modified(hs, NumKept(hs, sn) + 1 .. Len(hs)))

\* squash(squashed_sn, ...): then the youngest history that is left is corrected;
\* the predictor undoes its update, if there was one, and updates again.
CorrectedHist(hs) ==
    IF hs = << >> THEN hs ELSE [hs EXCEPT ![Len(hs)].modified = TRUE]
CorrectedLog(hs, log) ==
    IF hs = << >> THEN log
    ELSE Append(IF hs[Len(hs)].modified THEN Undo(log, 1) ELSE log, hs[Len(hs)].id)

\* update(done_sn): the oldest histories go while they are not younger.
NumDone(hs, sn) ==
    CHOOSE n \in 0 .. Len(hs) : /\ n < Len(hs) => hs[n + 1].sn > sn
                               /\ \A i \in 1 .. n : hs[i].sn <= sn
UpdatedHist(hs, sn)     == SubSeq(hs, NumDone(hs, sn) + 1, Len(hs))
UpdatedLog(hs, log, sn) == SubSeq(log, Modified(hs, 1 .. NumDone(hs, sn)) + 1, Len(log))

\* Mutant: the queue is emptied and the histories in it are not undone.
KeepFTLog(log) == log

\* squashBpuHistories: the histories of the fetch targets, youngest first.
SquashedFTLog(log) == Undo(log, Cardinality(FTHist(ftq)))
SquashedFTs        == [i \in DOMAIN ftq |-> [ftq[i] EXCEPT !.hist = None]]

-----------------------------------------------------------------------------
\* The fetch target queue.

isFull      == Len(ftq) >= numFTQEntries
isReady     == ftqStatus # "Invalid"
isHeadReady == isReady /\ ftq # << >>

inRange(ft, a) == ft.start <= a /\ a <= ft.end
isExitBranch(ft, a) == ft.branch /\ a = ft.end

-----------------------------------------------------------------------------
\* BAC.

\* Mutant: a stalled BAC does not look at the queue.
NextUnlessFull(waits) ==
    LET bs == IF waits THEN "Overriding" ELSE bacStatus
    IN  IF ~isReady /\ bs # "Idle" THEN "Idle"
        ELSE IF bs = "Running" /\ ftqStatus = "Locked" THEN "FTQLocked"
        ELSE IF bs \in {"FTQFull", "Squashing", "Idle"} THEN "Running"
        ELSE IF bs = "Overriding" /\ ~waits THEN "Running"
        ELSE bs

\* What a cycle that hears of no squash makes of the status.
NextBacStatus(waits) ==
    LET bs == IF waits THEN "Overriding" ELSE bacStatus
    IN  IF ~isReady /\ bs # "Idle" THEN "Idle"
        ELSE IF bs = "Running" /\ ftqStatus = "Locked" THEN "FTQLocked"
        ELSE IF bs = "FTQLocked" /\ ftqStatus # "Locked" THEN "Running"
        ELSE IF bs = "FTQFull" /\ ~isFull THEN "Running"
        ELSE IF bs = "Squashing" THEN "Running"
        ELSE IF isFull THEN "FTQFull"
        ELSE IF bs = "Overriding" /\ ~waits THEN "Running"
        ELSE IF isReady /\ bs = "Idle" THEN "Running"
        ELSE bs

\* Mutant: the squash of the queue does not make it valid again.
SquashKeepsStatus(newPC) ==
    /\ bacStatus' = "Squashing"
    /\ bacPC' = newPC.a
    /\ branchPredictRemaining' = 0
    /\ ftq' = << >>
    /\ UNCHANGED ftqStatus
    /\ phase' = "fetch"

\* BAC::squash after squashBpuHistories.
BacSquash(newPC) ==
    /\ bacStatus' = "Squashing"
    /\ bacPC' = newPC.a
    /\ branchPredictRemaining' = 0
    /\ ftq' = << >>
    /\ ftqStatus' = "Valid"
    /\ phase' = "fetch"

\* BPredUnit::squash with or without a correction, on the state hs, log.
BpuSquash(hs, log, sn, correct) ==
    LET kept    == KeptHist(hs, sn)
        keptLog == KeptLog(hs, log, sn)
    IN  IF correct
        THEN /\ predHist' = CorrectedHist(kept)
             /\ specLog' = CorrectedLog(kept, keptLog)
        ELSE /\ predHist' = kept
             /\ specLog' = keptLog

\* The histories and the log after commit's doneSeqNum was heard.
doneSeqNum == IF fromCommit = None THEN 0 ELSE fromCommit.sn
CommittedHist == UpdatedHist(predHist, doneSeqNum)
CommittedLog  == UpdatedLog(predHist, specLog, doneSeqNum)

commitSquash == fromCommit # None /\ fromCommit.squash
commitTrap   == fromCommit # None /\ ~fromCommit.squash /\ fromCommit.trapPending
decodeSquash == fromDecode[decodeToFetchDelay] # None

\* CPU::isCpuDrained, between two cycles: once it is true there is no next cycle.
isCpuDrained ==
    /\ phase = "bac" /\ draining = "empty"
    /\ ftq = << >> /\ bacStatus = "Idle" /\ fetchStatus = "Blocked"

newCycle == phase = "bac" /\ ~isCpuDrained

BacCommitSquash ==
    /\ newCycle /\ commitSquash
    /\ BacSquash(fromCommit.pc)
    /\ BpuSquash(predHist, SquashedFTLog(specLog), fromCommit.sn, fromCommit.mispredict)
    /\ UNCHANGED << fetcher, wires, backend >>

BacDecodeSquash ==
    /\ newCycle /\ ~commitSquash /\ decodeSquash
    /\ LET sig == fromDecode[decodeToFetchDelay]
       IN  /\ BacSquash(sig.pc)
           /\ BpuSquash(CommittedHist, SquashedFTLog(CommittedLog), sig.sn, TRUE)
    /\ UNCHANGED << fetcher, wires, backend >>

fetchSquash == fromFetch # None /\ bacStatus # "Squashing"

\* Mutant: a resteer empties the queue, and BAC goes on where it was.
ResteerKeepsPC ==
    /\ newCycle /\ ~commitSquash /\ ~decodeSquash /\ fetchSquash
    /\ BacSquash(At(bacPC))
    /\ predHist' = CommittedHist
    /\ specLog' = SquashedFTLog(CommittedLog)
    /\ UNCHANGED << fetcher, wires, backend >>

BacFetchSquash ==
    /\ newCycle /\ ~commitSquash /\ ~decodeSquash /\ fetchSquash
    /\ BacSquash(fromFetch.pc)
    /\ predHist' = CommittedHist
    /\ specLog' = SquashedFTLog(CommittedLog)
    /\ UNCHANGED << fetcher, wires, backend >>

stalled == draining # "no"

\* Mutant: a drain empties the queue and does not undo the histories in it.
DrainQueueOnly ==
    /\ newCycle /\ ~commitSquash /\ ~decodeSquash /\ ~fetchSquash /\ stalled
    /\ predHist' = CommittedHist
    /\ specLog' = CommittedLog
    /\ ftq' = << >> /\ ftqStatus' = "Valid"
    /\ bacStatus' = "Idle"
    /\ phase' = "fetch"
    /\ UNCHANGED << bacPC, branchPredictRemaining, fetcher, wires, backend >>

BacDrain ==
    /\ newCycle /\ ~commitSquash /\ ~decodeSquash /\ ~fetchSquash /\ stalled
    /\ predHist' = CommittedHist
    /\ specLog' = SquashedFTLog(CommittedLog)
    /\ ftq' = << >> /\ ftqStatus' = "Valid"
    /\ bacStatus' = "Idle"
    /\ phase' = "fetch"
    /\ UNCHANGED << bacPC, branchPredictRemaining, fetcher, wires, backend >>

BacRun ==
    /\ newCycle /\ ~commitSquash /\ ~decodeSquash /\ ~fetchSquash /\ ~stalled
    /\ predHist' = CommittedHist
    /\ specLog' = CommittedLog
    /\ LET waits == branchPredictRemaining > 0
       IN  /\ branchPredictRemaining' = IF waits THEN branchPredictRemaining - 1 ELSE 0
           /\ bacStatus' = NextBacStatus(waits)
    /\ phase' = CASE bacStatus' = "Running"    -> "generate"
                  [] bacStatus' = "Overriding" -> "override"
                  [] OTHER                     -> "fetch"
    /\ UNCHANGED << queue, bacPC, fetcher, wires, backend >>

\* generateOverrideFetchTargets: the queue drops the false-path target it is
\* given, after checking that there is room for it.
BacOverride ==
    /\ phase = "override"
    /\ phase' = "fetch"
    /\ UNCHANGED << queue, bac, fetcher, bpu, wires, backend >>

\* FTQ::insert and the rest of an iteration: stop when the queue is full or the
\* prediction takes time, or at one of the bandwidth limits.
InsertFT(ft, latency) ==
    /\ ftq' = Append(ftq, ft)
    /\ bacPC' = ft.next
    /\ branchPredictRemaining' = latency
    /\ IF Len(ftq) + 1 >= numFTQEntries
       THEN bacStatus' = "FTQFull" /\ phase' = "fetch"
       ELSE /\ bacStatus' = bacStatus
            /\ phase' \in IF latency # 0 THEN {"fetch"} ELSE {"generate", "fetch"}
    /\ UNCHANGED << ftqStatus, fetcher, predHist, wires, backend >>

LastInWidth == IF bacPC + fetchTargetWidth > MaxAddr THEN MaxAddr ELSE bacPC + fetchTargetWidth

\* No branch found: the target ends with the search width.
GenerateFallThrough ==
    /\ phase = "generate"
    /\ InsertFT([start |-> bacPC, end |-> LastInWidth, branch |-> FALSE,
                 taken |-> FALSE, next |-> FallThrough(LastInWidth), hist |-> None], 0)
    /\ UNCHANGED specLog

\* The BTB hits: the target ends with the branch, which is predicted.
GenerateBranch ==
    /\ phase = "generate"
    /\ \E end \in bacPC .. (IF blockBTB THEN MaxAddr ELSE LastInWidth),
          inst \in BTBInst, taken \in BOOLEAN, t \in Target, latency \in 0 .. maxLatency :
        InsertFT([start |-> bacPC, end |-> end, branch |-> TRUE, taken |-> taken,
                  next |-> IF taken /\ inst.last THEN t ELSE FallThrough(end),
                  hist |-> [id |-> NewId, type |-> inst.type, taken |-> taken]],
                 latency)
    /\ specLog' = Append(specLog, NewId)

-----------------------------------------------------------------------------
\* Fetch.

\* Mutant: a drain only blocks a fetch stage that is running.
BlockOnlyRunning ==
    CASE stalled /\ fetchStatus = "Running" -> "Blocked"
      [] fetchStatus \in {"Squashing", "Blocked"} ->
            IF ftq = << >> THEN "FTQEmpty" ELSE "Running"
      [] fetchStatus = "FTQEmpty" /\ ftq # << >> -> "Running"
      [] OTHER -> fetchStatus

NextFetchStatus ==
    CASE stalled /\ fetchStatus \notin {"FTQEmpty", "Waiting"} -> "Blocked"
      [] ~stalled /\ fetchStatus \in {"Squashing", "Blocked"} ->
            IF ftq = << >> THEN "FTQEmpty" ELSE "Running"
      [] fetchStatus = "FTQEmpty" /\ ftq # << >> -> "Running"
      [] OTHER -> fetchStatus

FetchCommitSquash ==
    /\ phase = "fetch" /\ commitSquash
    /\ fetchStatus' = "Squashing"
    /\ pc' = fromCommit.pc
    /\ fromFetch' = None
    /\ phase' = "decode"
    /\ UNCHANGED << queue, bac, bpu, fromDecode, fromCommit, backend >>

\* A trap is on its way: fetch does not look at the signals of decode and waits.
FetchTrap ==
    /\ phase = "fetch" /\ commitTrap
    /\ fetchStatus' = "TrapPending"
    /\ fromFetch' = None
    /\ phase' = "decode"
    /\ UNCHANGED << queue, bac, pc, bpu, fromDecode, fromCommit, backend >>

\* Mutant: fetch listens to decode while it is squashing.
hearsDecodeAlways == decodeSquash /\ ~commitSquash /\ ~commitTrap

hearsDecode == decodeSquash /\ ~commitSquash /\ ~commitTrap /\ fetchStatus # "Squashing"

\* Fetch hears of no squash and of no trap.
hearsNothing == ~commitSquash /\ ~commitTrap /\ ~hearsDecode

removeInstsUntil(sn) == SubSeq(insts, 1, NumKept(insts, sn))

FetchDecodeSquash ==
    /\ phase = "fetch" /\ hearsDecode
    /\ LET sig == fromDecode[decodeToFetchDelay]
       IN  /\ pc' = sig.pc
           /\ insts' = removeInstsUntil(sig.sn)
    /\ fetchStatus' = "Squashing"
    /\ fromFetch' = None
    /\ phase' = "decode"
    /\ UNCHANGED << queue, bac, bpu, fromDecode, fromCommit, numDecoded, nextSeq, trapRemaining, draining >>

\* bacResteer, for a queue that is not empty or already invalid.
Resteer(p) == fromFetch' = [pc |-> p] /\ ftqStatus' = "Invalid"

\* "Waiting" stands for all the states in which fetch waits for something else than
\* the queue or a trap (the TLB, the instruction cache, an interrupt); what it waits
\* for may come at any time.
hasAll  == NextFetchStatus = "Running" \/ (fetchStatus = "Waiting" /\ ~stalled)
covered == isHeadReady /\ inRange(Head(ftq), pc.a)

FetchIdle ==
    /\ phase = "fetch" /\ hearsNothing
    /\ \/ NextFetchStatus # "Running" /\ fetchStatus' = NextFetchStatus
       \/ fetchStatus = "Waiting" /\ stalled /\ fetchStatus' = "Blocked"
       \/ hasAll /\ ~isHeadReady /\ fetchStatus' = "FTQEmpty"
       \/ NextFetchStatus = "Running" /\ covered /\ fetchStatus' = "Waiting"
    /\ fromFetch' = None
    /\ phase' = "decode"
    /\ UNCHANGED << queue, bac, pc, bpu, fromDecode, fromCommit, backend >>

\* The PC is outside the head of the queue.
FetchResteer ==
    /\ phase = "fetch" /\ hearsNothing
    /\ hasAll /\ isHeadReady /\ ~covered
    /\ Resteer(pc)
    /\ fetchStatus' = "Running"
    /\ phase' = "decode"
    /\ UNCHANGED << ftq, bac, pc, bpu, fromDecode, fromCommit, backend >>

FetchStart ==
    /\ phase = "fetch" /\ hearsNothing
    /\ hasAll /\ covered
    /\ fetchStatus' = "Running"
    /\ fromFetch' = None
    /\ phase' = "fetching"
    /\ UNCHANGED << queue, bac, pc, bpu, fromDecode, fromCommit, backend >>

\* Mutant: the target is popped with the first micro-op of its last instruction.
ConsumedEarly(ft, nextPC) == pc.a = ft.end \/ ~inRange(ft, nextPC.a)

\* Fetch is through with the fetch target ft when it moves from pc to nextPC.
Consumed(ft, nextPC) == \/ pc.a = ft.end /\ IsLastUop(pc)
                        \/ ~inRange(ft, nextPC.a)

\* Fetch has more micro-ops of the instruction at hand.
InMacroop(nextPC) == nextPC.a = pc.a /\ ~IsLastUop(pc)

\* The rest of an iteration of the fetch loop, with q and status the queue after
\* updatePC: move to nextPC, and leave the fetch target when it is consumed
\* (popHead).  A taken prediction or a bandwidth limit ends the loop; the inner loop
\* still completes a micro-coded instruction (phase "macroop").
EndOfInst(q, status, nextPC, taken) ==
    LET predictedBranch == taken \/ phase = "macroop"
    IN
    /\ pc' = nextPC
    /\ IF ~Consumed(q[1], nextPC)
       THEN /\ ftq' = q /\ ftqStatus' = status
            /\ phase' = IF ~predictedBranch THEN "fetching"
                        ELSE IF InMacroop(nextPC) THEN "macroop" ELSE "decode"
            /\ UNCHANGED fromFetch
       ELSE IF q[1].hist # None \/ status = "Locked"
       THEN /\ ftq' = IF q[1].hist # None THEN q ELSE Tail(q)
            /\ Resteer(nextPC)
            /\ phase' = "decode"
       ELSE /\ ftq' = Tail(q) /\ ftqStatus' = status
            /\ phase' \in IF predictedBranch \/ Tail(q) = << >> THEN {"decode"}
                          ELSE {"decode", "fetching"}
            /\ UNCHANGED fromFetch

inFetchLoop == phase \in {"fetching", "macroop"}

CanFetch(ctl) == inFetchLoop /\ nextSeq <= MaxSeq /\ Uop(pc).ctl = ctl

NewInst(ctl) ==
    /\ insts' = Append(insts, [sn |-> nextSeq, ctl |-> ctl])
    /\ nextSeq' = nextSeq + 1
    /\ UNCHANGED << bac, fromDecode, fromCommit, numDecoded, trapRemaining, draining >>

\* insertPredictorHistory
Insert(id, modified) ==
    predHist' = Append(predHist, [sn |-> nextSeq, id |-> id, modified |-> modified])

FetchPlain ==
    /\ CanFetch(FALSE)
    /\ NewInst(FALSE)
    /\ EndOfInst(ftq, ftqStatus, advancePC(pc), FALSE)
    /\ UNCHANGED << fetchStatus, predHist, specLog >>

\* A quiesce instruction ends the loop before the fetch target is popped.
FetchQuiesce ==
    /\ CanFetch(FALSE)
    /\ NewInst(FALSE)
    /\ pc' = advancePC(pc)
    /\ fetchStatus' = "Waiting"
    /\ phase' = "decode"
    /\ UNCHANGED << queue, predHist, specLog, fromFetch >>

\* updatePreDecode.  The exit branch of the fetch target has its history there.
ExitHist == IF isExitBranch(Head(ftq), pc.a) THEN Head(ftq).hist ELSE None
Matches  == ExitHist # None /\ ExitHist.type = Uop(pc).type

FetchPredicted ==
    /\ CanFetch(TRUE) /\ Matches
    /\ NewInst(TRUE)
    /\ Insert(ExitHist.id, TRUE)
    /\ EndOfInst([ftq EXCEPT ![1].hist = None], ftqStatus,
                 IF ExitHist.taken THEN At(Head(ftq).next) ELSE advancePC(pc), ExitHist.taken)
    /\ UNCHANGED << fetchStatus, specLog >>

\* A branch inside a micro-coded instruction: squash the predictions in the
\* queue, lock it, and predict afresh.
FetchComplex ==
    /\ CanFetch(TRUE) /\ ~Matches /\ ~IsLastUop(pc)
    /\ NewInst(TRUE)
    /\ Insert(NewId, TRUE)
    /\ specLog' = Append(SquashedFTLog(specLog), NewId)
    /\ \E taken \in BOOLEAN, t \in Target :
        EndOfInst(SquashedFTs, "Locked", IF taken THEN At(t) ELSE advancePC(pc), taken)
    /\ UNCHANGED fetchStatus

\* Mutant: no placeholder.
FetchUntracked ==
    /\ CanFetch(TRUE) /\ ~Matches /\ IsLastUop(pc)
    /\ NewInst(TRUE)
    /\ IF ExitHist # None
       THEN /\ specLog' = SquashedFTLog(specLog)
            /\ EndOfInst(SquashedFTs, "Locked", advancePC(pc), FALSE)
       ELSE /\ UNCHANGED specLog
            /\ EndOfInst(ftq, ftqStatus, advancePC(pc), FALSE)
    /\ UNCHANGED << fetchStatus, predHist >>

\* Any other branch without a history gets a placeholder.  If the queue holds a
\* history of another type for it, the queue is squashed and locked.
FetchUnpredicted ==
    /\ CanFetch(TRUE) /\ ~Matches /\ IsLastUop(pc)
    /\ NewInst(TRUE)
    /\ Insert(NewId, FALSE)
    /\ IF ExitHist # None
       THEN /\ specLog' = SquashedFTLog(specLog)
            /\ EndOfInst(SquashedFTs, "Locked", advancePC(pc), FALSE)
       ELSE /\ UNCHANGED specLog
            /\ EndOfInst(ftq, ftqStatus, advancePC(pc), FALSE)
    /\ UNCHANGED fetchStatus

\* The fetch buffer, the fetch queue or the fetch width is exhausted.
FetchStop ==
    /\ inFetchLoop
    /\ phase' = "decode"
    /\ UNCHANGED << queue, bac, fetcher, bpu, wires, backend >>

-----------------------------------------------------------------------------
\* Decode and commit, as far as BAC and fetch hear of them.

Shifted(sig) == [i \in 1 .. decodeToFetchDelay |-> IF i = 1 THEN sig ELSE fromDecode[i - 1]]

\* A squash that fetch has not heard of.  What fetch sends in the meantime is on
\* the wrong path and does not reach decode.
decodePending == \E i \in 1 .. decodeToFetchDelay : fromDecode[i] # None

DecodePass ==
    /\ phase = "decode"
    /\ numDecoded' \in IF decodePending THEN {numDecoded} ELSE numDecoded .. Len(insts)
    /\ fromDecode' = Shifted(None)
    /\ phase' = "commit"
    /\ UNCHANGED << queue, bac, fetcher, bpu, fromFetch, fromCommit, insts, nextSeq, trapRemaining,
                    draining >>

\* A branch whose target decode computes differently.
DecodeSquash ==
    /\ phase = "decode" /\ ~decodePending
    /\ \E n \in numDecoded + 1 .. Len(insts), p \in SquashPC :
        /\ insts[n].ctl
        /\ insts' = SubSeq(insts, 1, n)
        /\ numDecoded' = n
        /\ fromDecode' = Shifted([sn |-> insts[n].sn, pc |-> p])
    /\ phase' = "commit"
    /\ UNCHANGED << queue, bac, fetcher, bpu, fromFetch, fromCommit, nextSeq, trapRemaining, draining >>

\* The instructions that can have been executed: it takes a branch longer to get
\* from decode to commit than it takes decode's squash to get to fetch.
Executed == {n \in 1 .. numDecoded :
                \A i \in 1 .. decodeToFetchDelay :
                    fromDecode[i] # None => fromDecode[i].sn # insts[n].sn}

CommitNothing ==
    /\ phase = "commit" /\ draining # "pending" /\ trapRemaining # 1
    /\ trapRemaining' = IF trapRemaining = 0 THEN 0 ELSE trapRemaining - 1
    /\ draining' = IF draining = "removing" THEN "empty" ELSE draining
    /\ fromCommit' = None
    /\ phase' = "bac"
    /\ UNCHANGED << queue, bac, fetcher, bpu, fromFetch, fromDecode, insts, numDecoded, nextSeq >>

\* The last of the instructions may be the one to drain after, the next one the one
\* to trap (generateTrapEvent); an interrupt is taken as a trap, too.
CommitInsts ==
    /\ phase = "commit" /\ ~stalled /\ trapRemaining = 0
    /\ \E n \in {0} \cup Executed, trap \in BOOLEAN :
        /\ n # 0 \/ trap
        /\ 1 .. n \subseteq Executed
        /\ fromCommit' = [squash |-> FALSE, trapPending |-> trap,
                          sn |-> IF n = 0 THEN 0 ELSE insts[n].sn]
        /\ insts' = SubSeq(insts, n + 1, Len(insts))
        /\ numDecoded' = numDecoded - n
        /\ trapRemaining' = IF trap THEN trapLatency ELSE 0
        /\ draining' \in IF trap THEN {"no"} ELSE {"no", "pending"}
    /\ phase' = "bac"
    /\ UNCHANGED << queue, bac, fetcher, bpu, fromFetch, fromDecode, nextSeq >>

\* Or any number from there up to the oldest instruction: it makes no difference.
lastCommittedSeq == IF insts # << >> THEN insts[1].sn - 1 ELSE nextSeq - 1

\* A mispredicted branch, which stays, or (mispredict = FALSE) an order violation or
\* a squash of everything (squashAll), which a trap ends with.
CommitSquash ==
    /\ phase = "commit" /\ ~stalled /\ trapRemaining <= 1
    /\ \E n \in {0} \cup Executed, mispredict \in BOOLEAN, p \in SquashPC :
        /\ mispredict => n # 0 /\ insts[n].ctl
        /\ trapRemaining = 1 => n = 0
        /\ insts' = SubSeq(insts, 1, n)
        /\ numDecoded' = n
        /\ fromCommit' = [squash |-> TRUE, mispredict |-> mispredict, pc |-> p,
                          sn |-> IF n = 0 THEN lastCommittedSeq ELSE insts[n].sn]
    /\ trapRemaining' = 0
    /\ phase' = "bac"
    /\ UNCHANGED << queue, bac, fetcher, bpu, fromFetch, fromDecode, nextSeq, draining >>

\* squashAfter, in the cycle after the last instruction before the drain.
CommitSquashAfter ==
    /\ phase = "commit" /\ draining = "pending"
    /\ insts' = << >> /\ numDecoded' = 0
    /\ \E a \in Target :
        fromCommit' = [squash |-> TRUE, mispredict |-> FALSE, pc |-> At(a), sn |-> lastCommittedSeq]
    /\ draining' = IF insts = << >> THEN "empty" ELSE "removing"
    /\ phase' = "bac"
    /\ UNCHANGED << queue, bac, fetcher, bpu, fromFetch, fromDecode, nextSeq, trapRemaining >>

\* The system resumes after a drain, which drops what is on the wires.
DrainResume ==
    /\ isCpuDrained
    /\ draining' = "no"
    /\ fromFetch' = None /\ fromCommit' = None
    /\ fromDecode' = [i \in 1..decodeToFetchDelay |-> None]
    /\ UNCHANGED << phase, queue, bac, fetcher, bpu, insts, numDecoded, nextSeq, trapRemaining >>

-----------------------------------------------------------------------------
Init ==
    /\ phase = "bac"
    /\ ftq = << >> /\ ftqStatus = "Valid"
    /\ bacStatus = "Running" /\ bacPC = 0 /\ branchPredictRemaining = 0
    /\ fetchStatus = "Running" /\ pc = At(0)
    /\ fromFetch = None /\ fromCommit = None
    /\ fromDecode = [i \in 1 .. decodeToFetchDelay |-> None]
    /\ predHist = << >> /\ specLog = << >>
    /\ insts = << >> /\ numDecoded = 0 /\ nextSeq = 1 /\ trapRemaining = 0
    /\ draining = "no"

Bac     == BacCommitSquash \/ BacDecodeSquash \/ BacFetchSquash \/ BacDrain \/ BacRun
             \/ BacOverride \/ GenerateFallThrough \/ GenerateBranch
Fetch   == FetchCommitSquash \/ FetchTrap \/ FetchDecodeSquash \/ FetchIdle \/ FetchResteer \/ FetchStart
             \/ FetchPlain \/ FetchQuiesce \/ FetchPredicted \/ FetchComplex
             \/ FetchUnpredicted \/ FetchStop
Decode  == DecodePass \/ DecodeSquash
Commit  == CommitNothing \/ CommitInsts \/ CommitSquash \/ CommitSquashAfter

Next == Bac \/ Fetch \/ Decode \/ Commit \/ DrainResume

\* The clock never stops.
Spec == Init /\ [][Next]_vars /\ WF_vars(Next)

-----------------------------------------------------------------------------
FetchTarget == [start : Addr, end : Addr, branch : BOOLEAN, taken : BOOLEAN, next : Addr,
                hist : {None} \cup [id : HistId, type : STRING, taken : BOOLEAN]]
History     == [sn : SeqNum, id : HistId, modified : BOOLEAN]

\* Every variable has its type; the queue keeps within numFTQEntries (ftq.cc).
TypeOK ==
    /\ phase \in {"bac", "generate", "override", "fetch", "fetching", "macroop",
                 "decode", "commit"}
    /\ ftq \in Seq(FetchTarget) /\ Len(ftq) <= numFTQEntries
    /\ ftqStatus \in {"Valid", "Invalid", "Locked"}
    /\ bacStatus \in {"Idle", "Running", "Squashing", "FTQFull", "FTQLocked", "Overriding"}
    /\ bacPC \in Addr /\ branchPredictRemaining \in 0 .. maxLatency
    /\ fetchStatus \in {"Running", "Squashing", "Blocked", "FTQEmpty", "Waiting", "TrapPending"}
    /\ pc \in PCs
    /\ fromFetch \in {None} \cup [pc : PCs]
    /\ fromDecode \in [1 .. decodeToFetchDelay -> {None} \cup [sn : SeqNum, pc : PCs]]
    /\ fromCommit \in {None} \cup [squash : {FALSE}, trapPending : BOOLEAN, sn : 0 .. MaxSeq]
                         \cup [squash : {TRUE}, mispredict : BOOLEAN, pc : PCs, sn : 0 .. MaxSeq]
    /\ predHist \in Seq(History)
    /\ specLog \in Seq(HistId)
    /\ insts \in Seq([sn : SeqNum, ctl : BOOLEAN]) /\ numDecoded \in 0 .. Len(insts)
    /\ nextSeq \in 1 .. MaxSeq + 1 /\ trapRemaining \in 0 .. trapLatency
    /\ draining \in {"no", "pending", "removing", "empty"}

\* The log holds the updates of the histories in hs that made one, then those of the
\* histories in the queue q, each at its rank, and nothing else.
InForce(log, hs, q) ==
    /\ Len(log) = Modified(hs, DOMAIN hs) + Cardinality(FTHist(q))
    /\ \A i \in DOMAIN hs : hs[i].modified => log[Modified(hs, 1 .. i)] = hs[i].id
    /\ \A i \in FTHist(q) :
          log[Modified(hs, DOMAIN hs) + Cardinality(FTHist(q) \cap 1 .. i)] = q[i].hist.id

\* The speculative state of the predictors is that of the branches in flight, in
\* program order: whichever squashes, resteers, commits and drains coincide, no
\* history is dropped without being undone, undone twice, or undone out of order
\* (bac.cc squashBpuHistories before ftq->squash; ftq.cc asserts that bpu_history
\* is null when a target goes).
HistoriesAreUndone == InForce(specLog, predHist, ftq)

\* FTQ::insert asserts that the queue is not full, and neither
\* generateFetchTargets nor generateOverrideFetchTargets tests it first: they rely
\* on the status that checkSignalsAndUpdate has given BAC at the start of the cycle.
InsertHasRoom == phase \in {"generate", "override"} => Len(ftq) < numFTQEntries

\* In the fetch loop the instruction being fetched is inside the head of the queue,
\* as fetch.cc and updatePreDecode assert, also after the loop has gone on to the
\* next fetch target without testing its range again.
FetchInTarget == inFetchLoop => covered

\* The branch that squash(squashed_sn, ...) corrects, if there is a history left.
Corrected(hs, sn) == LET kept == KeptHist(hs, sn)
                     IN  IF kept = << >> THEN {} ELSE {kept[Len(kept)].sn}

\* BPredUnit::squash corrects the branch that was mispredicted, as bpred_unit.hh
\* says, though it takes whatever history is the youngest that is left.  (Decode may
\* ask for a branch whose history is gone, which does no harm.)
CorrectsItsBranch ==
    /\ phase = "bac" /\ commitSquash /\ fromCommit.mispredict =>
         Corrected(predHist, fromCommit.sn) = {fromCommit.sn}
    /\ phase = "bac" /\ ~commitSquash /\ decodeSquash =>
         LET sn == fromDecode[decodeToFetchDelay].sn
         IN  Corrected(CommittedHist, sn) \subseteq {sn}

\* Fetch never obeys a squash of decode that a squash of commit has overtaken: the
\* branch is still in the instruction list, in which removeInstsUntil looks for it.
DecodeSquashIsFresh ==
    phase = "fetch" /\ hearsDecode =>
        \E i \in DOMAIN insts : insts[i].sn = fromDecode[decodeToFetchDelay].sn

\* Once BAC has heard the signals of the cycle, predHist has one history for each
\* branch in flight, predicted or not, in program order, and none for anything else:
\* what update, squash and updatePreDecode do to it keeps pace with the pipeline.
EveryBranchTracked ==
    phase = "fetch" /\ ~decodePending =>
        /\ {predHist[i].sn : i \in DOMAIN predHist}
             = {insts[i].sn : i \in {j \in DOMAIN insts : insts[j].ctl}}
        /\ \A i, j \in DOMAIN predHist : i < j => predHist[i].sn < predHist[j].sn

\* When the CPU is drained no prediction is outstanding (drainSanityCheck of BAC and
\* of BPredUnit): the squash before the drain has reached BAC, or there was nothing
\* left for it to undo.
DrainedIsClean == isCpuDrained => predHist = << >> /\ specLog = << >>

\* A queue that fetch has invalidated is filled again: the resteer reaches BAC, or a
\* squash that overtakes it does as well.
InvalidRecovers == ftqStatus = "Invalid" ~> ftqStatus = "Valid"

\* Fetch does not starve: when it waits for the queue, either it is squashed or the
\* queue comes to hold what it has to fetch (bacResteer corrects BAC if need be).
FetchIsFed == fetchStatus = "FTQEmpty" ~> fetchStatus = "Squashing" \/ covered

\* A drain that commit has begun comes to its end, in whatever state it finds BAC,
\* the queue and fetch.
DrainEnds == stalled ~> isCpuDrained
=============================================================================
