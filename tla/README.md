# BTB-Ferret: a TLA+ verification project

The repository is a modified gem5 whose out-of-order CPU has a decoupled front
end. Its contribution is a multi-level branch target buffer (BTB) with a
prefetcher, BTB-Ferret, that moves BTB entries from the L2 (or L3) BTB into a
small prefetch buffer ahead of their use. The modules here model that BTB, the
decoupled front end that drives it (branch address calculation, fetch target
queue, fetch, and the squashes of decode and commit), and the return address
stack; check them with TLC on small instances; and prove the main invariants
with TLAPS.

Paths below are relative to `src/gem5/src/`.

## The system

| Part | Code | State | Operations |
|---|---|---|---|
| MultiLevelBTB + Ferret | `cpu/pred/multilevel_btb.*` | L1/L2/L3 levels, prefetch buffer, deferred queue, chain table, `prevBlockInfo`, `prevBwBranch`, demand set | `valid`, `lookupWithLatency`, `update`, `trainPrefetchBitsOnCommit`, `memInvalidate`, `processDeferredPrefetchQueue` |
| BTB storage | `base/cache/associative_cache.hh`, `cpu/pred/btb_entry.hh` | ways with tag, target, two prefetch bits, prefetch flags | find, victim, insert, update, invalidate |
| BPredUnit | `cpu/pred/bpred_unit.*` | `predHist`, `bbMap`, the predictors | `predict`, `squash`, `update`/`commitBranch`, `updateBTB` |
| RAS | `cpu/pred/ras.*` | circular stack, `tos`, `usedEntries`, histories | push, pop, squash, commit |
| BAC | `cpu/o3/bac.*` | stage status, PC, pending override | generate fetch targets, override, pre-decode update, squash |
| FTQ | `cpu/o3/ftq.*` | queue, Valid/Locked/Invalid | insert, readHead, popHead, lock, invalidate, squash |
| Fetch | `cpu/o3/fetch.cc` | stage status, PC, fetch loop | squash, trap, drain, resteer, fetch an instruction |
| Decode, commit | `cpu/o3/decode.cc`, `commit.cc`, `cpu.cc` | instruction list, signals to BAC and fetch | squash, commit, trap, drain |
| Markov prefetcher, compressed tags | `multilevel_btb.cc` 825-988, 1537-1621 | successor table, tag copies | train, prefetch, sync |

Interaction: BAC asks BPredUnit's `bbMap` for the branch that ends the block at
the current PC, tests it with `valid`, and predicts it. The prediction calls
`lookupWithLatency`, which moves the entry into the L1, may write an L1 victim
back to L2 and L3, and may *trigger* a prefetch: it queues the branch that ends
the target block, the fall-through block or both, for a later cycle, under a new
chain id. Once per cycle `pfqEvent` (priority one below the CPU tick) takes the
entries whose time has come, checks their chain in a small direct-mapped table,
copies their BTB entry into the prefetch buffer and queues the next blocks of
the chain. Squashes and commits write targets into the L1 and train the
prefetch bits.

BAC puts what it predicts into the FTQ as fetch targets, each with the
prediction history of its exit branch. Fetch consumes the head: the history
moves to `predHist` when fetch meets the branch. Where fetch and the queue
disagree, fetch *resteers* BAC. Decode and commit find mispredictions and send
squashes back over wires with delays; every stage that holds histories must then
undo them, youngest first, because predictors and return address stack are
updated speculatively and in place.

What is hard in the BTB: chains share slots that are stolen while entries of the old chain
wait; the ready entries of an event are taken out of the queue before the loop
that changes both; times of several chains mix in one sorted queue; the same
branch lives in up to four places at once; unsigned subtractions rest on timing
arguments. In the front end: five sources of redirection (commit, decode, fetch,
the pre-decode check, the drain) meet in any combination, each stage applies a
different one first, and the same signal is heard by two stages that decide by
themselves whether to obey it. `PROJECT.json` lists the hazards one by one, at their lines.

## Modules

| Module | Models |
|---|---|
| `BTBLevels` | one associative level and `freeUpL1Entry`, as operators returning the set of possible outcomes |
| `MultiLevelBTB` | the BTB, the prefetcher, and BPredUnit's calls; one action per handler |
| `AbstractBTB` | what the interface in `btb.hh` promises of each call: a forgetful map |
| `FrontEnd` | BAC, FTQ, fetch, the histories of BPredUnit, and decode and commit as sources of signals, composed cycle by cycle |
| `ReturnAddrStack` | the return address stack under prediction, squash, correction and commit |
| `MCFerret`, `MCFrontEnd` | the instances for TLC |
| `MultiLevelBTBProofs` | of the BTB: lemmas on levels, queue, prediction and prefetch event, and on its types |
| `BTBMapProofs` | types, accounts of the prefetch buffer, no panic, refinement of `AbstractBTB` |
| `BTBPrefetchProofs` | prefetches are issued on time, chains keep to their budget, their samples are exact |
| `ReturnAddrStackProofs` | types, the top of stack does not drift, and the stack holds the open calls |
| `FrontEndParts` | terms that the proofs about `FrontEnd` share (definitions only) |
| `FrontEndLogProofs` | the log of speculative updates is that of the histories |
| `FrontEndFlowProofs` | the instructions in flight, the signals about them, and the histories still wanted |
| `FrontEndQueueProofs` | the fetch target queue, and the histories of the branches in flight |
| `FrontEndProofs` | the inductive invariant of the front end and its theorems |

### State and actions of MultiLevelBTB

A cycle has two phases. In phase `cpu` any number of predictions, squashes and
commits happen in any order. `BeginEvent` starts the handler of `pfqEvent`,
`ProcessEntry` is one iteration of its loop, `EndEvent` ends the cycle. No CPU
action runs in phase `event`: gem5 is sequential and the event has a priority of
its own.

* `LookupL1Hit`, `LookupPBHit`, `LookupL2Hit`, `LookupL3Hit` are
  `lookupWithLatency` followed by the handler of the level that hits. Each is
  the whole call: training on lookup, demand record, migration with write-back,
  trigger. The direction predicted is free for conditional branches.
* `SquashUpdate`, `CommitUpdate`, `CommitTrain` are the BTB side of
  `BPredUnit::squash` and `commitBranch`. They need no earlier lookup: a branch
  may be met by the decoder first.
* `MemInvalidate` is `memInvalidate`.
* `DropEntry`, `SkipForDemand`, `SkipForPresence`, `SkipForMiss`,
  `IssuePrefetch` are the ways through the loop body of
  `processDeferredPrefetchQueue`.

Abstractions: a level is a function from branches to entries (which way holds an
entry does not matter); the victim in a full set is any of its entries, because
the replacement policy is a parameter; the two prefetch bits are a set of paths;
times are relative to the current cycle; an entry in the prefetch buffer keeps
how many cycles away it is. `prevBwBranch` is uninitialised in the code and
arbitrary in `Init`. There is one thread. `pbStale`, `owed`, `issued` and
`lastSample` record what the statistics of the code count: `owed` is
`totalPrefetches - prefetchHits - uselessPrefetches`, per set of the buffer.

### State and actions of FrontEnd

`phase` says whose tick comes next; a cycle goes BAC, fetch, decode, commit as in
`CPU::tick`, and the loops of BAC and fetch are one step per iteration
(`generate`, `fetching`; `macroop` is the inner loop that completes a micro-coded
instruction after a taken branch).

* `BacCommitSquash`, `BacDecodeSquash`, `BacFetchSquash`, `BacDrain`, `BacRun`
  are the ways through `checkSignalsAndUpdate`, in its order of priority;
  `NextBacStatus` is its status machine. `GenerateBranch`,
  `GenerateFallThrough` are iterations of `generateFetchTargets`; `BacOverride`
  is `generateOverrideFetchTargets`.
* `FetchCommitSquash`, `FetchTrap`, `FetchDecodeSquash`, `FetchIdle`,
  `FetchResteer`, `FetchStart` are `checkSignalsAndUpdate` and the head of
  `fetch`. `FetchPlain`, `FetchQuiesce`, `FetchPredicted`, `FetchComplex`,
  `FetchUnpredicted` fetch an instruction, with `updatePreDecode` and `updatePC`
  of BAC and `popHead` of the queue (`EndOfInst`). `FetchStop` is a bandwidth
  limit or the end of the fetch buffer.
* `DecodePass`, `DecodeSquash`, `CommitNothing`, `CommitInsts`, `CommitSquash`,
  `CommitSquashAfter`, `DrainResume` are what the front end hears of the rest:
  `fromDecode` is a delay line of `decodeToFetchDelay` cycles.

`specLog` stands for all speculative predictor state: the order in which
histories have updated it. A predictor undoes an update by restoring what the
history saved, which is right only for the youngest, so undoing removes the last
entry of the log whichever history asks for it; `HistoriesAreUndone` says that it
is always the one that asks. Over-approximations: BTB and predictors answer
anything (partial tags alias, so a hit may claim a branch where there is none);
a wait of fetch for the TLB, the cache or an interrupt ends at any time; a trap
or a drain may follow any commit. Addresses count instructions and wrap around.
The model follows the build with `FALSE_PATH_MODELLING`, whose false-path targets
the queue drops after its assertion.

### State and actions of ReturnAddrStack

The ring, `tos` and one record per branch in flight. `PredictCall`,
`PredictReturn`, `PredictOther` are the RAS part of `predict` and of the
placeholder; `SquashYoungest`, `CorrectTaken`, `CorrectNotTaken`, `CommitOldest`
that of `squashHistory`, `squash` and `commitBranch`. `callStack` and
`committedTos` record what the committed program has called, and which of those
entries a push on a full ring has overwritten. Calls and returns are
unconditional, as on AArch64: a conditional call (AArch32) would push the stack
even when it is not taken.

## What TLC checks

The runs of `MCFerret`: three fetch targets, three branches (a forward branch,
a call and a loop branch, a return or an indirect branch), single-set levels
with one to three ways. An L1 and a prefetch buffer of one way each make every
install an eviction, three branches suffice to have a victim, a newcomer and a
bystander, and one chain slot makes two chains collide. `prefetchDepth = 2`
gives a chain an inner step and a last one. `MaxChains` (1 or 2) bounds the
triggers of a behaviour; `UIntRange` (2^32 in the code) is 65536, larger than
any depth, which is all the wrap-around needs.

The runs of `MCFrontEnd`: three instructions (a branch, a plain one, one of two
micro-ops of which the first is a branch), a queue of two, overriding latency up
to one. Two entries are what it takes for the queue to be full, empty or left
with a younger history behind a squashed head. `MaxSeq` bounds the instructions
fetched: two in `frontend` give an older and a younger branch, so that a
correction can hit the wrong one; one in `resync`, where the liveness properties
need the whole graph. There any number of squashes, resteers and traps follow, but
a drain starts at most once, when the only instruction has committed: with nothing
in flight and no decode squash on the wires. Drains that meet a younger instruction
are in `frontend`, and all drains in `DrainLeavesNothing` below, both for safety
only. After the last instruction fetch stops at a bandwidth limit in every cycle. `trapLatency = 2` leaves a cycle between the trap and its squash. `ras`
uses a ring of three, two addresses and four branches in flight, so that pushes
wrap around and are undone.

| Run | Configuration | Checked | States |
|---|---|---|---|
| `ferret` | new prefetch bits, commit training, two levels | types, chain budget, exhaustion, timing, covered cycles, accounting, samples | 152k |
| `both_paths` | old prefetch bits, lookup training: triggers of two paths | the same without types and samples; every chain dies out (with fairness) | 169k |
| `three_level` | L3, loop-exit triggers, indirect alternation, update at commit | covered cycles, accounting | 625k |
| `baseline` | no prefetch policy, nonexclusive, three levels | no panic after `valid`, refinement of the map | 10k |
| `exclusive` | no prefetch policy, exclusive, three levels | refinement of the map | 33k |
| `untracked` | empty chain table, no prefetch latency | `chainEntry` never null where written | 153k |
| `ras` | ring of 3, 4 branches in flight | types, top of stack follows commit, open calls are held | 763k |
| `frontend` | block lookup, equal delays | types, histories undone, room for inserts, PC inside the target, the right branch corrected, one history per branch in flight, drained is clean | 2.97M |
| `resync` | scanning lookup, decode one cycle slower | histories undone, fetch obeys no stale squash, drained is clean; an invalid queue recovers, fetch is fed, drains end (with fairness) | 258k |

`ImplementsMap` is more than `AbstractBTB!AbsSpec`. The state does not record which
call was made, so `AbsSpec` alone would take a lookup that brings back one old
target for an update with it. `CallStep` therefore names the call of each step: only
`SquashUpdate` and `CommitUpdate` may store a target, the one they are called with
and for their own branch.

`SampleIsExact` is checked (and proved) where all chains have one depth. It does not
cover `depthOnlyCall`, where the sample is wrong (see below).

Deadlock is checked in all of them.

Fairness in `MultiLevelBTB`: only `WF_vars(Event)`. `pfqEvent` is scheduled in `startup` and
reschedules itself for the next cycle unconditionally, and its handler is a
finite loop, so the simulator always comes to it. Nothing is assumed of lookups,
squashes or commits. In `FrontEnd`: `WF_vars(Next)`, that is, the clock goes on
(the tick event reschedules itself while the CPU is active). Which step it takes
is never forced: fetch may wait and decode and commit may do nothing for ever, and
the liveness properties hold all the same.

### Where code and text disagree

Each of these runs is expected to end in a violation; the texts are quoted in
`PROJECT.json`.

* `late_index`: with an L3 latency of 8 the index of the late-prefetch vectors
  leaves their five elements. 8 is the default of the run scripts
  (`cpu_configs.py` 235, `arguments.py` 369); the default of the SimObject, 3
  (`BranchPredictor.py` 210), keeps it inside.
* `stale_buffer`: `update` leaves the copy in the prefetch buffer, which answers
  with the old target once the L1 entry is evicted. The refinement of the map
  therefore holds without a prefetch policy only.
* `stale_squash`: with the delays of the evaluated configuration
  (`decodeToFetchDelay = 2`, `commitToFetchDelay = 1`) decode and commit squash
  in the same cycle; BAC hears decode a cycle after commit has removed decode's
  branch, and `BPredUnit::squash` corrects another branch. Fetch ignores the same
  signal. It is a wrong training of one branch and a detour of BAC, not a
  corruption: with the constants of `StaleSquash.cfg` the three invariants of
  `resync` still hold (3.9M states), `HistoriesAreUndone` among them.

Three smaller ones met in `multilevel_btb.cc` are not runs: with `depthOnlyCall`
the sample of `prefetchesPerTrigger` is computed with the depth of the wrong
chain (1471); a chain with entries in `readyEntries` is taken for dead when its
end reason is counted (1231); the "inclusive" L3 loses branches that the L2 holds
(1193).

## What is proved

The theorems hold for every program, geometry and parameter setting, under the
assumptions named in the modules: branches are finitely many addresses, a block
starts at or before its branch, every level has a way, latencies are naturals,
the depth is at least one; ring and queue have a slot, delays are at least one
cycle. `MaxChains`, `MaxHist` and `MaxSeq` are any naturals.

### The BTB

* `TypeCorrect`: `Spec => []TypeOK`. Inductive as it stands, with lemmas on what
  `FreeUpL1Entry` and `PrefetchPaths` return.
* `PrefetchesAccounted`: `EveryPrefetchAccounted` is inductive relative to the
  types. The argument is about cardinalities: the four ways in which the code
  changes the buffer (a hit, a prefetch over a free or an occupied way,
  `memInvalidate`) each move one prefetch between the sum and the ways of its set.
* `LookupsNeverPanic`: from `UsesPrefetchBitPolicy \/ Quiet`. With a policy the
  lookup searches what `valid` searches. Without one, `Quiet` says that there is
  nothing in the prefetch buffer; this alone is not inductive, since an L1 hit may
  trigger by its bits whatever the policy, so `Quiet` adds that no entry of any
  level has a bit and that nothing is queued.
* `BehavesAsMap`: `~UsesPrefetchBitPolicy` implies `Spec => ImplementsMap`, the
  refinement of `AbstractBTB` call by call, for any geometry, exclusive or not.
  Initial states map to `AbsInit`; under `Quiet` an update of a branch with a target
  maps to `AbsUpdate` of that branch and target, a lookup to `AbsLookup` of the
  branch it hits, `memInvalidate` to `AbsInvalidate`, and training and the prefetch
  event to a stutter. The core is what `FreeUpL1Entry` and a promotion may return: what each
  branch is served afterwards is what it was served before, or nothing. That the
  assumption is needed is what `stale_buffer` shows.
* `OnTime` and `CoveredCycleSafe`: from `TimeInv`. `IssuedOnTime` is not
  inductive: that the ready prefix contains every entry whose time has come
  needs the queue to be sorted, so `TimeInv` adds it, and that `ready` is empty
  in phase `cpu`. An entry handled at its time arrives exactly the latency of
  its level later, which gives `CoveredCycleDefined`.
* `BudgetKeptForever`, `ExhaustionFinal`, `ChainEntrySafe`: from `ChainInv`. The
  bound on `issued` alone says nothing about prefetches still to come: the slot
  of a chain may be lost and allocated again by a second allocating entry. The
  invariant is that what a chain has issued, what its slot still allows, and a
  full depth for each allocating entry still waiting (one per path) sum to at
  most the budget. It needs that two waiting allocating entries of a chain are
  for different paths, and that ids of waiting entries are below `nextChainId`.
* `SamplesExact`: `SampleIsExact` for `newPBits` and without `depthOnlyCall`, from
  `Exact`. A slot and its chain add up to the full depth, and every allocating
  entry carries it; `ChainInv` gives that a chain whose first entry still waits has
  issued nothing, so the slot it takes starts from zero. Without `newPBits` a chain
  may allocate its slot twice, with `depthOnlyCall` the depths differ: the sample is
  then wrong, as said above.

### The return address stack

* `TypeCorrect`, and `TosNeverDrifts`: `Spec => []TosFollowsCommit`.
  The chain of tops of stack through the branches in flight is the inductive
  invariant, together with the types and which branches may push or pop; the
  arithmetic is that `incrTos` and `decrTos` are inverse on a ring of any size.
* `StackHoldsOpenCalls`: `Spec => []HoldsOpenCalls`, from `HoldsInv`. The property
  looks at the stack of open calls after the youngest branch only, and an undone
  branch brings back an older stack of which it says nothing. `HoldsInv` says that
  there is a chain `f` of stacks, `f[i]` the one after the i-th branch in flight:
  each follows from the one before (`Opens`), older calls are below younger ones
  (`Ordered`), a call that is still open is in the same place in every stack since
  its own branch (`Remembered`), a return has saved the entry of the call it
  closed or that entry is lost (`Saved`), and whatever is deeper than the ring is
  lost (`Deep`); the ring holds the last stack. Each action gives the next chain
  explicitly: a prediction extends it, a squash cuts its end off, a commit its
  start, renumbering the owners, and an overwritten entry only turns into a lost
  one. So no induction over the branches is needed, except for the chain being
  the one `SpecOwners` computes, which a least index of difference gives. On the
  ring, a push overwrites exactly the entry `numEntries` below its own, and
  undoing a pop writes the saved entry back where the call it closed had it.

### The front end

* `RoomForEveryInsert`: from `Room`. `NextBacStatus` tests for a full queue only
  after the branches that leave Squashing and FTQLocked, so `Room` adds that a
  squashing BAC has an empty queue and that a locked BAC never finds the queue
  valid again without a squash.
* `TypeCorrect`, `HistoriesUndone`, `FetchStaysInTarget`, `DrainLeavesNothing`: from
  `IInv`, for every program and all sizes, latencies and delays. None of its parts
  is inductive alone. `BpuOK` holds the log to the histories (`InForce`): an update
  has a rank, the number of histories up to its own that made one, and each way of
  dropping, moving or appending histories keeps every rank; this is counting with
  finite sets in place of an induction over the log. `BackOK` orders the
  instructions in flight and the signals about them. `Targets` says that each fetch
  target ends where the next one starts, or the last one where BAC goes on, so that
  fetch finds itself inside the next head after popping one. `NoExtra` says that a history
  belongs to a branch in flight or a signal that will remove it is on its way,
  `Heard` that BAC has obeyed the squash of decode that fetch is about to hear, and
  `Drains` that nothing is fetched while commit drains.
* `ObeyedSquashIsFresh`: `DecodeSquashIsFresh` for `decodeToFetchDelay <= 2`, the
  value of the evaluated configuration. A squash of commit removes the branch of a
  signal of decode that is at most one cycle older, and fetch is then still
  squashing when the signal arrives.
* `SquashCorrectsItsBranch` and `BranchesTracked`: `CorrectsItsBranch` and
  `EveryBranchTracked` for `decodeToFetchDelay = 1`, from `Tracked`, the second with
  `NoExtra`. The properties look at one moment of a cycle; the invariant says
  in every phase how far `predHist` is behind the instruction list: sequence
  numbers increase in both, every branch in flight has its history, and the
  signals on the wires name instructions whose histories are still there. That
  the assumption on the delay is needed is what `stale_squash` shows.

### Only model-checked

The four liveness properties (`ChainsEnd`, `InvalidRecovers`, `FetchIsFed`,
`DrainEnds`), which are outside the prover's reach.

## Not modelled

* The Markov prefetcher, an alternative baseline that no evaluated BTB-Ferret
  configuration turns on, and the compressed tag filter, an approximate presence
  test that only differs from the exact one for partial tags that alias. Both
  would share the prefetch buffer of `MultiLevelBTB`.
* The coupled front end, several threads, thread start and exit.
* The content of the false-path targets of an overriding prediction, and the
  panic of a prediction for a micro-coded branch that the BTB does not hold
  (`bac.cc` 1041): the evaluated build is Arm, whose 64-bit code has no branches
  inside micro-coded instructions.
* The instruction cache, the TLB and the fetch buffer, which are waits here;
  rename, issue and execution, which are a free choice of what has been executed.
* The numeric predictors (TAGE, ITTAGE), whose results are free here; `SimpleBTB`;
  the cache prefetcher `fdp.cc`, which changes no front-end state; the rest of
  gem5; configurations and scripts, which only give parameters.
* `usedEntries` of the return address stack, which only debug output reads.
