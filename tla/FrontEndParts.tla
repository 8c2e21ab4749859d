-------------------------- MODULE FrontEndParts -----------------------------
(* The terms that the proofs about the front end share: lists in program order, *)
(* and the two halves of the type invariant.                                    *)
EXTENDS FrontEnd

IsSeq(q) == \E S : q \in Seq(S)

\* Lists in program order, all older than b.
InOrder(s, b) == /\ \A i, j \in 1 .. Len(s) : i < j => s[i].sn < s[j].sn
                 /\ \A i \in 1 .. Len(s) : s[i].sn < b

\* What BAC and fetch keep.
FrontTypes ==
    /\ phase \in {"bac", "generate", "override", "fetch", "fetching", "macroop",
                 "decode", "commit"}
    /\ ftqStatus \in {"Valid", "Invalid", "Locked"}
    /\ bacStatus \in {"Idle", "Running", "Squashing", "FTQFull", "FTQLocked", "Overriding"}
    /\ bacPC \in Addr /\ branchPredictRemaining \in 0 .. maxLatency
    /\ fetchStatus \in {"Running", "Squashing", "Blocked", "FTQEmpty", "Waiting", "TrapPending"}
    /\ pc \in PCs
    /\ fromFetch \in {None} \cup [pc : PCs]

\* The signals, and what the later stages keep.
BackTypes ==
    /\ fromDecode \in [1 .. decodeToFetchDelay -> {None} \cup [sn : SeqNum, pc : PCs]]
    /\ fromCommit \in {None} \cup [squash : {FALSE}, trapPending : BOOLEAN, sn : 0 .. MaxSeq]
                         \cup [squash : {TRUE}, mispredict : BOOLEAN, pc : PCs, sn : 0 .. MaxSeq]
    /\ insts \in Seq([sn : SeqNum, ctl : BOOLEAN]) /\ numDecoded \in 0 .. Len(insts)
    /\ nextSeq \in 1 .. MaxSeq + 1 /\ trapRemaining \in 0 .. trapLatency
    /\ draining \in {"no", "pending", "removing", "empty"}
=============================================================================
