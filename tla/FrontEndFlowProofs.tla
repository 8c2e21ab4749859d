------------------------- MODULE FrontEndFlowProofs -------------------------
(***************************************************************************)
(* What holds of the front end cycle by cycle, for every queue and program: *)
(* the instructions in flight, the signals of decode and commit about them, *)
(* and the histories of the BPredUnit for them.                             *)
(***************************************************************************)
EXTENDS FrontEndParts, SequenceTheorems, WellFoundedInduction, TLAPS

-----------------------------------------------------------------------------
(* Sequences, where a list of instructions is cut, and the program. *)

LEMMA FlowEmptyIsSeq == IsSeq(<< >>) /\ Len(<< >>) = 0
<1>1. << >> \in Seq({}) /\ Len(<< >>) = 0
  BY EmptySeq
<1> QED BY <1>1 DEF IsSeq

LEMMA FlowLeastNat ==
    ASSUME NEW T, T \subseteq Nat, T # {}
    PROVE  \E m \in T : \A k \in T : m <= k
<1>1. IsWellFoundedOn(OpToRel(<, Nat), Nat)
  BY NatLessThanWellFounded, Zenon
<1>2. \E x \in T : \A y \in T : ~(<< y, x >> \in OpToRel(<, Nat))
  BY <1>1, WFMin, Zenon
<1>3. PICK x \in T : \A y \in T : ~(y < x)
  BY <1>2, Zenon DEF OpToRel
<1> QED BY <1>3

LEMMA FlowPrefix ==
    ASSUME NEW S, NEW s \in Seq(S), NEW n \in 0 .. Len(s)
    PROVE  /\ SubSeq(s, 1, n) \in Seq(S) /\ Len(SubSeq(s, 1, n)) = n
           /\ \A i \in 1 .. n : SubSeq(s, 1, n)[i] = s[i]
<1>1. Len(s) \in Nat /\ \A i \in 1 .. n : s[i] \in S
  OBVIOUS
<1>2. /\ SubSeq(s, 1, n) \in Seq(S)
      /\ Len(SubSeq(s, 1, n)) = IF 1 <= n THEN n - 1 + 1 ELSE 0
      /\ \A i \in 1 .. n - 1 + 1 : SubSeq(s, 1, n)[i] = s[1 + i - 1]
  BY <1>1, SubSeqProperties
<1> QED BY <1>1, <1>2

LEMMA FlowSuffix ==
    ASSUME NEW S, NEW s \in Seq(S), NEW n \in 0 .. Len(s)
    PROVE  /\ SubSeq(s, n + 1, Len(s)) \in Seq(S) /\ Len(SubSeq(s, n + 1, Len(s))) = Len(s) - n
           /\ \A i \in 1 .. Len(s) - n : SubSeq(s, n + 1, Len(s))[i] = s[n + i]
<1>1. Len(s) \in Nat /\ \A i \in n + 1 .. Len(s) : s[i] \in S
  OBVIOUS
<1>2. /\ SubSeq(s, n + 1, Len(s)) \in Seq(S)
      /\ Len(SubSeq(s, n + 1, Len(s))) = IF n + 1 <= Len(s) THEN Len(s) - (n + 1) + 1 ELSE 0
      /\ \A i \in 1 .. Len(s) - (n + 1) + 1 :
            SubSeq(s, n + 1, Len(s))[i] = s[(n + 1) + i - 1]
  BY <1>1, SubSeqProperties
<1> QED BY <1>1, <1>2

LEMMA FlowKeptExists ==
    ASSUME NEW s, Len(s) \in Nat, \A i \in 1 .. Len(s) : s[i].sn \in Nat, NEW sn \in Int
    PROVE  \E n \in 0 .. Len(s) : /\ n > 0 => s[n].sn <= sn
                                 /\ \A i \in n + 1 .. Len(s) : s[i].sn > sn
<1> DEFINE T == {n \in 0 .. Len(s) : \A i \in n + 1 .. Len(s) : s[i].sn > sn}
<1>1. T \subseteq Nat /\ Len(s) \in T
  OBVIOUS
<1>2. PICK m \in T : \A k \in T : m <= k
  <2> HIDE DEF T
  <2> QED BY <1>1, FlowLeastNat, Zenon
<1>3. m > 0 => s[m].sn <= sn
  <2> SUFFICES ASSUME m > 0, ~(s[m].sn <= sn) PROVE FALSE
    OBVIOUS
  <2>0. m \in 1 .. Len(s) /\ m - 1 \in 0 .. Len(s)
    BY <1>2
  <2>1. m - 1 \notin T
    <3> HIDE DEF T
    <3> QED BY <1>2, <2>0
  <2>2. PICK i \in (m - 1) + 1 .. Len(s) : ~(s[i].sn > sn)
    BY <2>0, <2>1
  <2>3. i # m /\ i \in m + 1 .. Len(s)
    BY <2>0, <2>2
  <2> QED BY <1>2, <2>2, <2>3
<1> QED BY <1>2, <1>3, Zenon

LEMMA FlowDoneExists ==
    ASSUME NEW s, Len(s) \in Nat, \A i \in 1 .. Len(s) : s[i].sn \in Nat, NEW sn \in Int
    PROVE  \E n \in 0 .. Len(s) : /\ n < Len(s) => s[n + 1].sn > sn
                                 /\ \A i \in 1 .. n : s[i].sn <= sn
<1> DEFINE T == {n \in 0 .. Len(s) : n < Len(s) => s[n + 1].sn > sn}
<1>1. T \subseteq Nat /\ Len(s) \in T
  OBVIOUS
<1>2. PICK m \in T : \A k \in T : m <= k
  <2> HIDE DEF T
  <2> QED BY <1>1, FlowLeastNat, Zenon
<1>3. \A i \in 1 .. m : s[i].sn <= sn
  <2> SUFFICES ASSUME NEW i \in 1 .. m PROVE s[i].sn <= sn
    OBVIOUS
  <2>1. m \in 0 .. Len(s) /\ i \in 1 .. Len(s) /\ i - 1 \in 0 .. Len(s) /\ i - 1 < m
    BY <1>2
  <2>2. i - 1 \notin T
    <3> HIDE DEF T
    <3> QED BY <1>2, <2>1
  <2>3. ~(s[(i - 1) + 1].sn > sn)
    BY <2>1, <2>2
  <2>4. (i - 1) + 1 = i
    BY <2>1
  <2> QED BY <2>1, <2>3, <2>4
<1> QED BY <1>2, <1>3

LEMMA FlowInOrderPart ==
    ASSUME NEW s, Len(s) \in Nat, NEW b, InOrder(s, b), NEW t, Len(t) \in Nat, NEW k \in Nat,
           k + Len(t) <= Len(s), \A i \in 1 .. Len(t) : t[i].sn = s[k + i].sn
    PROVE  InOrder(t, b)
<1>1. \A i \in 1 .. Len(t) : k + i \in 1 .. Len(s)
  OBVIOUS
<1>2. \A i, j \in 1 .. Len(t) : i < j => t[i].sn < t[j].sn
  BY <1>1 DEF InOrder
<1>3. \A i \in 1 .. Len(t) : t[i].sn < b
  BY <1>1 DEF InOrder
<1> QED BY <1>2, <1>3 DEF InOrder

LEMMA FlowInOrderAppend ==
    ASSUME NEW S, NEW s \in Seq(S), NEW b \in Nat, InOrder(s, b), NEW x \in S, x.sn = b,
           \A i \in 1 .. Len(s) : s[i].sn \in Nat
    PROVE  InOrder(Append(s, x), b + 1)
<1> DEFINE t == Append(s, x)
<1>1. /\ Len(t) = Len(s) + 1 /\ t[Len(s) + 1].sn = b /\ Len(s) \in Nat
      /\ \A i \in 1 .. Len(s) : t[i].sn = s[i].sn
  BY AppendProperties
<1> HIDE DEF t
<1>2. \A i \in 1 .. Len(t) : i \in 1 .. Len(s) \/ i = Len(s) + 1
  BY <1>1
<1>3. ASSUME NEW i \in 1 .. Len(t), NEW j \in 1 .. Len(t), i < j
      PROVE  t[i].sn < t[j].sn
  <2>1. i \in 1 .. Len(s)
    BY <1>1, <1>2, <1>3
  <2>2. CASE j \in 1 .. Len(s)
    BY <1>1, <1>3, <2>1, <2>2 DEF InOrder
  <2>3. CASE j = Len(s) + 1
    BY <1>1, <2>1, <2>3 DEF InOrder
  <2> QED BY <1>2, <2>2, <2>3
<1>4. \A i \in 1 .. Len(t) : t[i].sn < b + 1
  BY <1>1, <1>2 DEF InOrder
<1> QED BY <1>3, <1>4 DEF InOrder, t

LEMMA FlowPCMember ==
    ASSUME NEW a \in Addr, NEW u \in 1 .. Len(Code[a])
    PROVE  [a |-> a, u |-> u] \in PCs
<1>1. [a |-> a, u |-> u] \in {[a |-> a, u |-> v] : v \in 1 .. Len(Code[a])}
  BY Zenon
<1> QED BY <1>1, Zenon DEF PCs

LEMMA FlowAtType ==
    ASSUME NEW a \in Addr
    PROVE  At(a) \in PCs /\ At(a).a = a
<1>1. Code[a] \in Seq([ctl : BOOLEAN, type : STRING]) /\ Code[a] # << >>
  BY FrontEndAssumption
<1>2. 1 \in 1 .. Len(Code[a])
  BY <1>1
<1>3. [a |-> a, u |-> 1] \in PCs
  BY <1>2, FlowPCMember
<1> QED BY <1>3 DEF At

-----------------------------------------------------------------------------
(* The instructions in flight and the signals. *)

FetchedInst   == [sn : SeqNum, ctl : BOOLEAN]
Signal == {None} \cup [sn : SeqNum, pc : PCs]
Update == [squash : {FALSE}, trapPending : BOOLEAN, sn : 0 .. MaxSeq]
Squash == [squash : {TRUE}, mispredict : BOOLEAN, pc : PCs, sn : 0 .. MaxSeq]

\* A squash that decode has sent is about a branch no older than any that has left it.
DecodedOlder ==
    \A i \in 1 .. decodeToFetchDelay :
        fromDecode[i] # None => /\ fromDecode[i].sn < nextSeq
                                /\ \A j \in 1 .. numDecoded : insts[j].sn <= fromDecode[i].sn

BackOK == BackTypes /\ InOrder(insts, nextSeq) /\ DecodedOlder

LEMMA BackFacts ==
    ASSUME BackOK
    PROVE  /\ insts \in Seq(FetchedInst) /\ Len(insts) \in Nat /\ numDecoded \in 0 .. Len(insts)
           /\ \A i \in 1 .. Len(insts) : /\ insts[i] \in FetchedInst /\ insts[i].sn \in SeqNum
                                         /\ insts[i].sn \in Nat /\ insts[i].sn < nextSeq
           /\ nextSeq \in 1 .. MaxSeq + 1 /\ nextSeq \in Nat /\ MaxSeq \in Nat
           /\ fromDecode \in [1 .. decodeToFetchDelay -> Signal]
           /\ \A i \in 1 .. decodeToFetchDelay :
                 fromDecode[i] # None => fromDecode[i].sn \in SeqNum /\ fromDecode[i].sn \in Nat
           /\ fromCommit \in {None} \cup Update \cup Squash
<1>1. insts \in Seq(FetchedInst) /\ numDecoded \in 0 .. Len(insts) /\ nextSeq \in 1 .. MaxSeq + 1
  BY DEF BackOK, BackTypes, FetchedInst
<1>2. MaxSeq \in Nat
  BY FrontEndAssumption
<1>3. ASSUME NEW i \in 1 .. Len(insts)
      PROVE  insts[i] \in FetchedInst /\ insts[i].sn \in SeqNum /\ insts[i].sn \in Nat
  <2>1. insts[i] \in FetchedInst
    BY <1>1
  <2> QED BY <1>2, <2>1 DEF FetchedInst, SeqNum
<1>4. fromDecode \in [1 .. decodeToFetchDelay -> Signal]
  BY Zenon DEF BackOK, BackTypes, Signal
<1>5. ASSUME NEW i \in 1 .. decodeToFetchDelay, fromDecode[i] # None
      PROVE  fromDecode[i].sn \in SeqNum /\ fromDecode[i].sn \in Nat
  <2>1. fromDecode[i] \in Signal
    BY <1>4
  <2>2. fromDecode[i] \in [sn : SeqNum, pc : PCs]
    BY <1>5, <2>1, Zenon DEF Signal
  <2> QED BY <1>2, <2>2 DEF SeqNum
<1>6. fromCommit \in {None} \cup Update \cup Squash
  BY Zenon DEF BackOK, BackTypes, Update, Squash
<1>7. \A i \in 1 .. Len(insts) : insts[i].sn < nextSeq
  BY DEF BackOK, InOrder
<1> QED BY <1>1, <1>2, <1>3, <1>4, <1>5, <1>6, <1>7

LEMMA BackSame ==
    ASSUME BackOK, UNCHANGED << fromDecode, fromCommit, backend >>
    PROVE  BackOK'
BY Zenon DEF BackOK, BackTypes, InOrder, DecodedOlder, backend

LEMMA ShiftedFacts ==
    ASSUME BackOK, NEW sig \in Signal, fromDecode' = Shifted(sig)
    PROVE  /\ fromDecode' \in [1 .. decodeToFetchDelay -> Signal]
           /\ fromDecode'[1] = sig
           /\ \A i \in 1 .. decodeToFetchDelay :
                 i # 1 => fromDecode'[i] = fromDecode[i - 1] /\ i - 1 \in 1 .. decodeToFetchDelay
<1>1. decodeToFetchDelay \in Nat \ {0}
  BY FrontEndAssumption
<1>2. \A i \in 1 .. decodeToFetchDelay :
         /\ fromDecode'[i] = IF i = 1 THEN sig ELSE fromDecode[i - 1]
         /\ i # 1 => i - 1 \in 1 .. decodeToFetchDelay
  BY <1>1 DEF Shifted
<1>3. fromDecode \in [1 .. decodeToFetchDelay -> Signal]
  BY BackFacts, Zenon
<1>4. \A i \in 1 .. decodeToFetchDelay : fromDecode'[i] \in Signal
  BY <1>2, <1>3, Zenon
<1>5. fromDecode' = [i \in 1 .. decodeToFetchDelay |-> fromDecode'[i]]
  BY Zenon DEF Shifted
<1>6. fromDecode' \in [1 .. decodeToFetchDelay -> Signal]
  BY <1>4, <1>5, Zenon
<1>7. 1 \in 1 .. decodeToFetchDelay
  BY <1>1
<1> QED BY <1>2, <1>6, <1>7

LEMMA BackNewInst ==
    ASSUME BackOK, NEW ctl \in BOOLEAN, CanFetch(ctl), NewInst(ctl)
    PROVE  BackOK'
<1> DEFINE e == [sn |-> nextSeq, ctl |-> ctl]
<1>1. /\ insts' = Append(insts, e) /\ nextSeq' = nextSeq + 1
      /\ UNCHANGED << fromDecode, fromCommit, numDecoded, trapRemaining, draining >>
  BY DEF NewInst
<1>2. nextSeq \in SeqNum /\ nextSeq + 1 \in 1 .. MaxSeq + 1 /\ nextSeq \in Nat
  BY BackFacts DEF CanFetch, SeqNum
<1>3. e \in FetchedInst /\ e.sn = nextSeq
  BY <1>2 DEF FetchedInst
<1> HIDE DEF e
<1>4. /\ insts' \in Seq(FetchedInst) /\ Len(insts') = Len(insts) + 1
      /\ \A i \in 1 .. Len(insts) : insts'[i] = insts[i]
  BY <1>1, <1>3, BackFacts, AppendProperties
<1>5. numDecoded' \in 0 .. Len(insts') /\ \A j \in 1 .. numDecoded : insts'[j] = insts[j]
  BY <1>1, <1>4, BackFacts
<1>6. InOrder(insts', nextSeq')
  <2>1. /\ insts \in Seq(FetchedInst) /\ \A i \in 1 .. Len(insts) : insts[i].sn \in Nat
        /\ InOrder(insts, nextSeq)
    BY BackFacts, Zenon DEF BackOK
  <2>2. InOrder(Append(insts, e), nextSeq + 1)
    BY <1>2, <1>3, <2>1, FlowInOrderAppend, Zenon
  <2> QED BY <1>1, <2>2
<1>7. DecodedOlder'
  <2>1. ASSUME NEW i \in 1 .. decodeToFetchDelay, fromDecode[i] # None
        PROVE  /\ fromDecode[i].sn < nextSeq + 1
               /\ \A j \in 1 .. numDecoded : insts'[j].sn <= fromDecode[i].sn
    <3>1. fromDecode[i].sn < nextSeq /\ \A j \in 1 .. numDecoded : insts[j].sn <= fromDecode[i].sn
      BY <2>1 DEF BackOK, DecodedOlder
    <3>2. fromDecode[i].sn \in Nat
      BY <2>1, BackFacts, Zenon
    <3> QED BY <1>2, <1>5, <3>1, <3>2
  <2> QED BY <1>1, <2>1, Zenon DEF DecodedOlder
<1>8. /\ fromDecode' \in [1 .. decodeToFetchDelay -> Signal]
      /\ fromCommit' \in {None} \cup Update \cup Squash
      /\ trapRemaining' \in 0 .. trapLatency /\ draining' \in {"no", "pending", "removing", "empty"}
  BY <1>1, BackFacts, Zenon DEF BackOK, BackTypes
<1> QED BY <1>1, <1>2, <1>4, <1>5, <1>6, <1>7, <1>8, Zenon
        DEF BackOK, BackTypes, FetchedInst, Signal, Update, Squash

\* A prefix of the instructions.
LEMMA InstsTo ==
    ASSUME BackOK, NEW n \in 0 .. Len(insts), insts' = SubSeq(insts, 1, n), nextSeq' = nextSeq
    PROVE  /\ insts' \in Seq(FetchedInst) /\ Len(insts') = n /\ \A i \in 1 .. n : insts'[i] = insts[i]
           /\ InOrder(insts', nextSeq')
<1>0. insts \in Seq(FetchedInst) /\ Len(insts) \in Nat
  BY BackFacts, Zenon
<1>1. insts' \in Seq(FetchedInst) /\ Len(insts') = n /\ \A i \in 1 .. n : insts'[i] = insts[i]
  BY <1>0, FlowPrefix
<1>2. /\ 0 \in Nat /\ Len(insts') \in Nat /\ 0 + Len(insts') <= Len(insts)
      /\ \A i \in 1 .. Len(insts') : insts'[i].sn = insts[0 + i].sn
  BY <1>0, <1>1
<1>3. InOrder(insts', nextSeq)
  BY <1>0, <1>2, FlowInOrderPart, Zenon DEF BackOK
<1> QED BY <1>1, <1>3

LEMMA BackFetchDecodeSquash ==
    ASSUME BackOK, FetchDecodeSquash
    PROVE  BackOK'
<1> DEFINE sig == fromDecode[decodeToFetchDelay]
           n == NumKept(insts, sig.sn)
<1>1. /\ insts' = SubSeq(insts, 1, n)
      /\ UNCHANGED << fromDecode, fromCommit, numDecoded, nextSeq, trapRemaining, draining >>
  BY Zenon DEF FetchDecodeSquash, removeInstsUntil
<1>2. decodeToFetchDelay \in 1 .. decodeToFetchDelay /\ sig # None
  BY FrontEndAssumption DEF FetchDecodeSquash, hearsDecode, decodeSquash
<1>3. /\ sig.sn \in Int /\ Len(insts) \in Nat /\ numDecoded \in 0 .. Len(insts)
      /\ \A i \in 1 .. Len(insts) : insts[i].sn \in Nat
  BY <1>2, BackFacts
<1>4. \A j \in 1 .. numDecoded : insts[j].sn <= sig.sn
  BY <1>2, Zenon DEF BackOK, DecodedOlder
<1> HIDE DEF sig
<1>5. n \in 0 .. Len(insts) /\ \A i \in n + 1 .. Len(insts) : insts[i].sn > sig.sn
  BY <1>3, FlowKeptExists, Zenon DEF NumKept
<1> HIDE DEF n
<1>6. numDecoded <= n
  <2> SUFFICES ASSUME numDecoded > n PROVE FALSE
    BY <1>3, <1>5
  <2>1. numDecoded \in n + 1 .. Len(insts) /\ numDecoded \in 1 .. numDecoded
    BY <1>3, <1>5
  <2> QED BY <1>3, <1>4, <1>5, <2>1
<1>7. /\ insts' \in Seq(FetchedInst) /\ Len(insts') = n /\ \A i \in 1 .. n : insts'[i] = insts[i]
      /\ InOrder(insts', nextSeq')
  BY <1>1, <1>5, InstsTo, Zenon
<1>8. numDecoded' \in 0 .. Len(insts') /\ \A j \in 1 .. numDecoded : insts'[j] = insts[j]
  BY <1>1, <1>3, <1>5, <1>6, <1>7
<1>9. DecodedOlder'
  BY <1>1, <1>8, Zenon DEF DecodedOlder, BackOK
<1>10. /\ fromDecode' \in [1 .. decodeToFetchDelay -> Signal] /\ nextSeq' \in 1 .. MaxSeq + 1
       /\ fromCommit' \in {None} \cup Update \cup Squash
       /\ trapRemaining' \in 0 .. trapLatency /\ draining' \in {"no", "pending", "removing", "empty"}
  BY <1>1, BackFacts, Zenon DEF BackOK, BackTypes
<1> QED BY <1>7, <1>8, <1>9, <1>10, Zenon
        DEF BackOK, BackTypes, FetchedInst, Signal, Update, Squash

LEMMA BackDecodePass ==
    ASSUME BackOK, DecodePass
    PROVE  BackOK'
<1>1. /\ numDecoded' \in IF decodePending THEN {numDecoded} ELSE numDecoded .. Len(insts)
      /\ fromDecode' = Shifted(None)
      /\ UNCHANGED << fromCommit, insts, nextSeq, trapRemaining, draining >>
  BY DEF DecodePass
<1>2. None \in Signal
  BY DEF Signal
<1>3. /\ fromDecode' \in [1 .. decodeToFetchDelay -> Signal] /\ fromDecode'[1] = None
      /\ \A i \in 1 .. decodeToFetchDelay :
            i # 1 => fromDecode'[i] = fromDecode[i - 1] /\ i - 1 \in 1 .. decodeToFetchDelay
  BY <1>1, <1>2, ShiftedFacts, Zenon
<1>4. numDecoded' \in 0 .. Len(insts)
  BY <1>1, BackFacts
<1>5. DecodedOlder'
  <2>1. ASSUME NEW i \in 1 .. decodeToFetchDelay, fromDecode'[i] # None
        PROVE  /\ fromDecode'[i].sn < nextSeq
               /\ \A j \in 1 .. numDecoded' : insts[j].sn <= fromDecode'[i].sn
    <3>1. i # 1 /\ fromDecode'[i] = fromDecode[i - 1] /\ i - 1 \in 1 .. decodeToFetchDelay
      BY <1>3, <2>1, Zenon
    <3> DEFINE k == i - 1
    <3>2. k \in 1 .. decodeToFetchDelay /\ fromDecode'[i] = fromDecode[k] /\ fromDecode[k] # None
      BY <2>1, <3>1
    <3> HIDE DEF k
    <3>3. numDecoded' = numDecoded
      BY <1>1, <3>2, Zenon DEF decodePending
    <3> QED BY <3>2, <3>3, Zenon DEF BackOK, DecodedOlder
  <2> QED BY <1>1, <2>1, Zenon DEF DecodedOlder
<1>6. InOrder(insts', nextSeq')
  BY <1>1 DEF BackOK, InOrder
<1> QED BY <1>1, <1>3, <1>4, <1>5, <1>6, Zenon DEF BackOK, BackTypes, Signal

LEMMA BackDecodeSquash ==
    ASSUME BackOK, DecodeSquash
    PROVE  BackOK'
<1>1. PICK n \in numDecoded + 1 .. Len(insts), p \in SquashPC :
        /\ insts' = SubSeq(insts, 1, n)
        /\ numDecoded' = n
        /\ fromDecode' = Shifted([sn |-> insts[n].sn, pc |-> p])
  BY DEF DecodeSquash
<1>2. ~decodePending /\ UNCHANGED << fromCommit, nextSeq, trapRemaining, draining >>
  BY DEF DecodeSquash
<1>3. n \in 0 .. Len(insts) /\ n \in 1 .. Len(insts) /\ n \in 1 .. n /\ n \in 0 .. n
  BY BackFacts
<1> DEFINE sig == [sn |-> insts[n].sn, pc |-> p]
<1>4. sig \in Signal /\ sig.sn = insts[n].sn
  <2>1. insts[n].sn \in SeqNum /\ p \in PCs
    BY <1>3, BackFacts, Zenon DEF SquashPC
  <2>2. sig \in [sn : SeqNum, pc : PCs]
    BY <2>1
  <2> QED BY <2>2 DEF Signal
<1>5. fromDecode' = Shifted(sig)
  BY <1>1
<1> HIDE DEF sig
<1>6. /\ fromDecode' \in [1 .. decodeToFetchDelay -> Signal] /\ fromDecode'[1] = sig
      /\ \A i \in 1 .. decodeToFetchDelay :
            i # 1 => fromDecode'[i] = fromDecode[i - 1] /\ i - 1 \in 1 .. decodeToFetchDelay
  BY <1>4, <1>5, ShiftedFacts, Zenon
<1>7. /\ insts' \in Seq(FetchedInst) /\ Len(insts') = n /\ \A i \in 1 .. n : insts'[i] = insts[i]
      /\ InOrder(insts', nextSeq')
  BY <1>1, <1>2, <1>3, InstsTo, Zenon
<1>8. DecodedOlder'
  <2>1. ASSUME NEW i \in 1 .. decodeToFetchDelay, fromDecode'[i] # None
        PROVE  /\ fromDecode'[i].sn < nextSeq
               /\ \A j \in 1 .. n : insts'[j].sn <= fromDecode'[i].sn
    <3>1. i = 1
      BY <1>2, <1>6, <2>1, Zenon DEF decodePending
    <3>2. fromDecode'[i].sn = insts[n].sn
      BY <1>4, <1>6, <3>1, Zenon
    <3>3. \A j \in 1 .. n : insts[j].sn <= insts[n].sn
      <4>1. \A j \in 1 .. n : j \in 1 .. Len(insts) /\ (j < n \/ j = n)
        BY <1>3, BackFacts
      <4>2. \A j \in 1 .. n : j < n => insts[j].sn < insts[n].sn
        BY <1>3, <4>1, Zenon DEF BackOK, InOrder
      <4> QED BY <1>3, <4>1, <4>2, BackFacts
    <3>4. insts[n].sn < nextSeq
      BY <1>3, BackFacts, Zenon
    <3> QED BY <1>7, <3>2, <3>3, <3>4, Zenon
  <2> QED BY <1>1, <1>2, <2>1, Zenon DEF DecodedOlder
<1>9. numDecoded' \in 0 .. Len(insts')
  BY <1>1, <1>3, <1>7, Zenon
<1> QED BY <1>2, <1>6, <1>7, <1>8, <1>9, Zenon DEF BackOK, BackTypes, Signal, FetchedInst

LEMMA LastCommittedType ==
    ASSUME BackOK
    PROVE  lastCommittedSeq \in 0 .. MaxSeq
<1>1. CASE insts = << >>
  BY <1>1, BackFacts DEF lastCommittedSeq
<1>2. CASE insts # << >>
  <2>1. 1 \in 1 .. Len(insts)
    BY <1>2, BackFacts
  <2>2. insts[1].sn \in SeqNum
    BY <2>1, BackFacts, Zenon
  <2> QED BY <1>2, <2>2, BackFacts DEF lastCommittedSeq, SeqNum
<1> QED BY <1>1, <1>2

LEMMA BackCommitInsts ==
    ASSUME BackOK, CommitInsts
    PROVE  BackOK'
<1>1. PICK n \in {0} \cup Executed, trap \in BOOLEAN :
        /\ fromCommit' = [squash |-> FALSE, trapPending |-> trap,
                          sn |-> IF n = 0 THEN 0 ELSE insts[n].sn]
        /\ insts' = SubSeq(insts, n + 1, Len(insts))
        /\ numDecoded' = numDecoded - n
        /\ trapRemaining' = IF trap THEN trapLatency ELSE 0
        /\ draining' \in IF trap THEN {"no"} ELSE {"no", "pending"}
  BY Zenon DEF CommitInsts
<1>2. UNCHANGED << fromDecode, nextSeq >>
  BY DEF CommitInsts
<1>3. n \in 0 .. numDecoded /\ numDecoded \in 0 .. Len(insts) /\ Len(insts) \in Nat
  BY BackFacts DEF Executed
<1>4. trapRemaining' \in 0 .. trapLatency /\ draining' \in {"no", "pending", "removing", "empty"}
  BY <1>1, FrontEndAssumption
<1>5. fromCommit' \in Update
  <2> DEFINE sn == IF n = 0 THEN 0 ELSE insts[n].sn
  <2>1. n # 0 => n \in 1 .. Len(insts)
    BY <1>3
  <2>2. n # 0 => insts[n].sn \in SeqNum
    BY <2>1, BackFacts, Zenon
  <2>3. sn \in 0 .. MaxSeq
    BY <2>2, BackFacts DEF SeqNum
  <2>4. fromCommit' = [squash |-> FALSE, trapPending |-> trap, sn |-> sn]
    BY <1>1
  <2> HIDE DEF sn
  <2> QED BY <2>3, <2>4 DEF Update
<1>6. /\ insts' \in Seq(FetchedInst) /\ Len(insts') = Len(insts) - n
      /\ \A i \in 1 .. Len(insts) - n : insts'[i] = insts[n + i]
  <2>1. insts \in Seq(FetchedInst) /\ n \in 0 .. Len(insts)
    BY <1>3, BackFacts
  <2> QED BY <1>1, <2>1, FlowSuffix, Zenon
<1>7. InOrder(insts', nextSeq')
  <2>1. /\ n \in Nat /\ Len(insts') \in Nat /\ n + Len(insts') <= Len(insts)
        /\ \A i \in 1 .. Len(insts') : insts'[i].sn = insts[n + i].sn
    BY <1>3, <1>6
  <2>2. InOrder(insts', nextSeq)
    BY <1>3, <2>1, FlowInOrderPart, Zenon DEF BackOK
  <2> QED BY <1>2, <2>2
<1>8. numDecoded' \in 0 .. Len(insts')
  BY <1>1, <1>3, <1>6
<1>9. DecodedOlder'
  <2>1. ASSUME NEW j \in 1 .. numDecoded' PROVE insts'[j] = insts[n + j] /\ n + j \in 1 .. numDecoded
    BY <1>1, <1>3, <1>6
  <2> QED BY <1>2, <2>1, Zenon DEF BackOK, DecodedOlder
<1> QED BY <1>2, <1>4, <1>5, <1>6, <1>7, <1>8, <1>9, Zenon DEF BackOK, BackTypes, FetchedInst, Update

LEMMA BackCommitSquash ==
    ASSUME BackOK, CommitSquash
    PROVE  BackOK'
<1>1. PICK n \in {0} \cup Executed, mispredict \in BOOLEAN, p \in SquashPC :
        /\ insts' = SubSeq(insts, 1, n)
        /\ numDecoded' = n
        /\ fromCommit' = [squash |-> TRUE, mispredict |-> mispredict, pc |-> p,
                          sn |-> IF n = 0 THEN lastCommittedSeq ELSE insts[n].sn]
  BY Zenon DEF CommitSquash
<1>2. trapRemaining' = 0 /\ UNCHANGED << fromDecode, nextSeq, draining >>
  BY DEF CommitSquash
<1>3. n \in 0 .. numDecoded /\ n \in 0 .. Len(insts) /\ n \in 0 .. n
  BY BackFacts DEF Executed
<1>4. trapRemaining' \in 0 .. trapLatency
  BY <1>2, FrontEndAssumption
<1>5. fromCommit' \in Squash
  <2> DEFINE sn == IF n = 0 THEN lastCommittedSeq ELSE insts[n].sn
  <2>1. n # 0 => n \in 1 .. Len(insts)
    BY <1>3, BackFacts
  <2>2. n # 0 => insts[n].sn \in SeqNum
    BY <2>1, BackFacts, Zenon
  <2>3. sn \in 0 .. MaxSeq
    BY <2>2, BackFacts, LastCommittedType DEF SeqNum
  <2>4. fromCommit' = [squash |-> TRUE, mispredict |-> mispredict, pc |-> p, sn |-> sn]
    BY <1>1
  <2>5. p \in PCs
    BY Zenon DEF SquashPC
  <2> HIDE DEF sn
  <2> QED BY <2>3, <2>4, <2>5 DEF Squash
<1>6. /\ insts' \in Seq(FetchedInst) /\ Len(insts') = n /\ \A i \in 1 .. n : insts'[i] = insts[i]
      /\ InOrder(insts', nextSeq')
  BY <1>1, <1>2, <1>3, InstsTo, Zenon
<1>7. numDecoded' \in 0 .. Len(insts')
  BY <1>1, <1>3, <1>6, Zenon
<1>8. DecodedOlder'
  <2>1. \A j \in 1 .. n : j \in 1 .. numDecoded
    BY <1>3, BackFacts
  <2> QED BY <1>1, <1>2, <1>6, <2>1, Zenon DEF BackOK, DecodedOlder
<1> QED BY <1>2, <1>4, <1>5, <1>6, <1>7, <1>8, Zenon DEF BackOK, BackTypes, FetchedInst, Squash

LEMMA BackSquashAfter ==
    ASSUME BackOK, CommitSquashAfter
    PROVE  BackOK'
<1>1. PICK a \in Target :
        fromCommit' = [squash |-> TRUE, mispredict |-> FALSE, pc |-> At(a), sn |-> lastCommittedSeq]
  BY Zenon DEF CommitSquashAfter
<1>2. /\ insts' = << >> /\ numDecoded' = 0 /\ UNCHANGED << fromDecode, nextSeq, trapRemaining >>
      /\ draining' \in {"empty", "removing"}
  BY DEF CommitSquashAfter
<1>3. fromCommit' \in Squash
  <2>1. At(a) \in PCs
    BY FlowAtType, FrontEndAssumption
  <2> QED BY <1>1, <2>1, LastCommittedType DEF Squash
<1>4. insts' \in Seq(FetchedInst) /\ Len(insts') = 0 /\ numDecoded' \in 0 .. Len(insts')
  BY <1>2
<1>5. draining' \in {"no", "pending", "removing", "empty"}
  BY <1>2
<1>6. InOrder(insts', nextSeq')
  BY <1>4 DEF InOrder
<1>7. DecodedOlder'
  <2>1. \A j \in 1 .. 0 : FALSE
    OBVIOUS
  <2> QED BY <1>2, <2>1, Zenon DEF BackOK, DecodedOlder
<1> QED BY <1>2, <1>3, <1>4, <1>5, <1>6, <1>7, Zenon DEF BackOK, BackTypes, FetchedInst, Squash

LEMMA BackCommitNothing ==
    ASSUME BackOK, CommitNothing
    PROVE  BackOK'
<1>1. /\ fromCommit' = None /\ UNCHANGED << fromDecode, insts, numDecoded, nextSeq >>
      /\ trapRemaining' = IF trapRemaining = 0 THEN 0 ELSE trapRemaining - 1
      /\ draining' \in {"empty", draining}
  BY DEF CommitNothing
<1>2. trapRemaining' \in 0 .. trapLatency /\ draining' \in {"no", "pending", "removing", "empty"}
  BY <1>1, FrontEndAssumption DEF BackOK, BackTypes
<1> QED BY <1>1, <1>2, Zenon DEF BackOK, BackTypes, InOrder, DecodedOlder

LEMMA BackDrainResume ==
    ASSUME BackOK, DrainResume
    PROVE  BackOK'
<1>1. /\ fromCommit' = None /\ UNCHANGED << insts, numDecoded, nextSeq, trapRemaining >>
      /\ draining' = "no" /\ fromDecode' = [i \in 1..decodeToFetchDelay |-> None]
  BY DEF DrainResume
<1>2. draining' \in {"no", "pending", "removing", "empty"}
  BY <1>1
<1>3. /\ fromDecode' \in [1 .. decodeToFetchDelay -> Signal]
      /\ \A i \in 1 .. decodeToFetchDelay : fromDecode'[i] = None
  BY <1>1, Zenon DEF Signal
<1> QED BY <1>1, <1>2, <1>3, Zenon DEF BackOK, BackTypes, InOrder, DecodedOlder, Signal

LEMMA BackNext ==
    ASSUME BackOK, [Next]_vars
    PROVE  BackOK'
<1>1. CASE Bac
  <2>1. UNCHANGED << wires, backend >>
    <3>1. CASE BacCommitSquash \/ BacDecodeSquash \/ BacFetchSquash \/ BacDrain \/ BacOverride
      BY <3>1, Zenon DEF BacCommitSquash, BacDecodeSquash, BacFetchSquash, BacDrain, BacOverride
    <3>2. CASE BacRun
      BY <3>2, Zenon DEF BacRun
    <3>3. CASE GenerateFallThrough \/ GenerateBranch
      <4>1. PICK ft, latency : InsertFT(ft, latency)
        BY <3>3, Zenon DEF GenerateFallThrough, GenerateBranch
      <4> QED BY <4>1, Zenon DEF InsertFT
    <3> QED BY <1>1, <3>1, <3>2, <3>3, Zenon DEF Bac
  <2> QED BY <2>1, BackSame, Zenon DEF wires
<1>2. CASE \/ FetchCommitSquash \/ FetchTrap \/ FetchIdle \/ FetchResteer \/ FetchStart \/ FetchStop
  <2>1. UNCHANGED << fromDecode, fromCommit, backend >>
    BY <1>2, Zenon DEF FetchCommitSquash, FetchTrap, FetchIdle, FetchResteer, FetchStart,
                       FetchStop, wires
  <2> QED BY <2>1, BackSame, Zenon
<1>3. CASE FetchDecodeSquash
  BY <1>3, BackFetchDecodeSquash, Zenon
<1>4. CASE FetchPlain \/ FetchQuiesce \/ FetchPredicted \/ FetchComplex \/ FetchUnpredicted
  <2>1. \E ctl \in BOOLEAN : CanFetch(ctl) /\ NewInst(ctl)
    BY <1>4, Zenon DEF FetchPlain, FetchQuiesce, FetchPredicted, FetchComplex, FetchUnpredicted
  <2> QED BY <2>1, BackNewInst, Zenon
<1>5. CASE DecodePass
  BY <1>5, BackDecodePass, Zenon
<1>6. CASE DecodeSquash
  BY <1>6, BackDecodeSquash, Zenon
<1>7. CASE CommitNothing
  BY <1>7, BackCommitNothing, Zenon
<1>8. CASE CommitInsts
  BY <1>8, BackCommitInsts, Zenon
<1>9. CASE CommitSquash
  BY <1>9, BackCommitSquash, Zenon
<1>10. CASE CommitSquashAfter
  BY <1>10, BackSquashAfter, Zenon
<1>11. CASE DrainResume
  BY <1>11, BackDrainResume, Zenon
<1>12. CASE UNCHANGED vars
  BY <1>12, BackSame, Zenon DEF vars, wires
<1> QED BY <1>1, <1>2, <1>3, <1>4, <1>5, <1>6, <1>7, <1>8, <1>9, <1>10, <1>11, <1>12, Zenon
        DEF Next, Fetch, Decode, Commit

-----------------------------------------------------------------------------
(* The histories of the BPredUnit are those of branches in flight, or a signal *)
(* that removes them is on its way.                                            *)

Sns(hs) == {hs[i].sn : i \in 1 .. Len(hs)}

InFlight(sn) == \E i \in 1 .. Len(insts) : insts[i].ctl /\ insts[i].sn = sn

\* One of the first d signals of decode is a squash that removes k.
Dropped(k, d) == \E i \in 1 .. d : /\ fromDecode[i] # None /\ fromDecode[i].sn < k
                                   /\ InFlight(fromDecode[i].sn)

\* In the next cycle BAC hears of commit and of the oldest signal of decode.
Doomed(k) ==
    \/ phase = "bac" /\ commitSquash /\ k > fromCommit.sn
    \/ phase = "bac" /\ ~commitSquash /\ (k <= doneSeqNum \/ Dropped(k, decodeToFetchDelay))
    \/ phase = "commit" /\ Dropped(k, decodeToFetchDelay)
    \/ phase \notin {"bac", "commit"} /\ Dropped(k, decodeToFetchDelay - 1)

NoExtra == \A k \in Sns(predHist) : InFlight(k) \/ Doomed(k)

\* BAC has heard the squash that fetch is about to hear.
Heard ==
    phase \in {"generate", "override", "fetch"} /\ ~commitSquash /\ decodeSquash =>
        \A k \in Sns(predHist) : k <= fromDecode[decodeToFetchDelay].sn

\* Nothing is fetched while commit drains.
Drains ==
    /\ draining \in {"removing", "empty"} => insts = << >>
    /\ phase = "bac" /\ draining = "empty" => predHist = << >>
    /\ stalled /\ phase = "fetch" => ftq = << >>
    /\ stalled => phase \notin {"generate", "override", "fetching", "macroop"}

HistOK == predHist \in Seq(History) /\ InOrder(predHist, nextSeq)

LEMMA HistSns ==
    ASSUME NEW hs \in Seq(History)
    PROVE  /\ Len(hs) \in Nat
           /\ \A i \in 1 .. Len(hs) : hs[i].sn \in Nat /\ hs[i].sn \in Sns(hs)
           /\ Sns(hs) \subseteq Nat
           /\ Sns(hs) = {} <=> hs = << >>
<1>1. Len(hs) \in Nat /\ \A i \in 1 .. Len(hs) : hs[i] \in History
  OBVIOUS
<1>2. \A i \in 1 .. Len(hs) : hs[i].sn \in Nat /\ hs[i].sn \in Sns(hs)
  <2>1. \A i \in 1 .. Len(hs) : hs[i].sn \in Nat
    BY <1>1, FrontEndAssumption DEF History, SeqNum
  <2> QED BY <2>1 DEF Sns
<1>3. Sns(hs) \subseteq Nat
  BY <1>2, Zenon DEF Sns
<1>4. hs # << >> => 1 \in 1 .. Len(hs)
  OBVIOUS
<1>5. ASSUME hs = << >> PROVE Sns(hs) = {}
  <2>1. Len(hs) = 0
    BY <1>5
  <2>2. \A i \in 1 .. Len(hs) : FALSE
    BY <2>1
  <2> QED BY <2>2 DEF Sns
<1> QED BY <1>1, <1>2, <1>3, <1>4, <1>5, Zenon

LEMMA KeptSns ==
    ASSUME NEW hs \in Seq(History), NEW b, InOrder(hs, b), NEW sn \in Int
    PROVE  /\ KeptHist(hs, sn) \in Seq(History)
           /\ \A k \in Sns(KeptHist(hs, sn)) : k \in Sns(hs) /\ k <= sn
<1> DEFINE n == NumKept(hs, sn)
           t == KeptHist(hs, sn)
<1>1. Len(hs) \in Nat /\ \A i \in 1 .. Len(hs) : hs[i].sn \in Nat /\ hs[i].sn \in Sns(hs)
  BY HistSns, Zenon
<1>2. n \in 0 .. Len(hs) /\ (n > 0 => hs[n].sn <= sn)
  BY <1>1, FlowKeptExists, Zenon DEF NumKept
<1>3. t \in Seq(History) /\ Len(t) = n /\ \A i \in 1 .. n : t[i] = hs[i]
  BY <1>2, FlowPrefix, Zenon DEF KeptHist
<1> HIDE DEF n, t
<1>4. ASSUME NEW i \in 1 .. n PROVE t[i].sn \in Sns(hs) /\ t[i].sn <= sn
  <2>1. i \in 1 .. Len(hs) /\ n \in 1 .. Len(hs) /\ n > 0 /\ (i < n \/ i = n)
    BY <1>1, <1>2
  <2>2. i < n => hs[i].sn < hs[n].sn
    BY <2>1, Zenon DEF InOrder
  <2> QED BY <1>1, <1>2, <1>3, <2>1, <2>2
<1>5. \A k \in Sns(t) : k \in Sns(hs) /\ k <= sn
  BY <1>3, <1>4, Zenon DEF Sns
<1> QED BY <1>3, <1>5 DEF t

LEMMA UpdatedSns ==
    ASSUME NEW hs \in Seq(History), NEW b, InOrder(hs, b), NEW sn \in Int
    PROVE  /\ UpdatedHist(hs, sn) \in Seq(History) /\ InOrder(UpdatedHist(hs, sn), b)
           /\ \A k \in Sns(UpdatedHist(hs, sn)) : k \in Sns(hs) /\ ~(k <= sn)
<1> DEFINE n == NumDone(hs, sn)
           t == UpdatedHist(hs, sn)
<1>1. Len(hs) \in Nat /\ \A i \in 1 .. Len(hs) : hs[i].sn \in Nat /\ hs[i].sn \in Sns(hs)
  BY HistSns, Zenon
<1>2. n \in 0 .. Len(hs) /\ (n < Len(hs) => hs[n + 1].sn > sn)
  BY <1>1, FlowDoneExists, Zenon DEF NumDone
<1>3. t \in Seq(History) /\ Len(t) = Len(hs) - n /\ \A i \in 1 .. Len(hs) - n : t[i] = hs[n + i]
  BY <1>2, FlowSuffix, Zenon DEF UpdatedHist
<1> HIDE DEF n, t
<1>4. ASSUME NEW i \in 1 .. Len(t) PROVE t[i].sn \in Sns(hs) /\ ~(t[i].sn <= sn)
  <2>1. /\ n + i \in 1 .. Len(hs) /\ n + 1 \in 1 .. Len(hs) /\ n < Len(hs)
        /\ n + 1 < n + i \/ n + 1 = n + i
    BY <1>1, <1>2, <1>3
  <2>2. n + 1 < n + i => hs[n + 1].sn < hs[n + i].sn
    BY <2>1, Zenon DEF InOrder
  <2>3. t[i] = hs[n + i]
    BY <1>3
  <2> QED BY <1>1, <1>2, <2>1, <2>2, <2>3
<1>5. \A k \in Sns(t) : k \in Sns(hs) /\ ~(k <= sn)
  BY <1>4, Zenon DEF Sns
<1>6. /\ n \in Nat /\ Len(t) \in Nat /\ n + Len(t) <= Len(hs)
      /\ \A i \in 1 .. Len(t) : t[i].sn = hs[n + i].sn
  BY <1>1, <1>2, <1>3
<1>7. InOrder(t, b)
  BY <1>1, <1>6, FlowInOrderPart, Zenon
<1> QED BY <1>3, <1>5, <1>7 DEF t

LEMMA CorrectedSns ==
    ASSUME NEW hs \in Seq(History)
    PROVE  Sns(CorrectedHist(hs)) = Sns(hs)
<1>1. CASE hs = << >>
  BY <1>1, Zenon DEF CorrectedHist
<1>2. CASE hs # << >>
  <2> DEFINE n == Len(hs)
             e == [hs[n] EXCEPT !.modified = TRUE]
             t == CorrectedHist(hs)
  <2>1. n \in 1 .. Len(hs) /\ hs[n] \in History
    BY <1>2
  <2>2. e \in History /\ e.sn = hs[n].sn
    BY <2>1, Zenon DEF History
  <2>3. t = [hs EXCEPT ![n] = e]
    BY <1>2 DEF CorrectedHist
  <2> HIDE DEF n, e, t
  <2>4. Len(t) = Len(hs) /\ \A j \in 1 .. Len(hs) : t[j] = IF j = n THEN e ELSE hs[j]
    BY <2>1, <2>2, <2>3, ExceptSeq
  <2>5. \A j \in 1 .. Len(hs) : t[j].sn = hs[j].sn
    BY <2>2, <2>4
  <2> QED BY <2>4, <2>5 DEF Sns, t
<1> QED BY <1>1, <1>2

LEMMA CommittedSns ==
    ASSUME HistOK, BackOK
    PROVE  /\ doneSeqNum \in Nat
           /\ CommittedHist \in Seq(History) /\ InOrder(CommittedHist, nextSeq)
           /\ \A k \in Sns(CommittedHist) : k \in Sns(predHist) /\ ~(k <= doneSeqNum)
<1>1. doneSeqNum \in Nat
  <2>1. fromCommit = None \/ fromCommit \in Update \/ fromCommit \in Squash
    BY BackFacts, Zenon
  <2>2. CASE fromCommit = None
    BY <2>2 DEF doneSeqNum
  <2>3. CASE fromCommit # None /\ (fromCommit \in Update \/ fromCommit \in Squash)
    <3>1. fromCommit.sn \in 0 .. MaxSeq
      BY <2>3, Zenon DEF Update, Squash
    <3> QED BY <2>3, <3>1, FrontEndAssumption DEF doneSeqNum
  <2> QED BY <2>1, <2>2, <2>3
<1>2. doneSeqNum \in Int /\ predHist \in Seq(History) /\ InOrder(predHist, nextSeq)
  BY <1>1 DEF HistOK
<1> QED BY <1>1, <1>2, UpdatedSns, Zenon DEF CommittedHist

\* What decode has squashed after and what is in flight stay the same.
LEMMA SameFlight ==
    ASSUME UNCHANGED << fromDecode, insts >>, NEW k
    PROVE  /\ InFlight(k)' <=> InFlight(k)
           /\ \A d : Dropped(k, d)' <=> Dropped(k, d)
BY Zenon DEF InFlight, Dropped

\* A squash that BAC has not heard yet is not the oldest.
LEMMA NotTheOldest ==
    ASSUME NEW k, Dropped(k, decodeToFetchDelay),
           decodeSquash => ~(fromDecode[decodeToFetchDelay].sn < k)
    PROVE  Dropped(k, decodeToFetchDelay - 1)
<1>1. PICK i \in 1 .. decodeToFetchDelay : /\ fromDecode[i] # None /\ fromDecode[i].sn < k
                                            /\ InFlight(fromDecode[i].sn)
  BY Zenon DEF Dropped
<1>2. i # decodeToFetchDelay
  BY <1>1, Zenon DEF decodeSquash
<1>3. i \in 1 .. decodeToFetchDelay - 1
  BY <1>2, FrontEndAssumption
<1> QED BY <1>1, <1>3, Zenon DEF Dropped

\* Whichever of the histories BAC leaves.
LEMMA ExtraBac ==
    ASSUME NoExtra, phase = "bac", phase' \in {"generate", "override", "fetch"},
           UNCHANGED << fromDecode, insts >>, NEW hs, predHist' = hs, Sns(hs) \subseteq Sns(predHist),
           \A k \in Sns(hs) :
              IF commitSquash THEN ~(k > fromCommit.sn)
              ELSE /\ ~(k <= doneSeqNum)
                   /\ decodeSquash => ~(fromDecode[decodeToFetchDelay].sn < k)
    PROVE  NoExtra'
<1> SUFFICES ASSUME NEW k \in Sns(hs) PROVE InFlight(k)' \/ Doomed(k)'
  BY Zenon DEF NoExtra
<1>1. InFlight(k) \/ Doomed(k)
  BY Zenon DEF NoExtra
<1>2. Doomed(k) => Dropped(k, decodeToFetchDelay - 1)
  BY NotTheOldest, Zenon DEF Doomed
<1>3. phase' \notin {"bac", "commit"}
  OBVIOUS
<1> QED BY <1>1, <1>2, <1>3, SameFlight, Zenon DEF Doomed

LEMMA ExtraBacCommitSquash ==
    ASSUME HistOK, BackOK, NoExtra, BacCommitSquash
    PROVE  NoExtra' /\ Heard'
<1> DEFINE sn == fromCommit.sn
           kept == KeptHist(predHist, sn)
<1>1. /\ phase = "bac" /\ phase' = "fetch" /\ commitSquash /\ UNCHANGED << fromDecode, fromCommit, insts >>
      /\ predHist' \in {kept, CorrectedHist(kept)}
  BY DEF BacCommitSquash, newCycle, BacSquash, BpuSquash, wires, backend
<1>2. sn \in Int
  <2>1. fromCommit \in Update \/ fromCommit \in Squash
    BY <1>1, BackFacts, Zenon DEF commitSquash
  <2>2. sn \in 0 .. MaxSeq
    BY <2>1, Zenon DEF Update, Squash
  <2> QED BY <2>2, FrontEndAssumption
<1>3. kept \in Seq(History) /\ \A k \in Sns(kept) : k \in Sns(predHist) /\ k <= sn
  BY <1>2, KeptSns, Zenon DEF HistOK
<1>4. Sns(predHist') = Sns(kept)
  BY <1>1, <1>3, CorrectedSns, Zenon
<1>5. Sns(kept) \subseteq Nat
  BY <1>3, HistSns, Zenon
<1>6. Sns(predHist') \subseteq Sns(predHist) /\ \A k \in Sns(predHist') : ~(k > sn)
  BY <1>2, <1>3, <1>4, <1>5
<1> HIDE DEF sn, kept
<1>7. phase' \in {"generate", "override", "fetch"}
  BY <1>1
<1>8. NoExtra'
  BY <1>1, <1>6, <1>7, ExtraBac, Zenon DEF sn
<1>9. commitSquash'
  BY <1>1 DEF commitSquash
<1> QED BY <1>8, <1>9 DEF Heard

LEMMA ExtraBacDecodeSquash ==
    ASSUME HistOK, BackOK, NoExtra, BacDecodeSquash
    PROVE  NoExtra' /\ Heard'
<1> DEFINE sn == fromDecode[decodeToFetchDelay].sn
           kept == KeptHist(CommittedHist, sn)
<1>1. /\ phase = "bac" /\ phase' = "fetch" /\ ~commitSquash /\ decodeSquash
      /\ UNCHANGED << fromDecode, fromCommit, insts >> /\ predHist' = CorrectedHist(kept)
  BY DEF BacDecodeSquash, newCycle, BacSquash, BpuSquash, wires, backend
<1>2. decodeToFetchDelay \in 1 .. decodeToFetchDelay
  BY FrontEndAssumption
<1>3. sn \in Nat
  BY <1>1, <1>2, BackFacts, Zenon DEF decodeSquash
<1>4. sn \in Int
  BY <1>3
<1>5. /\ CommittedHist \in Seq(History) /\ InOrder(CommittedHist, nextSeq)
      /\ \A k \in Sns(CommittedHist) : k \in Sns(predHist) /\ ~(k <= doneSeqNum)
  BY CommittedSns, Zenon
<1> HIDE DEF sn
<1>6. kept \in Seq(History) /\ \A k \in Sns(kept) : k \in Sns(CommittedHist) /\ k <= sn
  BY <1>4, <1>5, KeptSns, Zenon
<1> HIDE DEF kept
<1>7. Sns(predHist') = Sns(kept)
  BY <1>1, <1>6, CorrectedSns, Zenon
<1>8. Sns(kept) \subseteq Nat
  BY <1>6, HistSns, Zenon
<1>9. \A k \in Sns(kept) : ~(sn < k)
  BY <1>3, <1>6, <1>8
<1>10. /\ Sns(predHist') \subseteq Sns(predHist)
       /\ \A k \in Sns(predHist') : k <= sn /\ ~(sn < k) /\ ~(k <= doneSeqNum)
  BY <1>5, <1>6, <1>7, <1>9, Zenon
<1>11. phase' \in {"generate", "override", "fetch"}
  BY <1>1
<1>12. NoExtra'
  BY <1>1, <1>10, <1>11, ExtraBac, Zenon DEF sn
<1>13. Heard'
  BY <1>1, <1>10, Zenon DEF Heard, sn
<1> QED BY <1>12, <1>13

LEMMA ExtraBacTick ==
    ASSUME HistOK, BackOK, NoExtra, BacFetchSquash \/ BacDrain \/ BacRun
    PROVE  NoExtra' /\ Heard'
<1>1. /\ phase = "bac" /\ ~commitSquash /\ ~decodeSquash /\ predHist' = CommittedHist
      /\ UNCHANGED << fromDecode, fromCommit, insts >>
  BY DEF BacFetchSquash, BacDrain, BacRun, newCycle, wires, backend
<1>2. phase' \in {"generate", "override", "fetch"}
  BY DEF BacFetchSquash, BacDrain, BacRun, BacSquash
<1>3. \A k \in Sns(CommittedHist) : k \in Sns(predHist) /\ ~(k <= doneSeqNum)
  BY CommittedSns, Zenon
<1>4. NoExtra'
  BY <1>1, <1>2, <1>3, ExtraBac, Zenon
<1>5. ~decodeSquash'
  BY <1>1 DEF decodeSquash
<1> QED BY <1>4, <1>5 DEF Heard

\* Where nothing but the phase changes, or branches come into flight.
LEMMA ExtraSame ==
    ASSUME NoExtra, phase \notin {"bac", "commit"}, phase' \notin {"bac", "commit"},
           fromDecode' = fromDecode, \A k : InFlight(k) => InFlight(k)',
           \A k \in Sns(predHist') : k \in Sns(predHist) \/ InFlight(k)'
    PROVE  NoExtra'
<1> SUFFICES ASSUME NEW k \in Sns(predHist') PROVE InFlight(k)' \/ Doomed(k)'
  BY Zenon DEF NoExtra
<1>1. k \in Sns(predHist) => InFlight(k) \/ Dropped(k, decodeToFetchDelay - 1)
  BY Zenon DEF NoExtra, Doomed
<1>2. Dropped(k, decodeToFetchDelay - 1) => Dropped(k, decodeToFetchDelay - 1)'
  BY Zenon DEF Dropped
<1> QED BY <1>1, <1>2, Zenon DEF Doomed

LEMMA ExtraFetchDecodeSquash ==
    ASSUME HistOK, BackOK, NoExtra, Heard, FetchDecodeSquash
    PROVE  NoExtra'
<1> DEFINE sn == fromDecode[decodeToFetchDelay].sn
           n == NumKept(insts, sn)
<1>1. /\ phase = "fetch" /\ phase' = "decode" /\ ~commitSquash /\ decodeSquash
      /\ insts' = SubSeq(insts, 1, n) /\ UNCHANGED << fromDecode, predHist, nextSeq >>
  BY DEF FetchDecodeSquash, hearsDecode, removeInstsUntil, bpu
<1>2. decodeToFetchDelay \in 1 .. decodeToFetchDelay
  BY FrontEndAssumption
<1>3. sn \in Nat
  BY <1>1, <1>2, BackFacts, Zenon DEF decodeSquash
<1>4. /\ sn \in Int /\ Len(insts) \in Nat /\ \A i \in 1 .. Len(insts) : insts[i].sn \in Nat
  BY <1>3, BackFacts
<1>5. \A k \in Sns(predHist) : k \in Nat /\ k <= sn
  <2>1. \A k \in Sns(predHist) : k <= sn
    BY <1>1, Zenon DEF Heard
  <2> QED BY <2>1, HistSns, Zenon DEF HistOK
<1> HIDE DEF sn
<1>6. n \in 0 .. Len(insts) /\ \A i \in n + 1 .. Len(insts) : insts[i].sn > sn
  BY <1>4, FlowKeptExists, Zenon DEF NumKept
<1>7. Len(insts') = n /\ \A i \in 1 .. n : insts'[i] = insts[i]
  BY <1>1, <1>6, InstsTo, Zenon
<1> HIDE DEF n
<1>8. ASSUME NEW k, InFlight(k), k <= sn PROVE InFlight(k)'
  <2>1. PICK i \in 1 .. Len(insts) : insts[i].ctl /\ insts[i].sn = k
    BY <1>8, Zenon DEF InFlight
  <2>2. i \in 1 .. n
    BY <1>3, <1>4, <1>6, <1>8, <2>1
  <2> QED BY <1>7, <2>1, <2>2, Zenon DEF InFlight
<1> SUFFICES ASSUME NEW k \in Sns(predHist) PROVE InFlight(k)' \/ Doomed(k)'
  BY <1>1, Zenon DEF NoExtra
<1>9. InFlight(k) \/ Dropped(k, decodeToFetchDelay - 1)
  BY <1>1, Zenon DEF NoExtra, Doomed
<1>10. ASSUME Dropped(k, decodeToFetchDelay - 1) PROVE Dropped(k, decodeToFetchDelay - 1)'
  <2>1. PICK i \in 1 .. decodeToFetchDelay - 1 : /\ fromDecode[i] # None /\ fromDecode[i].sn < k
                                                  /\ InFlight(fromDecode[i].sn)
    BY <1>10, Zenon DEF Dropped
  <2>2. i \in 1 .. decodeToFetchDelay
    BY FrontEndAssumption
  <2>3. fromDecode[i].sn \in Nat
    BY <2>1, <2>2, BackFacts, Zenon
  <2>4. fromDecode[i].sn <= sn
    BY <1>3, <1>5, <2>1, <2>3
  <2>5. InFlight(fromDecode[i].sn)'
    <3>0. PICK m : m = fromDecode[i].sn
      OBVIOUS
    <3>1. InFlight(m) /\ m <= sn /\ fromDecode'[i].sn = m
      BY <1>1, <2>1, <2>4, <3>0, Zenon
    <3>2. InFlight(m)'
      BY <1>8, <3>1, Zenon
    <3> QED BY <3>1, <3>2, Zenon
  <2> QED BY <1>1, <2>1, <2>5, Zenon DEF Dropped
<1>11. phase' \notin {"bac", "commit"}
  BY <1>1
<1> QED BY <1>5, <1>8, <1>9, <1>10, <1>11, Zenon DEF Doomed

LEMMA Appended ==
    ASSUME NEW S, NEW s \in Seq(S), NEW x, NEW t, t = Append(s, x)
    PROVE  /\ Len(t) = Len(s) + 1 /\ t[Len(s) + 1] = x /\ Len(s) \in Nat
           /\ \A i \in 1 .. Len(s) : t[i] = s[i] /\ i \in 1 .. Len(t)
           /\ \A i \in 1 .. Len(t) : i \in 1 .. Len(s) \/ i = Len(s) + 1
           /\ Len(s) + 1 \in 1 .. Len(t)
<1>1. s \in Seq(S \cup {x}) /\ x \in S \cup {x} /\ Len(s) \in Nat
  BY SeqMonotonic
<1>2. Len(t) = Len(s) + 1 /\ t[Len(s) + 1] = x /\ \A i \in 1 .. Len(s) : t[i] = s[i]
  BY <1>1, AppendProperties
<1> QED BY <1>1, <1>2

LEMMA ExtraNewInst ==
    ASSUME HistOK, BackOK, NoExtra, inFetchLoop, NEW ctl \in BOOLEAN, NewInst(ctl),
           phase' \in {"decode", "fetching", "macroop"},
           IF ctl THEN \E id, modified : Insert(id, modified) ELSE predHist' = predHist
    PROVE  NoExtra'
<1>0. PICK b : b = nextSeq
  OBVIOUS
<1> DEFINE e == [sn |-> b, ctl |-> ctl]
<1>1. insts' = Append(insts, e) /\ fromDecode' = fromDecode
  BY <1>0 DEF NewInst
<1>2. e.sn = b /\ e.ctl = ctl
  OBVIOUS
<1> HIDE DEF e
<1>3. insts \in Seq(FetchedInst) /\ predHist \in Seq(History)
  BY BackFacts, Zenon DEF HistOK
<1>4. /\ Len(insts') = Len(insts) + 1 /\ insts'[Len(insts) + 1] = e
      /\ \A i \in 1 .. Len(insts) : insts'[i] = insts[i] /\ i \in 1 .. Len(insts')
      /\ Len(insts) + 1 \in 1 .. Len(insts')
  BY <1>1, <1>3, Appended
<1>5. \A k : InFlight(k) => InFlight(k)'
  BY <1>4, Zenon DEF InFlight
<1>6. ctl => InFlight(b)'
  BY <1>2, <1>4, Zenon DEF InFlight
<1>7. \A k \in Sns(predHist') : k \in Sns(predHist) \/ InFlight(k)'
  <2>1. CASE ctl
    <3>1. PICK id, modified : Insert(id, modified)
      BY <2>1
    <3> DEFINE h == [sn |-> b, id |-> id, modified |-> modified]
    <3>2. predHist' = Append(predHist, h) /\ h.sn = b
      BY <1>0, <3>1 DEF Insert
    <3> HIDE DEF h
    <3>3. /\ Len(predHist') = Len(predHist) + 1 /\ predHist'[Len(predHist) + 1] = h
          /\ \A i \in 1 .. Len(predHist) : predHist'[i] = predHist[i]
          /\ \A i \in 1 .. Len(predHist') : i \in 1 .. Len(predHist) \/ i = Len(predHist) + 1
      BY <1>3, <3>2, Appended
    <3> QED BY <1>6, <2>1, <3>2, <3>3, Zenon DEF Sns
  <2>2. CASE ~ctl
    BY <2>2
  <2> QED BY <2>1, <2>2
<1>8. phase \notin {"bac", "commit"} /\ phase' \notin {"bac", "commit"}
  BY DEF inFetchLoop
<1> QED BY <1>1, <1>5, <1>7, <1>8, ExtraSame, Zenon

LEMMA ExtraDecodePass ==
    ASSUME BackOK, NoExtra, DecodePass
    PROVE  NoExtra'
<1>1. /\ phase = "decode" /\ phase' = "commit" /\ fromDecode' = Shifted(None)
      /\ UNCHANGED << predHist, insts >>
  BY DEF DecodePass, bpu
<1>2. decodeToFetchDelay \in Nat /\ None \in Signal
  BY FrontEndAssumption DEF Signal
<1>3. \A i \in 1 .. decodeToFetchDelay : i # 1 => fromDecode'[i] = fromDecode[i - 1]
  BY <1>1, <1>2, ShiftedFacts, Zenon
<1> SUFFICES ASSUME NEW k \in Sns(predHist) PROVE InFlight(k)' \/ Dropped(k, decodeToFetchDelay)'
  BY <1>1, Zenon DEF NoExtra, Doomed
<1>4. InFlight(k) \/ Dropped(k, decodeToFetchDelay - 1)
  BY <1>1, Zenon DEF NoExtra, Doomed
<1>5. CASE InFlight(k)
  BY <1>1, <1>5, Zenon DEF InFlight
<1>6. CASE Dropped(k, decodeToFetchDelay - 1)
  <2>1. PICK i \in 1 .. decodeToFetchDelay - 1 : /\ fromDecode[i] # None /\ fromDecode[i].sn < k
                                                  /\ InFlight(fromDecode[i].sn)
    BY <1>6, Zenon DEF Dropped
  <2> DEFINE j == i + 1
  <2>2. j \in 1 .. decodeToFetchDelay /\ j # 1 /\ j - 1 = i
    BY <1>2
  <2> HIDE DEF j
  <2>3. fromDecode'[j] = fromDecode[i]
    BY <1>3, <2>2
  <2>4. InFlight(fromDecode[j].sn)'
    BY <1>1, <2>1, <2>3, Zenon DEF InFlight
  <2> QED BY <2>1, <2>2, <2>3, <2>4, Zenon DEF Dropped
<1> QED BY <1>4, <1>5, <1>6

LEMMA SignalNotNone ==
    ASSUME NEW sn, NEW p
    PROVE  [sn |-> sn, pc |-> p] # None /\ [sn |-> sn, pc |-> p].sn = sn
<1>1. [sn |-> sn, pc |-> p] # None
  BY Zenon DEF None
<1> QED BY <1>1

LEMMA ExtraDecodeSquash ==
    ASSUME BackOK, NoExtra, DecodeSquash
    PROVE  NoExtra'
<1>1. PICK n \in numDecoded + 1 .. Len(insts), p \in SquashPC :
        /\ insts[n].ctl /\ insts' = SubSeq(insts, 1, n)
        /\ fromDecode' = Shifted([sn |-> insts[n].sn, pc |-> p])
  BY DEF DecodeSquash
<1>2. /\ phase = "decode" /\ phase' = "commit" /\ ~decodePending /\ UNCHANGED << predHist, nextSeq >>
  BY DEF DecodeSquash, bpu
<1>3. /\ n \in 0 .. Len(insts) /\ n \in 1 .. Len(insts) /\ n \in 1 .. n /\ Len(insts) \in Nat
      /\ 1 \in 1 .. decodeToFetchDelay
  BY BackFacts, FrontEndAssumption
<1>4. Len(insts') = n /\ \A i \in 1 .. n : insts'[i] = insts[i]
  BY <1>1, <1>2, <1>3, InstsTo, Zenon
<1>5. fromDecode'[1].sn = insts[n].sn /\ fromDecode'[1] # None
  <2>1. fromDecode'[1] = [sn |-> insts[n].sn, pc |-> p]
    BY <1>1, <1>3 DEF Shifted
  <2> QED BY <2>1, SignalNotNone
<1> SUFFICES ASSUME NEW k \in Sns(predHist) PROVE InFlight(k)' \/ Dropped(k, decodeToFetchDelay)'
  BY <1>2, Zenon DEF NoExtra, Doomed
<1>6. InFlight(k)
  <2>1. \A i \in 1 .. decodeToFetchDelay - 1 : i \in 1 .. decodeToFetchDelay
    BY FrontEndAssumption
  <2>2. ~Dropped(k, decodeToFetchDelay - 1)
    BY <1>2, <2>1, Zenon DEF Dropped, decodePending
  <2> QED BY <1>2, <2>2, Zenon DEF NoExtra, Doomed
<1>7. PICK j \in 1 .. Len(insts) : insts[j].ctl /\ insts[j].sn = k
  BY <1>6, Zenon DEF InFlight
<1>8. CASE j \in 1 .. n
  BY <1>4, <1>7, <1>8, Zenon DEF InFlight
<1>9. CASE j \notin 1 .. n
  <2>1. n < j
    BY <1>3, <1>9
  <2>2. insts[n].sn < k
    BY <1>3, <1>7, <2>1, Zenon DEF BackOK, InOrder
  <2>3. InFlight(fromDecode[1].sn)'
    <3>1. insts'[n].ctl /\ insts'[n].sn = fromDecode'[1].sn
      BY <1>1, <1>3, <1>4, <1>5
    <3> QED BY <1>3, <1>4, <3>1, Zenon DEF InFlight
  <2>4. fromDecode'[1].sn < k
    BY <1>5, <2>2
  <2> QED BY <1>3, <1>5, <2>3, <2>4, Zenon DEF Dropped
<1> QED BY <1>8, <1>9

LEMMA ExtraCommitNothing ==
    ASSUME NoExtra, CommitNothing
    PROVE  NoExtra'
<1>1. /\ phase = "commit" /\ phase' = "bac" /\ fromCommit' = None
      /\ UNCHANGED << predHist, fromDecode, insts >>
  BY DEF CommitNothing, bpu
<1>2. ~commitSquash'
  BY <1>1 DEF commitSquash
<1>3. phase # "bac" /\ phase \in {"bac", "commit"}
  BY <1>1
<1>4. \A k \in Sns(predHist) : InFlight(k) \/ Dropped(k, decodeToFetchDelay)
  BY <1>3, Zenon DEF NoExtra, Doomed
<1> QED BY <1>1, <1>2, <1>4, SameFlight, Zenon DEF NoExtra, Doomed

LEMMA ExtraCommitInsts ==
    ASSUME BackOK, NoExtra, CommitInsts
    PROVE  NoExtra'
<1>1. PICK n \in {0} \cup Executed, trap \in BOOLEAN :
        /\ 1 .. n \subseteq Executed
        /\ fromCommit' = [squash |-> FALSE, trapPending |-> trap,
                          sn |-> IF n = 0 THEN 0 ELSE insts[n].sn]
        /\ insts' = SubSeq(insts, n + 1, Len(insts))
  BY Zenon DEF CommitInsts
<1>2. phase = "commit" /\ phase' = "bac" /\ UNCHANGED << predHist, fromDecode >>
  BY DEF CommitInsts, bpu
<1>3. n \in 0 .. Len(insts) /\ Len(insts) \in Nat /\ insts \in Seq(FetchedInst)
  BY BackFacts DEF Executed
<1>4. ~commitSquash' /\ doneSeqNum' = IF n = 0 THEN 0 ELSE insts[n].sn
  BY <1>1, Zenon DEF commitSquash, doneSeqNum, None
<1>5. Len(insts') = Len(insts) - n /\ \A i \in 1 .. Len(insts) - n : insts'[i] = insts[n + i]
  BY <1>1, <1>3, FlowSuffix, Zenon
<1>6. ASSUME NEW k, NEW j \in 1 .. Len(insts), j \notin 1 .. n, insts[j].ctl, insts[j].sn = k
      PROVE  InFlight(k)'
  <2>1. j - n \in 1 .. Len(insts) - n /\ n + (j - n) = j
    BY <1>3, <1>6
  <2>2. insts'[j - n].ctl /\ insts'[j - n].sn = k
    BY <1>5, <1>6, <2>1
  <2> QED BY <1>5, <2>1, <2>2, Zenon DEF InFlight
<1> SUFFICES ASSUME NEW k \in Sns(predHist)
             PROVE  InFlight(k)' \/ k <= doneSeqNum' \/ Dropped(k, decodeToFetchDelay)'
  BY <1>2, <1>4, Zenon DEF NoExtra, Doomed
<1>7. InFlight(k) \/ Dropped(k, decodeToFetchDelay)
  <2>1. phase # "bac" /\ phase \in {"bac", "commit"}
    BY <1>2
  <2> QED BY <2>1, Zenon DEF NoExtra, Doomed
<1>8. CASE InFlight(k)
  <2>1. PICK j \in 1 .. Len(insts) : insts[j].ctl /\ insts[j].sn = k
    BY <1>8, Zenon DEF InFlight
  <2>2. CASE j \in 1 .. n
    <3>1. n # 0 /\ n \in 1 .. Len(insts) /\ (j < n \/ j = n)
      BY <1>3, <2>2
    <3>2. j < n => insts[j].sn < insts[n].sn
      BY <3>1, Zenon DEF BackOK, InOrder
    <3>3. insts[j].sn \in Nat /\ insts[n].sn \in Nat
      BY <3>1, BackFacts, Zenon
    <3> QED BY <1>4, <2>1, <3>1, <3>2, <3>3
  <2>3. CASE j \notin 1 .. n
    BY <1>6, <2>1, <2>3, Zenon
  <2> QED BY <2>2, <2>3
<1>9. CASE Dropped(k, decodeToFetchDelay)
  <2>1. PICK i \in 1 .. decodeToFetchDelay : /\ fromDecode[i] # None /\ fromDecode[i].sn < k
                                              /\ InFlight(fromDecode[i].sn)
    BY <1>9, Zenon DEF Dropped
  <2>2. PICK j \in 1 .. Len(insts) : insts[j].ctl /\ insts[j].sn = fromDecode[i].sn
    BY <2>1, Zenon DEF InFlight
  <2>3. j \notin Executed
    BY <2>1, <2>2 DEF Executed
  <2>4. j \notin 1 .. n
    BY <1>1, <2>3, Zenon
  <2>5. PICK m : m = fromDecode[i].sn
    OBVIOUS
  <2>6. InFlight(m)'
    BY <1>6, <2>2, <2>4, <2>5, Zenon
  <2> QED BY <1>2, <2>1, <2>5, <2>6, Zenon DEF Dropped
<1> QED BY <1>7, <1>8, <1>9

\* A squash by commit leaves the instructions up to the nth.
LEMMA ExtraSquash ==
    ASSUME HistOK, BackOK, NoExtra, phase = "commit", phase' = "bac", predHist' = predHist,
           NEW n \in 0 .. numDecoded, Len(insts') = n, \A i \in 1 .. n : insts'[i] = insts[i],
           commitSquash', fromCommit'.sn = IF n = 0 THEN lastCommittedSeq ELSE insts[n].sn
    PROVE  NoExtra'
<1>1. /\ n \in 0 .. Len(insts) /\ Len(insts) \in Nat
      /\ n # 0 => n \in 1 .. Len(insts)
      /\ n # 0 => n \in 1 .. numDecoded
  BY BackFacts
<1> SUFFICES ASSUME NEW k \in Sns(predHist) PROVE InFlight(k)' \/ k > fromCommit'.sn
  BY Zenon DEF NoExtra, Doomed
<1>2. k \in Nat
  BY HistSns, Zenon DEF HistOK
<1>3. InFlight(k) \/ Dropped(k, decodeToFetchDelay)
  <2>1. phase # "bac" /\ phase \in {"bac", "commit"}
    OBVIOUS
  <2> QED BY <2>1, Zenon DEF NoExtra, Doomed
<1>4. ASSUME NEW j \in 1 .. Len(insts), n = 0
      PROVE  fromCommit'.sn < insts[j].sn /\ fromCommit'.sn \in Int
  <2>1. insts # << >> /\ 1 \in 1 .. Len(insts) /\ (1 < j \/ 1 = j)
    BY <1>1, FlowEmptyIsSeq
  <2>2. 1 < j => insts[1].sn < insts[j].sn
    BY <2>1, Zenon DEF BackOK, InOrder
  <2>3. insts[j].sn \in Nat /\ insts[1].sn \in Nat
    BY <2>1, BackFacts, Zenon
  <2>4. fromCommit'.sn = insts[1].sn - 1
    BY <1>4, <2>1 DEF lastCommittedSeq
  <2> QED BY <2>1, <2>2, <2>3, <2>4
<1>5. CASE InFlight(k)
  <2>1. PICK j \in 1 .. Len(insts) : insts[j].ctl /\ insts[j].sn = k
    BY <1>5, Zenon DEF InFlight
  <2>2. CASE j \in 1 .. n
    BY <2>1, <2>2, Zenon DEF InFlight
  <2>3. CASE j \notin 1 .. n /\ n # 0
    <3>1. n < j
      BY <1>1, <2>3
    <3>2. insts[n].sn < insts[j].sn
      BY <1>1, <2>3, <3>1, Zenon DEF BackOK, InOrder
    <3>3. insts[n].sn \in Nat
      BY <1>1, <2>3, BackFacts, Zenon
    <3> QED BY <1>2, <2>1, <2>3, <3>2, <3>3
  <2>4. CASE n = 0
    BY <1>2, <1>4, <2>1, <2>4
  <2> QED BY <2>2, <2>3, <2>4
<1>6. CASE Dropped(k, decodeToFetchDelay)
  <2>1. PICK i \in 1 .. decodeToFetchDelay : /\ fromDecode[i] # None /\ fromDecode[i].sn < k
                                              /\ InFlight(fromDecode[i].sn)
    BY <1>6, Zenon DEF Dropped
  <2>2. PICK j \in 1 .. Len(insts) : insts[j].sn = fromDecode[i].sn
    BY <2>1, Zenon DEF InFlight
  <2>3. fromDecode[i].sn \in Nat
    BY <2>1, BackFacts, Zenon
  <2>4. CASE n = 0
    BY <1>2, <1>4, <2>1, <2>2, <2>3, <2>4
  <2>5. CASE n # 0
    <3>1. insts[n].sn <= fromDecode[i].sn
      BY <1>1, <2>1, <2>5, Zenon DEF BackOK, DecodedOlder
    <3>2. insts[n].sn \in Nat /\ fromCommit'.sn = insts[n].sn
      BY <1>1, <2>5, BackFacts, Zenon
    <3> QED BY <1>2, <2>1, <2>3, <3>1, <3>2
  <2> QED BY <2>4, <2>5
<1> QED BY <1>3, <1>5, <1>6

LEMMA ExtraCommitSquash ==
    ASSUME HistOK, BackOK, NoExtra, CommitSquash
    PROVE  NoExtra'
<1>1. PICK n \in {0} \cup Executed, mispredict \in BOOLEAN, p \in SquashPC :
        /\ insts' = SubSeq(insts, 1, n)
        /\ fromCommit' = [squash |-> TRUE, mispredict |-> mispredict, pc |-> p,
                          sn |-> IF n = 0 THEN lastCommittedSeq ELSE insts[n].sn]
  BY Zenon DEF CommitSquash
<1>2. phase = "commit" /\ phase' = "bac" /\ UNCHANGED << predHist, nextSeq >>
  BY DEF CommitSquash, bpu
<1>3. n \in 0 .. numDecoded /\ n \in 0 .. Len(insts)
  BY BackFacts DEF Executed
<1>4. Len(insts') = n /\ \A i \in 1 .. n : insts'[i] = insts[i]
  BY <1>1, <1>2, <1>3, InstsTo, Zenon
<1>5. commitSquash' /\ fromCommit'.sn = IF n = 0 THEN lastCommittedSeq ELSE insts[n].sn
  BY <1>1 DEF commitSquash, None
<1> QED BY <1>2, <1>3, <1>4, <1>5, ExtraSquash, Zenon

LEMMA ExtraSquashAfter ==
    ASSUME HistOK, BackOK, NoExtra, CommitSquashAfter
    PROVE  NoExtra'
<1>1. PICK a \in Target :
        fromCommit' = [squash |-> TRUE, mispredict |-> FALSE, pc |-> At(a), sn |-> lastCommittedSeq]
  BY Zenon DEF CommitSquashAfter
<1>2. phase = "commit" /\ phase' = "bac" /\ predHist' = predHist /\ insts' = << >>
  BY DEF CommitSquashAfter, bpu
<1>3. Len(insts') = 0 /\ (\A i \in 1 .. 0 : insts'[i] = insts[i]) /\ 0 \in 0 .. numDecoded
  BY <1>2, BackFacts, FlowEmptyIsSeq
<1>4. commitSquash' /\ fromCommit'.sn = IF 0 = 0 THEN lastCommittedSeq ELSE insts[0].sn
  BY <1>1 DEF commitSquash, None
<1> QED BY <1>2, <1>3, <1>4, ExtraSquash, Zenon

LEMMA ExtraNext ==
    ASSUME HistOK, BackOK, NoExtra, Heard, Drains, [Next]_vars
    PROVE  NoExtra' /\ Heard'
<1>1. CASE BacCommitSquash
  BY <1>1, ExtraBacCommitSquash, Zenon
<1>2. CASE BacDecodeSquash
  BY <1>2, ExtraBacDecodeSquash, Zenon
<1>3. CASE BacFetchSquash \/ BacDrain \/ BacRun
  BY <1>3, ExtraBacTick, Zenon
<1>4. CASE BacOverride \/ GenerateFallThrough \/ GenerateBranch
  <2>1. /\ phase \in {"generate", "override"} /\ phase' \in {"generate", "fetch"}
        /\ UNCHANGED << predHist, fromDecode, fromCommit, insts >>
    <3>1. CASE BacOverride
      BY <3>1 DEF BacOverride, bpu, wires, backend
    <3>2. CASE GenerateFallThrough \/ GenerateBranch
      <4>1. PICK ft, latency : InsertFT(ft, latency)
        BY <3>2, Zenon DEF GenerateFallThrough, GenerateBranch
      <4>2. phase = "generate"
        BY <3>2, Zenon DEF GenerateFallThrough, GenerateBranch
      <4> QED BY <4>1, <4>2 DEF InsertFT, wires, backend
    <3> QED BY <1>4, <3>1, <3>2
  <2>2. phase \notin {"bac", "commit"} /\ phase' \notin {"bac", "commit"}
    BY <2>1
  <2>3. (\A k : InFlight(k) => InFlight(k)') /\ \A k \in Sns(predHist') : k \in Sns(predHist)
    BY <2>1, Zenon DEF InFlight
  <2>4. NoExtra'
    BY <2>1, <2>2, <2>3, ExtraSame, Zenon
  <2>5. commitSquash' = commitSquash /\ decodeSquash' = decodeSquash
    BY <2>1, Zenon DEF commitSquash, decodeSquash
  <2>6. phase \in {"generate", "override", "fetch"}
    BY <2>1
  <2>7. Heard'
    BY <2>1, <2>5, <2>6, Zenon DEF Heard
  <2> QED BY <2>4, <2>7
<1>5. CASE FetchCommitSquash \/ FetchTrap \/ FetchIdle \/ FetchResteer \/ FetchStart \/ FetchStop
  <2>1. /\ phase \in {"fetch", "fetching", "macroop"} /\ phase' \in {"decode", "fetching"}
        /\ UNCHANGED << predHist, fromDecode, insts >>
    BY <1>5, Zenon DEF FetchCommitSquash, FetchTrap, FetchIdle, FetchResteer, FetchStart, FetchStop,
                inFetchLoop, bpu, wires, backend
  <2>2. phase \notin {"bac", "commit"} /\ phase' \notin {"bac", "commit", "generate", "override", "fetch"}
    BY <2>1
  <2>3. (\A k : InFlight(k) => InFlight(k)') /\ \A k \in Sns(predHist') : k \in Sns(predHist)
    BY <2>1, Zenon DEF InFlight
  <2>4. NoExtra'
    BY <2>1, <2>2, <2>3, ExtraSame
  <2> QED BY <2>2, <2>4 DEF Heard
<1>6. CASE FetchDecodeSquash
  <2>1. phase' \notin {"generate", "override", "fetch"}
    BY <1>6 DEF FetchDecodeSquash
  <2> QED BY <1>6, <2>1, ExtraFetchDecodeSquash, Zenon DEF Heard
<1>7. CASE FetchPlain \/ FetchQuiesce \/ FetchPredicted \/ FetchComplex \/ FetchUnpredicted
  <2>1. /\ inFetchLoop
        /\ \E ctl \in BOOLEAN : /\ NewInst(ctl)
                                /\ IF ctl THEN \E id, modified : Insert(id, modified)
                                   ELSE predHist' = predHist
    BY <1>7, Zenon DEF FetchPlain, FetchQuiesce, FetchPredicted, FetchComplex, FetchUnpredicted, CanFetch
  <2>2. phase' \in {"decode", "fetching", "macroop"}
    <3>1. \/ FetchQuiesce
          \/ \E q, status, nextPC, taken : EndOfInst(q, status, nextPC, taken)
      BY <1>7, Zenon DEF FetchPlain, FetchPredicted, FetchComplex, FetchUnpredicted
    <3> QED BY <3>1, Zenon DEF FetchQuiesce, EndOfInst, Resteer
  <2>3. NoExtra'
    BY <2>1, <2>2, ExtraNewInst, Zenon
  <2>4. phase' \notin {"generate", "override", "fetch"}
    BY <2>2
  <2> QED BY <2>3, <2>4, Zenon DEF Heard
<1>8. CASE Decode \/ Commit
  <2>1. phase' \notin {"generate", "override", "fetch"}
    BY <1>8, Zenon DEF Decode, DecodePass, DecodeSquash, Commit, CommitNothing, CommitInsts,
                CommitSquash, CommitSquashAfter
  <2>2. NoExtra'
    BY <1>8, ExtraDecodePass, ExtraDecodeSquash, ExtraCommitNothing, ExtraCommitInsts,
       ExtraCommitSquash, ExtraSquashAfter, Zenon DEF Decode, Commit
  <2> QED BY <2>1, <2>2, Zenon DEF Heard
<1>9. CASE DrainResume
  <2>1. phase = "bac" /\ draining = "empty" /\ phase' = phase /\ predHist' = predHist
    BY <1>9 DEF DrainResume, isCpuDrained, bpu
  <2>2. Sns(predHist) = {}
    BY <2>1, HistSns, Zenon DEF HistOK, Drains
  <2>3. NoExtra'
    BY <2>1, <2>2, Zenon DEF NoExtra
  <2>4. phase' \notin {"generate", "override", "fetch"}
    BY <2>1
  <2> QED BY <2>3, <2>4, Zenon DEF Heard
<1>10. CASE UNCHANGED vars
  <2>1. UNCHANGED << phase, predHist, fromDecode, fromCommit, insts >>
    BY <1>10 DEF vars, bpu, wires, backend
  <2>2. commitSquash' = commitSquash /\ decodeSquash' = decodeSquash /\ doneSeqNum' = doneSeqNum
    BY <2>1, Zenon DEF commitSquash, decodeSquash, doneSeqNum
  <2>3. \A k : (InFlight(k)' <=> InFlight(k)) /\ (Doomed(k) => Doomed(k)')
    BY <2>1, <2>2, SameFlight, Zenon DEF Doomed
  <2> QED BY <2>1, <2>2, <2>3, Zenon DEF NoExtra, Heard
<1> QED BY <1>1, <1>2, <1>3, <1>4, <1>5, <1>6, <1>7, <1>8, <1>9, <1>10, Zenon DEF Next, Bac, Fetch

\* With nothing in flight, and commit's signal heard, nothing is outstanding.
LEMMA NothingOutstanding ==
    ASSUME HistOK, NoExtra, phase = "commit", insts = << >>
    PROVE  predHist = << >>
<1>1. \A k : ~InFlight(k)
  <2>1. \A i \in 1 .. Len(insts) : FALSE
    OBVIOUS
  <2> QED BY <2>1, Zenon DEF InFlight
<1>2. \A k, d : ~Dropped(k, d)
  BY <1>1, Zenon DEF Dropped
<1>3. \A k : ~Doomed(k)
  <2>1. phase # "bac" /\ phase \in {"bac", "commit"}
    OBVIOUS
  <2> QED BY <1>2, <2>1, Zenon DEF Doomed
<1>4. Sns(predHist) = {}
  BY <1>1, <1>3, Zenon DEF NoExtra
<1> QED BY <1>4, HistSns, Zenon DEF HistOK

LEMMA DrainsNext ==
    ASSUME HistOK, BackOK, NoExtra, Drains, [Next]_vars
    PROVE  Drains'
<1>1. CASE BacCommitSquash \/ BacDecodeSquash \/ BacFetchSquash \/ BacDrain
  <2>1. phase' = "fetch" /\ ftq' = << >> /\ UNCHANGED << insts, draining >>
    BY <1>1, Zenon DEF BacCommitSquash, BacDecodeSquash, BacFetchSquash, BacDrain, BacSquash, backend
  <2> QED BY <2>1 DEF Drains
<1>2. CASE BacRun \/ BacOverride \/ GenerateFallThrough \/ GenerateBranch \/ FetchStart
  <2>1. ~stalled /\ draining' = draining
    <3>1. CASE BacRun
      BY <3>1 DEF BacRun, backend
    <3>2. CASE BacOverride
      BY <3>2 DEF BacOverride, backend, Drains
    <3>3. CASE GenerateFallThrough \/ GenerateBranch
      <4>1. PICK ft, latency : InsertFT(ft, latency)
        BY <3>3, Zenon DEF GenerateFallThrough, GenerateBranch
      <4>2. phase = "generate"
        BY <3>3, Zenon DEF GenerateFallThrough, GenerateBranch
      <4> QED BY <4>1, <4>2 DEF InsertFT, backend, Drains
    <3>4. CASE FetchStart
      BY <3>4 DEF FetchStart, covered, isHeadReady, backend, Drains
    <3> QED BY <1>2, <3>1, <3>2, <3>3, <3>4
  <2> QED BY <2>1 DEF Drains, stalled
<1>3. CASE FetchPlain \/ FetchQuiesce \/ FetchPredicted \/ FetchComplex \/ FetchUnpredicted \/ FetchStop
  <2>1. inFetchLoop /\ draining' = draining
    BY <1>3, Zenon DEF FetchPlain, FetchQuiesce, FetchPredicted, FetchComplex, FetchUnpredicted,
                       FetchStop, CanFetch, NewInst, backend
  <2> QED BY <2>1 DEF Drains, stalled, inFetchLoop
<1>4. CASE FetchCommitSquash \/ FetchTrap \/ FetchIdle \/ FetchResteer
  <2>1. phase' = "decode" /\ UNCHANGED << insts, draining >>
    BY <1>4 DEF FetchCommitSquash, FetchTrap, FetchIdle, FetchResteer, backend
  <2> QED BY <2>1 DEF Drains
<1>5. CASE FetchDecodeSquash
  <2>1. phase' = "decode" /\ draining' = draining
    BY <1>5 DEF FetchDecodeSquash
  <2>2. ASSUME insts = << >> PROVE insts' = << >>
    <3> DEFINE sn == fromDecode[decodeToFetchDelay].sn
    <3>1. insts' = SubSeq(insts, 1, NumKept(insts, sn)) /\ nextSeq' = nextSeq
      BY <1>5 DEF FetchDecodeSquash, removeInstsUntil
    <3>2. decodeToFetchDelay \in 1 .. decodeToFetchDelay /\ fromDecode[decodeToFetchDelay] # None
      BY <1>5, FrontEndAssumption, SMTT(30) DEF FetchDecodeSquash, hearsDecode, decodeSquash
    <3>3. sn \in Int /\ Len(insts) \in Nat /\ \A i \in 1 .. Len(insts) : insts[i].sn \in Nat
      BY <3>2, BackFacts
    <3> HIDE DEF sn
    <3>4. NumKept(insts, sn) \in 0 .. Len(insts)
      BY <3>3, FlowKeptExists, Zenon DEF NumKept
    <3>5. insts' \in Seq(FetchedInst) /\ Len(insts') = NumKept(insts, sn)
      BY <3>1, <3>4, InstsTo, Zenon
    <3> QED BY <2>2, <3>4, <3>5
  <2> QED BY <2>1, <2>2 DEF Drains
<1>6. CASE DecodePass
  BY <1>6 DEF DecodePass, Drains
<1>7. CASE DecodeSquash
  <2>1. phase' = "commit" /\ draining' = draining /\ numDecoded + 1 .. Len(insts) # {}
    BY <1>7 DEF DecodeSquash
  <2>2. insts # << >>
    BY <2>1, BackFacts
  <2> QED BY <2>1, <2>2 DEF Drains
<1>8. CASE CommitNothing
  <2>1. /\ phase = "commit" /\ phase' = "bac" /\ UNCHANGED << predHist, insts >>
        /\ draining' = IF draining = "removing" THEN "empty" ELSE draining
    BY <1>8 DEF CommitNothing, bpu
  <2>2. insts = << >> => predHist = << >>
    BY <2>1, NothingOutstanding
  <2> QED BY <2>1, <2>2 DEF Drains
<1>9. CASE CommitInsts
  <2>1. phase' = "bac" /\ draining' \in {"no", "pending"}
    BY <1>9 DEF CommitInsts
  <2> QED BY <2>1 DEF Drains
<1>10. CASE CommitSquash
  <2>1. phase' = "bac" /\ draining' = "no"
    BY <1>10 DEF CommitSquash, stalled
  <2> QED BY <2>1 DEF Drains
<1>11. CASE CommitSquashAfter
  <2>1. /\ phase = "commit" /\ phase' = "bac" /\ predHist' = predHist /\ insts' = << >>
        /\ draining' = IF insts = << >> THEN "empty" ELSE "removing"
    BY <1>11 DEF CommitSquashAfter, bpu
  <2>2. insts = << >> => predHist = << >>
    BY <2>1, NothingOutstanding
  <2> QED BY <2>1, <2>2 DEF Drains
<1>12. CASE DrainResume
  <2>1. draining' = "no"
    BY <1>12 DEF DrainResume
  <2> QED BY <2>1 DEF Drains, stalled
<1>13. CASE UNCHANGED vars
  BY <1>13 DEF vars, queue, bpu, backend, Drains, stalled
<1> QED BY <1>1, <1>2, <1>3, <1>4, <1>5, <1>6, <1>7, <1>8, <1>9, <1>10, <1>11, <1>12, <1>13, Zenon
        DEF Next, Bac, Fetch, Decode, Commit

-----------------------------------------------------------------------------
(* The squashes of decode that fetch obeys. *)

\* A squash of commit has removed the branch of decode's signal i, and fetch does not
\* obey that signal.
Overtaken(i) ==
    \/ /\ phase \in {"bac", "generate", "override", "fetch"}
       /\ commitSquash \/ (i = decodeToFetchDelay /\ fetchStatus = "Squashing")
    \/ inFetchLoop /\ i = decodeToFetchDelay
    \/ phase = "decode" /\ (i = decodeToFetchDelay \/ fetchStatus = "Squashing")
    \/ phase = "commit" /\ i = decodeToFetchDelay /\ fetchStatus = "Squashing"

Fresh == \A i \in 1 .. decodeToFetchDelay :
            fromDecode[i] # None => InFlight(fromDecode[i].sn) \/ Overtaken(i)

LEMMA FreshImplies ==
    ASSUME Fresh, BackOK
    PROVE  DecodeSquashIsFresh
<1> SUFFICES ASSUME phase = "fetch", hearsDecode
             PROVE  \E i \in DOMAIN insts : insts[i].sn = fromDecode[decodeToFetchDelay].sn
  BY Zenon DEF DecodeSquashIsFresh
<1>1. decodeToFetchDelay \in 1 .. decodeToFetchDelay
  BY FrontEndAssumption
<1>2. ~commitSquash /\ fetchStatus # "Squashing" /\ fromDecode[decodeToFetchDelay] # None
  BY DEF hearsDecode, decodeSquash
<1>3. ~Overtaken(decodeToFetchDelay)
  BY <1>2 DEF Overtaken, inFetchLoop
<1>4. InFlight(fromDecode[decodeToFetchDelay].sn)
  BY <1>1, <1>2, <1>3, Zenon DEF Fresh
<1>5. DOMAIN insts = 1 .. Len(insts)
  BY BackFacts
<1> QED BY <1>4, <1>5, Zenon DEF InFlight

\* Steps that leave the wire of decode alone, and the branches in flight.
LEMMA FreshSame ==
    ASSUME Fresh, fromDecode' = fromDecode, \A k : InFlight(k) => InFlight(k)',
           \A i \in 1 .. decodeToFetchDelay : Overtaken(i) => Overtaken(i)'
    PROVE  Fresh'
BY Zenon DEF Fresh

LEMMA FreshBac ==
    ASSUME Fresh, Bac
    PROVE  Fresh'
<1>1. /\ UNCHANGED << fromDecode, fromCommit, insts, fetchStatus >>
      /\ phase \in {"bac", "generate", "override", "fetch"} /\ phase' \in {"bac", "generate", "override", "fetch"}
  <2>1. CASE BacCommitSquash \/ BacDecodeSquash \/ BacFetchSquash \/ BacDrain
    BY <2>1, Zenon DEF BacCommitSquash, BacDecodeSquash, BacFetchSquash, BacDrain, newCycle, BacSquash,
                fetcher, wires, backend
  <2>2. CASE BacRun \/ BacOverride
    BY <2>2 DEF BacRun, BacOverride, newCycle, fetcher, wires, backend
  <2>3. CASE GenerateFallThrough \/ GenerateBranch
    <3>1. PICK ft, latency : InsertFT(ft, latency)
      BY <2>3, Zenon DEF GenerateFallThrough, GenerateBranch
    <3>2. phase = "generate"
      BY <2>3, Zenon DEF GenerateFallThrough, GenerateBranch
    <3> QED BY <3>1, <3>2 DEF InsertFT, fetcher, wires, backend
  <2> QED BY <2>1, <2>2, <2>3, Zenon DEF Bac
<1>2. \A k : InFlight(k) => InFlight(k)'
  BY <1>1, Zenon DEF InFlight
<1>3. phase \notin {"fetching", "macroop", "decode", "commit"}
  BY <1>1
<1>4. commitSquash' = commitSquash
  BY <1>1 DEF commitSquash
<1>5. \A i \in 1 .. decodeToFetchDelay : Overtaken(i) => Overtaken(i)'
  BY <1>1, <1>3, <1>4 DEF Overtaken, inFetchLoop
<1> QED BY <1>1, <1>2, <1>5, FreshSame, Zenon

LEMMA FreshFetch ==
    ASSUME Fresh, BackOK, Fetch
    PROVE  Fresh'
<1>0. fromDecode' = fromDecode
  BY Zenon DEF Fetch, FetchCommitSquash, FetchTrap, FetchDecodeSquash, FetchIdle, FetchResteer, FetchStart,
               FetchPlain, FetchQuiesce, FetchPredicted, FetchComplex, FetchUnpredicted, FetchStop,
               NewInst, wires
<1>1. CASE FetchCommitSquash \/ FetchDecodeSquash
  <2>1. phase' = "decode" /\ fetchStatus' = "Squashing"
    BY <1>1, Zenon DEF FetchCommitSquash, FetchDecodeSquash
  <2> QED BY <2>1, Zenon DEF Fresh, Overtaken
<1>2. CASE FetchTrap \/ FetchIdle \/ FetchResteer \/ FetchStart \/ FetchStop
  <2>1. /\ insts' = insts /\ phase' \in {"decode", "fetching"}
        /\ (phase = "fetch" /\ ~commitSquash) \/ inFetchLoop
    BY <1>2, Zenon DEF FetchTrap, FetchIdle, FetchResteer, FetchStart, FetchStop, hearsNothing,
                commitTrap, commitSquash, backend
  <2>2. \A k : InFlight(k) => InFlight(k)'
    BY <2>1, Zenon DEF InFlight
  <2>3. \A i \in 1 .. decodeToFetchDelay : Overtaken(i) => i = decodeToFetchDelay
    BY <2>1 DEF Overtaken, inFetchLoop
  <2>4. Overtaken(decodeToFetchDelay)'
    BY <2>1 DEF Overtaken, inFetchLoop
  <2> QED BY <1>0, <2>2, <2>3, <2>4, FreshSame, Zenon
<1>3. CASE FetchPlain \/ FetchQuiesce \/ FetchPredicted \/ FetchComplex \/ FetchUnpredicted
  <2>1. inFetchLoop /\ \E ctl \in BOOLEAN : NewInst(ctl)
    BY <1>3, Zenon DEF FetchPlain, FetchQuiesce, FetchPredicted, FetchComplex, FetchUnpredicted, CanFetch
  <2>2. phase' \in {"decode", "fetching", "macroop"}
    <3>1. \/ FetchQuiesce
          \/ \E q, status, nextPC, taken : EndOfInst(q, status, nextPC, taken)
      BY <1>3, Zenon DEF FetchPlain, FetchPredicted, FetchComplex, FetchUnpredicted
    <3> QED BY <3>1, Zenon DEF FetchQuiesce, EndOfInst, Resteer
  <2>3. \A k : InFlight(k) => InFlight(k)'
    <3>1. PICK e : insts' = Append(insts, e)
      BY <2>1, Zenon DEF NewInst
    <3>2. insts \in Seq(FetchedInst)
      BY BackFacts, Zenon
    <3>3. \A i \in 1 .. Len(insts) : insts'[i] = insts[i] /\ i \in 1 .. Len(insts')
      BY <3>1, <3>2, Appended
    <3> QED BY <3>3, Zenon DEF InFlight
  <2>4. \A i \in 1 .. decodeToFetchDelay : Overtaken(i) => i = decodeToFetchDelay
    BY <2>1 DEF Overtaken, inFetchLoop
  <2>5. Overtaken(decodeToFetchDelay)'
    BY <2>2 DEF Overtaken, inFetchLoop
  <2> QED BY <1>0, <2>3, <2>4, <2>5, FreshSame, Zenon
<1> QED BY <1>1, <1>2, <1>3, Zenon DEF Fetch

LEMMA FreshDecode ==
    ASSUME decodeToFetchDelay <= 2, Fresh, BackOK, Decode
    PROVE  Fresh'
<1>0. decodeToFetchDelay \in {1, 2} /\ 1 \in 1 .. decodeToFetchDelay
  BY FrontEndAssumption
<1>1. CASE DecodePass
  <2>1. /\ phase = "decode" /\ phase' = "commit" /\ fromDecode' = Shifted(None)
        /\ UNCHANGED << insts, fetchStatus >>
    BY <1>1 DEF DecodePass, fetcher
  <2>2. None \in Signal
    BY DEF Signal
  <2>3. /\ fromDecode'[1] = None
        /\ \A i \in 1 .. decodeToFetchDelay : i # 1 => fromDecode'[i] = fromDecode[i - 1]
    BY <2>1, <2>2, ShiftedFacts, Zenon
  <2> SUFFICES ASSUME NEW i \in 1 .. decodeToFetchDelay, fromDecode'[i] # None
               PROVE  InFlight(fromDecode[i].sn)' \/ Overtaken(i)'
    BY Zenon DEF Fresh
  <2>4. /\ i = decodeToFetchDelay /\ i = 2 /\ fromDecode'[2] = fromDecode[1]
        /\ 1 # decodeToFetchDelay
    BY <1>0, <2>3
  <2>5. InFlight(fromDecode[1].sn) \/ Overtaken(1)
    BY <1>0, <2>4, Zenon DEF Fresh
  <2>6. InFlight(fromDecode[1].sn) => InFlight(fromDecode[2].sn)'
    BY <2>1, <2>4, Zenon DEF InFlight
  <2>7. Overtaken(1) => fetchStatus = "Squashing"
    BY <2>1, <2>4 DEF Overtaken, inFetchLoop
  <2> QED BY <2>1, <2>4, <2>5, <2>6, <2>7, Zenon DEF Overtaken
<1>2. CASE DecodeSquash
  <2>1. PICK n \in numDecoded + 1 .. Len(insts), p \in SquashPC :
          /\ insts[n].ctl /\ insts' = SubSeq(insts, 1, n)
          /\ fromDecode' = Shifted([sn |-> insts[n].sn, pc |-> p])
    BY <1>2 DEF DecodeSquash
  <2>2. ~decodePending /\ nextSeq' = nextSeq
    BY <1>2 DEF DecodeSquash
  <2>3. n \in 0 .. Len(insts) /\ n \in 1 .. n
    BY BackFacts
  <2>4. Len(insts') = n /\ insts'[n] = insts[n]
    BY <2>1, <2>2, <2>3, InstsTo, Zenon
  <2>5. fromDecode'[1].sn = insts[n].sn
    <3>1. fromDecode'[1] = [sn |-> insts[n].sn, pc |-> p]
      BY <1>0, <2>1 DEF Shifted
    <3> QED BY <3>1
  <2>6. InFlight(fromDecode[1].sn)'
    BY <2>1, <2>3, <2>4, <2>5, Zenon DEF InFlight
  <2>7. \A i \in 1 .. decodeToFetchDelay : i # 1 => fromDecode'[i] = None
    <3>0. PICK sig : fromDecode' = Shifted(sig)
      BY <2>1, Zenon
    <3>1. \A i \in 1 .. decodeToFetchDelay :
            i # 1 => fromDecode'[i] = fromDecode[i - 1] /\ i - 1 \in 1 .. decodeToFetchDelay
      BY <1>0, <3>0 DEF Shifted
    <3> QED BY <2>2, <3>1, Zenon DEF decodePending
  <2> QED BY <2>6, <2>7, Zenon DEF Fresh
<1> QED BY <1>1, <1>2 DEF Decode

LEMMA FreshCommit ==
    ASSUME Fresh, BackOK, Commit
    PROVE  Fresh'
<1>0. phase = "commit" /\ phase' = "bac" /\ UNCHANGED << fromDecode, fetchStatus >>
  BY Zenon DEF Commit, CommitNothing, CommitInsts, CommitSquash, CommitSquashAfter, fetcher
<1>1. \A i \in 1 .. decodeToFetchDelay : Overtaken(i) => Overtaken(i)'
  BY <1>0 DEF Overtaken, inFetchLoop
<1>2. CASE CommitNothing
  <2>1. \A k : InFlight(k) => InFlight(k)'
    BY <1>2, Zenon DEF InFlight, CommitNothing
  <2> QED BY <1>0, <1>1, <2>1, FreshSame, Zenon
<1>3. CASE CommitInsts
  <2>1. PICK n \in {0} \cup Executed :
          1 .. n \subseteq Executed /\ insts' = SubSeq(insts, n + 1, Len(insts))
    BY <1>3, Zenon DEF CommitInsts
  <2>2. n \in 0 .. Len(insts) /\ Len(insts) \in Nat /\ insts \in Seq(FetchedInst)
    BY BackFacts DEF Executed
  <2>3. Len(insts') = Len(insts) - n /\ \A i \in 1 .. Len(insts) - n : insts'[i] = insts[n + i]
    BY <2>1, <2>2, FlowSuffix, Zenon
  <2> SUFFICES ASSUME NEW i \in 1 .. decodeToFetchDelay, fromDecode[i] # None, InFlight(fromDecode[i].sn)
               PROVE  InFlight(fromDecode[i].sn)'
    BY <1>0, <1>1, Zenon DEF Fresh
  <2>4. PICK j \in 1 .. Len(insts) : insts[j].ctl /\ insts[j].sn = fromDecode[i].sn
    BY Zenon DEF InFlight
  <2>5. j \notin Executed
    BY <2>4 DEF Executed
  <2>6. j \notin 1 .. n
    BY <2>1, <2>5, Zenon
  <2>7. j - n \in 1 .. Len(insts) - n /\ n + (j - n) = j
    BY <2>2, <2>6
  <2>8. insts'[j - n].ctl /\ insts'[j - n].sn = fromDecode'[i].sn
    BY <1>0, <2>3, <2>4, <2>7
  <2> QED BY <2>3, <2>7, <2>8, Zenon DEF InFlight
<1>4. CASE CommitSquash \/ CommitSquashAfter
  <2>1. PICK mispredict, p, sn :
          fromCommit' = [squash |-> TRUE, mispredict |-> mispredict, pc |-> p, sn |-> sn]
    BY <1>4, Zenon DEF CommitSquash, CommitSquashAfter
  <2>2. commitSquash'
    BY <2>1, Zenon DEF commitSquash, None
  <2>3. \A i \in 1 .. decodeToFetchDelay : Overtaken(i)'
    BY <1>0, <2>2 DEF Overtaken
  <2> QED BY <2>3, Zenon DEF Fresh
<1> QED BY <1>2, <1>3, <1>4, Zenon DEF Commit

LEMMA FreshNext ==
    ASSUME decodeToFetchDelay <= 2, Fresh, BackOK, [Next]_vars
    PROVE  Fresh'
<1>1. CASE DrainResume
  <2>1. \A i \in 1 .. decodeToFetchDelay : fromDecode'[i] = None
    BY <1>1, Zenon DEF DrainResume
  <2> QED BY <2>1, Zenon DEF Fresh
<1>2. CASE UNCHANGED vars
  <2>1. UNCHANGED << phase, fromDecode, fromCommit, insts, fetchStatus >>
    BY <1>2 DEF vars, fetcher, wires, backend
  <2>2. \A k : InFlight(k) => InFlight(k)'
    BY <2>1, Zenon DEF InFlight
  <2>3. commitSquash' = commitSquash /\ inFetchLoop' = inFetchLoop
    BY <2>1, Zenon DEF commitSquash, inFetchLoop
  <2>4. \A i \in 1 .. decodeToFetchDelay : Overtaken(i) => Overtaken(i)'
    BY <2>1, <2>3, Zenon DEF Overtaken
  <2> QED BY <2>1, <2>2, <2>4, FreshSame, Zenon
<1> QED BY <1>1, <1>2, FreshBac, FreshFetch, FreshDecode, FreshCommit, Zenon DEF Next
=============================================================================
