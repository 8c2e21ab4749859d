------------------------- MODULE FrontEndQueueProofs ------------------------
(***************************************************************************)
(* The fetch target queue and the list of histories, for every program and  *)
(* all sizes: the queue has room for every target, fetch stays inside its    *)
(* head, and, if the signals of decode are as fast as those of commit, every *)
(* branch in flight has its history and a squash corrects the branch it is   *)
(* about.                                                                    *)
(***************************************************************************)
EXTENDS FrontEndParts, SequenceTheorems, WellFoundedInduction, TLAPS

-----------------------------------------------------------------------------
(* Sequences, the program, and the parts of the type invariant. *)

LEMMA EmptyIsSeq == IsSeq(<< >>) /\ Len(<< >>) = 0
<1>1. << >> \in Seq({}) /\ Len(<< >>) = 0
  BY EmptySeq
<1> QED BY <1>1 DEF IsSeq

LEMMA AppendIsSeq ==
    ASSUME NEW q, IsSeq(q), NEW x
    PROVE  IsSeq(Append(q, x)) /\ Len(q) \in Nat /\ Len(Append(q, x)) = Len(q) + 1
<1>1. PICK S : q \in Seq(S)
  BY DEF IsSeq
<1>2. q \in Seq(S \cup {x})
  BY <1>1, SeqMonotonic
<1>3. Append(q, x) \in Seq(S \cup {x}) /\ Len(Append(q, x)) = Len(q) + 1
  BY <1>2, AppendProperties
<1>4. Len(q) \in Nat
  BY <1>1
<1> QED BY <1>3, <1>4 DEF IsSeq

\* What Append returns.
LEMMA AppendFacts ==
    ASSUME NEW S, NEW s \in Seq(S), NEW x \in S
    PROVE  /\ Append(s, x) \in Seq(S) /\ Len(s) \in Nat /\ Len(Append(s, x)) = Len(s) + 1
           /\ Append(s, x)[Len(s) + 1] = x
           /\ \A i \in 1 .. Len(s) : Append(s, x)[i] = s[i]
           /\ \A i \in 1 .. Len(s) + 1 : i \in 1 .. Len(s) \/ i = Len(s) + 1
<1>1. Len(s) \in Nat
  OBVIOUS
<1>2. \A i \in 1 .. Len(s) + 1 : i \in 1 .. Len(s) \/ i = Len(s) + 1
  BY <1>1
<1> QED BY <1>1, <1>2, AppendProperties

LEMMA AppendEntries ==
    ASSUME NEW q, IsSeq(q), NEW x
    PROVE  /\ Len(q) \in Nat /\ Len(Append(q, x)) = Len(q) + 1
           /\ Append(q, x)[Len(q) + 1] = x
           /\ \A i \in 1 .. Len(q) : Append(q, x)[i] = q[i]
           /\ \A i \in 1 .. Len(q) + 1 : i \in 1 .. Len(q) \/ i = Len(q) + 1
<1>1. PICK S : q \in Seq(S)
  BY Zenon DEF IsSeq
<1>2. q \in Seq(S \cup {x}) /\ x \in S \cup {x}
  BY <1>1, SeqMonotonic
<1> QED BY <1>2, AppendFacts

\* Where an index below the end may go.
LEMMA NextIndex ==
    ASSUME NEW n \in Nat, NEW i \in 1 .. n
    PROVE  i # n + 1 /\ (i = n => i + 1 = n + 1) /\ (i # n => i + 1 \in 1 .. n)
OBVIOUS

LEMMA StepUp == \A a, b \in Nat : a <= b /\ a # b => a + 1 <= b
OBVIOUS

LEMMA HeadIsFirst ==
    ASSUME NEW q, IsSeq(q), q # << >>
    PROVE  Head(q) = q[1] /\ 1 \in 1 .. Len(q)
<1>1. PICK S : q \in Seq(S)
  BY Zenon DEF IsSeq
<1> QED BY <1>1

LEMMA Positive == \A x \in Nat : x >= 1 => x > 0
OBVIOUS

LEMMA Predecessor == \A x \in Nat : x >= 1 => x - 1 \in Nat
OBVIOUS

LEMMA TailIsSeq ==
    ASSUME NEW q, IsSeq(q), q # << >>
    PROVE  IsSeq(Tail(q)) /\ Len(q) \in Nat \ {0} /\ Len(Tail(q)) = Len(q) - 1
<1>1. PICK S : q \in Seq(S)
  BY DEF IsSeq
<1>2. Tail(q) \in Seq(S) /\ Len(Tail(q)) = Len(q) - 1 /\ Len(q) \in Nat \ {0}
  BY <1>1
<1> QED BY <1>2 DEF IsSeq

LEMMA LenIsNat ==
    ASSUME NEW q, IsSeq(q)
    PROVE  Len(q) \in Nat /\ DOMAIN q = 1 .. Len(q) /\ (q = << >> <=> Len(q) = 0)
BY LenProperties, EmptySeq DEF IsSeq

\* A function on the same domain.
LEMMA SameLength ==
    ASSUME NEW q, IsSeq(q), NEW r, NEW T, r \in [DOMAIN q -> T]
    PROVE  IsSeq(r) /\ Len(r) = Len(q)
<1>1. Len(q) \in Nat /\ r \in [1 .. Len(q) -> T]
  BY LenIsNat
<1>2. r \in Seq(T) /\ Len(r) = Len(q)
  BY <1>1
<1> QED BY <1>2 DEF IsSeq

LEMMA LeastNat ==
    ASSUME NEW T, T \subseteq Nat, T # {}
    PROVE  \E m \in T : \A k \in T : m <= k
<1>1. IsWellFoundedOn(OpToRel(<, Nat), Nat)
  BY NatLessThanWellFounded, Zenon
<1>2. \E x \in T : \A y \in T : ~(<< y, x >> \in OpToRel(<, Nat))
  BY <1>1, WFMin, Zenon
<1>3. PICK x \in T : \A y \in T : ~(y < x)
  BY <1>2, Zenon DEF OpToRel
<1> QED BY <1>3

LEMMA Prefix ==
    ASSUME NEW S, NEW s \in Seq(S), NEW n \in 0 .. Len(s)
    PROVE  /\ SubSeq(s, 1, n) \in Seq(S) /\ Len(SubSeq(s, 1, n)) = n
           /\ \A i \in 1 .. n : SubSeq(s, 1, n)[i] = s[i]
<1>1. Len(s) \in Nat /\ \A i \in 1 .. n : s[i] \in S
  OBVIOUS
<1>2. /\ SubSeq(s, 1, n) \in Seq(S)
      /\ Len(SubSeq(s, 1, n)) = IF 1 <= n THEN n - 1 + 1 ELSE 0
      /\ \A i \in 1 .. n - 1 + 1 : SubSeq(s, 1, n)[i] = s[1 + i - 1]
  BY <1>1, SubSeqProperties
<1> QED BY <1>1, <1>2

LEMMA Suffix ==
    ASSUME NEW S, NEW s \in Seq(S), NEW n \in 0 .. Len(s)
    PROVE  /\ SubSeq(s, n + 1, Len(s)) \in Seq(S) /\ Len(SubSeq(s, n + 1, Len(s))) = Len(s) - n
           /\ \A i \in 1 .. Len(s) - n : SubSeq(s, n + 1, Len(s))[i] = s[n + i]
<1>1. Len(s) \in Nat /\ \A i \in n + 1 .. Len(s) : s[i] \in S
  OBVIOUS
<1>2. /\ SubSeq(s, n + 1, Len(s)) \in Seq(S)
      /\ Len(SubSeq(s, n + 1, Len(s))) = IF n + 1 <= Len(s) THEN Len(s) - (n + 1) + 1 ELSE 0
      /\ \A i \in 1 .. Len(s) - (n + 1) + 1 :
            SubSeq(s, n + 1, Len(s))[i] = s[(n + 1) + i - 1]
  BY <1>1, SubSeqProperties
<1> QED BY <1>1, <1>2

LEMMA WholeSeq ==
    ASSUME NEW S, NEW s \in Seq(S)
    PROVE  SubSeq(s, 1, Len(s)) = s
<1>1. Len(s) \in 0 .. Len(s)
  OBVIOUS
<1>2. /\ SubSeq(s, 1, Len(s)) \in Seq(S) /\ Len(SubSeq(s, 1, Len(s))) = Len(s)
      /\ \A i \in 1 .. Len(s) : SubSeq(s, 1, Len(s))[i] = s[i]
  BY <1>1, Prefix
<1> QED BY <1>2, SeqEqual

LEMMA KeptExists ==
    ASSUME NEW s, Len(s) \in Nat, \A i \in 1 .. Len(s) : s[i].sn \in Nat, NEW sn \in Int
    PROVE  \E n \in 0 .. Len(s) : /\ n > 0 => s[n].sn <= sn
                                 /\ \A i \in n + 1 .. Len(s) : s[i].sn > sn
<1> DEFINE T == {n \in 0 .. Len(s) : \A i \in n + 1 .. Len(s) : s[i].sn > sn}
<1>1. T \subseteq Nat /\ Len(s) \in T
  OBVIOUS
<1>2. PICK m \in T : \A k \in T : m <= k
  <2> HIDE DEF T
  <2> QED BY <1>1, LeastNat, Zenon
<1>3. m > 0 => s[m].sn <= sn
  <2> SUFFICES ASSUME m > 0, ~(s[m].sn <= sn) PROVE FALSE
    OBVIOUS
  <2>0. m \in 1 .. Len(s) /\ m - 1 \in 0 .. Len(s)
    BY <1>2
  <2>1. m - 1 \notin T
    <3> HIDE DEF T
    <3> QED BY <1>2, <2>0
  <2>2. PICK i \in (m - 1) + 1 .. Len(s) : ~(s[i].sn > sn)
    BY <2>0, <2>1
  <2>3. i # m /\ i \in m + 1 .. Len(s)
    BY <2>0, <2>2
  <2> QED BY <1>2, <2>2, <2>3
<1> QED BY <1>2, <1>3, Zenon

LEMMA DoneExists ==
    ASSUME NEW s, Len(s) \in Nat, \A i \in 1 .. Len(s) : s[i].sn \in Nat, NEW sn \in Int
    PROVE  \E n \in 0 .. Len(s) : /\ n < Len(s) => s[n + 1].sn > sn
                                 /\ \A i \in 1 .. n : s[i].sn <= sn
<1> DEFINE T == {n \in 0 .. Len(s) : n < Len(s) => s[n + 1].sn > sn}
<1>1. T \subseteq Nat /\ Len(s) \in T
  OBVIOUS
<1>2. PICK m \in T : \A k \in T : m <= k
  <2> HIDE DEF T
  <2> QED BY <1>1, LeastNat, Zenon
<1>3. \A i \in 1 .. m : s[i].sn <= sn
  <2> SUFFICES ASSUME NEW i \in 1 .. m PROVE s[i].sn <= sn
    OBVIOUS
  <2>1. m \in 0 .. Len(s) /\ i \in 1 .. Len(s) /\ i - 1 \in 0 .. Len(s) /\ i - 1 < m
    BY <1>2
  <2>2. i - 1 \notin T
    <3> HIDE DEF T
    <3> QED BY <1>2, <2>1
  <2>3. ~(s[(i - 1) + 1].sn > sn)
    BY <2>1, <2>2
  <2>4. (i - 1) + 1 = i
    BY <2>1
  <2> QED BY <2>1, <2>3, <2>4
<1> QED BY <1>2, <1>3

LEMMA FallThroughType ==
    ASSUME NEW a \in Addr
    PROVE  FallThrough(a) \in Addr
BY FrontEndAssumption DEF FallThrough, Addr

LEMMA PCMember ==
    ASSUME NEW a \in Addr, NEW u \in 1 .. Len(Code[a])
    PROVE  [a |-> a, u |-> u] \in PCs
<1>1. [a |-> a, u |-> u] \in {[a |-> a, u |-> v] : v \in 1 .. Len(Code[a])}
  BY Zenon
<1> QED BY <1>1, Zenon DEF PCs

LEMMA AtType ==
    ASSUME NEW a \in Addr
    PROVE  At(a) \in PCs /\ At(a).a = a
<1>1. Code[a] \in Seq([ctl : BOOLEAN, type : STRING]) /\ Code[a] # << >>
  BY FrontEndAssumption
<1>2. 1 \in 1 .. Len(Code[a])
  BY <1>1
<1>3. [a |-> a, u |-> 1] \in PCs
  BY <1>2, PCMember
<1> QED BY <1>3 DEF At

LEMMA PCFacts ==
    ASSUME NEW p \in PCs
    PROVE  /\ p.a \in Addr /\ p.u \in 1 .. Len(Code[p.a]) /\ Len(Code[p.a]) \in Nat
           /\ Uop(p) \in [ctl : BOOLEAN, type : STRING]
           /\ advancePC(p) \in PCs
           /\ IsLastUop(p) => advancePC(p).a = FallThrough(p.a)
           /\ ~IsLastUop(p) => advancePC(p).a = p.a /\ advancePC(p).u = p.u + 1
<1>0. PICK a \in Addr : \E u \in 1 .. Len(Code[a]) : p = [a |-> a, u |-> u]
  BY Zenon DEF PCs
<1>1. PICK u \in 1 .. Len(Code[a]) : p = [a |-> a, u |-> u]
  BY <1>0, Zenon
<1>2. p.a = a /\ p.u = u
  BY <1>1
<1>3. Code[a] \in Seq([ctl : BOOLEAN, type : STRING])
  BY FrontEndAssumption
<1>4. Len(Code[a]) \in Nat /\ Code[a][u] \in [ctl : BOOLEAN, type : STRING]
  <2> DEFINE S == [ctl : BOOLEAN, type : STRING]
             s == Code[a]
  <2>1. s \in Seq(S) /\ u \in 1 .. Len(s)
    BY <1>3
  <2> HIDE DEF S, s
  <2>2. Len(s) \in Nat /\ s[u] \in S
    BY <2>1
  <2> QED BY <2>2 DEF S, s
<1>5. CASE IsLastUop(p)
  <2>1. advancePC(p) = At(FallThrough(p.a))
    BY <1>5 DEF advancePC
  <2> QED BY <1>2, <1>4, <1>5, <2>1, FallThroughType, AtType, Zenon DEF Uop
<1>6. CASE ~IsLastUop(p)
  <2>1. advancePC(p) = [a |-> a, u |-> u + 1]
    BY <1>1, <1>6 DEF advancePC
  <2>2. u + 1 \in 1 .. Len(Code[a])
    BY <1>2, <1>4, <1>6 DEF IsLastUop
  <2>3. advancePC(p) \in PCs /\ advancePC(p).a = a /\ advancePC(p).u = u + 1
    BY <2>1, <2>2, PCMember
  <2> QED BY <1>2, <1>4, <1>6, <2>3, Zenon DEF Uop
<1> QED BY <1>5, <1>6

LEMMA TypeParts == TypeOK <=> /\ FrontTypes /\ BackTypes
                              /\ ftq \in Seq(FetchTarget) /\ Len(ftq) <= numFTQEntries
                              /\ predHist \in Seq(History) /\ specLog \in Seq(HistId)
BY Zenon DEF TypeOK, FrontTypes, BackTypes

-----------------------------------------------------------------------------
(* There is room for every insertion. *)

\* After a squash the queue is empty until BAC runs again, and BAC only waits for a
\* lock while the queue is locked or invalid: these are the two states from which
\* checkSignalsAndUpdate lets BAC run without testing isFull.
Room ==
    /\ IsSeq(ftq) /\ Len(ftq) <= numFTQEntries
    /\ ftqStatus \in {"Valid", "Invalid", "Locked"}
    /\ InsertHasRoom
    /\ bacStatus = "Squashing" => ftq = << >>
    /\ bacStatus = "FTQLocked" => ftqStatus # "Valid"
    /\ phase = "generate" => bacStatus = "Running"
    /\ inFetchLoop => ftq # << >>

\* What an iteration of the fetch loop does to the queue.
LEMMA EndOfInstQueue ==
    ASSUME NEW q, IsSeq(q), q # << >>, NEW status \in {"Valid", "Invalid", "Locked"},
           NEW nextPC, NEW taken, EndOfInst(q, status, nextPC, taken)
    PROVE  /\ IsSeq(ftq') /\ Len(ftq') <= Len(q)
           /\ ftqStatus' \in {status, "Invalid"}
           /\ phase' \in {"decode", "fetching", "macroop"}
           /\ inFetchLoop' => ftq' # << >>
<1>1. IsSeq(Tail(q)) /\ Len(Tail(q)) <= Len(q) /\ Len(q) <= Len(q)
  BY TailIsSeq
<1>2. CASE ~Consumed(q[1], nextPC)
  <2>1. ftq' = q /\ ftqStatus' = status /\ phase' \in {"decode", "fetching", "macroop"}
    BY <1>2 DEF EndOfInst
  <2> QED BY <1>1, <2>1
<1>3. CASE Consumed(q[1], nextPC) /\ (q[1].hist # None \/ status = "Locked")
  <2>1. ftq' \in {q, Tail(q)} /\ ftqStatus' = "Invalid" /\ phase' = "decode"
    BY <1>3 DEF EndOfInst, Resteer
  <2> QED BY <1>1, <2>1, Zenon DEF inFetchLoop
<1>4. CASE Consumed(q[1], nextPC) /\ ~(q[1].hist # None \/ status = "Locked")
  <2>1. /\ ftq' = Tail(q) /\ ftqStatus' = status
        /\ phase' = "decode" \/ (phase' = "fetching" /\ Tail(q) # << >>)
    BY <1>4 DEF EndOfInst
  <2> QED BY <1>1, <2>1 DEF inFetchLoop
<1> QED BY <1>2, <1>3, <1>4

LEMMA RoomInit == Init => Room
<1>1. numFTQEntries \in Nat \ {0}
  BY FrontEndAssumption
<1> QED BY <1>1, EmptyIsSeq DEF Init, Room, InsertHasRoom, inFetchLoop

LEMMA RoomBacSquash ==
    ASSUME Room, NEW newPC, BacSquash(newPC)
    PROVE  Room'
<1>1. numFTQEntries \in Nat \ {0}
  BY FrontEndAssumption
<1> QED BY <1>1, EmptyIsSeq DEF Room, BacSquash, InsertHasRoom, inFetchLoop

LEMMA RoomBacDrain ==
    ASSUME Room, BacDrain
    PROVE  Room'
<1>1. numFTQEntries \in Nat \ {0}
  BY FrontEndAssumption
<1> QED BY <1>1, EmptyIsSeq DEF Room, BacDrain, InsertHasRoom, inFetchLoop

\* BAC only starts to generate when there is room.
LEMMA NextStatus ==
    ASSUME Room, NEW waits \in BOOLEAN, NextBacStatus(waits) \in {"Running", "Overriding"}
    PROVE  Len(ftq) < numFTQEntries
<1>1. numFTQEntries \in Nat \ {0} /\ Len(ftq) \in Nat
  BY FrontEndAssumption, LenIsNat DEF Room
<1>2. CASE bacStatus = "Squashing" /\ ~waits
  BY <1>1, <1>2, EmptyIsSeq DEF Room
<1>3. CASE ~(bacStatus = "Squashing" /\ ~waits)
  BY <1>1, <1>3 DEF Room, NextBacStatus, isFull, isReady
<1> QED BY <1>2, <1>3

LEMMA RoomBacRun ==
    ASSUME Room, BacRun
    PROVE  Room'
<1> DEFINE waits == branchPredictRemaining > 0
<1>1. /\ bacStatus' = NextBacStatus(waits) /\ UNCHANGED << ftq, ftqStatus >>
      /\ phase' = CASE bacStatus' = "Running"    -> "generate"
                    [] bacStatus' = "Overriding" -> "override"
                    [] OTHER                     -> "fetch"
  BY DEF BacRun, queue
<1>2. waits \in BOOLEAN
  OBVIOUS
<1> HIDE DEF waits
<1>3. NextBacStatus(waits) # "Squashing"
  BY <1>2 DEF NextBacStatus
<1>4. NextBacStatus(waits) = "FTQLocked" => ftqStatus # "Valid"
  BY <1>2 DEF NextBacStatus, Room
<1>5. phase' \in {"generate", "override"} => Len(ftq) < numFTQEntries
  BY <1>1, <1>2, NextStatus
<1>6. ~inFetchLoop' /\ (phase' = "generate" => bacStatus' = "Running")
  BY <1>1 DEF inFetchLoop
<1> QED BY <1>1, <1>3, <1>4, <1>5, <1>6 DEF Room, InsertHasRoom

LEMMA RoomInsertFT ==
    ASSUME Room, phase = "generate", NEW ft, NEW latency, InsertFT(ft, latency)
    PROVE  Room'
<1>1. IsSeq(ftq') /\ Len(ftq) \in Nat /\ Len(ftq') = Len(ftq) + 1
  BY AppendIsSeq DEF Room, InsertFT
<1>2. Len(ftq) < numFTQEntries /\ numFTQEntries \in Nat
  BY FrontEndAssumption DEF Room, InsertHasRoom
<1>3. bacStatus = "Running" /\ ftqStatus' = ftqStatus
  BY DEF Room, InsertFT
<1>4. \/ bacStatus' = "FTQFull" /\ phase' = "fetch"
      \/ /\ bacStatus' = "Running" /\ Len(ftq) + 1 < numFTQEntries
         /\ phase' \in {"generate", "fetch"}
  BY <1>1, <1>2, <1>3 DEF InsertFT
<1> QED BY <1>1, <1>2, <1>3, <1>4 DEF Room, InsertHasRoom, inFetchLoop

\* The steps that leave the queue and BAC alone.
LEMMA RoomSame ==
    ASSUME Room, UNCHANGED << ftq, bacStatus >>, ftqStatus' \in {ftqStatus, "Invalid"},
           phase' \notin {"generate", "override"}, inFetchLoop' => ftq # << >>
    PROVE  Room'
BY DEF Room, InsertHasRoom

LEMMA RoomEndOfInst ==
    ASSUME Room, NEW q, IsSeq(q), Len(q) = Len(ftq), inFetchLoop, bacStatus' = bacStatus,
           NEW status \in {ftqStatus, "Locked"}, NEW nextPC, NEW taken,
           EndOfInst(q, status, nextPC, taken)
    PROVE  Room'
<1>1. q # << >> /\ ftq # << >> /\ status \in {"Valid", "Invalid", "Locked"}
  BY LenIsNat DEF Room
<1>2. /\ IsSeq(ftq') /\ Len(ftq') <= Len(q)
      /\ ftqStatus' \in {status, "Invalid"}
      /\ phase' \in {"decode", "fetching", "macroop"}
      /\ inFetchLoop' => ftq' # << >>
  BY <1>1, EndOfInstQueue
<1>3. Len(ftq) \in Nat /\ Len(ftq') \in Nat /\ numFTQEntries \in Nat
  BY <1>2, LenIsNat, FrontEndAssumption DEF Room
<1>4. Len(ftq') <= numFTQEntries
  BY <1>2, <1>3 DEF Room
<1> QED BY <1>1, <1>2, <1>4 DEF Room, InsertHasRoom

LEMMA SquashedFTsIsSeq ==
    ASSUME IsSeq(ftq)
    PROVE  IsSeq(SquashedFTs) /\ Len(SquashedFTs) = Len(ftq)
<1> DEFINE T == {SquashedFTs[i] : i \in DOMAIN ftq}
<1>1. SquashedFTs \in [DOMAIN ftq -> T]
  BY DEF SquashedFTs
<1> HIDE DEF T
<1> QED BY <1>1, SameLength

LEMMA RoomFetching ==
    ASSUME Room, FetchPlain \/ FetchPredicted \/ FetchComplex \/ FetchUnpredicted
    PROVE  Room'
<1>0. inFetchLoop /\ bacStatus' = bacStatus /\ IsSeq(ftq)
  BY Zenon DEF Room, FetchPlain, FetchPredicted, FetchComplex, FetchUnpredicted, CanFetch, NewInst, bac
<1>1. IsSeq(SquashedFTs) /\ Len(SquashedFTs) = Len(ftq)
  BY <1>0, SquashedFTsIsSeq
<1>2. CASE FetchPlain
  <2>1. EndOfInst(ftq, ftqStatus, advancePC(pc), FALSE)
    BY <1>2, Zenon DEF FetchPlain
  <2> QED BY <1>0, <2>1, RoomEndOfInst, Zenon
<1>3. CASE FetchPredicted
  <2> DEFINE q == [ftq EXCEPT ![1].hist = None]
  <2>1. PICK nextPC, taken : EndOfInst(q, ftqStatus, nextPC, taken)
    BY <1>3 DEF FetchPredicted
  <2>2. IsSeq(q) /\ Len(q) = Len(ftq)
    <3> DEFINE T == {q[i] : i \in DOMAIN ftq}
    <3>1. q \in [DOMAIN ftq -> T]
      BY Zenon
    <3> HIDE DEF T, q
    <3> QED BY <1>0, <3>1, SameLength
  <2> HIDE DEF q
  <2> QED BY <1>0, <2>1, <2>2, RoomEndOfInst
<1>4. CASE FetchComplex
  <2>1. PICK nextPC, taken : EndOfInst(SquashedFTs, "Locked", nextPC, taken)
    BY <1>4 DEF FetchComplex
  <2> QED BY <1>0, <1>1, <2>1, RoomEndOfInst
<1>5. CASE FetchUnpredicted
  <2>1. \/ EndOfInst(SquashedFTs, "Locked", advancePC(pc), FALSE)
        \/ EndOfInst(ftq, ftqStatus, advancePC(pc), FALSE)
    BY <1>5, Zenon DEF FetchUnpredicted
  <2> QED BY <1>0, <1>1, <2>1, RoomEndOfInst, Zenon
<1> QED BY <1>2, <1>3, <1>4, <1>5

LEMMA RoomNext ==
    ASSUME Room, [Next]_vars
    PROVE  Room'
<1>1. CASE BacCommitSquash \/ BacDecodeSquash \/ BacFetchSquash
  BY <1>1, RoomBacSquash, Zenon DEF BacCommitSquash, BacDecodeSquash, BacFetchSquash
<1>2. CASE BacDrain
  BY <1>2, RoomBacDrain
<1>3. CASE BacRun
  BY <1>3, RoomBacRun
<1>4. CASE BacOverride
  BY <1>4, RoomSame DEF BacOverride, queue, bac, inFetchLoop
<1>5. CASE GenerateFallThrough
  BY <1>5, RoomInsertFT, Zenon DEF GenerateFallThrough
<1>6. CASE GenerateBranch
  BY <1>6, RoomInsertFT, Zenon DEF GenerateBranch
<1>7. CASE FetchCommitSquash \/ FetchTrap \/ FetchDecodeSquash \/ FetchIdle
  BY <1>7, RoomSame DEF FetchCommitSquash, FetchTrap, FetchDecodeSquash, FetchIdle,
                        queue, bac, inFetchLoop
<1>8. CASE FetchResteer
  BY <1>8, RoomSame DEF FetchResteer, Resteer, bac, inFetchLoop
<1>9. CASE FetchStart
  BY <1>9, RoomSame DEF FetchStart, covered, isHeadReady, queue, bac, inFetchLoop
<1>10. CASE FetchPlain \/ FetchPredicted \/ FetchComplex \/ FetchUnpredicted
  BY <1>10, RoomFetching
<1>11. CASE FetchQuiesce
  BY <1>11, RoomSame DEF FetchQuiesce, NewInst, queue, bac, inFetchLoop
<1>12. CASE FetchStop
  BY <1>12, RoomSame DEF FetchStop, queue, bac, inFetchLoop
<1>13. CASE Decode
  BY <1>13, RoomSame DEF Decode, DecodePass, DecodeSquash, queue, bac, inFetchLoop
<1>14. CASE Commit
  BY <1>14, RoomSame DEF Commit, CommitNothing, CommitInsts, CommitSquash, CommitSquashAfter,
                         queue, bac, inFetchLoop
<1>15. CASE DrainResume
  BY <1>15, RoomSame DEF DrainResume, isCpuDrained, queue, bac, inFetchLoop
<1>16. CASE UNCHANGED vars
  BY <1>16 DEF Room, InsertHasRoom, vars, queue, bac, inFetchLoop
<1> QED BY <1>1, <1>2, <1>3, <1>4, <1>5, <1>6, <1>7, <1>8, <1>9, <1>10, <1>11, <1>12,
           <1>13, <1>14, <1>15, <1>16, Zenon DEF Next, Bac, Fetch

\* The invariant InsertHasRoom holds for a queue of any length: FTQ::insert never meets
\* a full queue, though BAC tests isFull only once a cycle and after each insertion.
THEOREM RoomForEveryInsert == Spec => []InsertHasRoom
<1>1. Room => InsertHasRoom
  BY DEF Room
<1> QED BY <1>1, RoomInit, RoomNext, PTL DEF Spec

-----------------------------------------------------------------------------
(* The types of what BAC and fetch hold. *)

LEMMA FrontSame ==
    ASSUME FrontTypes, UNCHANGED << bacStatus, bacPC, branchPredictRemaining >>,
           ftqStatus' \in {ftqStatus, "Invalid"},
           phase' \in {"bac", "fetch", "fetching", "macroop", "decode", "commit"} \/ phase' = phase,
           fetchStatus' \in {"Running", "Squashing", "Blocked", "FTQEmpty", "Waiting", "TrapPending"},
           pc' \in PCs, fromFetch' \in {None} \cup [pc : PCs]
    PROVE  FrontTypes'
<1>1. ftqStatus' \in {"Valid", "Invalid", "Locked"}
  BY DEF FrontTypes
<1>2. phase' \in {"bac", "generate", "override", "fetch", "fetching", "macroop", "decode", "commit"}
  BY DEF FrontTypes
<1> QED BY <1>1, <1>2, Zenon DEF FrontTypes

LEMMA FrontBacSquash ==
    ASSUME FrontTypes, NEW p \in PCs, BacSquash(p), UNCHANGED << fetcher, fromFetch >>
    PROVE  FrontTypes'
<1>1. p.a \in Addr /\ 0 \in 0 .. maxLatency
  BY PCFacts, FrontEndAssumption
<1>2. /\ bacStatus' = "Squashing" /\ bacPC' = p.a /\ branchPredictRemaining' = 0
      /\ ftqStatus' = "Valid" /\ phase' = "fetch"
      /\ fetchStatus' = fetchStatus /\ pc' = pc /\ fromFetch' = fromFetch
  BY DEF BacSquash, fetcher
<1> QED BY <1>1, <1>2, Zenon DEF FrontTypes

LEMMA SignalTypes ==
    ASSUME TypeOK
    PROVE  /\ commitSquash =>
                /\ fromCommit.pc \in PCs /\ fromCommit.sn \in 0 .. MaxSeq
                /\ fromCommit.mispredict \in BOOLEAN
           /\ decodeSquash => /\ fromDecode[decodeToFetchDelay].pc \in PCs
                              /\ fromDecode[decodeToFetchDelay].sn \in SeqNum
           /\ fromFetch # None => fromFetch.pc \in PCs
<1>1. ASSUME commitSquash
      PROVE  /\ fromCommit.pc \in PCs /\ fromCommit.sn \in 0 .. MaxSeq
             /\ fromCommit.mispredict \in BOOLEAN
  <2>1. fromCommit \in [squash : {TRUE}, mispredict : BOOLEAN, pc : PCs, sn : 0 .. MaxSeq]
    BY <1>1, Zenon DEF TypeOK, commitSquash
  <2> QED BY <2>1
<1>2. ASSUME decodeSquash
      PROVE  /\ fromDecode[decodeToFetchDelay].pc \in PCs
             /\ fromDecode[decodeToFetchDelay].sn \in SeqNum
  <2>1. decodeToFetchDelay \in 1 .. decodeToFetchDelay
    BY FrontEndAssumption
  <2>2. fromDecode[decodeToFetchDelay] \in [sn : SeqNum, pc : PCs]
    BY <1>2, <2>1 DEF TypeOK, decodeSquash
  <2> QED BY <2>2
<1>3. ASSUME fromFetch # None PROVE fromFetch.pc \in PCs
  BY <1>3 DEF TypeOK
<1> QED BY <1>1, <1>2, <1>3

LEMMA FrontBac ==
    ASSUME TypeOK, \/ BacCommitSquash \/ BacDecodeSquash \/ BacFetchSquash \/ BacDrain \/ BacRun
    PROVE  FrontTypes'
<1>0. FrontTypes /\ fetchStatus \in {"Running", "Squashing", "Blocked", "FTQEmpty", "Waiting", "TrapPending"}
  BY TypeParts DEF FrontTypes
<1>1. CASE BacCommitSquash
  BY <1>0, <1>1, SignalTypes, FrontBacSquash, Zenon DEF BacCommitSquash, wires
<1>2. CASE BacDecodeSquash
  BY <1>0, <1>2, SignalTypes, FrontBacSquash, Zenon DEF BacDecodeSquash, wires
<1>3. CASE BacFetchSquash
  BY <1>0, <1>3, SignalTypes, FrontBacSquash, Zenon DEF BacFetchSquash, fetchSquash, wires
<1>4. CASE BacDrain
  <2>1. /\ bacStatus' = "Idle" /\ bacPC' = bacPC /\ branchPredictRemaining' = branchPredictRemaining
        /\ ftqStatus' = "Valid" /\ phase' = "fetch"
        /\ fetchStatus' = fetchStatus /\ pc' = pc /\ fromFetch' = fromFetch
    BY <1>4 DEF BacDrain, fetcher, wires
  <2> QED BY <1>0, <2>1, Zenon DEF FrontTypes
<1>5. CASE BacRun
  <2> DEFINE waits == branchPredictRemaining > 0
  <2>1. /\ branchPredictRemaining' = IF waits THEN branchPredictRemaining - 1 ELSE 0
        /\ bacStatus' = NextBacStatus(waits)
        /\ phase' \in {"generate", "override", "fetch"}
    BY <1>5 DEF BacRun
  <2>2. UNCHANGED << ftq, ftqStatus, bacPC, fetchStatus, pc, fromFetch >>
    BY <1>5, Zenon DEF BacRun, fetcher, wires, queue
  <2>3. branchPredictRemaining' \in 0 .. maxLatency
    BY <1>0, <2>1, FrontEndAssumption DEF FrontTypes
  <2> HIDE DEF waits
  <2>4. bacStatus' \in {"Idle", "Running", "Squashing", "FTQFull", "FTQLocked", "Overriding"}
    BY <1>0, <2>1 DEF FrontTypes, NextBacStatus
  <2>5. phase' \in {"bac", "generate", "override", "fetch", "fetching", "macroop", "decode", "commit"}
    BY <2>1
  <2> QED BY <1>0, <2>2, <2>3, <2>4, <2>5, Zenon DEF FrontTypes
<1> QED BY <1>1, <1>2, <1>3, <1>4, <1>5

LEMMA FrontInsertFT ==
    ASSUME FrontTypes, NEW ft, ft.next \in Addr, NEW latency \in 0 .. maxLatency, InsertFT(ft, latency)
    PROVE  FrontTypes'
<1>1. /\ bacPC' = ft.next /\ branchPredictRemaining' = latency
      /\ UNCHANGED << ftqStatus, fetchStatus, pc, fromFetch >>
      /\ bacStatus' \in {"FTQFull", bacStatus} /\ phase' \in {"fetch", "generate"}
  BY DEF InsertFT, fetcher, wires
<1>2. /\ bacStatus' \in {"Idle", "Running", "Squashing", "FTQFull", "FTQLocked", "Overriding"}
      /\ phase' \in {"bac", "generate", "override", "fetch", "fetching", "macroop", "decode", "commit"}
  BY <1>1 DEF FrontTypes
<1> QED BY <1>1, <1>2, Zenon DEF FrontTypes

LEMMA LastInWidthType ==
    ASSUME bacPC \in Addr
    PROVE  LastInWidth \in Addr /\ bacPC <= LastInWidth
BY FrontEndAssumption DEF LastInWidth, Addr

LEMMA FrontGenerate ==
    ASSUME TypeOK, GenerateFallThrough \/ GenerateBranch
    PROVE  FrontTypes'
<1>0. FrontTypes /\ bacPC \in Addr /\ LastInWidth \in Addr /\ 0 \in 0 .. maxLatency
  BY TypeParts, LastInWidthType, FrontEndAssumption DEF FrontTypes
<1>1. CASE GenerateFallThrough
  <2>1. PICK ft : ft.next = FallThrough(LastInWidth) /\ InsertFT(ft, 0)
    BY <1>1, Zenon DEF GenerateFallThrough
  <2>2. ft.next \in Addr
    BY <1>0, <2>1, FallThroughType, Zenon
  <2> QED BY <1>0, <2>1, <2>2, FrontInsertFT, Zenon
<1>2. CASE GenerateBranch
  <2>1. PICK end \in bacPC .. (IF blockBTB THEN MaxAddr ELSE LastInWidth),
             inst \in BTBInst, taken \in BOOLEAN, t \in Target, latency \in 0 .. maxLatency :
        InsertFT([start |-> bacPC, end |-> end, branch |-> TRUE, taken |-> taken,
                  next |-> IF taken /\ inst.last THEN t ELSE FallThrough(end),
                  hist |-> [id |-> NewId, type |-> inst.type, taken |-> taken]],
                 latency)
    BY <1>2, Zenon DEF GenerateBranch
  <2>2. PICK ft : /\ ft.next = (IF taken /\ inst.last THEN t ELSE FallThrough(end))
                  /\ InsertFT(ft, latency)
    BY <2>1
  <2>3. end \in Addr /\ t \in Addr
    BY <1>0, FrontEndAssumption DEF Addr
  <2>4. ft.next \in Addr
    BY <2>2, <2>3, FallThroughType, Zenon
  <2> QED BY <1>0, <2>2, <2>4, FrontInsertFT, Zenon
<1> QED BY <1>1, <1>2

LEMMA FrontEndOfInst ==
    ASSUME FrontTypes, NEW q, NEW status \in {"Valid", "Invalid", "Locked"}, NEW nextPC \in PCs, NEW taken,
           EndOfInst(q, status, nextPC, taken), UNCHANGED << bac, fetchStatus >>
    PROVE  FrontTypes'
<1>1. /\ pc' = nextPC /\ ftqStatus' \in {"Valid", "Invalid", "Locked"}
      /\ phase' \in {"bac", "generate", "override", "fetch", "fetching", "macroop", "decode", "commit"}
      /\ fromFetch' \in {fromFetch, [pc |-> nextPC]}
  BY DEF EndOfInst, Resteer
<1>2. fromFetch' \in {None} \cup [pc : PCs]
  <2>1. [pc |-> nextPC] \in [pc : PCs]
    OBVIOUS
  <2> QED BY <1>1, <2>1, Zenon DEF FrontTypes
<1> QED BY <1>1, <1>2, Zenon DEF FrontTypes, bac

LEMMA FrontFetching ==
    ASSUME TypeOK, ftq # << >>, FetchPlain \/ FetchPredicted \/ FetchComplex \/ FetchUnpredicted
    PROVE  FrontTypes'
<1>0. /\ FrontTypes /\ ftqStatus \in {"Valid", "Invalid", "Locked"} /\ pc \in PCs
      /\ ftq \in Seq(FetchTarget) /\ "Locked" \in {"Valid", "Invalid", "Locked"}
  BY TypeParts DEF FrontTypes
<1>1. UNCHANGED << bac, fetchStatus >>
  BY Zenon DEF FetchPlain, FetchPredicted, FetchComplex, FetchUnpredicted, NewInst
<1>2. advancePC(pc) \in PCs
  BY <1>0, PCFacts, Zenon
<1>3. CASE FetchPlain
  BY <1>0, <1>1, <1>2, <1>3, FrontEndOfInst, Zenon DEF FetchPlain
<1>4. CASE FetchPredicted
  <2> DEFINE q == [ftq EXCEPT ![1].hist = None]
             nextPC == IF ExitHist.taken THEN At(Head(ftq).next) ELSE advancePC(pc)
  <2>1. EndOfInst(q, ftqStatus, nextPC, ExitHist.taken)
    BY <1>4, Zenon DEF FetchPredicted
  <2>2. nextPC \in PCs
    <3>1. Head(ftq) \in FetchTarget
      BY <1>0
    <3>2. Head(ftq).next \in Addr
      BY <3>1, Zenon DEF FetchTarget
    <3> QED BY <1>2, <3>2, AtType, Zenon
  <2> HIDE DEF q, nextPC
  <2> QED BY <1>0, <1>1, <2>1, <2>2, FrontEndOfInst, Zenon
<1>5. CASE FetchComplex
  <2>1. PICK taken \in BOOLEAN, t \in Target :
             EndOfInst(SquashedFTs, "Locked", IF taken THEN At(t) ELSE advancePC(pc), taken)
    BY <1>5, Zenon DEF FetchComplex
  <2> DEFINE nextPC == IF taken THEN At(t) ELSE advancePC(pc)
  <2>2. t \in Addr
    BY FrontEndAssumption, Zenon
  <2>3. nextPC \in PCs
    BY <1>2, <2>2, AtType, Zenon
  <2>4. EndOfInst(SquashedFTs, "Locked", nextPC, taken)
    BY <2>1
  <2> HIDE DEF nextPC
  <2> QED BY <1>0, <1>1, <2>3, <2>4, FrontEndOfInst, Zenon
<1>6. CASE FetchUnpredicted
  <2>1. \/ EndOfInst(SquashedFTs, "Locked", advancePC(pc), FALSE)
        \/ EndOfInst(ftq, ftqStatus, advancePC(pc), FALSE)
    BY <1>6, Zenon DEF FetchUnpredicted
  <2> QED BY <1>0, <1>1, <1>2, <2>1, FrontEndOfInst, Zenon
<1> QED BY <1>3, <1>4, <1>5, <1>6

LEMMA FrontFetch ==
    ASSUME TypeOK, \/ FetchCommitSquash \/ FetchTrap \/ FetchDecodeSquash \/ FetchIdle
                   \/ FetchResteer \/ FetchStart \/ FetchQuiesce \/ FetchStop
    PROVE  FrontTypes'
<1> DEFINE FS == {"Running", "Squashing", "Blocked", "FTQEmpty", "Waiting", "TrapPending"}
<1>0. FrontTypes /\ fetchStatus \in FS /\ pc \in PCs /\ fromFetch \in {None} \cup [pc : PCs]
  BY TypeParts DEF FrontTypes
<1>1. UNCHANGED << bacStatus, bacPC, branchPredictRemaining >> /\ phase' \in {"decode", "fetching"}
  BY Zenon DEF FetchCommitSquash, FetchTrap, FetchDecodeSquash, FetchIdle, FetchResteer, FetchStart,
         FetchQuiesce, FetchStop, NewInst, queue, bac
<1>2. ftqStatus' \in {ftqStatus, "Invalid"}
  BY Zenon DEF FetchCommitSquash, FetchTrap, FetchDecodeSquash, FetchIdle, FetchResteer, FetchStart,
         FetchQuiesce, FetchStop, Resteer, queue
<1>3. NextFetchStatus \in FS
  BY <1>0 DEF NextFetchStatus
<1> HIDE DEF FS
<1>4. fetchStatus' \in FS
  <2>1. fetchStatus' \in {"Squashing", "TrapPending", "Blocked", "FTQEmpty", "Waiting", "Running",
                          NextFetchStatus, fetchStatus}
    BY Zenon DEF FetchCommitSquash, FetchTrap, FetchDecodeSquash, FetchIdle, FetchResteer, FetchStart,
           FetchQuiesce, FetchStop, fetcher
  <2> QED BY <1>0, <1>3, <2>1 DEF FS
<1>5. pc' \in PCs
  <2>1. advancePC(pc) \in PCs
    BY <1>0, PCFacts, Zenon
  <2>2. CASE FetchCommitSquash \/ FetchDecodeSquash
    BY <2>2, SignalTypes, Zenon DEF FetchCommitSquash, FetchDecodeSquash, hearsDecode
  <2>3. CASE FetchTrap \/ FetchIdle \/ FetchResteer \/ FetchStart \/ FetchQuiesce \/ FetchStop
    BY <1>0, <2>1, <2>3, Zenon DEF FetchTrap, FetchIdle, FetchResteer, FetchStart, FetchQuiesce,
                                   FetchStop, fetcher
  <2> QED BY <2>2, <2>3
<1>6. fromFetch' \in {None} \cup [pc : PCs]
  <2>1. fromFetch' \in {None, fromFetch, [pc |-> pc]}
    BY Zenon DEF FetchCommitSquash, FetchTrap, FetchDecodeSquash, FetchIdle, FetchResteer, FetchStart,
           FetchQuiesce, FetchStop, Resteer, wires
  <2>2. [pc |-> pc] \in [pc : PCs]
    BY <1>0
  <2> QED BY <1>0, <2>1, <2>2, Zenon
<1>7. phase' \in {"bac", "fetch", "fetching", "macroop", "decode", "commit"}
  BY <1>1
<1> QED BY <1>0, <1>1, <1>2, <1>4, <1>5, <1>6, <1>7, FrontSame, Zenon DEF FS

LEMMA FrontNext ==
    ASSUME TypeOK, inFetchLoop => ftq # << >>, [Next]_vars
    PROVE  FrontTypes'
<1>0. /\ FrontTypes
      /\ fetchStatus \in {"Running", "Squashing", "Blocked", "FTQEmpty", "Waiting", "TrapPending"}
      /\ pc \in PCs /\ fromFetch \in {None} \cup [pc : PCs]
      /\ ftqStatus \in {ftqStatus, "Invalid"} /\ None \in {None} \cup [pc : PCs]
  BY TypeParts, Zenon DEF FrontTypes
<1>1. CASE BacCommitSquash \/ BacDecodeSquash \/ BacFetchSquash \/ BacDrain \/ BacRun
  BY <1>1, FrontBac, Zenon
<1>2. CASE GenerateFallThrough \/ GenerateBranch
  BY <1>2, FrontGenerate, Zenon
<1>3. CASE \/ FetchCommitSquash \/ FetchTrap \/ FetchDecodeSquash \/ FetchIdle
           \/ FetchResteer \/ FetchStart \/ FetchQuiesce \/ FetchStop
  BY <1>3, FrontFetch, Zenon
<1>4. CASE FetchPlain \/ FetchPredicted \/ FetchComplex \/ FetchUnpredicted
  BY <1>4, FrontFetching, Zenon DEF FetchPlain, FetchPredicted, FetchComplex, FetchUnpredicted, CanFetch
<1>5. CASE BacOverride \/ Decode \/ Commit
  <2>1. /\ UNCHANGED << bacStatus, bacPC, branchPredictRemaining, ftqStatus, fetchStatus, pc, fromFetch >>
        /\ phase' \in {"bac", "fetch", "fetching", "macroop", "decode", "commit"}
    BY <1>5, Zenon DEF BacOverride, Decode, DecodePass, DecodeSquash, Commit, CommitNothing, CommitInsts,
                CommitSquash, CommitSquashAfter, queue, bac, fetcher, wires
  <2> QED BY <1>0, <2>1, FrontSame, Zenon
<1>6. CASE DrainResume
  <2>1. /\ UNCHANGED << bacStatus, bacPC, branchPredictRemaining, ftqStatus, fetchStatus, pc, phase >>
        /\ fromFetch' = None
    BY <1>6 DEF DrainResume, queue, bac, fetcher
  <2> QED BY <1>0, <2>1, FrontSame, Zenon
<1>7. CASE UNCHANGED vars
  <2>1. /\ UNCHANGED << bacStatus, bacPC, branchPredictRemaining, ftqStatus, fetchStatus, pc >>
        /\ UNCHANGED << phase, fromFetch >>
    BY <1>7, Zenon DEF vars, queue, bac, fetcher, wires
  <2> QED BY <1>0, <2>1, ZenonT(30) DEF FrontTypes
<1> QED BY <1>1, <1>2, <1>3, <1>4, <1>5, <1>6, <1>7, Zenon DEF Next, Bac, Fetch

-----------------------------------------------------------------------------
(* Fetch stays inside the head of the queue. *)

\* Each target goes on where the one before it leads to, and the last one leads to b.
Linked(q, b) ==
    \A i \in 1 .. Len(q) :
        /\ q[i].start \in Addr /\ q[i].end \in Addr /\ q[i].start <= q[i].end
        /\ q[i].next = IF i = Len(q) THEN b ELSE q[i + 1].start
        /\ q[i].hist # None /\ ~q[i].hist.taken => q[i].next = FallThrough(q[i].end)

\* Behind the head only a predicted branch leads anywhere else than to the next address.
Steady(q) == \A i \in 2 .. Len(q) : q[i].hist = None => q[i].next = FallThrough(q[i].end)

\* Before fetch leaves address e it comes from p to a branch inside the instruction there.
ComplexAhead(e, p) ==
    \E u \in 1 .. Len(Code[e]) - 1 : Code[e][u].ctl /\ (p.a = e => p.u <= u)

\* The head may have lost its history to such a branch, when that went back into the head.
HeadOK(q, p) ==
    q # << >> /\ q[1].hist = None =>
        q[1].next = FallThrough(q[1].end) \/ ComplexAhead(q[1].end, p)

Targets ==
    /\ IsSeq(ftq) /\ Linked(ftq, bacPC)
    /\ ftqStatus = "Valid" => Steady(ftq) /\ HeadOK(ftq, pc)
    /\ phase \in {"generate", "override"} => ~commitSquash /\ ~decodeSquash
    /\ phase = "fetch" /\ (commitSquash \/ decodeSquash) => ftq = << >>
    /\ FetchInTarget

LEMMA LinkedEmpty ==
    ASSUME NEW b, NEW p
    PROVE  IsSeq(<< >>) /\ Linked(<< >>, b) /\ Steady(<< >>) /\ HeadOK(<< >>, p)
<1>1. \A i \in 1 .. Len(<< >>) : FALSE
  BY EmptyIsSeq
<1>2. \A i \in 2 .. Len(<< >>) : FALSE
  BY EmptyIsSeq
<1> QED BY <1>1, <1>2, EmptyIsSeq, Zenon DEF Linked, Steady, HeadOK

LEMMA LinkedRest ==
    ASSUME NEW q, NEW b, Linked(q, b), NEW t, NEW p, Len(q) \in Nat, Len(t) \in Nat,
           Len(t) = Len(q) - 1, \A i \in 1 .. Len(t) : t[i] = q[i + 1], t # << >> => Len(t) # 0
    PROVE  /\ Linked(t, b)
           /\ Steady(q) => Steady(t) /\ HeadOK(t, p)
           /\ t # << >> => inRange(t[1], q[1].next)
<1>3. \A i \in 1 .. Len(t) : /\ i + 1 \in 1 .. Len(q) /\ i + 1 \in 2 .. Len(q)
                             /\ i # Len(t) => i + 1 # Len(q) /\ i + 1 \in 1 .. Len(t)
                             /\ i = Len(t) => i + 1 = Len(q)
  OBVIOUS
<1>4. Linked(t, b)
  <2> SUFFICES ASSUME NEW i \in 1 .. Len(t)
               PROVE  /\ t[i].start \in Addr /\ t[i].end \in Addr /\ t[i].start <= t[i].end
                      /\ t[i].next = IF i = Len(t) THEN b ELSE t[i + 1].start
                      /\ t[i].hist # None /\ ~t[i].hist.taken => t[i].next = FallThrough(t[i].end)
    BY Zenon DEF Linked
  <2> DEFINE j == i + 1
  <2>1. /\ t[i] = q[j] /\ j \in 1 .. Len(q) /\ (i = Len(t) <=> j = Len(q))
        /\ i # Len(t) => t[i + 1] = q[j + 1]
    BY <1>3
  <2> HIDE DEF j
  <2> QED BY <2>1, Zenon DEF Linked
<1>5. Steady(q) => \A i \in 1 .. Len(t) : t[i].hist = None => t[i].next = FallThrough(t[i].end)
  <2> SUFFICES ASSUME Steady(q), NEW i \in 1 .. Len(t), t[i].hist = None
               PROVE  t[i].next = FallThrough(t[i].end)
    OBVIOUS
  <2> DEFINE j == i + 1
  <2>1. t[i] = q[j] /\ j \in 2 .. Len(q)
    BY <1>3
  <2> HIDE DEF j
  <2> QED BY <2>1, Zenon DEF Steady
<1>6. Steady(q) => Steady(t)
  <2>1. \A i \in 2 .. Len(t) : i \in 1 .. Len(t)
    OBVIOUS
  <2> QED BY <1>5, <2>1, Zenon DEF Steady
<1>7. t # << >> => 1 \in 1 .. Len(t)
  OBVIOUS
<1>8. Steady(q) => HeadOK(t, p)
  BY <1>5, <1>7, Zenon DEF HeadOK
<1>9. ASSUME t # << >> PROVE inRange(t[1], q[1].next)
  <2>1. 1 \in 1 .. Len(q) /\ 1 # Len(q) /\ t[1] = q[1 + 1] /\ 1 \in 1 .. Len(t)
    BY <1>9
  <2>2. q[1].next = t[1].start
    BY <2>1, Zenon DEF Linked
  <2>3. t[1].start \in Addr /\ t[1].end \in Addr /\ t[1].start <= t[1].end
    BY <1>4, <2>1, Zenon DEF Linked
  <2>4. t[1].start <= t[1].start
    BY <2>3, FrontEndAssumption DEF Addr
  <2> QED BY <2>2, <2>3, <2>4 DEF inRange
<1> QED BY <1>4, <1>6, <1>8, <1>9, Zenon

LEMMA LinkedTail ==
    ASSUME NEW q, IsSeq(q), q # << >>, NEW b, Linked(q, b), NEW p
    PROVE  /\ IsSeq(Tail(q)) /\ Linked(Tail(q), b)
           /\ Steady(q) => Steady(Tail(q)) /\ HeadOK(Tail(q), p)
           /\ Tail(q) # << >> => inRange(Tail(q)[1], q[1].next)
<1>1. PICK S : q \in Seq(S)
  BY DEF IsSeq
<1>2. /\ Tail(q) \in Seq(S) /\ Len(q) \in Nat /\ Len(Tail(q)) \in Nat /\ Len(Tail(q)) = Len(q) - 1
      /\ \A i \in 1 .. Len(Tail(q)) : Tail(q)[i] = q[i + 1]
      /\ Tail(q) # << >> => Len(Tail(q)) # 0
  BY <1>1
<1> QED BY <1>2, LinkedRest, Zenon DEF IsSeq

LEMMA LinkedAppend ==
    ASSUME NEW q, IsSeq(q), NEW b, Linked(q, b), NEW ft, NEW t, t = Append(q, ft), NEW p,
           ft.start = b, ft.start \in Addr, ft.end \in Addr, ft.start <= ft.end,
           ft.hist # None /\ ~ft.hist.taken => ft.next = FallThrough(ft.end),
           ft.hist = None => ft.next = FallThrough(ft.end)
    PROVE  /\ IsSeq(t) /\ Linked(t, ft.next)
           /\ Steady(q) => Steady(t)
           /\ HeadOK(q, p) => HeadOK(t, p)
<1>1. PICK S : q \in Seq(S)
  BY DEF IsSeq
<1> DEFINE n == Len(q)
<1>2. /\ Len(t) = n + 1 /\ t[n + 1] = ft /\ n \in Nat
      /\ \A i \in 1 .. n : t[i] = q[i]
      /\ \A i \in 1 .. Len(t) : i \in 1 .. n \/ i = n + 1
  BY AppendEntries
<1>3. IsSeq(t)
  BY AppendIsSeq
<1>4. ASSUME NEW i \in 1 .. Len(t)
      PROVE  /\ t[i].start \in Addr /\ t[i].end \in Addr /\ t[i].start <= t[i].end
             /\ t[i].next = IF i = Len(t) THEN ft.next ELSE t[i + 1].start
             /\ t[i].hist # None /\ ~t[i].hist.taken => t[i].next = FallThrough(t[i].end)
  <2>1. CASE i \in 1 .. n
    <3>1. /\ t[i] = q[i] /\ i # Len(t)
          /\ i = n => t[i + 1] = ft
          /\ i # n => t[i + 1] = q[i + 1]
      BY <1>2, <2>1, NextIndex, Zenon
    <3>2. q[i].next = t[i + 1].start
      BY <2>1, <3>1, Zenon DEF Linked
    <3> QED BY <2>1, <3>1, <3>2, Zenon DEF Linked
  <2>2. CASE i = n + 1
    BY <1>2, <2>2, Zenon
  <2> QED BY <1>2, <2>1, <2>2, Zenon
<1>5. Linked(t, ft.next)
  BY <1>4, Zenon DEF Linked
<1>6. Steady(q) => Steady(t)
  <2>1. \A i \in 2 .. Len(t) : i \in 2 .. n \/ t[i] = ft
    BY <1>2
  <2>2. \A i \in 2 .. n : t[i] = q[i]
    BY <1>2
  <2> QED BY <2>1, <2>2, Zenon DEF Steady
<1>7. HeadOK(q, p) => HeadOK(t, p)
  <2>1. CASE q = << >>
    <3>1. t[1] = ft
      BY <1>2, <2>1
    <3> QED BY <3>1, Zenon DEF HeadOK
  <2>2. CASE q # << >>
    <3>1. t[1] = q[1]
      BY <1>1, <1>2, <2>2
    <3> QED BY <2>2, <3>1, Zenon DEF HeadOK
  <2> QED BY <2>1, <2>2
<1> QED BY <1>3, <1>5, <1>6, <1>7

\* The queue keeps its targets and may lose histories.
LEMMA LinkedHist ==
    ASSUME NEW q, NEW r, Len(r) = Len(q), NEW b, Linked(q, b),
           \A i \in 1 .. Len(q) : /\ r[i].start = q[i].start /\ r[i].end = q[i].end
                                  /\ r[i].next = q[i].next /\ r[i].hist \in {None, q[i].hist}
    PROVE  Linked(r, b)
<1> SUFFICES ASSUME NEW i \in 1 .. Len(q)
             PROVE  /\ r[i].start \in Addr /\ r[i].end \in Addr /\ r[i].start <= r[i].end
                    /\ r[i].next = IF i = Len(q) THEN b ELSE r[i + 1].start
                    /\ r[i].hist # None /\ ~r[i].hist.taken => r[i].next = FallThrough(r[i].end)
  BY Zenon DEF Linked
<1>1. i # Len(q) => i + 1 \in 1 .. Len(q)
  OBVIOUS
<1>2. i # Len(q) => r[i + 1].start = q[i + 1].start
  BY <1>1, Zenon
<1> QED BY <1>2, Zenon DEF Linked

\* Fetch goes from p, inside the target ft, to the next micro-op.
LEMMA Advance ==
    ASSUME NEW p \in PCs, NEW ft, ft.start \in Addr, ft.end \in Addr, inRange(ft, p.a)
    PROVE  LET atEnd == p.a = ft.end /\ IsLastUop(p)
           IN  /\ ~atEnd => inRange(ft, advancePC(p).a)
               /\ atEnd => advancePC(p).a = FallThrough(ft.end)
<1>1. /\ p.a \in Addr
      /\ IsLastUop(p) => advancePC(p).a = FallThrough(p.a)
      /\ ~IsLastUop(p) => advancePC(p).a = p.a
  BY PCFacts, Zenon
<1>2. p.a # ft.end => FallThrough(p.a) = p.a + 1 /\ p.a + 1 <= ft.end /\ ft.start <= p.a + 1
  <2>1. p.a \in Nat /\ ft.end \in Nat /\ ft.start \in Nat /\ ft.end <= MaxAddr
    BY <1>1, FrontEndAssumption DEF Addr
  <2>2. ft.start <= p.a /\ p.a <= ft.end
    BY Zenon DEF inRange
  <2>3. p.a # ft.end => p.a + 1 <= ft.end /\ p.a # MaxAddr /\ ft.start <= p.a + 1
    BY <2>1, <2>2, FrontEndAssumption
  <2> QED BY <2>3, Zenon DEF FallThrough
<1>3. CASE ~IsLastUop(p)
  BY <1>1, <1>3, Zenon
<1>4. CASE IsLastUop(p)
  BY <1>1, <1>2, <1>4 DEF inRange
<1> QED BY <1>3, <1>4, Zenon

LEMMA AdvanceComplex ==
    ASSUME NEW p \in PCs, NEW e \in Addr, ComplexAhead(e, p), ~Uop(p).ctl \/ IsLastUop(p)
    PROVE  ComplexAhead(e, advancePC(p)) /\ ~(p.a = e /\ IsLastUop(p))
<1>1. PICK u \in 1 .. Len(Code[e]) - 1 : Code[e][u].ctl /\ (p.a = e => p.u <= u)
  BY Zenon DEF ComplexAhead
<1>2. /\ p.a \in Addr /\ p.u \in 1 .. Len(Code[p.a]) /\ Len(Code[p.a]) \in Nat
      /\ ~IsLastUop(p) => advancePC(p).a = p.a /\ advancePC(p).u = p.u + 1
  BY PCFacts, Zenon
<1>3. ~(p.a = e /\ IsLastUop(p))
  BY <1>1, <1>2 DEF IsLastUop
<1>4. advancePC(p).a = e => advancePC(p).u <= u
  <2>1. CASE IsLastUop(p)
    <3>1. advancePC(p).u = 1
      BY <2>1 DEF advancePC, At
    <3> QED BY <3>1
  <2>2. CASE ~IsLastUop(p)
    <3>1. p.a = e => p.u # u
      BY <1>1, <2>2 DEF Uop
    <3>2. p.u \in Nat /\ u \in Nat
      BY <1>1, <1>2
    <3>3. p.a = e => p.u + 1 <= u
      BY <1>1, <3>1, <3>2, StepUp, Zenon
    <3> QED BY <1>2, <2>2, <3>3, Zenon
  <2> QED BY <2>1, <2>2
<1> QED BY <1>1, <1>3, <1>4, Zenon DEF ComplexAhead

LEMMA EndOfInstTargets ==
    ASSUME NEW q, IsSeq(q), q # << >>, Linked(q, bacPC), bacPC' = bacPC, inFetchLoop,
           NEW status \in {"Valid", "Locked"}, NEW nextPC, NEW taken,
           EndOfInst(q, status, nextPC, taken),
           status = "Valid" => Steady(q) /\ (Consumed(q[1], nextPC) \/ HeadOK(q, nextPC)),
           status = "Valid" /\ Consumed(q[1], nextPC) /\ q[1].hist = None /\ ~taken =>
              nextPC.a = q[1].next
    PROVE  Targets'
<1> DEFINE t == Tail(q)
<1>0. /\ IsSeq(t) /\ Linked(t, bacPC)
      /\ Steady(q) => Steady(t) /\ HeadOK(t, nextPC)
      /\ t # << >> => inRange(t[1], q[1].next)
  BY LinkedTail, Zenon
<1>1. CASE ~Consumed(q[1], nextPC)
  <2>1. /\ ftq' = q /\ ftqStatus' = status /\ pc' = nextPC
        /\ phase' \in {"fetching", "macroop", "decode"}
    BY <1>1, Zenon DEF EndOfInst
  <2>2. inRange(q[1], nextPC.a)
    BY <1>1, Zenon DEF Consumed
  <2>3. covered'
    <3>1. Head(q) = q[1]
      BY HeadIsFirst, Zenon
    <3>2. ftqStatus' # "Invalid"
      BY <2>1
    <3> QED BY <2>1, <2>2, <3>1, <3>2, Zenon DEF covered, isHeadReady, isReady, inRange
  <2>4. phase' \notin {"generate", "override", "fetch"}
    BY <2>1
  <2>5. ftqStatus' = "Valid" => Steady(ftq)' /\ HeadOK(ftq, pc)'
    BY <1>1, <2>1, Zenon DEF Steady, HeadOK, ComplexAhead
  <2>6. IsSeq(ftq)' /\ Linked(ftq, bacPC)'
    BY <2>1, Zenon DEF IsSeq, Linked
  <2> QED BY <2>3, <2>4, <2>5, <2>6, Zenon DEF Targets, FetchInTarget
<1>2. CASE Consumed(q[1], nextPC) /\ (q[1].hist # None \/ status = "Locked")
  <2>1. ftq' \in {q, t} /\ ftqStatus' = "Invalid" /\ phase' = "decode"
    BY <1>2, Zenon DEF EndOfInst, Resteer
  <2>2. IsSeq(ftq)' /\ Linked(ftq, bacPC)'
    <3>1. PICK r : r = ftq'
      BY Zenon
    <3>2. IsSeq(r) /\ Linked(r, bacPC)
      BY <1>0, <2>1, <3>1, Zenon
    <3> QED BY <3>1, <3>2, Zenon DEF IsSeq, Linked
  <2> QED BY <2>1, <2>2, Zenon DEF Targets, FetchInTarget, inFetchLoop
<1>3. CASE Consumed(q[1], nextPC) /\ ~(q[1].hist # None \/ status = "Locked")
  <2>1. /\ ftq' = t /\ ftqStatus' = status /\ pc' = nextPC
        /\ phase' = "decode" \/ (phase' = "fetching" /\ ~taken /\ t # << >>)
    BY <1>3, Zenon DEF EndOfInst
  <2>2. status = "Valid" /\ q[1].hist = None
    BY <1>3, Zenon
  <2>3. ASSUME phase' = "fetching" PROVE covered'
    <3>1. ~taken /\ t # << >>
      BY <2>1, <2>3
    <3>2. inRange(t[1], nextPC.a)
      BY <1>0, <1>3, <2>2, <3>1, Zenon
    <3> HIDE DEF t
    <3>3. Head(t) = t[1]
      BY <1>0, <3>1, HeadIsFirst, Zenon
    <3>4. ftqStatus' # "Invalid"
      BY <2>1, <2>2
    <3> QED BY <2>1, <3>1, <3>2, <3>3, <3>4, Zenon DEF covered, isHeadReady, isReady, inRange
  <2>4. phase' \notin {"generate", "override", "fetch", "macroop"}
    BY <2>1, Zenon
  <2> HIDE DEF t
  <2>5. Steady(ftq)' /\ HeadOK(ftq, pc)'
    BY <1>0, <2>1, <2>2, Zenon DEF Steady, HeadOK, ComplexAhead
  <2>6. IsSeq(ftq)' /\ Linked(ftq, bacPC)'
    BY <1>0, <2>1, Zenon DEF IsSeq, Linked
  <2> QED BY <2>3, <2>4, <2>5, <2>6, Zenon DEF Targets, FetchInTarget, inFetchLoop
<1> QED BY <1>1, <1>2, <1>3, Zenon

LEMMA InLoop ==
    ASSUME Targets, TypeOK, inFetchLoop
    PROVE  /\ IsSeq(ftq) /\ ftq # << >> /\ Linked(ftq, bacPC) /\ 1 \in 1 .. Len(ftq) /\ pc \in PCs
           /\ ftqStatus \in {"Valid", "Locked"} /\ Head(ftq) = ftq[1]
           /\ ftq[1].start \in Addr /\ ftq[1].end \in Addr /\ inRange(ftq[1], pc.a)
           /\ ftqStatus = "Valid" => Steady(ftq) /\ HeadOK(ftq, pc)
<1>1. covered
  BY DEF Targets, FetchInTarget
<1>2. IsSeq(ftq) /\ ftq # << >> /\ Head(ftq) = ftq[1] /\ Linked(ftq, bacPC)
  BY <1>1 DEF Targets, covered, isHeadReady
<1>3. ftqStatus \in {"Valid", "Locked"} /\ inRange(ftq[1], pc.a)
  BY <1>1, <1>2 DEF TypeOK, covered, isHeadReady, isReady
<1>4. 1 \in 1 .. Len(ftq)
  <2>1. Len(ftq) \in Nat /\ Len(ftq) # 0
    BY <1>2, LenIsNat, Zenon
  <2> QED BY <2>1
<1>5. ftq[1].start \in Addr /\ ftq[1].end \in Addr
  BY <1>2, <1>4, Zenon DEF Linked
<1> QED BY <1>2, <1>3, <1>4, <1>5, Zenon DEF Targets, TypeOK

\* Fetch goes on to the next micro-op, in a queue that is as it was.
LEMMA TargetsAdvance ==
    ASSUME Targets, TypeOK, inFetchLoop, ~Uop(pc).ctl \/ IsLastUop(pc), bacPC' = bacPC,
           EndOfInst(ftq, ftqStatus, advancePC(pc), FALSE)
    PROVE  Targets'
<1> DEFINE p == advancePC(pc)
           e == ftq[1].end
           atEnd == pc.a = e /\ IsLastUop(pc)
<1>1. (~atEnd => inRange(ftq[1], p.a)) /\ (atEnd => p.a = FallThrough(e))
  BY InLoop, Advance, Zenon
<1>2. Consumed(ftq[1], p) => atEnd
  BY <1>1, Zenon DEF Consumed
<1>3. ComplexAhead(e, pc) => ComplexAhead(e, p) /\ ~atEnd
  BY InLoop, AdvanceComplex, Zenon
<1>4. HeadOK(ftq, pc) => HeadOK(ftq, p)
  BY <1>3, Zenon DEF HeadOK
<1>5. ftqStatus = "Valid" /\ Consumed(ftq[1], p) /\ ftq[1].hist = None => p.a = ftq[1].next
  BY <1>1, <1>2, <1>3, InLoop, Zenon DEF HeadOK
<1>6. EndOfInst(ftq, ftqStatus, p, FALSE)
  BY Zenon
<1> HIDE DEF p
<1> QED BY <1>4, <1>5, <1>6, InLoop, EndOfInstTargets, Zenon

LEMMA TargetsSquashed ==
    ASSUME Targets, TypeOK, inFetchLoop, NEW nextPC, NEW taken, bacPC' = bacPC,
           EndOfInst(SquashedFTs, "Locked", nextPC, taken)
    PROVE  Targets'
<1> DEFINE q == SquashedFTs
<1>1. IsSeq(q) /\ Len(q) = Len(ftq)
  BY InLoop, SquashedFTsIsSeq, Zenon
<1>2. q # << >>
  BY <1>1, InLoop, LenIsNat, Zenon
<1>3. DOMAIN ftq = 1 .. Len(ftq)
  BY InLoop, LenIsNat, Zenon
<1>4. \A i \in 1 .. Len(ftq) : /\ q[i].start = ftq[i].start /\ q[i].end = ftq[i].end
                               /\ q[i].next = ftq[i].next /\ q[i].hist \in {None, ftq[i].hist}
  <2> SUFFICES ASSUME NEW i \in 1 .. Len(ftq)
               PROVE  /\ q[i].start = ftq[i].start /\ q[i].end = ftq[i].end
                      /\ q[i].next = ftq[i].next /\ q[i].hist \in {None, ftq[i].hist}
    BY Zenon
  <2>1. q[i] = [ftq[i] EXCEPT !.hist = None]
    BY <1>3, Zenon DEF SquashedFTs
  <2>2. ftq[i] \in FetchTarget
    BY DEF TypeOK
  <2> HIDE DEF q
  <2> QED BY <2>1, <2>2 DEF FetchTarget
<1>5. EndOfInst(q, "Locked", nextPC, taken)
  OBVIOUS
<1> HIDE DEF q
<1>6. Linked(q, bacPC)
  BY <1>1, <1>4, InLoop, LinkedHist, Zenon
<1>7. "Locked" \in {"Valid", "Locked"} /\ "Locked" # "Valid"
  OBVIOUS
<1> QED BY <1>1, <1>2, <1>5, <1>6, <1>7, EndOfInstTargets, Zenon

LEMMA TargetsPredicted ==
    ASSUME Targets, TypeOK, FetchPredicted
    PROVE  Targets'
<1>0. inFetchLoop /\ Uop(pc).ctl = TRUE /\ Matches /\ bacPC' = bacPC
  BY Zenon DEF FetchPredicted, CanFetch, NewInst, bac
<1> DEFINE q == [ftq EXCEPT ![1].hist = None]
           taken == ExitHist.taken
           nextPC == IF taken THEN At(Head(ftq).next) ELSE advancePC(pc)
           e == ftq[1].end
           atEnd == pc.a = e /\ IsLastUop(pc)
<1>1. EndOfInst(q, ftqStatus, nextPC, taken)
  BY Zenon DEF FetchPredicted
<1>2. pc.a = e /\ ExitHist = ftq[1].hist /\ ftq[1].hist # None
  BY <1>0, InLoop, Zenon DEF Matches, ExitHist, isExitBranch
<1>3. DOMAIN ftq = 1 .. Len(ftq) /\ Len(ftq) \in Nat /\ ftq \in Seq(FetchTarget)
  BY <1>0, InLoop, LenIsNat, Zenon DEF TypeOK
<1>4. q[1] = [ftq[1] EXCEPT !.hist = None] /\ \A i \in 1 .. Len(ftq) : i # 1 => q[i] = ftq[i]
  BY <1>0, <1>3, InLoop, Zenon
<1>5. IsSeq(q) /\ Len(q) = Len(ftq)
  <2> DEFINE T == {q[i] : i \in DOMAIN ftq}
  <2>1. q \in [DOMAIN ftq -> T]
    BY Zenon
  <2> HIDE DEF T, q
  <2> QED BY <1>0, <2>1, InLoop, SameLength, Zenon
<1>6. ftq[1] \in FetchTarget /\ q # << >>
  BY <1>0, <1>3, <1>5, InLoop, LenIsNat
<1>7. /\ q[1].start = ftq[1].start /\ q[1].end = e /\ q[1].next = ftq[1].next /\ q[1].hist = None
  <2> HIDE DEF q, e
  <2> QED BY <1>4, <1>6 DEF FetchTarget, e
<1> HIDE DEF q
<1>8. Linked(q, bacPC)
  <2>1. \A i \in 1 .. Len(ftq) : /\ q[i].start = ftq[i].start /\ q[i].end = ftq[i].end
                                 /\ q[i].next = ftq[i].next /\ q[i].hist \in {None, ftq[i].hist}
    BY <1>4, <1>7, Zenon
  <2> QED BY <1>0, <1>5, <2>1, InLoop, LinkedHist, Zenon
<1>9. Steady(ftq) => Steady(q)
  <2>1. \A i \in 2 .. Len(ftq) : i \in 1 .. Len(ftq) /\ i # 1
    BY <1>3
  <2> QED BY <1>4, <1>5, <2>1, Zenon DEF Steady
<1>10. ~taken => q[1].next = FallThrough(e)
  BY <1>0, <1>2, <1>7, InLoop, Zenon DEF Linked
<1>11. (~atEnd => inRange(ftq[1], advancePC(pc).a)) /\ (atEnd => advancePC(pc).a = FallThrough(e))
  BY <1>0, InLoop, Advance, Zenon
<1>12. ASSUME ~taken, Consumed(q[1], nextPC) PROVE nextPC.a = q[1].next
  <2>1. nextPC = advancePC(pc)
    BY <1>12
  <2>2. atEnd
    BY <1>7, <1>11, <1>12, <2>1 DEF Consumed, inRange
  <2> QED BY <1>10, <1>11, <1>12, <2>1, <2>2, Zenon
<1>13. ASSUME ~Consumed(q[1], nextPC) PROVE HeadOK(q, nextPC)
  <2>1. CASE ~taken
    BY <1>7, <1>10, <2>1, Zenon DEF HeadOK
  <2>2. CASE taken
    <3>1. nextPC = At(ftq[1].next)
      BY <1>0, <2>2, InLoop, Zenon
    <3>2. ~IsLastUop(pc)
      BY <1>2, <1>7, <1>13, Zenon DEF Consumed
    <3>3. pc.u \in 1 .. Len(Code[pc.a]) /\ Len(Code[pc.a]) \in Nat
      BY <1>0, InLoop, PCFacts, Zenon
    <3>4. pc.u \in 1 .. Len(Code[e]) - 1 /\ 1 <= pc.u
      BY <1>2, <3>2, <3>3 DEF IsLastUop
    <3>5. Code[e][pc.u].ctl
      BY <1>0, <1>2, Zenon DEF Uop
    <3>6. nextPC.u = 1
      BY <3>1 DEF At
    <3>7. ComplexAhead(e, nextPC)
      BY <3>4, <3>5, <3>6, Zenon DEF ComplexAhead
    <3> QED BY <1>7, <3>7, Zenon DEF HeadOK
  <2> QED BY <2>1, <2>2
<1> HIDE DEF nextPC, taken
<1> QED BY <1>0, <1>1, <1>5, <1>6, <1>8, <1>9, <1>12, <1>13, InLoop, EndOfInstTargets, Zenon

LEMMA TargetsFetching ==
    ASSUME Targets, TypeOK, FetchPlain \/ FetchQuiesce \/ FetchComplex \/ FetchUnpredicted
    PROVE  Targets'
<1>0. inFetchLoop /\ bacPC' = bacPC
  BY Zenon DEF FetchPlain, FetchQuiesce, FetchComplex, FetchUnpredicted, CanFetch, NewInst, bac
<1>1. CASE FetchPlain
  BY <1>0, <1>1, TargetsAdvance, Zenon DEF FetchPlain, CanFetch
<1>2. CASE FetchUnpredicted
  BY <1>0, <1>2, TargetsAdvance, TargetsSquashed, Zenon DEF FetchUnpredicted
<1>3. CASE FetchComplex
  BY <1>0, <1>3, TargetsSquashed, Zenon DEF FetchComplex
<1>4. CASE FetchQuiesce
  <2>1. /\ UNCHANGED << ftq, ftqStatus >> /\ pc' = advancePC(pc) /\ phase' = "decode" /\ ~Uop(pc).ctl
    BY <1>4 DEF FetchQuiesce, CanFetch, queue
  <2>2. PICK p : p = advancePC(pc)
    OBVIOUS
  <2>3. ComplexAhead(ftq[1].end, pc) => ComplexAhead(ftq[1].end, p)
    BY <1>0, <2>1, <2>2, InLoop, AdvanceComplex, Zenon
  <2>4. HeadOK(ftq, pc) => HeadOK(ftq, p)
    BY <2>3, Zenon DEF HeadOK
  <2>5. ftqStatus' = "Valid" => Steady(ftq)' /\ HeadOK(ftq, pc)'
    BY <2>1, <2>2, <2>4, Zenon DEF Targets, Steady, HeadOK, ComplexAhead
  <2>6. IsSeq(ftq)' /\ Linked(ftq, bacPC)'
    BY <1>0, <2>1, Zenon DEF Targets, IsSeq, Linked
  <2> QED BY <2>1, <2>5, <2>6 DEF Targets, FetchInTarget, inFetchLoop
<1> QED BY <1>1, <1>2, <1>3, <1>4

\* Where the queue is empty, or is as it was and fetch does not move.
LEMMA TargetsSquash ==
    ASSUME ftq' = << >>, phase' \notin {"generate", "override"}, ~inFetchLoop'
    PROVE  Targets'
<1>1. IsSeq(ftq)' /\ Linked(ftq, bacPC)' /\ Steady(ftq)' /\ HeadOK(ftq, pc)'
  <2>1. PICK b, p : b = bacPC' /\ p = pc'
    OBVIOUS
  <2> QED BY <2>1, LinkedEmpty, Zenon DEF IsSeq, Linked, Steady, HeadOK, ComplexAhead
<1> QED BY <1>1 DEF Targets, FetchInTarget

LEMMA TargetsSame ==
    ASSUME Targets, UNCHANGED << ftq, bacPC, pc >>, ftqStatus' \in {ftqStatus, "Invalid"},
           phase' \in {"generate", "override", "fetch"} => ~commitSquash' /\ ~decodeSquash',
           inFetchLoop' => covered'
    PROVE  Targets'
<1>1. IsSeq(ftq)' /\ Linked(ftq, bacPC)'
  BY Zenon DEF Targets, IsSeq, Linked
<1>2. ftqStatus' = "Valid" => Steady(ftq)' /\ HeadOK(ftq, pc)'
  BY DEF Targets, Steady, HeadOK, ComplexAhead
<1> QED BY <1>1, <1>2 DEF Targets, FetchInTarget

LEMMA TargetsInsert ==
    ASSUME Targets, phase = "generate", NEW ft, NEW latency, InsertFT(ft, latency),
           ft.start = bacPC, ft.start \in Addr, ft.end \in Addr, ft.start <= ft.end,
           ft.hist # None /\ ~ft.hist.taken => ft.next = FallThrough(ft.end),
           ft.hist = None => ft.next = FallThrough(ft.end)
    PROVE  Targets'
<1>1. /\ ftq' = Append(ftq, ft) /\ bacPC' = ft.next /\ phase' \in {"generate", "fetch"}
      /\ UNCHANGED << ftqStatus, pc, fromDecode, fromCommit >>
  BY DEF InsertFT, fetcher, wires
<1>2. PICK t : t = Append(ftq, ft)
  BY Zenon
<1>3. /\ IsSeq(t) /\ Linked(t, ft.next) /\ (Steady(ftq) => Steady(t))
      /\ HeadOK(ftq, pc) => HeadOK(t, pc)
  BY <1>2, LinkedAppend, Zenon DEF Targets
<1>4. IsSeq(ftq)' /\ Linked(ftq, bacPC)'
  BY <1>1, <1>2, <1>3, Zenon DEF IsSeq, Linked
<1>5. ftqStatus' = "Valid" => Steady(ftq)' /\ HeadOK(ftq, pc)'
  BY <1>1, <1>2, <1>3, Zenon DEF Targets, Steady, HeadOK, ComplexAhead
<1>6. ~commitSquash' /\ ~decodeSquash'
  BY <1>1 DEF Targets, commitSquash, decodeSquash
<1>7. ~inFetchLoop'
  BY <1>1 DEF inFetchLoop
<1> QED BY <1>4, <1>5, <1>6, <1>7 DEF Targets, FetchInTarget

LEMMA TargetsGenerate ==
    ASSUME Targets, TypeOK, GenerateFallThrough \/ GenerateBranch
    PROVE  Targets'
<1>0. bacPC \in Addr /\ LastInWidth \in Addr /\ bacPC <= LastInWidth /\ MaxAddr \in Nat
  BY LastInWidthType, FrontEndAssumption DEF TypeOK
<1>1. CASE GenerateFallThrough
  <2> DEFINE ft == [start |-> bacPC, end |-> LastInWidth, branch |-> FALSE,
                    taken |-> FALSE, next |-> FallThrough(LastInWidth), hist |-> None]
  <2>1. phase = "generate" /\ InsertFT(ft, 0)
    BY <1>1, Zenon DEF GenerateFallThrough
  <2>2. /\ ft.start = bacPC /\ ft.end = LastInWidth /\ ft.hist = None
        /\ ft.next = FallThrough(LastInWidth)
    OBVIOUS
  <2> HIDE DEF ft
  <2> QED BY <1>0, <2>1, <2>2, TargetsInsert, Zenon
<1>2. CASE GenerateBranch
  <2>0. phase = "generate"
    BY <1>2, Zenon DEF GenerateBranch
  <2>1. PICK end \in bacPC .. (IF blockBTB THEN MaxAddr ELSE LastInWidth),
             inst \in BTBInst, taken \in BOOLEAN, t \in Target, latency \in 0 .. maxLatency :
        InsertFT([start |-> bacPC, end |-> end, branch |-> TRUE, taken |-> taken,
                  next |-> IF taken /\ inst.last THEN t ELSE FallThrough(end),
                  hist |-> [id |-> NewId, type |-> inst.type, taken |-> taken]],
                 latency)
    BY <1>2, Zenon DEF GenerateBranch
  <2>2. end \in Addr /\ bacPC <= end
    BY <1>0 DEF Addr
  <2> DEFINE h == [id |-> NewId, type |-> inst.type, taken |-> taken]
             ft == [start |-> bacPC, end |-> end, branch |-> TRUE, taken |-> taken,
                    next |-> IF taken /\ inst.last THEN t ELSE FallThrough(end), hist |-> h]
  <2>3. h # None /\ h.taken = taken
    <3>1. h # None
      BY Zenon DEF None
    <3> QED BY <3>1
  <2>4. InsertFT(ft, latency)
    BY <2>1, Zenon
  <2> HIDE DEF h
  <2>5. /\ ft.start = bacPC /\ ft.end = end /\ ft.hist = h
        /\ ft.next = IF taken /\ inst.last THEN t ELSE FallThrough(end)
    BY Zenon
  <2> HIDE DEF ft
  <2> QED BY <1>0, <2>0, <2>2, <2>3, <2>4, <2>5, TargetsInsert, Zenon
<1> QED BY <1>1, <1>2

LEMMA TargetsNext ==
    ASSUME Targets, TypeOK, [Next]_vars
    PROVE  Targets'
<1>1. CASE BacCommitSquash \/ BacDecodeSquash \/ BacFetchSquash \/ BacDrain
  <2>1. ftq' = << >> /\ phase' = "fetch"
    BY <1>1, Zenon DEF BacCommitSquash, BacDecodeSquash, BacFetchSquash, BacDrain, BacSquash
  <2>2. phase' \notin {"generate", "override"} /\ ~inFetchLoop'
    BY <2>1 DEF inFetchLoop
  <2> QED BY <2>1, <2>2, TargetsSquash, Zenon
<1>2. CASE BacRun
  <2>1. /\ UNCHANGED << ftq, bacPC, pc, ftqStatus, fromDecode, fromCommit >>
        /\ ~commitSquash /\ ~decodeSquash
    BY <1>2, Zenon DEF BacRun, queue, fetcher, wires
  <2>2. ~commitSquash' /\ ~decodeSquash'
    BY <2>1, Zenon DEF commitSquash, decodeSquash
  <2>3. ~inFetchLoop'
    BY <1>2 DEF BacRun, inFetchLoop
  <2> QED BY <2>1, <2>2, <2>3, TargetsSame, Zenon
<1>3. CASE BacOverride
  <2>1. /\ UNCHANGED << ftq, bacPC, pc, ftqStatus, fromDecode, fromCommit >>
        /\ phase = "override" /\ phase' = "fetch"
    BY <1>3, Zenon DEF BacOverride, queue, bac, fetcher, wires
  <2>2. ~commitSquash' /\ ~decodeSquash'
    BY <2>1, Zenon DEF Targets, commitSquash, decodeSquash
  <2>3. ~inFetchLoop'
    BY <2>1 DEF inFetchLoop
  <2> QED BY <2>1, <2>2, <2>3, TargetsSame, Zenon
<1>4. CASE GenerateFallThrough \/ GenerateBranch
  BY <1>4, TargetsGenerate, Zenon
<1>5. CASE FetchCommitSquash \/ FetchDecodeSquash
  <2>1. ftq' = ftq /\ phase = "fetch" /\ (commitSquash \/ decodeSquash) /\ phase' = "decode"
    BY <1>5, Zenon DEF FetchCommitSquash, FetchDecodeSquash, hearsDecode, queue
  <2>2. ftq' = << >>
    BY <2>1, Zenon DEF Targets
  <2>3. phase' \notin {"generate", "override"} /\ ~inFetchLoop'
    BY <2>1 DEF inFetchLoop
  <2> QED BY <2>2, <2>3, TargetsSquash, Zenon
<1>6. CASE FetchTrap \/ FetchIdle \/ FetchResteer \/ FetchStop \/ Decode \/ Commit
  <2>1. UNCHANGED << ftq, bacPC, pc >> /\ ftqStatus' \in {ftqStatus, "Invalid"}
    BY <1>6, Zenon DEF FetchTrap, FetchIdle, FetchResteer, FetchStop, Resteer, Decode, DecodePass,
           DecodeSquash, Commit, CommitNothing, CommitInsts, CommitSquash, CommitSquashAfter,
           queue, bac, fetcher
  <2>2. phase' \in {"decode", "commit", "bac"}
    BY <1>6, Zenon DEF FetchTrap, FetchIdle, FetchResteer, FetchStop, Decode, DecodePass,
           DecodeSquash, Commit, CommitNothing, CommitInsts, CommitSquash, CommitSquashAfter
  <2>3. phase' \notin {"generate", "override", "fetch"} /\ ~inFetchLoop'
    BY <2>2 DEF inFetchLoop
  <2> QED BY <2>1, <2>3, TargetsSame, Zenon
<1>7. CASE FetchStart
  <2>1. UNCHANGED << ftq, ftqStatus, bacPC, pc >> /\ phase' = "fetching" /\ covered
    BY <1>7, Zenon DEF FetchStart, queue, bac, fetcher
  <2>2. covered'
    BY <2>1, Zenon DEF covered, isHeadReady, isReady, inRange
  <2>3. phase' \notin {"generate", "override", "fetch"}
    BY <2>1
  <2> QED BY <2>1, <2>2, <2>3, TargetsSame, Zenon
<1>8. CASE FetchPredicted
  BY <1>8, TargetsPredicted, Zenon
<1>9. CASE FetchPlain \/ FetchQuiesce \/ FetchComplex \/ FetchUnpredicted
  BY <1>9, TargetsFetching, Zenon
<1>10. CASE DrainResume
  <2>1. UNCHANGED << ftq, ftqStatus, bacPC, pc >> /\ phase = "bac" /\ phase' = "bac"
    BY <1>10, Zenon DEF DrainResume, isCpuDrained, queue, bac, fetcher
  <2>2. phase' \notin {"generate", "override", "fetch"} /\ ~inFetchLoop'
    BY <2>1 DEF inFetchLoop
  <2> QED BY <2>1, <2>2, TargetsSame, Zenon
<1>11. CASE UNCHANGED vars
  <2>1. UNCHANGED << phase, ftq, ftqStatus, bacPC, pc, fromDecode, fromCommit >>
    BY <1>11, Zenon DEF vars, queue, bac, fetcher, wires
  <2>2. IsSeq(ftq)' /\ Linked(ftq, bacPC)' /\ (ftqStatus' = "Valid" => Steady(ftq)' /\ HeadOK(ftq, pc)')
    BY <2>1, Zenon DEF Targets, IsSeq, Linked, Steady, HeadOK, ComplexAhead
  <2>3. /\ commitSquash' = commitSquash /\ decodeSquash' = decodeSquash
        /\ inFetchLoop' = inFetchLoop /\ covered' = covered
    BY <2>1, Zenon DEF commitSquash, decodeSquash, inFetchLoop, covered, isHeadReady, isReady, inRange
  <2> QED BY <2>1, <2>2, <2>3, Zenon DEF Targets, FetchInTarget
<1> QED BY <1>1, <1>2, <1>3, <1>4, <1>5, <1>6, <1>7, <1>8, <1>9, <1>10, <1>11, Zenon
        DEF Next, Bac, Fetch

LEMMA TargetsInit == Init => Targets
<1> SUFFICES ASSUME Init PROVE Targets
  OBVIOUS
<1>1. ftq = << >> /\ phase = "bac"
  BY DEF Init
<1>2. IsSeq(ftq) /\ Linked(ftq, bacPC) /\ Steady(ftq) /\ HeadOK(ftq, pc)
  BY <1>1, LinkedEmpty, Zenon
<1> QED BY <1>1, <1>2 DEF Targets, FetchInTarget, inFetchLoop

-----------------------------------------------------------------------------
(* Prefixes and suffixes by sequence number. *)

Hist(X) == [sn : Nat, id : X, modified : BOOLEAN]
Inst    == [sn : Nat, ctl : BOOLEAN]

Increasing(s) == \A i, j \in 1 .. Len(s) : i < j => s[i].sn < s[j].sn

Has(s, sn) == \E i \in 1 .. Len(s) : s[i].sn = sn

\* A list of histories in program order, all older than b.
Good(hs, b) == /\ \E X : hs \in Seq(Hist(X))
               /\ Increasing(hs)
               /\ \A i \in 1 .. Len(hs) : hs[i].sn < b

LEMMA GoodType ==
    ASSUME NEW hs, NEW b, Good(hs, b)
    PROVE  Len(hs) \in Nat /\ \A i \in 1 .. Len(hs) : hs[i].sn \in Nat
<1>1. PICK X : hs \in Seq(Hist(X))
  BY DEF Good
<1>2. Len(hs) \in Nat /\ \A i \in 1 .. Len(hs) : hs[i] \in Hist(X)
  BY <1>1
<1>3. \A h \in Hist(X) : h.sn \in Nat
  BY DEF Hist
<1> QED BY <1>2, <1>3, Zenon

LEMMA NumKeptFacts ==
    ASSUME NEW s, Len(s) \in Nat, \A i \in 1 .. Len(s) : s[i].sn \in Nat, NEW sn \in Int
    PROVE  /\ NumKept(s, sn) \in 0 .. Len(s)
           /\ NumKept(s, sn) > 0 => s[NumKept(s, sn)].sn <= sn
           /\ \A i \in NumKept(s, sn) + 1 .. Len(s) : s[i].sn > sn
BY KeptExists, Zenon DEF NumKept

LEMMA NumDoneFacts ==
    ASSUME NEW s, Len(s) \in Nat, \A i \in 1 .. Len(s) : s[i].sn \in Nat, NEW sn \in Int
    PROVE  /\ NumDone(s, sn) \in 0 .. Len(s)
           /\ NumDone(s, sn) < Len(s) => s[NumDone(s, sn) + 1].sn > sn
           /\ \A i \in 1 .. NumDone(s, sn) : s[i].sn <= sn
BY DoneExists, Zenon DEF NumDone

\* squash(squashed_sn) keeps the histories up to sn, and that of sn comes last.
LEMMA KeptGood ==
    ASSUME NEW hs, NEW b, Good(hs, b), NEW sn \in Int
    PROVE  /\ Good(KeptHist(hs, sn), b)
           /\ \A k : k <= sn /\ Has(hs, k) => Has(KeptHist(hs, sn), k)
           /\ Has(hs, sn) => /\ Len(KeptHist(hs, sn)) > 0
                             /\ KeptHist(hs, sn)[Len(KeptHist(hs, sn))].sn = sn
<1> DEFINE n == NumKept(hs, sn)
           kept == KeptHist(hs, sn)
<1>1. Len(hs) \in Nat /\ \A i \in 1 .. Len(hs) : hs[i].sn \in Nat
  BY GoodType
<1>2. /\ n \in 0 .. Len(hs)
      /\ n > 0 => hs[n].sn <= sn
      /\ \A i \in n + 1 .. Len(hs) : hs[i].sn > sn
  BY <1>1, NumKeptFacts, Zenon
<1>3. PICK X : hs \in Seq(Hist(X))
  BY DEF Good
<1> HIDE DEF n
<1>4. kept \in Seq(Hist(X)) /\ Len(kept) = n /\ \A i \in 1 .. n : kept[i] = hs[i]
  BY <1>2, <1>3, Prefix, ZenonT(30) DEF KeptHist, n
<1> HIDE DEF kept
<1>5. Good(kept, b)
  <2>1. \A i \in 1 .. n : i \in 1 .. Len(hs)
    BY <1>1, <1>2, SMTT(30)
  <2>2. Increasing(kept)
    BY <1>4, <2>1 DEF Good, Increasing
  <2>3. \A i \in 1 .. Len(kept) : kept[i].sn < b
    BY <1>4, <2>1, SMTT(30) DEF Good
  <2> QED BY <1>4, <2>2, <2>3, SMTT(30) DEF Good
<1>6. ASSUME NEW i \in 1 .. Len(hs), hs[i].sn <= sn PROVE i \in 1 .. n
  BY <1>1, <1>2, <1>6, SMTT(30)
<1>7. ASSUME NEW k, k <= sn, Has(hs, k) PROVE Has(kept, k)
  <2>1. PICK i \in 1 .. Len(hs) : hs[i].sn = k
    BY <1>7 DEF Has
  <2> QED BY <1>4, <1>6, <1>7, <2>1 DEF Has
<1>8. ASSUME Has(hs, sn) PROVE Len(kept) > 0 /\ kept[Len(kept)].sn = sn
  <2>1. PICK i \in 1 .. Len(hs) : hs[i].sn = sn
    BY <1>8 DEF Has
  <2>2. i \in 1 .. n /\ n > 0 /\ n \in 1 .. Len(hs)
    BY <1>1, <1>2, <1>6, <2>1, SMTT(30)
  <2>3. i = n
    <3> SUFFICES ASSUME i < n PROVE FALSE
      BY <1>2, <2>2
    <3>1. hs[i].sn < hs[n].sn
      BY <2>2 DEF Good, Increasing
    <3> QED BY <1>1, <1>2, <2>1, <2>2, <3>1, SMTT(30)
  <2> QED BY <1>4, <2>1, <2>2, <2>3, SMTT(30)
<1> QED BY <1>5, <1>7, <1>8, Zenon DEF kept

\* update(done_sn) keeps the histories after sn.
LEMMA UpdatedGood ==
    ASSUME NEW hs, NEW b, Good(hs, b), NEW sn \in Int
    PROVE  /\ Good(UpdatedHist(hs, sn), b)
           /\ \A k \in Int : k > sn /\ Has(hs, k) => Has(UpdatedHist(hs, sn), k)
<1> DEFINE n == NumDone(hs, sn)
           upd == UpdatedHist(hs, sn)
<1>1. Len(hs) \in Nat /\ \A i \in 1 .. Len(hs) : hs[i].sn \in Nat
  BY GoodType
<1>2. n \in 0 .. Len(hs) /\ \A i \in 1 .. n : hs[i].sn <= sn
  BY <1>1, NumDoneFacts, ZenonT(30)
<1>3. PICK X : hs \in Seq(Hist(X))
  BY DEF Good
<1> HIDE DEF n
<1>4. /\ upd \in Seq(Hist(X)) /\ Len(upd) = Len(hs) - n
      /\ \A i \in 1 .. Len(hs) - n : upd[i] = hs[n + i]
  BY <1>2, <1>3, Suffix, Zenon DEF UpdatedHist, n
<1> HIDE DEF upd
<1>5. \A i \in 1 .. Len(hs) - n : n + i \in 1 .. Len(hs)
  BY <1>1, <1>2
<1>6. Increasing(upd)
  <2> SUFFICES ASSUME NEW i \in 1 .. Len(upd), NEW j \in 1 .. Len(upd), i < j
               PROVE  upd[i].sn < upd[j].sn
    BY Zenon DEF Increasing
  <2>1. n + i < n + j
    BY <1>1, <1>2
  <2> QED BY <1>4, <1>5, <2>1, Zenon DEF Good, Increasing
<1>7. \A i \in 1 .. Len(upd) : upd[i].sn < b
  BY <1>4, <1>5 DEF Good
<1>8. ASSUME NEW k \in Int, k > sn, Has(hs, k) PROVE Has(upd, k)
  <2>1. PICK i \in 1 .. Len(hs) : hs[i].sn = k
    BY <1>8 DEF Has
  <2>2. i - n \in 1 .. Len(hs) - n /\ n + (i - n) = i
    BY <1>1, <1>2, <1>8, <2>1
  <2> QED BY <1>4, <2>1, <2>2 DEF Has
<1>9. Good(upd, b)
  BY <1>4, <1>6, <1>7 DEF Good
<1> QED BY <1>8, <1>9 DEF upd

\* The correction changes no sequence number.
LEMMA CorrectedGood ==
    ASSUME NEW hs, NEW b, Good(hs, b)
    PROVE  /\ Good(CorrectedHist(hs), b)
           /\ \A k : Has(hs, k) => Has(CorrectedHist(hs), k)
<1> DEFINE new == CorrectedHist(hs)
<1>1. PICK X : hs \in Seq(Hist(X))
  BY DEF Good
<1>2. CASE hs = << >>
  BY <1>2 DEF CorrectedHist
<1>3. CASE hs # << >>
  <2> DEFINE n == Len(hs)
             e == [hs[n] EXCEPT !.modified = TRUE]
  <2>1. n \in 1 .. Len(hs) /\ hs[n] \in Hist(X)
    BY <1>1, <1>3
  <2>2. e \in Hist(X) /\ e.sn = hs[n].sn
    BY <2>1, Zenon DEF Hist
  <2>3. new = [hs EXCEPT ![n] = e]
    BY <1>3 DEF CorrectedHist
  <2> HIDE DEF n, e, new
  <2>4. /\ new \in Seq(Hist(X)) /\ Len(new) = Len(hs)
        /\ \A j \in 1 .. Len(hs) : new[j] = IF j = n THEN e ELSE hs[j]
    BY <1>1, <2>1, <2>2, <2>3, ExceptSeq, SMTT(30)
  <2>5. \A j \in 1 .. Len(hs) : new[j].sn = hs[j].sn
    BY <2>2, <2>4, ZenonT(30)
  <2>6. Good(new, b)
    BY <2>4, <2>5 DEF Good, Increasing
  <2>7. \A k : Has(hs, k) => Has(new, k)
    BY <2>4, <2>5, Zenon DEF Has
  <2> QED BY <2>6, <2>7 DEF new
<1> QED BY <1>2, <1>3

LEMMA AppendGood ==
    ASSUME NEW hs, NEW b \in Nat, Good(hs, b), NEW id, NEW modified \in BOOLEAN
    PROVE  LET new == Append(hs, [sn |-> b, id |-> id, modified |-> modified])
           IN  Good(new, b + 1) /\ Has(new, b) /\ \A k : Has(hs, k) => Has(new, k)
<1> DEFINE e == [sn |-> b, id |-> id, modified |-> modified]
           new == Append(hs, e)
<1>1. PICK X : hs \in Seq(Hist(X))
  BY DEF Good
<1>2. hs \in Seq(Hist(X \cup {id})) /\ e \in Hist(X \cup {id}) /\ e.sn = b
  <2>1. Hist(X) \subseteq Hist(X \cup {id})
    BY DEF Hist
  <2> QED BY <1>1, <2>1, SeqMonotonic, Zenon DEF Hist
<1>3. Len(hs) \in Nat /\ \A i \in 1 .. Len(hs) : hs[i].sn \in Nat /\ hs[i].sn < b
  BY GoodType, Zenon DEF Good
<1> HIDE DEF e
<1>4. /\ new \in Seq(Hist(X \cup {id})) /\ Len(new) = Len(hs) + 1
      /\ new[Len(hs) + 1] = e /\ \A i \in 1 .. Len(hs) : new[i] = hs[i]
  BY <1>2, AppendFacts
<1> HIDE DEF new
<1>5. \A i \in 1 .. Len(hs) + 1 : i \in 1 .. Len(hs) \/ i = Len(hs) + 1
  BY <1>3
<1>6. Increasing(new)
  <2> SUFFICES ASSUME NEW i \in 1 .. Len(new), NEW j \in 1 .. Len(new), i < j
               PROVE  new[i].sn < new[j].sn
    BY DEF Increasing
  <2>1. i \in 1 .. Len(hs)
    BY <1>3, <1>4
  <2>2. CASE j \in 1 .. Len(hs)
    BY <1>4, <2>1, <2>2, Zenon DEF Good, Increasing
  <2>3. CASE j = Len(hs) + 1
    BY <1>2, <1>3, <1>4, <2>1, <2>3, Zenon
  <2> QED BY <1>4, <1>5, <2>2, <2>3, Zenon
<1>7. \A i \in 1 .. Len(new) : new[i].sn < b + 1
  <2>1. b < b + 1 /\ \A x \in Nat : x < b => x < b + 1
    OBVIOUS
  <2> QED BY <1>2, <1>3, <1>4, <1>5, <2>1, Zenon
<1>8. Has(new, b) /\ \A k : Has(hs, k) => Has(new, k)
  <2>1. Len(hs) + 1 \in 1 .. Len(new) /\ \A i \in 1 .. Len(hs) : i \in 1 .. Len(new)
    BY <1>3, <1>4
  <2> QED BY <1>2, <1>4, <2>1, Zenon DEF Has
<1>9. Good(new, b + 1)
  BY <1>4, <1>6, <1>7, Zenon DEF Good
<1> QED BY <1>8, <1>9, Zenon DEF new, e

-----------------------------------------------------------------------------
(* Decode's signals take one cycle: a squash corrects its branch. *)

HasBranch(sn) == \E i \in 1 .. Len(insts) : insts[i].ctl /\ insts[i].sn = sn
AllUpTo(sn)   == \A i \in 1 .. Len(insts) : insts[i].sn <= sn

GoodInsts == /\ nextSeq \in Nat \ {0}
             /\ insts \in Seq(Inst) /\ Increasing(insts)
             /\ \A i \in 1 .. Len(insts) : insts[i].sn \in 1 .. nextSeq - 1
             /\ numDecoded \in 0 .. Len(insts)

AllTracked == \A i \in 1 .. Len(insts) : insts[i].ctl => Has(predHist, insts[i].sn)

\* What the pipeline still holds of the instructions that a signal is about.
CommitHeard == IF commitSquash
               THEN /\ fromCommit.sn \in Nat /\ AllUpTo(fromCommit.sn)
                    /\ fromCommit.mispredict \in BOOLEAN
                    /\ fromCommit.mispredict => HasBranch(fromCommit.sn)
               ELSE /\ doneSeqNum \in Nat
                    /\ \A i \in 1 .. Len(insts) : insts[i].sn > doneSeqNum
DecodeHeard == decodeSquash => LET sn == fromDecode[decodeToFetchDelay].sn
                               IN  sn \in Nat /\ AllUpTo(sn) /\ HasBranch(sn)

\* Fetched branches have histories, and a squash finds its branch in the pipeline
\* unless commit squashes in the same cycle, which BAC hears instead.
Tracked ==
    /\ GoodInsts
    /\ Good(predHist, nextSeq)
    /\ AllTracked
    /\ phase = "bac" => CommitHeard
    /\ phase \in {"bac", "generate", "override", "fetch"} /\ ~commitSquash => DecodeHeard
    /\ phase = "commit" => DecodeHeard

LEMMA InstFacts ==
    ASSUME GoodInsts
    PROVE  /\ Len(insts) \in Nat /\ nextSeq \in Nat
           /\ \A i \in 1 .. Len(insts) : /\ insts[i].sn \in Nat /\ insts[i].sn >= 1
                                         /\ insts[i].sn < nextSeq
                                         /\ insts[i].ctl \in BOOLEAN
<1>1. \A i \in 1 .. Len(insts) : insts[i] \in Inst
  BY DEF GoodInsts
<1>2. \A i \in 1 .. Len(insts) : insts[i].ctl \in BOOLEAN
  BY <1>1 DEF Inst
<1>3. nextSeq \in Nat /\ \A i \in 1 .. Len(insts) : insts[i].sn \in 1 .. nextSeq - 1
  BY DEF GoodInsts
<1>4. Len(insts) \in Nat
  BY DEF GoodInsts
<1> QED BY <1>2, <1>3, <1>4

\* Squashing the instructions after the nth.
LEMMA InstsPrefix ==
    ASSUME GoodInsts, NEW n \in 0 .. Len(insts), insts' = SubSeq(insts, 1, n),
           numDecoded' \in 0 .. n, nextSeq' = nextSeq
    PROVE  /\ GoodInsts' /\ Len(insts') = n
           /\ \A i \in 1 .. n : i \in 1 .. Len(insts) /\ insts'[i] = insts[i]
           /\ n > 0 => AllUpTo(insts[n].sn)'
<1>1. insts \in Seq(Inst)
  BY DEF GoodInsts
<1>2. /\ insts' \in Seq(Inst) /\ Len(insts') = n
      /\ \A i \in 1 .. n : insts'[i] = insts[i]
  BY <1>1, Prefix
<1>3. Len(insts) \in Nat /\ \A i \in 1 .. n : i \in 1 .. Len(insts)
  BY <1>1
<1>4. Increasing(insts')
  BY <1>2, <1>3 DEF GoodInsts, Increasing
<1>5. GoodInsts'
  <2>1. \A i \in 1 .. Len(insts') : insts'[i].sn \in 1 .. nextSeq' - 1
    BY <1>2, <1>3 DEF GoodInsts
  <2> QED BY <1>2, <1>4, <2>1 DEF GoodInsts
<1>6. ASSUME n > 0 PROVE AllUpTo(insts[n].sn)'
  <2>1. n \in 1 .. n /\ n \in 1 .. Len(insts)
    BY <1>3, <1>6
  <2> SUFFICES ASSUME NEW i \in 1 .. n PROVE insts[i].sn <= insts[n].sn
    <3>1. insts[n].sn = insts'[n].sn
      BY <1>2, <2>1
    <3>2. insts[n]' = insts'[n]
      OBVIOUS
    <3> QED BY <1>2, <3>1, <3>2, SMTT(30) DEF AllUpTo
  <2>2. insts[i].sn \in Nat /\ insts[n].sn \in Nat
    BY <1>3, <2>1, InstFacts
  <2>3. i = n \/ i < n
    OBVIOUS
  <2>4. i < n => insts[i].sn < insts[n].sn
    BY <1>3, <2>1 DEF GoodInsts, Increasing
  <2> QED BY <2>2, <2>3, <2>4
<1> QED BY <1>2, <1>3, <1>5, <1>6, SMTT(30)

\* Committing the first n instructions.
LEMMA InstsSuffix ==
    ASSUME GoodInsts, NEW n \in 1 .. numDecoded, insts' = SubSeq(insts, n + 1, Len(insts)),
           numDecoded' = numDecoded - n, nextSeq' = nextSeq
    PROVE  /\ GoodInsts' /\ Len(insts') = Len(insts) - n
           /\ n \in 1 .. Len(insts)
           /\ \A i \in 1 .. Len(insts) - n : n + i \in 1 .. Len(insts) /\ insts'[i] = insts[n + i]
           /\ \A i \in 1 .. Len(insts') : insts'[i].sn > insts[n].sn
<1>1. insts \in Seq(Inst) /\ numDecoded \in 0 .. Len(insts) /\ Len(insts) \in Nat
  BY DEF GoodInsts
<1>2. n \in 0 .. Len(insts) /\ n \in 1 .. Len(insts)
  BY <1>1
<1>3. /\ insts' \in Seq(Inst) /\ Len(insts') = Len(insts) - n
      /\ \A i \in 1 .. Len(insts) - n : insts'[i] = insts[n + i]
  BY <1>1, <1>2, Suffix, SMTT(30)
<1>4. \A i \in 1 .. Len(insts) - n : n + i \in 1 .. Len(insts) /\ n < n + i
  BY <1>1, <1>2
<1>5. Increasing(insts')
  <2> SUFFICES ASSUME NEW i \in 1 .. Len(insts'), NEW j \in 1 .. Len(insts'), i < j
               PROVE  insts'[i].sn < insts'[j].sn
    BY Zenon DEF Increasing
  <2>1. n + i < n + j
    BY <1>1, <1>2
  <2> QED BY <1>3, <1>4, <2>1, Zenon DEF GoodInsts, Increasing
<1>6. numDecoded' \in 0 .. Len(insts')
  BY <1>1, <1>2, <1>3
<1>7. \A i \in 1 .. Len(insts') : insts'[i].sn \in 1 .. nextSeq' - 1
  BY <1>3, <1>4, Zenon DEF GoodInsts
<1>8. GoodInsts'
  BY <1>3, <1>5, <1>6, <1>7, SMTT(30) DEF GoodInsts
<1>9. \A i \in 1 .. Len(insts') : insts'[i].sn > insts[n].sn
  <2> SUFFICES ASSUME NEW i \in 1 .. Len(insts) - n PROVE insts[n + i].sn > insts[n].sn
    BY <1>3, Zenon
  <2>1. insts[n].sn < insts[n + i].sn
    BY <1>2, <1>4 DEF GoodInsts, Increasing
  <2>2. insts[n].sn \in Nat /\ insts[n + i].sn \in Nat
    BY <1>2, <1>4, InstFacts
  <2> QED BY <2>1, <2>2
<1> QED BY <1>2, <1>3, <1>4, <1>8, <1>9, Zenon

\* BAC has heard the signals: it has a new list of histories.
LEMMA TrackedBac ==
    ASSUME Tracked, phase = "bac", phase' \in {"generate", "override", "fetch"},
           UNCHANGED << fromDecode, fromCommit, insts, numDecoded, nextSeq >>,
           Good(predHist', nextSeq),
           \A i \in 1 .. Len(insts) : insts[i].ctl => Has(predHist', insts[i].sn)
    PROVE  Tracked'
<1>1. GoodInsts' /\ AllTracked'
  BY Zenon DEF Tracked, GoodInsts, AllTracked
<1>2. ~commitSquash' => DecodeHeard'
  BY Zenon DEF Tracked, commitSquash, decodeSquash, DecodeHeard, AllUpTo, HasBranch
<1>3. phase' # "bac" /\ phase' # "commit"
  OBVIOUS
<1> QED BY <1>1, <1>2, <1>3, Zenon DEF Tracked

\* Nothing that Tracked is about changes.
LEMMA TrackedStill ==
    ASSUME Tracked, UNCHANGED << predHist, insts, numDecoded, nextSeq >>,
           \/ phase' \in {"decode", "fetching", "macroop"}
           \/ /\ phase \in {"generate", "override"} /\ phase' \in {"generate", "fetch"}
              /\ UNCHANGED << fromDecode, fromCommit >>
    PROVE  Tracked'
<1>1. GoodInsts' /\ AllTracked' /\ Good(predHist, nextSeq)'
  BY Zenon DEF Tracked, GoodInsts, AllTracked
<1>2. CASE phase' \in {"decode", "fetching", "macroop"}
  BY <1>1, <1>2 DEF Tracked
<1>3. CASE /\ phase \in {"generate", "override"} /\ phase' \in {"generate", "fetch"}
           /\ UNCHANGED << fromDecode, fromCommit >>
  <2>1. ~commitSquash' => DecodeHeard'
    BY <1>3, Zenon DEF Tracked, commitSquash, decodeSquash, DecodeHeard, AllUpTo, HasBranch
  <2> QED BY <1>1, <1>3, <2>1, Zenon DEF Tracked
<1> QED BY <1>2, <1>3

LEMMA CommittedGood ==
    ASSUME Tracked, phase = "bac", ~commitSquash
    PROVE  /\ Good(CommittedHist, nextSeq)
           /\ \A i \in 1 .. Len(insts) : insts[i].ctl => Has(CommittedHist, insts[i].sn)
<1>1. /\ doneSeqNum \in Nat /\ \A i \in 1 .. Len(insts) : insts[i].sn > doneSeqNum
      /\ GoodInsts /\ Good(predHist, nextSeq)
      /\ \A i \in 1 .. Len(insts) : insts[i].ctl => Has(predHist, insts[i].sn)
  BY Zenon DEF Tracked, CommitHeard, AllTracked
<1>2. \A i \in 1 .. Len(insts) : insts[i].sn \in Int
  <2>1. \A x \in Nat : x \in Int
    OBVIOUS
  <2> QED BY <1>1, <2>1, InstFacts, Zenon
<1>3. doneSeqNum \in Int
  BY <1>1
<1> HIDE DEF doneSeqNum
<1>4. /\ Good(CommittedHist, nextSeq)
      /\ \A k \in Int : k > doneSeqNum /\ Has(predHist, k) => Has(CommittedHist, k)
  BY <1>1, <1>3, UpdatedGood, Zenon DEF CommittedHist
<1> QED BY <1>1, <1>2, <1>4, Zenon

\* A squash keeps the histories of the instructions that are left.
LEMMA SquashGood ==
    ASSUME NEW hs, Good(hs, nextSeq), GoodInsts, NEW sn \in Nat, AllUpTo(sn),
           \A i \in 1 .. Len(insts) : insts[i].ctl => Has(hs, insts[i].sn)
    PROVE  /\ Good(KeptHist(hs, sn), nextSeq) /\ Good(CorrectedHist(KeptHist(hs, sn)), nextSeq)
           /\ \A i \in 1 .. Len(insts) : insts[i].ctl =>
                /\ Has(KeptHist(hs, sn), insts[i].sn)
                /\ Has(CorrectedHist(KeptHist(hs, sn)), insts[i].sn)
<1>1. sn \in Int
  OBVIOUS
<1>2. /\ Good(KeptHist(hs, sn), nextSeq)
      /\ \A k : k <= sn /\ Has(hs, k) => Has(KeptHist(hs, sn), k)
  BY <1>1, KeptGood, Zenon
<1>3. /\ Good(CorrectedHist(KeptHist(hs, sn)), nextSeq)
      /\ \A k : Has(KeptHist(hs, sn), k) => Has(CorrectedHist(KeptHist(hs, sn)), k)
  BY <1>2, CorrectedGood, Zenon
<1> QED BY <1>2, <1>3, Zenon DEF AllUpTo

LEMMA TrackedBacSquash ==
    ASSUME Tracked, BacCommitSquash \/ BacDecodeSquash
    PROVE  Tracked'
<1>1. GoodInsts /\ Good(predHist, nextSeq) /\ AllTracked
  BY DEF Tracked
<1>2. /\ phase = "bac" /\ phase' \in {"generate", "override", "fetch"}
      /\ UNCHANGED << fromDecode, fromCommit, insts, numDecoded, nextSeq >>
  BY Zenon DEF BacCommitSquash, BacDecodeSquash, BacSquash, newCycle, wires, backend
<1>3. CASE BacCommitSquash
  <2>1. commitSquash
    BY <1>3 DEF BacCommitSquash
  <2>2. fromCommit.sn \in Nat /\ AllUpTo(fromCommit.sn)
    BY <1>2, <2>1, Zenon DEF Tracked, CommitHeard
  <2> DEFINE kept == KeptHist(predHist, fromCommit.sn)
  <2>3. predHist' \in {kept, CorrectedHist(kept)}
    BY <1>3, Zenon DEF BacCommitSquash, BpuSquash
  <2>4. /\ Good(kept, nextSeq) /\ Good(CorrectedHist(kept), nextSeq)
        /\ \A i \in 1 .. Len(insts) : insts[i].ctl =>
             Has(kept, insts[i].sn) /\ Has(CorrectedHist(kept), insts[i].sn)
    BY <1>1, <2>2, SquashGood, Zenon DEF AllTracked
  <2> HIDE DEF kept
  <2>5. /\ Good(predHist', nextSeq)
        /\ \A i \in 1 .. Len(insts) : insts[i].ctl => Has(predHist', insts[i].sn)
    BY <2>3, <2>4
  <2> QED BY <1>2, <2>5, TrackedBac, Zenon
<1>4. CASE BacDecodeSquash
  <2> DEFINE sn == fromDecode[decodeToFetchDelay].sn
             kept == KeptHist(CommittedHist, sn)
  <2>1. ~commitSquash /\ decodeSquash
    BY <1>4 DEF BacDecodeSquash
  <2>2. sn \in Nat /\ AllUpTo(sn)
    BY <1>2, <2>1, Zenon DEF Tracked, DecodeHeard
  <2>3. predHist' = CorrectedHist(kept)
    BY <1>4, Zenon DEF BacDecodeSquash, BpuSquash
  <2>4. /\ Good(CommittedHist, nextSeq)
        /\ \A i \in 1 .. Len(insts) : insts[i].ctl => Has(CommittedHist, insts[i].sn)
    BY <1>2, <2>1, CommittedGood, Zenon
  <2> HIDE DEF sn
  <2>5. /\ Good(CorrectedHist(kept), nextSeq)
        /\ \A i \in 1 .. Len(insts) : insts[i].ctl => Has(CorrectedHist(kept), insts[i].sn)
    BY <1>1, <2>2, <2>4, SquashGood, Zenon
  <2> QED BY <1>2, <2>3, <2>5, TrackedBac, Zenon
<1> QED BY <1>3, <1>4

LEMMA TrackedBacTick ==
    ASSUME Tracked, BacFetchSquash \/ BacDrain \/ BacRun
    PROVE  Tracked'
<1>1. /\ phase = "bac" /\ ~commitSquash /\ predHist' = CommittedHist
      /\ UNCHANGED << fromDecode, fromCommit, insts, numDecoded, nextSeq >>
  BY DEF BacFetchSquash, BacDrain, BacRun, newCycle, wires, backend
<1>2. phase' \in {"generate", "override", "fetch"}
  BY DEF BacFetchSquash, BacDrain, BacRun, BacSquash
<1>3. /\ Good(CommittedHist, nextSeq)
      /\ \A i \in 1 .. Len(insts) : insts[i].ctl => Has(CommittedHist, insts[i].sn)
  BY <1>1, CommittedGood, Zenon
<1> QED BY <1>1, <1>2, <1>3, TrackedBac, Zenon

\* A new instruction, with a history if it is a branch.
LEMMA TrackedNewInst ==
    ASSUME Tracked, NEW ctl \in BOOLEAN, NewInst(ctl), phase' \in {"decode", "fetching", "macroop"},
           IF ctl THEN \E id, modified : modified \in BOOLEAN /\ Insert(id, modified)
                  ELSE predHist' = predHist
    PROVE  Tracked'
<1> DEFINE e == [sn |-> nextSeq, ctl |-> ctl]
           n == Len(insts)
<1>1. insts' = Append(insts, e) /\ nextSeq' = nextSeq + 1 /\ numDecoded' = numDecoded
  BY DEF NewInst
<1>2. GoodInsts /\ Good(predHist, nextSeq) /\ AllTracked /\ nextSeq \in Nat /\ nextSeq >= 1
  BY DEF Tracked, GoodInsts
<1>3. e \in Inst /\ e.sn = nextSeq /\ e.ctl = ctl
  BY <1>2 DEF Inst
<1>4. /\ n \in Nat /\ insts \in Seq(Inst)
      /\ \A i \in 1 .. n : insts[i].sn \in Nat /\ insts[i].sn >= 1 /\ insts[i].sn < nextSeq
  BY <1>2, InstFacts, Zenon DEF GoodInsts
<1> HIDE DEF e
<1>5. /\ insts' \in Seq(Inst) /\ Len(insts') = n + 1
      /\ insts'[n + 1] = e /\ \A i \in 1 .. n : insts'[i] = insts[i]
  BY <1>1, <1>3, <1>4, AppendFacts
<1> HIDE DEF n
<1>6. \A i \in 1 .. n + 1 : i \in 1 .. n \/ i = n + 1
  BY <1>4, SMTT(30)
<1>7. GoodInsts'
  <2>1. Increasing(insts')
    <3> SUFFICES ASSUME NEW i \in 1 .. Len(insts'), NEW j \in 1 .. Len(insts'), i < j
                 PROVE  insts'[i].sn < insts'[j].sn
      BY DEF Increasing
    <3>1. i \in 1 .. n
      <4>1. i \in 1 .. n + 1 /\ j \in 1 .. n + 1
        BY <1>5, Zenon
      <4> QED BY <1>4, <4>1
    <3>2. CASE j \in 1 .. n
      BY <1>2, <1>5, <3>1, <3>2, Zenon DEF GoodInsts, Increasing, n
    <3>3. CASE j = n + 1
      BY <1>3, <1>4, <1>5, <3>1, <3>3
    <3> QED BY <1>5, <1>6, <3>2, <3>3
  <2>2. \A i \in 1 .. Len(insts') : insts'[i].sn \in 1 .. nextSeq' - 1
    <3>1. \A x \in Nat : x >= 1 /\ x <= nextSeq => x \in 1 .. (nextSeq + 1) - 1
      BY <1>2
    <3>2. \A x \in Nat : x < nextSeq => x <= nextSeq
      BY <1>2
    <3>3. nextSeq <= nextSeq
      BY <1>2
    <3> QED BY <1>1, <1>2, <1>3, <1>4, <1>5, <1>6, <3>1, <3>2, <3>3, Zenon
  <2>3. numDecoded' \in 0 .. Len(insts') /\ nextSeq' \in Nat \ {0}
    <3>1. numDecoded \in 0 .. n
      BY <1>2, Zenon DEF GoodInsts, n
    <3>2. numDecoded \in 0 .. n + 1 /\ nextSeq + 1 \in Nat \ {0}
      BY <1>2, <1>4, <3>1
    <3> QED BY <1>1, <1>5, <3>2, Zenon
  <2> QED BY <1>5, <2>1, <2>2, <2>3, SMTT(30) DEF GoodInsts
<1>8. /\ Good(predHist', nextSeq + 1)
      /\ ctl => Has(predHist', nextSeq)
      /\ \A k : Has(predHist, k) => Has(predHist', k)
  <2>1. CASE ctl
    <3>1. PICK id, modified : modified \in BOOLEAN /\ Insert(id, modified)
      BY <2>1
    <3>2. predHist' = Append(predHist, [sn |-> nextSeq, id |-> id, modified |-> modified])
      BY <3>1 DEF Insert
    <3>3. /\ Good(predHist', nextSeq + 1) /\ Has(predHist', nextSeq)
          /\ \A k : Has(predHist, k) => Has(predHist', k)
      BY <1>2, <3>1, <3>2, AppendGood, Zenon
    <3> QED BY <3>3
  <2>2. CASE ~ctl
    <3>1. predHist' = predHist
      BY <2>2
    <3>2. \A i \in 1 .. Len(predHist) : predHist[i].sn \in Nat /\ predHist[i].sn < nextSeq
      BY <1>2, GoodType, Zenon DEF Good
    <3>3. \A i \in 1 .. Len(predHist) : predHist[i].sn < nextSeq + 1
      BY <1>2, <3>2
    <3> QED BY <1>2, <2>2, <3>1, <3>3, Zenon DEF Good
  <2> QED BY <2>1, <2>2
<1>9. AllTracked'
  <2> SUFFICES ASSUME NEW i \in 1 .. Len(insts'), insts'[i].ctl
               PROVE  Has(predHist', insts'[i].sn)
    BY DEF AllTracked
  <2>1. CASE i \in 1 .. n
    BY <1>2, <1>5, <1>8, <2>1, Zenon DEF AllTracked, n
  <2>2. CASE i = n + 1
    BY <1>3, <1>5, <1>8, <2>2, Zenon
  <2> QED BY <1>5, <1>6, <2>1, <2>2
<1> QED BY <1>1, <1>7, <1>8, <1>9 DEF Tracked

LEMMA EndOfInstPhase ==
    ASSUME NEW q, NEW status, NEW nextPC, NEW taken, EndOfInst(q, status, nextPC, taken)
    PROVE  phase' \in {"decode", "fetching", "macroop"}
BY DEF EndOfInst

LEMMA TrackedFetching ==
    ASSUME Tracked,
           FetchPlain \/ FetchQuiesce \/ FetchPredicted \/ FetchComplex \/ FetchUnpredicted
    PROVE  Tracked'
<1>1. CASE FetchPlain
  <2>1. NewInst(FALSE) /\ predHist' = predHist /\ phase' \in {"decode", "fetching", "macroop"}
    BY <1>1, EndOfInstPhase, Zenon DEF FetchPlain
  <2> QED BY <2>1, TrackedNewInst, Zenon
<1>2. CASE FetchQuiesce
  <2>1. NewInst(FALSE) /\ predHist' = predHist /\ phase' \in {"decode", "fetching", "macroop"}
    BY <1>2, Zenon DEF FetchQuiesce
  <2> QED BY <2>1, TrackedNewInst, Zenon
<1>3. CASE FetchPredicted
  <2>1. NewInst(TRUE) /\ Insert(ExitHist.id, TRUE) /\ phase' \in {"decode", "fetching", "macroop"}
    BY <1>3, EndOfInstPhase, Zenon DEF FetchPredicted
  <2> QED BY <2>1, TrackedNewInst, Zenon
<1>4. CASE FetchComplex
  <2>1. NewInst(TRUE) /\ Insert(NewId, TRUE) /\ phase' \in {"decode", "fetching", "macroop"}
    BY <1>4, EndOfInstPhase, Zenon DEF FetchComplex
  <2> QED BY <2>1, TrackedNewInst, Zenon
<1>5. CASE FetchUnpredicted
  <2>1. NewInst(TRUE) /\ Insert(NewId, FALSE) /\ phase' \in {"decode", "fetching", "macroop"}
    BY <1>5, EndOfInstPhase, Zenon DEF FetchUnpredicted
  <2> QED BY <2>1, TrackedNewInst, Zenon
<1> QED BY <1>1, <1>2, <1>3, <1>4, <1>5

\* Fetch only hears of a squash that has removed the younger instructions already.
LEMMA TrackedFetchDecodeSquash ==
    ASSUME Tracked, FetchDecodeSquash
    PROVE  Tracked'
<1> DEFINE sn == fromDecode[decodeToFetchDelay].sn
           n == NumKept(insts, sn)
<1>1. /\ phase = "fetch" /\ ~commitSquash /\ decodeSquash /\ phase' = "decode"
      /\ insts' = SubSeq(insts, 1, n)
      /\ UNCHANGED << predHist, numDecoded, nextSeq >>
  BY DEF FetchDecodeSquash, hearsDecode, removeInstsUntil, bpu
<1>2. GoodInsts /\ sn \in Nat /\ AllUpTo(sn)
  BY <1>1, Zenon DEF Tracked, DecodeHeard
<1> HIDE DEF sn
<1>3. Len(insts) \in Nat /\ \A i \in 1 .. Len(insts) : insts[i].sn \in Nat /\ insts[i].sn <= sn
  BY <1>2, InstFacts DEF AllUpTo
<1>4. n \in 0 .. Len(insts) /\ \A i \in n + 1 .. Len(insts) : insts[i].sn > sn
  <2>1. sn \in Int /\ \A i \in 1 .. Len(insts) : insts[i].sn \in Nat
    BY <1>2, <1>3
  <2> QED BY <1>3, <2>1, NumKeptFacts, Zenon
<1> HIDE DEF n
<1>5. n = Len(insts)
  <2> SUFFICES ASSUME n < Len(insts) PROVE FALSE
    BY <1>3, <1>4
  <2>1. n + 1 \in n + 1 .. Len(insts) /\ n + 1 \in 1 .. Len(insts)
    BY <1>3, <1>4
  <2> QED BY <1>2, <1>3, <1>4, <2>1
<1>6. numDecoded' \in 0 .. n
  BY <1>1, <1>2, <1>5 DEF GoodInsts
<1>7. /\ GoodInsts' /\ Len(insts') = n
      /\ \A i \in 1 .. n : i \in 1 .. Len(insts) /\ insts'[i] = insts[i]
  BY <1>1, <1>2, <1>4, <1>6, InstsPrefix
<1>8. AllTracked'
  BY <1>1, <1>7, Zenon DEF Tracked, AllTracked
<1> QED BY <1>1, <1>7, <1>8 DEF Tracked

LEMMA TrackedDecode ==
    ASSUME decodeToFetchDelay = 1, Tracked, Decode
    PROVE  Tracked'
<1>1. GoodInsts /\ Good(predHist, nextSeq) /\ AllTracked /\ Len(insts) \in Nat
  BY InstFacts DEF Tracked
<1>2. phase' = "commit" /\ UNCHANGED << predHist, nextSeq >>
  BY Zenon DEF Decode, DecodePass, DecodeSquash, bpu
<1>3. CASE DecodePass
  <2>1. UNCHANGED insts /\ numDecoded' \in {numDecoded} \cup numDecoded .. Len(insts)
    BY <1>3 DEF DecodePass
  <2>2. numDecoded' \in 0 .. Len(insts)
    BY <1>1, <2>1 DEF GoodInsts
  <2>3. GoodInsts' /\ AllTracked'
    BY <1>1, <1>2, <2>1, <2>2, Zenon DEF GoodInsts, AllTracked
  <2>4. fromDecode'[decodeToFetchDelay] = None
    BY <1>3 DEF DecodePass, Shifted
  <2>5. DecodeHeard'
    BY <2>4 DEF DecodeHeard, decodeSquash
  <2> QED BY <1>1, <1>2, <2>3, <2>5 DEF Tracked
<1>4. CASE DecodeSquash
  <2>1. PICK n \in numDecoded + 1 .. Len(insts), p \in SquashPC :
            /\ insts[n].ctl /\ insts' = SubSeq(insts, 1, n) /\ numDecoded' = n
            /\ fromDecode' = Shifted([sn |-> insts[n].sn, pc |-> p])
    BY <1>4 DEF DecodeSquash
  <2>2. n \in 0 .. Len(insts) /\ n > 0 /\ n \in 1 .. n /\ numDecoded' \in 0 .. n
    <3>1. numDecoded \in Nat /\ Len(insts) \in Nat
      BY <1>1, InstFacts DEF GoodInsts
    <3>2. n \in 0 .. Len(insts) /\ n > 0 /\ n \in 1 .. n /\ n \in 0 .. n
      BY <3>1
    <3> QED BY <2>1, <3>2, Zenon
  <2>3. /\ GoodInsts' /\ Len(insts') = n /\ AllUpTo(insts[n].sn)'
        /\ \A i \in 1 .. n : i \in 1 .. Len(insts) /\ insts'[i] = insts[i]
    BY <1>1, <1>2, <2>1, <2>2, InstsPrefix, Zenon
  <2>4. AllTracked'
    BY <1>1, <1>2, <2>3, Zenon DEF AllTracked
  <2>5. fromDecode'[decodeToFetchDelay].sn = insts[n].sn
    <3>1. decodeToFetchDelay \in 1 .. decodeToFetchDelay
      OBVIOUS
    <3> QED BY <2>1, <3>1, Zenon DEF Shifted
  <2>6. DecodeHeard'
    <3>1. insts[n].sn \in Nat /\ insts'[n].sn = insts[n].sn /\ insts'[n].ctl
      BY <1>1, <2>1, <2>2, <2>3, InstFacts, Zenon
    <3>2. \A i \in 1 .. Len(insts') : insts'[i].sn <= insts'[n].sn
      BY <2>3 DEF AllUpTo
    <3> QED BY <2>2, <2>3, <2>5, <3>1, <3>2, Zenon DEF DecodeHeard, AllUpTo, HasBranch
  <2> QED BY <1>1, <1>2, <2>3, <2>4, <2>6, Zenon DEF Tracked
<1> QED BY <1>3, <1>4 DEF Decode

LEMMA TrackedCommitNothing ==
    ASSUME Tracked, CommitNothing
    PROVE  Tracked'
<1>1. /\ phase = "commit" /\ phase' = "bac" /\ fromCommit' = None
      /\ UNCHANGED << predHist, fromDecode, insts, numDecoded, nextSeq >>
  BY DEF CommitNothing, bpu
<1>2. GoodInsts' /\ AllTracked' /\ Good(predHist, nextSeq)'
  BY <1>1, Zenon DEF Tracked, GoodInsts, AllTracked
<1>3. DecodeHeard'
  BY <1>1, Zenon DEF Tracked, DecodeHeard, decodeSquash, AllUpTo, HasBranch
<1>4. ~commitSquash' /\ doneSeqNum' = 0
  BY <1>1 DEF commitSquash, doneSeqNum
<1>5. \A i \in 1 .. Len(insts') : insts'[i].sn > 0
  <2>1. GoodInsts
    BY Zenon DEF Tracked
  <2> QED BY <1>1, <2>1, InstFacts, Positive, Zenon
<1>6. CommitHeard'
  BY <1>4, <1>5 DEF CommitHeard
<1> QED BY <1>1, <1>2, <1>3, <1>6 DEF Tracked

\* The branch that decode has squashed after has not been executed: it does not commit.
LEMMA TrackedCommitSome ==
    ASSUME decodeToFetchDelay = 1, Tracked, CommitInsts,
           NEW n \in Executed, 1 .. n \subseteq Executed,
           fromCommit'.squash = FALSE, fromCommit'.sn = insts[n].sn, fromCommit' # None,
           insts' = SubSeq(insts, n + 1, Len(insts)), numDecoded' = numDecoded - n
    PROVE  Tracked'
<1>1. phase = "commit" /\ phase' = "bac" /\ UNCHANGED << predHist, fromDecode, nextSeq >>
  BY Zenon DEF CommitInsts, bpu
<1>3. GoodInsts /\ AllTracked /\ DecodeHeard /\ Good(predHist, nextSeq) /\ Len(insts) \in Nat
  BY <1>1, InstFacts, Zenon DEF Tracked
<1>4. n \in 1 .. numDecoded
  BY Zenon DEF Executed
<1>5. /\ GoodInsts' /\ Len(insts') = Len(insts) - n
      /\ n \in 1 .. Len(insts)
      /\ \A i \in 1 .. Len(insts) - n : n + i \in 1 .. Len(insts) /\ insts'[i] = insts[n + i]
      /\ \A i \in 1 .. Len(insts') : insts'[i].sn > insts[n].sn
  BY <1>1, <1>3, <1>4, InstsSuffix, Zenon
<1>6. AllTracked'
  BY <1>1, <1>3, <1>5, Zenon DEF AllTracked
<1>7. CommitHeard'
  <2>2. ~commitSquash' /\ doneSeqNum' = insts[n].sn
    BY DEF commitSquash, doneSeqNum
  <2>3. insts[n].sn \in Nat
    BY <1>3, <1>5, InstFacts, Zenon
  <2> QED BY <1>5, <2>2, <2>3, Zenon DEF CommitHeard
<1>8. DecodeHeard'
  <2> DEFINE sn == fromDecode[decodeToFetchDelay].sn
  <2> SUFFICES ASSUME decodeSquash PROVE sn \in Nat /\ AllUpTo(sn)' /\ HasBranch(sn)'
    BY <1>1, Zenon DEF DecodeHeard, decodeSquash
  <2>1. sn \in Nat /\ AllUpTo(sn) /\ HasBranch(sn)
    BY <1>3, Zenon DEF DecodeHeard
  <2>2. AllUpTo(sn)'
    BY <1>1, <1>5, <2>1, Zenon DEF AllUpTo
  <2>3. PICK j \in 1 .. Len(insts) : insts[j].ctl /\ insts[j].sn = sn
    BY <2>1, Zenon DEF HasBranch
  <2>4. j \notin Executed
    <3>1. decodeToFetchDelay \in 1 .. decodeToFetchDelay
      OBVIOUS
    <3> QED BY <2>3, <3>1, Zenon DEF Executed, decodeSquash
  <2>5. j \notin 1 .. n
    BY <2>4, Zenon
  <2>6. j - n \in 1 .. Len(insts) - n /\ n + (j - n) = j
    BY <1>3, <1>5, <2>5
  <2>7. insts'[j - n] = insts[j]
    BY <1>5, <2>6
  <2> QED BY <1>1, <1>5, <2>1, <2>2, <2>3, <2>6, <2>7, ZenonT(60) DEF HasBranch
<1> QED BY <1>1, <1>3, <1>5, <1>6, <1>7, <1>8, Zenon DEF Tracked

\* A trap may be pending though nothing commits.
LEMMA TrackedCommitNone ==
    ASSUME Tracked, CommitInsts,
           fromCommit'.squash = FALSE, fromCommit'.sn = 0, fromCommit' # None,
           insts' = SubSeq(insts, 1, Len(insts)), numDecoded' = numDecoded
    PROVE  Tracked'
<1>1. phase = "commit" /\ phase' = "bac" /\ UNCHANGED << predHist, fromDecode, nextSeq >>
  BY Zenon DEF CommitInsts, bpu
<1>2. GoodInsts /\ AllTracked /\ DecodeHeard /\ Good(predHist, nextSeq) /\ Len(insts) \in Nat
  BY <1>1, InstFacts, Zenon DEF Tracked
<1>3. insts' = insts
  BY <1>2, WholeSeq DEF GoodInsts
<1>4. GoodInsts' /\ AllTracked' /\ Good(predHist, nextSeq)'
  BY <1>1, <1>2, <1>3, Zenon DEF GoodInsts, AllTracked
<1>5. DecodeHeard'
  BY <1>1, <1>2, <1>3, Zenon DEF DecodeHeard, decodeSquash, AllUpTo, HasBranch
<1>6. ~commitSquash' /\ doneSeqNum' = 0
  BY DEF commitSquash, doneSeqNum
<1>7. \A i \in 1 .. Len(insts') : insts'[i].sn > 0
  BY <1>2, <1>3, InstFacts, Positive, Zenon
<1>8. CommitHeard'
  BY <1>6, <1>7, Zenon DEF CommitHeard
<1> QED BY <1>1, <1>4, <1>5, <1>8 DEF Tracked

LEMMA TrackedCommitInsts ==
    ASSUME decodeToFetchDelay = 1, Tracked, CommitInsts
    PROVE  Tracked'
<1>1. PICK n \in {0} \cup Executed, trap \in BOOLEAN :
         /\ 1 .. n \subseteq Executed
         /\ fromCommit' = [squash |-> FALSE, trapPending |-> trap,
                           sn |-> IF n = 0 THEN 0 ELSE insts[n].sn]
         /\ insts' = SubSeq(insts, n + 1, Len(insts)) /\ numDecoded' = numDecoded - n
  BY Zenon DEF CommitInsts
<1>2. fromCommit' # None /\ fromCommit'.squash = FALSE
  BY <1>1, Zenon DEF None
<1>3. numDecoded \in Nat /\ \A m \in Executed : m # 0
  BY DEF Tracked, GoodInsts, Executed
<1>4. CASE n = 0
  <2>1. fromCommit'.sn = 0 /\ numDecoded' = numDecoded /\ insts' = SubSeq(insts, 1, Len(insts))
    <3>1. n + 1 = 1 /\ numDecoded - n = numDecoded
      BY <1>3, <1>4
    <3> QED BY <1>1, <1>4, <3>1, Zenon
  <2> QED BY <1>2, <2>1, TrackedCommitNone, Zenon
<1>5. CASE n # 0
  <2>1. n \in Executed /\ fromCommit'.sn = insts[n].sn
    BY <1>1, <1>5, Zenon
  <2> QED BY <1>1, <1>2, <2>1, TrackedCommitSome, Zenon
<1> QED BY <1>4, <1>5

\* A squash by commit leaves the instructions up to the nth.
LEMMA TrackedSquash ==
    ASSUME Tracked, phase' = "bac", UNCHANGED << predHist, nextSeq >>,
           NEW n \in 0 .. Len(insts), insts' = SubSeq(insts, 1, n), numDecoded' = n,
           NEW mispredict \in BOOLEAN, NEW p, mispredict => n # 0 /\ insts[n].ctl,
           fromCommit' = [squash |-> TRUE, mispredict |-> mispredict, pc |-> p,
                          sn |-> IF n = 0 THEN lastCommittedSeq ELSE insts[n].sn]
    PROVE  Tracked'
<1>1. GoodInsts /\ AllTracked /\ Good(predHist, nextSeq) /\ Len(insts) \in Nat
  BY InstFacts, Zenon DEF Tracked
<1>2. numDecoded' \in 0 .. n
  <2>1. n \in 0 .. n
    BY <1>1
  <2> QED BY <2>1, Zenon
<1>3. /\ GoodInsts' /\ Len(insts') = n
      /\ \A i \in 1 .. n : i \in 1 .. Len(insts) /\ insts'[i] = insts[i]
      /\ n > 0 => AllUpTo(insts[n].sn)'
  BY <1>1, <1>2, InstsPrefix, Zenon
<1>4. AllTracked'
  BY <1>1, <1>3, Zenon DEF AllTracked
<1>5. commitSquash' /\ fromCommit'.mispredict = mispredict
  BY Zenon DEF commitSquash, None
<1>6. CASE n = 0
  <2>1. fromCommit'.sn = lastCommittedSeq /\ mispredict = FALSE
    BY <1>6, Zenon
  <2>2. lastCommittedSeq \in Nat
    <3>1. CASE insts = << >>
      <4>1. nextSeq \in Nat /\ nextSeq >= 1
        BY <1>1 DEF GoodInsts
      <4>2. lastCommittedSeq = nextSeq - 1
        BY <3>1, Zenon DEF lastCommittedSeq
      <4> QED BY <4>1, <4>2, Predecessor, Zenon
    <3>2. CASE insts # << >>
      <4>0. IsSeq(insts)
        BY <1>1, Zenon DEF GoodInsts, IsSeq
      <4>1. 1 \in 1 .. Len(insts)
        BY <3>2, <4>0, HeadIsFirst, Zenon
      <4>2. insts[1].sn \in Nat /\ insts[1].sn >= 1
        BY <1>1, <4>1, InstFacts, Zenon
      <4>3. lastCommittedSeq = insts[1].sn - 1
        BY <3>2, Zenon DEF lastCommittedSeq
      <4> QED BY <4>2, <4>3, Predecessor, Zenon
    <3> QED BY <3>1, <3>2, Zenon
  <2> HIDE DEF lastCommittedSeq
  <2>3. CommitHeard'
    <3>1. \A i \in 1 .. n : FALSE
      BY <1>6
    <3> QED BY <1>3, <1>5, <2>1, <2>2, <3>1, Zenon DEF CommitHeard, AllUpTo
  <2> QED BY <1>1, <1>3, <1>4, <1>5, <2>3, Zenon DEF Tracked
<1>7. CASE n # 0
  <2>1. n > 0 /\ n \in 1 .. n /\ fromCommit'.sn = insts[n].sn
    <3>1. n > 0 /\ n \in 1 .. n
      BY <1>1, <1>7
    <3> QED BY <1>7, <3>1, Zenon
  <2>2. insts[n].sn \in Nat /\ insts'[n] = insts[n]
    BY <1>1, <1>3, <2>1, InstFacts, Zenon
  <2>3. \A i \in 1 .. Len(insts') : insts'[i].sn <= insts'[n].sn
    BY <1>3, <2>1, Zenon DEF AllUpTo
  <2>4. CommitHeard'
    BY <1>3, <1>5, <2>1, <2>2, <2>3, Zenon DEF CommitHeard, AllUpTo, HasBranch
  <2> QED BY <1>1, <1>3, <1>4, <1>5, <2>4, Zenon DEF Tracked
<1> QED BY <1>6, <1>7, Zenon

LEMMA TrackedCommitSquash ==
    ASSUME Tracked, CommitSquash
    PROVE  Tracked'
<1>1. phase' = "bac" /\ UNCHANGED << predHist, nextSeq >>
  BY Zenon DEF CommitSquash, bpu
<1>2. PICK n \in {0} \cup Executed, mispredict \in BOOLEAN, p \in SquashPC :
         /\ mispredict => n # 0 /\ insts[n].ctl
         /\ insts' = SubSeq(insts, 1, n) /\ numDecoded' = n
         /\ fromCommit' = [squash |-> TRUE, mispredict |-> mispredict, pc |-> p,
                           sn |-> IF n = 0 THEN lastCommittedSeq ELSE insts[n].sn]
  BY Zenon DEF CommitSquash
<1>3. n \in 0 .. Len(insts)
  <2>1. GoodInsts /\ numDecoded \in 0 .. Len(insts) /\ (n = 0 \/ n \in 1 .. numDecoded)
    BY Zenon DEF Tracked, GoodInsts, Executed
  <2>2. Len(insts) \in Nat
    BY <2>1, InstFacts, Zenon
  <2> QED BY <2>1, <2>2
<1> QED BY <1>1, <1>2, <1>3, TrackedSquash, Zenon

LEMMA TrackedSquashAfter ==
    ASSUME Tracked, CommitSquashAfter
    PROVE  Tracked'
<1>1. phase' = "bac" /\ UNCHANGED << predHist, nextSeq >> /\ insts' = << >> /\ numDecoded' = 0
  BY Zenon DEF CommitSquashAfter, bpu
<1>2. PICK p : fromCommit' = [squash |-> TRUE, mispredict |-> FALSE, pc |-> p,
                              sn |-> lastCommittedSeq]
  BY Zenon DEF CommitSquashAfter
<1>3. 0 \in 0 .. Len(insts) /\ insts \in Seq(Inst)
  <2>1. GoodInsts /\ insts \in Seq(Inst)
    BY Zenon DEF Tracked, GoodInsts
  <2>2. Len(insts) \in Nat
    BY <2>1, InstFacts, Zenon
  <2> QED BY <2>1, <2>2
<1>4. insts' = SubSeq(insts, 1, 0)
  <2>1. SubSeq(insts, 1, 0) \in Seq(Inst) /\ Len(SubSeq(insts, 1, 0)) = 0
    BY <1>3, Prefix
  <2> QED BY <1>1, <2>1, EmptySeq
<1>5. fromCommit' = [squash |-> TRUE, mispredict |-> FALSE, pc |-> p,
                     sn |-> IF 0 = 0 THEN lastCommittedSeq ELSE insts[0].sn]
  BY <1>2
<1> QED BY <1>1, <1>3, <1>4, <1>5, TrackedSquash, Zenon

LEMMA TrackedDrainResume ==
    ASSUME decodeToFetchDelay = 1, Tracked, DrainResume
    PROVE  Tracked'
<1>1. /\ UNCHANGED << phase, predHist, insts, numDecoded, nextSeq >> /\ fromCommit' = None
      /\ fromDecode' = [i \in 1 .. decodeToFetchDelay |-> None]
  BY DEF DrainResume, bpu
<1>2. GoodInsts' /\ AllTracked' /\ Good(predHist, nextSeq)'
  BY <1>1, Zenon DEF Tracked, GoodInsts, AllTracked
<1>3. ~decodeSquash'
  BY <1>1 DEF decodeSquash
<1>4. ~commitSquash' /\ doneSeqNum' = 0
  BY <1>1 DEF commitSquash, doneSeqNum
<1>5. \A i \in 1 .. Len(insts') : insts'[i].sn > 0
  <2>1. GoodInsts
    BY Zenon DEF Tracked
  <2> QED BY <1>1, <2>1, InstFacts, Positive, Zenon
<1>6. CommitHeard' /\ DecodeHeard'
  BY <1>3, <1>4, <1>5, Zenon DEF CommitHeard, DecodeHeard
<1> QED BY <1>2, <1>6 DEF Tracked

LEMMA TrackedInit == decodeToFetchDelay = 1 /\ Init => Tracked
<1> SUFFICES ASSUME decodeToFetchDelay = 1, Init PROVE Tracked
  OBVIOUS
<1>1. /\ insts = << >> /\ numDecoded = 0 /\ nextSeq = 1 /\ predHist = << >>
      /\ fromCommit = None /\ fromDecode = [i \in 1 .. decodeToFetchDelay |-> None]
  BY DEF Init
<1>2. /\ << >> \in Seq(Inst) /\ << >> \in Seq(Hist({})) /\ Len(<< >>) = 0
      /\ \A i \in 1 .. Len(<< >>) : FALSE
  BY EmptySeq
<1>3. GoodInsts /\ AllTracked /\ Good(predHist, nextSeq)
  BY <1>1, <1>2 DEF GoodInsts, AllTracked, Good, Increasing
<1>4. ~commitSquash /\ ~decodeSquash /\ doneSeqNum = 0
  BY <1>1 DEF commitSquash, decodeSquash, doneSeqNum
<1>5. CommitHeard /\ DecodeHeard
  BY <1>1, <1>2, <1>4 DEF CommitHeard, DecodeHeard
<1> QED BY <1>3, <1>5 DEF Tracked

LEMMA TrackedNext ==
    ASSUME decodeToFetchDelay = 1, Tracked, [Next]_vars
    PROVE  Tracked'
<1>1. CASE BacCommitSquash \/ BacDecodeSquash
  BY <1>1, TrackedBacSquash
<1>2. CASE BacFetchSquash \/ BacDrain \/ BacRun
  BY <1>2, TrackedBacTick
<1>3. CASE BacOverride
  BY <1>3, TrackedStill DEF BacOverride, bpu, wires, backend
<1>4. CASE GenerateFallThrough \/ GenerateBranch
  <2>1. phase = "generate" /\ \E ft, latency : InsertFT(ft, latency)
    BY <1>4, Zenon DEF GenerateFallThrough, GenerateBranch
  <2>2. PICK ft, latency : InsertFT(ft, latency)
    BY <2>1
  <2>3. /\ phase' \in {"generate", "fetch"}
        /\ UNCHANGED << fromDecode, fromCommit, predHist, insts, numDecoded, nextSeq >>
    BY <2>2 DEF InsertFT, wires, backend
  <2> QED BY <2>1, <2>3, TrackedStill
<1>5. CASE FetchCommitSquash \/ FetchTrap \/ FetchIdle \/ FetchResteer \/ FetchStart \/ FetchStop
  BY <1>5, TrackedStill, Zenon DEF FetchCommitSquash, FetchTrap, FetchIdle, FetchResteer, FetchStart,
                            FetchStop, bpu, backend, inFetchLoop
<1>6. CASE FetchDecodeSquash
  BY <1>6, TrackedFetchDecodeSquash
<1>7. CASE FetchPlain \/ FetchQuiesce \/ FetchPredicted \/ FetchComplex \/ FetchUnpredicted
  BY <1>7, TrackedFetching
<1>8. CASE Decode
  BY <1>8, TrackedDecode
<1>9. CASE CommitNothing
  BY <1>9, TrackedCommitNothing
<1>10. CASE CommitInsts
  BY <1>10, TrackedCommitInsts, SMTT(30)
<1>11. CASE CommitSquash
  BY <1>11, TrackedCommitSquash
<1>12. CASE CommitSquashAfter
  BY <1>12, TrackedSquashAfter
<1>13. CASE DrainResume
  BY <1>13, TrackedDrainResume
<1>14. CASE UNCHANGED vars
  <2>1. UNCHANGED << phase, predHist, fromDecode, fromCommit, insts, numDecoded, nextSeq >>
    BY <1>14 DEF vars, bpu, wires, backend
  <2> QED BY <2>1, Zenon DEF Tracked, GoodInsts, AllTracked, CommitHeard, DecodeHeard, AllUpTo, HasBranch,
                      commitSquash, decodeSquash, doneSeqNum
<1> QED BY <1>1, <1>2, <1>3, <1>4, <1>5, <1>6, <1>7, <1>8, <1>9, <1>10, <1>11, <1>12, <1>13,
           <1>14, Zenon DEF Next, Bac, Fetch, Commit

\* A branch with a history is the one that the squash corrects.
LEMMA CorrectsWhatItFinds ==
    ASSUME NEW hs, NEW b, Good(hs, b), NEW sn \in Nat, Has(hs, sn)
    PROVE  Corrected(hs, sn) = {sn}
<1>1. sn \in Int
  OBVIOUS
<1>2. Len(KeptHist(hs, sn)) > 0 /\ KeptHist(hs, sn)[Len(KeptHist(hs, sn))].sn = sn
  BY <1>1, KeptGood, Zenon
<1>3. KeptHist(hs, sn) # << >>
  BY <1>2, EmptyIsSeq
<1> QED BY <1>2, <1>3, Zenon DEF Corrected

LEMMA TrackedImplies == Tracked => CorrectsItsBranch
<1> SUFFICES ASSUME Tracked PROVE CorrectsItsBranch
  OBVIOUS
<1>1. Good(predHist, nextSeq) /\ AllTracked
  BY DEF Tracked
<1>2. ASSUME phase = "bac", commitSquash, fromCommit.mispredict
      PROVE  Corrected(predHist, fromCommit.sn) = {fromCommit.sn}
  <2>1. fromCommit.sn \in Nat /\ HasBranch(fromCommit.sn)
    BY <1>2 DEF Tracked, CommitHeard
  <2>2. Has(predHist, fromCommit.sn)
    BY <1>1, <2>1, Zenon DEF HasBranch, AllTracked
  <2> QED BY <1>1, <2>1, <2>2, CorrectsWhatItFinds, ZenonT(30)
<1>3. ASSUME phase = "bac", ~commitSquash, decodeSquash
      PROVE  LET sn == fromDecode[decodeToFetchDelay].sn
             IN  Corrected(CommittedHist, sn) \subseteq {sn}
  <2> DEFINE sn == fromDecode[decodeToFetchDelay].sn
  <2>1. sn \in Nat /\ HasBranch(sn)
    BY <1>3, Zenon DEF Tracked, DecodeHeard
  <2> HIDE DEF sn
  <2>2. /\ Good(CommittedHist, nextSeq)
        /\ \A i \in 1 .. Len(insts) : insts[i].ctl => Has(CommittedHist, insts[i].sn)
    BY <1>3, CommittedGood, Zenon
  <2>3. Has(CommittedHist, sn)
    BY <2>1, <2>2, Zenon DEF HasBranch
  <2>4. Corrected(CommittedHist, sn) = {sn}
    BY <2>1, <2>2, <2>3, CorrectsWhatItFinds, Zenon
  <2> QED BY <2>4 DEF sn
<1> QED BY <1>2, <1>3, Zenon DEF CorrectsItsBranch

\* The invariant CorrectsItsBranch holds for any program and any sizes, as long as
\* decode's signals are no slower than commit's: BPredUnit::squash takes the youngest
\* history that is left, and that is the history of the branch it was called for.
THEOREM SquashCorrectsItsBranch ==
    ASSUME decodeToFetchDelay = 1
    PROVE  Spec => []CorrectsItsBranch
<1>1. Init => Tracked
  BY TrackedInit
<1>2. Tracked /\ [Next]_vars => Tracked'
  BY TrackedNext
<1> QED BY <1>1, <1>2, TrackedImplies, PTL DEF Spec
=============================================================================
