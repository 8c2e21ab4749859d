----------------------- MODULE ReturnAddrStackProofs -----------------------
(* The top of the return address stack never drifts, and the stack holds the *)
(* open calls, for a stack of any size and any number of branches in flight. *)
EXTENDS ReturnAddrStack, SequenceTheorems, WellFoundedInduction, TLAPS

\* Undoing the branches hs, youngest first, leads from the top of stack t to c.
Chain(hs, c, t) ==
    /\ hs = << >> => t = c
    /\ hs # << >> => hs[1].tos = c /\ t = TosAfter(hs[Len(hs)])
    /\ \A i \in 1 .. (Len(hs) - 1) : hs[i + 1].tos = TosAfter(hs[i])

\* How a branch may have used the stack; a call or return that is taken has.
OpFits(h) ==
    CASE h.type = "Call"   -> h.op = "push" \/ (h.op = "none" /\ ~h.taken)
      [] h.type = "Return" -> h.op = "pop" \/ (h.op = "none" /\ ~h.taken)
      [] OTHER             -> h.op = "none"

OpsFit == \A i \in 1 .. Len(predHist) : OpFits(predHist[i])

\* The inductive invariant.
IInv == TypeOK /\ OpsFit /\ Chain(predHist, committedTos, tos)

-----------------------------------------------------------------------------
LEMMA TosRange ==
    ASSUME NEW t \in Slot
    PROVE  /\ incrTos(t) \in Slot /\ decrTos(t) \in Slot
           /\ decrTos(incrTos(t)) = t
BY RASAssumption DEF Slot, incrTos, decrTos

\* A new branch extends the chain, if it remembers the top of stack it found.
LEMMA ChainAppend ==
    ASSUME NEW S, NEW hs \in Seq(S), NEW h \in S, NEW c, NEW t,
           Chain(hs, c, t), h.tos = t
    PROVE  Chain(Append(hs, h), c, TosAfter(h))
<1> DEFINE new == Append(hs, h)
<1>1. /\ new # << >> /\ Len(new) = Len(hs) + 1 /\ new[Len(new)] = h
      /\ \A i \in 1 .. Len(hs) : new[i] = hs[i]
  OBVIOUS
<1>2. new[1].tos = c
  BY <1>1 DEF Chain
<1>3. ASSUME NEW i \in 1 .. (Len(new) - 1) PROVE new[i + 1].tos = TosAfter(new[i])
  <2>1. CASE i = Len(hs)
    BY <1>1, <2>1 DEF Chain
  <2>2. CASE i # Len(hs)
    <3>1. i \in 1 .. (Len(hs) - 1) /\ i + 1 \in 1 .. Len(hs)
      BY <1>1, <2>2
    <3> QED BY <1>1, <3>1 DEF Chain
  <2> QED BY <2>1, <2>2
<1> QED BY <1>1, <1>2, <1>3 DEF Chain

LEMMA PrefixOf ==
    ASSUME NEW S, NEW hs \in Seq(S), NEW n \in 0 .. Len(hs)
    PROVE  /\ SubSeq(hs, 1, n) \in Seq(S) /\ Len(SubSeq(hs, 1, n)) = n
           /\ \A i \in 1 .. n : SubSeq(hs, 1, n)[i] = hs[i]
<1>1. Len(hs) \in Nat /\ \A i \in 1 .. n : hs[i] \in S
  OBVIOUS
<1>2. /\ SubSeq(hs, 1, n) \in Seq(S)
      /\ Len(SubSeq(hs, 1, n)) = IF 1 <= n THEN n - 1 + 1 ELSE 0
      /\ \A i \in 1 .. n - 1 + 1 : SubSeq(hs, 1, n)[i] = hs[1 + i - 1]
  BY <1>1, SubSeqProperties
<1> QED BY <1>1, <1>2

LEMMA AppendOf ==
    ASSUME NEW S, NEW hs \in Seq(S), NEW h \in S, NEW n, n = Len(hs)
    PROVE  /\ Append(hs, h) \in Seq(S) /\ Len(Append(hs, h)) = n + 1
           /\ Append(hs, h)[n + 1] = h /\ \A i \in 1 .. n : Append(hs, h)[i] = hs[i]
OBVIOUS

\* Arithmetic on the positions of entries.
LEMMA AboveFirst ==
    ASSUME NEW L \in Nat, NEW i \in Nat, NEW x \in (1 - L) .. i, x # 1 - L
    PROVE  x \in (2 - L) .. i
OBVIOUS

LEMMA KeptPosition ==
    ASSUME NEW len \in Nat, NEW k \in 0 .. 1
    PROVE  \A p \in 1 .. (len - k) : p + k \in 1 .. len
OBVIOUS

LEMMA TailOf ==
    ASSUME NEW S, NEW hs \in Seq(S), hs # << >>
    PROVE  /\ Tail(hs) \in Seq(S) /\ Len(Tail(hs)) = Len(hs) - 1
           /\ \A i \in 1 .. (Len(hs) - 1) : Tail(hs)[i] = hs[i + 1]
OBVIOUS

LEMMA FrontOf ==
    ASSUME NEW S, NEW hs \in Seq(S), hs # << >>
    PROVE  /\ SubSeq(hs, 1, Len(hs) - 1) \in Seq(S)
           /\ Len(SubSeq(hs, 1, Len(hs) - 1)) = Len(hs) - 1
           /\ \A i \in 1 .. (Len(hs) - 1) : SubSeq(hs, 1, Len(hs) - 1)[i] = hs[i]
<1>1. Len(hs) - 1 \in 0 .. Len(hs)
  OBVIOUS
<1> QED BY <1>1, PrefixOf, Zenon

\* Without its youngest branch it leads to the top of stack that branch found.
LEMMA ChainOlder ==
    ASSUME NEW S, NEW hs \in Seq(S), NEW c, NEW t, hs # << >>, Chain(hs, c, t)
    PROVE  Chain(SubSeq(hs, 1, Len(hs) - 1), c, hs[Len(hs)].tos)
<1> DEFINE n == Len(hs)
           old == SubSeq(hs, 1, n - 1)
<1>1. n \in Nat \ {0}
  OBVIOUS
<1>2. /\ old \in Seq(S) /\ Len(old) = n - 1
      /\ \A i \in 1 .. (n - 1) : old[i] = hs[i]
  BY FrontOf
<1> HIDE DEF old
<1>3. CASE n = 1
  <2>1. old = << >>
    BY <1>2, <1>3
  <2> QED BY <1>2, <1>3, <2>1 DEF Chain, old
<1>4. CASE n # 1
  <2>0. n - 1 \in Nat \ {0} /\ old # << >>
    BY <1>1, <1>2, <1>4
  <2>1. old[1].tos = c
    BY <1>1, <1>2, <1>4 DEF Chain
  <2>2. hs[n].tos = TosAfter(old[n - 1])
    BY <1>1, <1>2, <1>4 DEF Chain
  <2>3. \A i \in 1 .. (n - 2) : old[i + 1].tos = TosAfter(old[i])
    BY <1>1, <1>2 DEF Chain
  <2> QED BY <1>1, <1>2, <2>0, <2>1, <2>2, <2>3 DEF Chain, old
<1> QED BY <1>3, <1>4

\* Without its oldest branch it leads from the top of stack that branch left.
LEMMA ChainTail ==
    ASSUME NEW S, NEW hs \in Seq(S), NEW c, NEW t, hs # << >>, Chain(hs, c, t)
    PROVE  Chain(Tail(hs), TosAfter(hs[1]), t)
<1> DEFINE n == Len(hs)
           new == Tail(hs)
<1>1. n \in Nat \ {0}
  OBVIOUS
<1>2. /\ new \in Seq(S) /\ Len(new) = n - 1
      /\ \A i \in 1 .. (n - 1) : new[i] = hs[i + 1]
  BY <1>1
<1> HIDE DEF new
<1>3. CASE n = 1
  <2>1. new = << >>
    BY <1>2, <1>3
  <2> QED BY <1>2, <1>3, <2>1 DEF Chain, new
<1>4. CASE n # 1
  <2>0. n - 1 \in Nat \ {0} /\ new # << >>
    BY <1>1, <1>2, <1>4
  <2>1. new[1].tos = TosAfter(hs[1])
    BY <1>1, <1>2, <1>4 DEF Chain
  <2>2. t = TosAfter(new[n - 1])
    BY <1>1, <1>2, <1>4 DEF Chain
  <2>3. \A i \in 1 .. (n - 2) : new[i + 1].tos = TosAfter(new[i])
    <3> TAKE i \in 1 .. (n - 2)
    <3>1. i \in 1 .. (n - 1) /\ i + 1 \in 1 .. (n - 1)
      BY <1>1
    <3> QED BY <1>2, <3>1 DEF Chain
  <2> QED BY <1>1, <1>2, <2>0, <2>1, <2>2, <2>3 DEF Chain, new
<1> QED BY <1>3, <1>4

\* That an entry is lost does not matter to the chain.
LEMMA ChainLose ==
    ASSUME NEW hs \in Seq(BranchHist), NEW c, NEW t, NEW v, Chain(hs, c, t)
    PROVE  /\ Lose(hs, v) \in Seq(BranchHist) /\ Len(Lose(hs, v)) = Len(hs)
           /\ Chain(Lose(hs, v), c, t)
           /\ \A i \in 1 .. Len(hs) : OpFits(hs[i]) => OpFits(Lose(hs, v)[i])
<1> DEFINE new == Lose(hs, v)
<1>1. \A i \in 1 .. Len(hs) :
         /\ new[i] \in BranchHist
         /\ new[i].tos = hs[i].tos /\ new[i].op = hs[i].op
         /\ new[i].type = hs[i].type /\ new[i].taken = hs[i].taken
  <2> TAKE i \in 1 .. Len(hs)
  <2>1. hs[i] \in BranchHist
    OBVIOUS
  <2>2. new[i] = IF i \in v THEN [hs[i] EXCEPT !.entry = NoAddr] ELSE hs[i]
    BY DEF Lose
  <2> QED BY <2>1, <2>2 DEF BranchHist, Entry
<1>2. new \in Seq(BranchHist) /\ Len(new) = Len(hs)
  <2>1. new = [i \in 1 .. Len(hs) |-> new[i]]
    BY DEF Lose
  <2>2. new \in [1 .. Len(hs) -> BranchHist]
    BY <1>1, <2>1
  <2> QED BY <2>2, Len(hs) \in Nat
<1> HIDE DEF new
<1>3. \A i \in 1 .. Len(hs) : TosAfter(new[i]) = TosAfter(hs[i])
  BY <1>1 DEF TosAfter
<1>4. Chain(new, c, t)
  <2>1. Len(hs) \in Nat
    OBVIOUS
  <2>2. new = << >> <=> hs = << >>
    BY <1>2
  <2>3. hs # << >> => 1 \in 1 .. Len(hs) /\ Len(hs) \in 1 .. Len(hs)
    OBVIOUS
  <2>4. \A i \in 1 .. (Len(hs) - 1) : i \in 1 .. Len(hs) /\ i + 1 \in 1 .. Len(hs)
    BY <2>1
  <2> QED BY <1>1, <1>2, <1>3, <2>2, <2>3, <2>4 DEF Chain
<1>5. \A i \in 1 .. Len(hs) : OpFits(hs[i]) => OpFits(new[i])
  BY <1>1 DEF OpFits
<1> QED BY <1>2, <1>4, <1>5 DEF new

-----------------------------------------------------------------------------
LEMMA AppendFits ==
    ASSUME NEW hs \in Seq(BranchHist), NEW h \in BranchHist,
           \A i \in 1 .. Len(hs) : OpFits(hs[i]), OpFits(h)
    PROVE  \A i \in 1 .. Len(Append(hs, h)) : OpFits(Append(hs, h)[i])
<1> TAKE i \in 1 .. Len(Append(hs, h))
<1>1. Len(Append(hs, h)) = Len(hs) + 1 /\ Len(hs) \in Nat
  OBVIOUS
<1>2. i \in 1 .. Len(hs) \/ i = Len(hs) + 1
  BY <1>1
<1>3. Append(hs, h)[i] = IF i \in 1 .. Len(hs) THEN hs[i] ELSE h
  BY <1>1, <1>2
<1> QED BY <1>2, <1>3

LEMMA LoseCallType ==
    ASSUME callStack \in Seq(Entry), NEW v
    PROVE  LoseCall(v) \in Seq(Entry)
<1> DEFINE s == [p \in DOMAIN callStack |->
                    IF p - Len(callStack) \in v THEN NoAddr ELSE callStack[p]]
<1>1. s \in [1 .. Len(callStack) -> Entry]
  BY DEF Entry
<1>2. s \in Seq(Entry)
  BY <1>1, Len(callStack) \in Nat
<1> HIDE DEF s
<1>3. Strip(s) \in Seq(Entry)
  BY <1>2 DEF Strip
<1> QED BY <1>3 DEF LoseCall, s

\* A call pushes, whether when it is predicted or when it is corrected.
LEMMA PushKeeps ==
    ASSUME TypeOK, NEW hs \in Seq(BranchHist), NEW h \in BranchHist, NEW c,
           Chain(hs, c, tos), \A i \in 1 .. Len(hs) : OpFits(hs[i]),
           h.type = "Call", DoPush(hs, h)
    PROVE  /\ addrStack' \in [Slot -> Entry] /\ tos' \in Slot
           /\ predHist' \in Seq(BranchHist) /\ callStack' \in Seq(Entry)
           /\ OpsFit' /\ Chain(predHist', c, tos')
<1> DEFINE old == Lose(hs, Victim(hs))
           new == Pushed(h)
<1>1. old \in Seq(BranchHist) /\ Len(old) = Len(hs) /\ Chain(old, c, tos)
      /\ \A i \in 1 .. Len(hs) : OpFits(old[i])
  BY ChainLose, Zenon
<1>2. /\ new \in BranchHist /\ new.tos = tos /\ new.op = "push" /\ new.type = "Call"
      /\ TosAfter(new) = incrTos(tos)
  BY Zenon DEF Pushed, BranchHist, Entry, TypeOK, TosAfter
<1>3. tos' = incrTos(tos) /\ predHist' = Append(old, new) /\ callStack' = LoseCall(Victim(hs))
  BY DEF DoPush
<1>4. addrStack' \in [Slot -> Entry] /\ tos' \in Slot
  <2>1. tos \in Slot /\ addrStack \in [Slot -> Entry] /\ incrTos(tos) \in Slot
    BY TosRange DEF TypeOK
  <2>2. h.ret \in Entry
    BY DEF BranchHist
  <2> QED BY <1>3, <2>1, <2>2 DEF DoPush
<1>5. callStack' \in Seq(Entry)
  BY <1>3, LoseCallType DEF TypeOK
<1> HIDE DEF old, new
<1>6. predHist' \in Seq(BranchHist)
  BY <1>1, <1>2, <1>3
<1>7. Chain(predHist', c, tos')
  BY <1>1, <1>2, <1>3, ChainAppend
<1>8. OpsFit'
  <2>1. OpFits(new)
    BY <1>2 DEF OpFits
  <2>2. \A i \in 1 .. Len(Append(old, new)) : OpFits(Append(old, new)[i])
    BY <1>1, <1>2, <2>1, AppendFits
  <2> QED BY <1>3, <2>2 DEF OpsFit
<1> QED BY <1>4, <1>5, <1>6, <1>7, <1>8

\* A return pops, likewise.
LEMMA PopKeeps ==
    ASSUME TypeOK, NEW hs \in Seq(BranchHist), NEW h \in BranchHist, NEW c,
           Chain(hs, c, tos), \A i \in 1 .. Len(hs) : OpFits(hs[i]),
           h.type = "Return", DoPop(hs, h)
    PROVE  /\ addrStack' \in [Slot -> Entry] /\ tos' \in Slot
           /\ predHist' \in Seq(BranchHist) /\ callStack' \in Seq(Entry)
           /\ OpsFit' /\ Chain(predHist', c, tos')
<1> DEFINE new == Popped(h)
<1>1. tos \in Slot /\ addrStack[tos] \in Entry /\ decrTos(tos) \in Slot
  BY TosRange DEF TypeOK
<1>2. /\ new \in BranchHist /\ new.tos = tos /\ new.op = "pop" /\ new.type = "Return"
      /\ TosAfter(new) = decrTos(tos)
  BY <1>1, Zenon DEF Popped, BranchHist, TosAfter
<1>3. tos' = decrTos(tos) /\ predHist' = Append(hs, new)
      /\ UNCHANGED << addrStack, callStack >>
  BY DEF DoPop
<1>4. addrStack' \in [Slot -> Entry] /\ tos' \in Slot /\ callStack' \in Seq(Entry)
  BY <1>1, <1>3 DEF TypeOK
<1> HIDE DEF new
<1>5. predHist' \in Seq(BranchHist)
  BY <1>2, <1>3
<1>6. Chain(predHist', c, tos')
  BY <1>2, <1>3, ChainAppend
<1>7. OpsFit'
  <2>1. OpFits(new)
    BY <1>2 DEF OpFits
  <2>2. \A i \in 1 .. Len(Append(hs, new)) : OpFits(Append(hs, new)[i])
    BY <1>2, <2>1, AppendFits
  <2> QED BY <1>3, <2>2 DEF OpsFit
<1> QED BY <1>4, <1>5, <1>6, <1>7

\* The histories that stay when the youngest goes.
LEMMA OlderFacts ==
    ASSUME IInv, predHist # << >>
    PROVE  /\ Youngest \in BranchHist /\ OpFits(Youngest)
           /\ Older \in Seq(BranchHist) /\ \A i \in 1 .. Len(Older) : OpFits(Older[i])
           /\ Chain(Older, committedTos, Youngest.tos)
           /\ tos = TosAfter(Youngest)
<1>1. predHist \in Seq(BranchHist) /\ Len(predHist) \in Nat \ {0}
  BY DEF IInv, TypeOK
<1>2. Youngest \in BranchHist /\ OpFits(Youngest)
  BY <1>1 DEF IInv, OpsFit, Youngest
<1>3. Chain(Older, committedTos, Youngest.tos)
  BY <1>1, ChainOlder DEF IInv, Older, Youngest
<1>4. /\ Older \in Seq(BranchHist) /\ Len(Older) = Len(predHist) - 1
      /\ \A i \in 1 .. (Len(predHist) - 1) : Older[i] = predHist[i]
  BY <1>1, FrontOf DEF Older
<1>5. \A i \in 1 .. Len(Older) : OpFits(Older[i])
  BY <1>1, <1>4 DEF IInv, OpsFit
<1>6. tos = TosAfter(Youngest)
  BY DEF IInv, Chain, Youngest
<1> QED BY <1>2, <1>3, <1>4, <1>5, <1>6

\* Undoing the youngest branch brings back the top of stack it found.
LEMMA SquashKeeps ==
    ASSUME IInv, predHist # << >>, DoSquash(Youngest)
    PROVE  /\ tos' = Youngest.tos /\ addrStack' \in [Slot -> Entry]
           /\ callStack' = callStack
<1> DEFINE h == Youngest
<1>1. h \in BranchHist /\ tos = TosAfter(h) /\ OpFits(h)
  BY OlderFacts
<1>2. h.tos \in Slot /\ h.entry \in Entry /\ h.op \in {"none", "push", "pop"}
  BY <1>1 DEF BranchHist
<1>3. addrStack \in [Slot -> Entry]
  BY DEF IInv, TypeOK
<1> HIDE DEF h
<1>4. tos' = h.tos
  BY <1>1, <1>2, TosRange DEF DoSquash, TosAfter, h
<1>5. addrStack' \in [Slot -> Entry]
  BY <1>2, <1>3 DEF DoSquash, h
<1> QED BY <1>4, <1>5 DEF DoSquash, h

\* Appending a branch that leaves the stack alone.
LEMMA OtherKeeps ==
    ASSUME TypeOK, NEW hs \in Seq(BranchHist), NEW h \in BranchHist, NEW c,
           Chain(hs, c, tos), \A i \in 1 .. Len(hs) : OpFits(hs[i]),
           OpFits(h), h.tos = tos, TosAfter(h) = tos, predHist' = Append(hs, h)
    PROVE  predHist' \in Seq(BranchHist) /\ OpsFit' /\ Chain(predHist', c, tos)
<1>1. predHist' \in Seq(BranchHist)
  OBVIOUS
<1>2. Chain(predHist', c, tos)
  BY ChainAppend
<1>3. OpsFit'
  <2>1. \A i \in 1 .. Len(Append(hs, h)) : OpFits(Append(hs, h)[i])
    BY AppendFits
  <2> QED BY <2>1 DEF OpsFit
<1> QED BY <1>1, <1>2, <1>3

LEMMA InitIInv == Init => IInv
<1> SUFFICES ASSUME Init PROVE IInv
  OBVIOUS
<1>1. 0 \in Slot
  BY RASAssumption DEF Slot
<1>2. TypeOK
  BY <1>1 DEF Init, TypeOK, Entry
<1>3. OpsFit /\ Chain(predHist, committedTos, tos)
  BY DEF Init, OpsFit, Chain
<1> QED BY <1>2, <1>3 DEF IInv

LEMMA PredictKeeps ==
    ASSUME IInv,
           \/ \E ret \in RetAddr : PredictCall(ret) \/ PredictOther(NewHist("Call", FALSE, ret))
           \/ PredictReturn \/ PredictOther(NewHist("Return", FALSE, NoAddr))
           \/ \E taken \in BOOLEAN : PredictOther(NewHist("Other", taken, NoAddr))
    PROVE  IInv'
<1>1. /\ TypeOK /\ predHist \in Seq(BranchHist) /\ committedTos \in Slot
      /\ addrStack \in [Slot -> Entry] /\ tos \in Slot /\ callStack \in Seq(Entry)
      /\ Chain(predHist, committedTos, tos)
      /\ \A i \in 1 .. Len(predHist) : OpFits(predHist[i])
  BY DEF IInv, TypeOK, OpsFit
<1>2. NoAddr \in Entry /\ RetAddr \subseteq Entry
  BY DEF Entry
<1>3. ASSUME NEW ret \in RetAddr, PredictCall(ret) PROVE IInv'
  <2> DEFINE h == NewHist("Call", TRUE, ret)
  <2>1. h \in BranchHist /\ h.type = "Call"
    BY <1>1, <1>2 DEF NewHist, BranchHist, TosAfter
  <2>2. DoPush(predHist, h) /\ committedTos' = committedTos
    BY <1>3, Zenon DEF PredictCall
  <2> HIDE DEF h
  <2>3. /\ addrStack' \in [Slot -> Entry] /\ tos' \in Slot
        /\ predHist' \in Seq(BranchHist) /\ callStack' \in Seq(Entry)
        /\ OpsFit' /\ Chain(predHist', committedTos, tos')
    BY <1>1, <2>1, <2>2, PushKeeps
  <2> QED BY <1>1, <2>2, <2>3 DEF IInv, TypeOK
<1>4. CASE PredictReturn
  <2> DEFINE h == NewHist("Return", TRUE, NoAddr)
  <2>1. h \in BranchHist /\ h.type = "Return"
    BY <1>1, <1>2 DEF NewHist, BranchHist, TosAfter
  <2>2. DoPop(predHist, h) /\ committedTos' = committedTos
    BY <1>4, Zenon DEF PredictReturn
  <2> HIDE DEF h
  <2>3. /\ addrStack' \in [Slot -> Entry] /\ tos' \in Slot
        /\ predHist' \in Seq(BranchHist) /\ callStack' \in Seq(Entry)
        /\ OpsFit' /\ Chain(predHist', committedTos, tos')
    BY <1>1, <2>1, <2>2, PopKeeps
  <2> QED BY <1>1, <2>2, <2>3 DEF IInv, TypeOK
<1>5. ASSUME NEW h \in BranchHist, h.tos = tos, TosAfter(h) = tos, OpFits(h), PredictOther(h)
      PROVE  IInv'
  <2>1. predHist' = Append(predHist, h) /\ UNCHANGED << addrStack, tos, callStack, committedTos >>
    BY <1>5 DEF PredictOther
  <2>2. predHist' \in Seq(BranchHist) /\ OpsFit' /\ Chain(predHist', committedTos, tos)
    BY <1>1, <1>5, <2>1, OtherKeeps
  <2> QED BY <1>1, <2>1, <2>2 DEF IInv, TypeOK
<1>6. ASSUME NEW ret \in RetAddr, PredictOther(NewHist("Call", FALSE, ret)) PROVE IInv'
  <2> DEFINE h == NewHist("Call", FALSE, ret)
  <2>1. /\ h \in BranchHist /\ h.tos = tos /\ TosAfter(h) = tos
        /\ h.type = "Call" /\ h.op = "none" /\ h.taken = FALSE
    BY <1>1, <1>2 DEF NewHist, BranchHist, TosAfter
  <2> HIDE DEF h
  <2>2. OpFits(h)
    BY <2>1 DEF OpFits
  <2> QED BY <1>5, <1>6, <2>1, <2>2, Zenon DEF h
<1>7. CASE PredictOther(NewHist("Return", FALSE, NoAddr))
  <2> DEFINE h == NewHist("Return", FALSE, NoAddr)
  <2>1. /\ h \in BranchHist /\ h.tos = tos /\ TosAfter(h) = tos
        /\ h.type = "Return" /\ h.op = "none" /\ h.taken = FALSE
    BY <1>1, <1>2 DEF NewHist, BranchHist, TosAfter
  <2> HIDE DEF h
  <2>2. OpFits(h)
    BY <2>1 DEF OpFits
  <2> QED BY <1>5, <1>7, <2>1, <2>2, Zenon DEF h
<1>8. ASSUME NEW taken \in BOOLEAN, PredictOther(NewHist("Other", taken, NoAddr)) PROVE IInv'
  <2> DEFINE h == NewHist("Other", taken, NoAddr)
  <2>1. /\ h \in BranchHist /\ h.tos = tos /\ TosAfter(h) = tos
        /\ h.type = "Other" /\ h.op = "none"
    BY <1>1, <1>2 DEF NewHist, BranchHist, TosAfter
  <2> HIDE DEF h
  <2>2. OpFits(h)
    BY <2>1 DEF OpFits
  <2> QED BY <1>5, <1>8, <2>1, <2>2 DEF h
<1> QED BY <1>3, <1>4, <1>6, <1>7, <1>8, Zenon

LEMMA SquashYoungestKeeps ==
    ASSUME IInv, SquashYoungest PROVE IInv'
<1>1. predHist # << >> /\ DoSquash(Youngest) /\ predHist' = Older
      /\ committedTos' = committedTos
  BY DEF SquashYoungest
<1>2. /\ Youngest \in BranchHist /\ Older \in Seq(BranchHist)
      /\ \A i \in 1 .. Len(Older) : OpFits(Older[i])
      /\ Chain(Older, committedTos, Youngest.tos)
  BY <1>1, OlderFacts
<1>3. tos' = Youngest.tos /\ addrStack' \in [Slot -> Entry] /\ callStack' = callStack
  BY <1>1, SquashKeeps
<1>4. TypeOK'
  BY <1>1, <1>2, <1>3 DEF IInv, TypeOK, BranchHist
<1>5. OpsFit'
  BY <1>1, <1>2 DEF OpsFit
<1>6. Chain(predHist', committedTos', tos')
  BY <1>1, <1>2, <1>3
<1> QED BY <1>4, <1>5, <1>6 DEF IInv

LEMMA CorrectTakenKeeps ==
    ASSUME IInv, CorrectTaken PROVE IInv'
<1> DEFINE h == [Youngest EXCEPT !.taken = TRUE]
<1>1. predHist # << >> /\ committedTos' = committedTos
  BY DEF CorrectTaken
<1>2. /\ Youngest \in BranchHist /\ OpFits(Youngest) /\ Older \in Seq(BranchHist)
      /\ \A i \in 1 .. Len(Older) : OpFits(Older[i])
      /\ Chain(Older, committedTos, Youngest.tos) /\ tos = TosAfter(Youngest)
  BY <1>1, OlderFacts
<1>3. /\ h \in BranchHist /\ h.type = Youngest.type /\ h.op = Youngest.op
      /\ h.tos = Youngest.tos /\ h.taken = TRUE /\ h.ret = Youngest.ret
  BY <1>2, Zenon DEF BranchHist
<1>4. /\ TypeOK /\ addrStack \in [Slot -> Entry] /\ tos \in Slot /\ callStack \in Seq(Entry)
      /\ committedTos \in Slot
  BY DEF IInv, TypeOK
<1>5. CASE h.op = "none" /\ h.type = "Return"
  <2>1. DoPop(Older, h)
    BY <1>5 DEF CorrectTaken
  <2>2. Chain(Older, committedTos, tos)
    BY <1>2, <1>3, <1>5 DEF TosAfter
  <2> HIDE DEF h
  <2>3. /\ addrStack' \in [Slot -> Entry] /\ tos' \in Slot
        /\ predHist' \in Seq(BranchHist) /\ callStack' \in Seq(Entry)
        /\ OpsFit' /\ Chain(predHist', committedTos, tos')
    BY <1>2, <1>3, <1>4, <1>5, <2>1, <2>2, PopKeeps
  <2> QED BY <1>1, <1>4, <2>3 DEF IInv, TypeOK
<1>6. CASE h.op = "none" /\ h.type = "Call"
  <2>1. DoPush(Older, h)
    BY <1>6 DEF CorrectTaken
  <2>2. Chain(Older, committedTos, tos)
    BY <1>2, <1>3, <1>6 DEF TosAfter
  <2> HIDE DEF h
  <2>3. /\ addrStack' \in [Slot -> Entry] /\ tos' \in Slot
        /\ predHist' \in Seq(BranchHist) /\ callStack' \in Seq(Entry)
        /\ OpsFit' /\ Chain(predHist', committedTos, tos')
    BY <1>2, <1>3, <1>4, <1>6, <2>1, <2>2, PushKeeps
  <2> QED BY <1>1, <1>4, <2>3 DEF IInv, TypeOK
<1>7. CASE ~(h.op = "none" /\ h.type = "Return") /\ ~(h.op = "none" /\ h.type = "Call")
  <2>1. predHist' = Append(Older, h) /\ UNCHANGED << addrStack, tos, callStack >>
    BY <1>7 DEF CorrectTaken
  <2>2. OpFits(h)
    BY <1>2, <1>3, <1>7 DEF OpFits
  <2>3. TosAfter(h) = tos
    BY <1>2, <1>3 DEF TosAfter
  <2> HIDE DEF h
  <2>4. predHist' \in Seq(BranchHist)
    BY <1>2, <1>3, <2>1
  <2>5. Chain(predHist', committedTos, tos)
    BY <1>2, <1>3, <2>1, <2>3, ChainAppend
  <2>6. OpsFit'
    <3>1. \A i \in 1 .. Len(Append(Older, h)) : OpFits(Append(Older, h)[i])
      BY <1>2, <1>3, <2>2, AppendFits
    <3> QED BY <2>1, <3>1 DEF OpsFit
  <2> QED BY <1>1, <1>4, <2>1, <2>4, <2>5, <2>6 DEF IInv, TypeOK
<1> QED BY <1>5, <1>6, <1>7

LEMMA CorrectNotTakenKeeps ==
    ASSUME IInv, CorrectNotTaken PROVE IInv'
<1> DEFINE h == [Youngest EXCEPT !.taken = FALSE, !.op = "none"]
<1>1. predHist # << >> /\ committedTos' = committedTos /\ Youngest.type = "Other"
      /\ DoSquash(Youngest) /\ predHist' = Append(Older, h)
  BY DEF CorrectNotTaken
<1>2. /\ Youngest \in BranchHist /\ OpFits(Youngest) /\ Older \in Seq(BranchHist)
      /\ \A i \in 1 .. Len(Older) : OpFits(Older[i])
      /\ Chain(Older, committedTos, Youngest.tos) /\ tos = TosAfter(Youngest)
  BY <1>1, OlderFacts
<1>3. /\ h \in BranchHist /\ h.type = "Other" /\ h.op = "none" /\ h.tos = Youngest.tos
      /\ Youngest.tos \in Slot
  BY <1>1, <1>2, Zenon DEF BranchHist
<1>4. tos' = Youngest.tos /\ addrStack' \in [Slot -> Entry] /\ callStack' = callStack
  BY <1>1, SquashKeeps
<1> HIDE DEF h
<1>5. TosAfter(h) = Youngest.tos /\ OpFits(h)
  BY <1>3 DEF TosAfter, OpFits
<1>6. predHist' \in Seq(BranchHist)
  BY <1>1, <1>2, <1>3
<1>7. Chain(predHist', committedTos', tos')
  BY <1>1, <1>2, <1>3, <1>4, <1>5, ChainAppend
<1>8. OpsFit'
  <2>1. \A i \in 1 .. Len(Append(Older, h)) : OpFits(Append(Older, h)[i])
    BY <1>2, <1>3, <1>5, AppendFits
  <2> QED BY <1>1, <2>1 DEF OpsFit
<1> QED BY <1>1, <1>3, <1>4, <1>6, <1>7, <1>8 DEF IInv, TypeOK

LEMMA CommitOldestKeeps ==
    ASSUME IInv, CommitOldest PROVE IInv'
<1> DEFINE h == predHist[1]
<1>1. /\ predHist # << >> /\ (h.type # "Other" => h.taken) /\ predHist' = Tail(predHist)
      /\ UNCHANGED << addrStack, tos >>
  BY DEF CommitOldest
<1>2. /\ predHist \in Seq(BranchHist) /\ Len(predHist) \in Nat \ {0} /\ callStack \in Seq(Entry)
      /\ committedTos \in Slot
  BY <1>1 DEF IInv, TypeOK
<1>3. h \in BranchHist /\ OpFits(h) /\ h.tos = committedTos
  <2>1. 1 \in 1 .. Len(predHist)
    BY <1>2
  <2>2. h \in BranchHist
    BY <1>2, <2>1
  <2>3. OpFits(h)
    BY <2>1 DEF IInv, OpsFit
  <2>4. h.tos = committedTos
    BY <1>1, Zenon DEF IInv, Chain
  <2> QED BY <2>2, <2>3, <2>4
<1>4. h.type \in {"Call", "Return", "Other"} /\ h.entry \in Entry /\ h.taken \in BOOLEAN
  BY <1>3 DEF BranchHist
<1>5. Chain(predHist', TosAfter(h), tos')
  BY <1>1, <1>2, ChainTail DEF IInv
<1>6. predHist' \in Seq(BranchHist) /\ OpsFit'
  BY <1>1, <1>2 DEF IInv, OpsFit
<1>7. callStack' \in Seq(Entry) /\ committedTos' = TosAfter(h) /\ committedTos' \in Slot
  <2>1. incrTos(committedTos) \in Slot /\ decrTos(committedTos) \in Slot
    BY <1>2, TosRange
  <2>2. CASE h.type = "Call"
    <3>1. h.op = "push"
      BY <1>1, <1>3, <1>4, <2>2 DEF OpFits
    <3>2. callStack' = Strip(Append(callStack, h.entry)) /\ committedTos' = incrTos(committedTos)
      BY <2>2 DEF CommitOldest
    <3>3. Append(callStack, h.entry) \in Seq(Entry)
      BY <1>2, <1>4
    <3>4. callStack' \in Seq(Entry)
      BY <3>2, <3>3 DEF Strip
    <3> QED BY <1>3, <2>1, <3>1, <3>2, <3>4 DEF TosAfter
  <2>3. CASE h.type = "Return"
    <3>1. h.op = "pop"
      BY <1>1, <1>3, <1>4, <2>3 DEF OpFits
    <3>2. /\ committedTos' = decrTos(committedTos)
          /\ callStack' = IF callStack = << >> THEN << >>
                          ELSE SubSeq(callStack, 1, Len(callStack) - 1)
      BY <2>3 DEF CommitOldest
    <3>3. callStack' \in Seq(Entry)
      BY <1>2, <3>2, FrontOf
    <3> QED BY <1>3, <2>1, <3>1, <3>2, <3>3 DEF TosAfter
  <2>4. CASE h.type = "Other"
    <3>1. h.op = "none"
      BY <1>3, <2>4 DEF OpFits
    <3>2. UNCHANGED << callStack, committedTos >>
      BY <2>4 DEF CommitOldest
    <3> QED BY <1>2, <1>3, <3>1, <3>2 DEF TosAfter
  <2> QED BY <1>4, <2>2, <2>3, <2>4
<1> HIDE DEF h
<1> QED BY <1>1, <1>5, <1>6, <1>7 DEF IInv, TypeOK

\* The invariant is inductive.
LEMMA Inductive == Spec => []IInv
<1>1. ASSUME IInv, [Next]_vars PROVE IInv'
  <2>1. CASE UNCHANGED vars
    BY <1>1, <2>1 DEF IInv, TypeOK, OpsFit, vars
  <2> QED BY <1>1, <2>1, PredictKeeps, SquashYoungestKeeps, CorrectTakenKeeps,
             CorrectNotTakenKeeps, CommitOldestKeeps, Zenon DEF Next
<1> QED BY <1>1, InitIInv, PTL DEF Spec

-----------------------------------------------------------------------------
(* What the stack holds.  f[i] is the stack of open calls after the i-th     *)
(* branch in flight, by owner; hs stands for predHist and cs for callStack.  *)

\* EntryOf for the branches hs and the committed calls cs.
EntryIn(hs, cs, o) == IF o > 0 THEN hs[o].entry ELSE cs[Len(cs) + o]

\* Opened, place by place.
Follows(s, t, op, i) ==
    /\ op = "push" => /\ Len(t) = Len(s) + 1 /\ t[Len(s) + 1] = i
                      /\ \A p \in 1 .. Len(s) : t[p] = s[p]
    /\ op = "pop"  => /\ Len(t) = IF Len(s) = 0 THEN 0 ELSE Len(s) - 1
                      /\ \A p \in 1 .. Len(t) : t[p] = s[p]
    /\ op \notin {"push", "pop"} => t = s

\* f is the function after of SpecOwners.
Opens(f, hs, cs) ==
    /\ f \in [0 .. Len(hs) -> Seq(Int)]
    /\ Len(f[0]) = Len(cs) /\ \A p \in 1 .. Len(cs) : f[0][p] = p - Len(cs)
    /\ \A i \in 1 .. Len(hs) : Follows(f[i - 1], f[i], hs[i].op, i)

\* An open call was pushed, by a branch in flight or by a committed one, and the
\* older calls are below the younger ones.
Ordered(f, hs, cs) ==
    \A i \in 0 .. Len(hs) : \A p \in 1 .. Len(f[i]) :
        /\ 1 - Len(cs) <= f[i][p] /\ f[i][p] <= i
        /\ f[i][p] > 0 => hs[f[i][p]].op = "push"
        /\ \A q \in 1 .. (p - 1) : f[i][q] < f[i][p]

\* A call that is open after branch j and is no younger than branch i was open
\* after branch i, in the same place.
Remembered(f, hs) ==
    \A j \in 0 .. Len(hs) : \A i \in 0 .. j : \A p \in 1 .. Len(f[j]) :
        f[j][p] <= i => p <= Len(f[i]) /\ f[i][p] = f[j][p]

\* The history of a return has the entry of the call it returned from.
Saved(f, hs, cs) ==
    \A i \in 1 .. Len(hs) : hs[i].op = "pop" /\ Len(f[i - 1]) > 0 =>
        EntryIn(hs, cs, f[i - 1][Len(f[i - 1])]) \in {NoAddr, hs[i].entry}

\* What is deeper than the ring has been lost.
Deep(f, hs, cs) ==
    \A i \in 0 .. Len(hs) : \A p \in 1 .. (Len(f[i]) - numEntries) :
        EntryIn(hs, cs, f[i][p]) = NoAddr

\* The ring a with its top at t holds the entries of the stack s.
Holds(s, hs, cs, a, t) ==
    \A p \in 1 .. Len(s) :
        EntryIn(hs, cs, s[p]) \in {NoAddr, a[(t - (Len(s) - p)) % numEntries]}

Frame(f, hs, cs) ==
    /\ Opens(f, hs, cs) /\ Ordered(f, hs, cs) /\ Remembered(f, hs)
    /\ Saved(f, hs, cs) /\ Deep(f, hs, cs)

\* The inductive invariant of HoldsOpenCalls.
HoldsInv ==
    \E f : /\ Frame(f, predHist, callStack)
           /\ Holds(f[Len(predHist)], predHist, callStack, addrStack, tos)

LEMMA LeastNat ==
    ASSUME NEW T, T \subseteq Nat, T # {}
    PROVE  \E m \in T : \A k \in T : m <= k
<1>1. IsWellFoundedOn(OpToRel(<, Nat), Nat)
  BY NatLessThanWellFounded, Zenon
<1>2. \E x \in T : \A y \in T : ~(<< y, x >> \in OpToRel(<, Nat))
  BY <1>1, WFMin, Zenon
<1>3. PICK x \in T : \A y \in T : ~(y < x)
  BY <1>2, Zenon DEF OpToRel
<1> QED BY <1>3

LEMMA OpenedFollows ==
    ASSUME NEW s \in Seq(Int), NEW t \in Seq(Int), NEW op, NEW i \in Int, Follows(s, t, op, i)
    PROVE  t = Opened(s, op, i)
<1>1. CASE op = "push"
  <2>1. /\ Append(s, i) \in Seq(Int) /\ Len(Append(s, i)) = Len(s) + 1 /\ Len(s) \in Nat
        /\ \A p \in 1 .. Len(s) : Append(s, i)[p] = s[p]
        /\ Append(s, i)[Len(s) + 1] = i
    OBVIOUS
  <2>2. Len(t) = Len(s) + 1 /\ \A p \in 1 .. Len(t) : t[p] = Append(s, i)[p]
    <3>1. /\ Len(t) = Len(s) + 1 /\ t[Len(s) + 1] = i
          /\ \A p \in 1 .. Len(s) : t[p] = s[p]
      BY <1>1 DEF Follows
    <3> QED BY <2>1, <3>1
  <2>3. t = Append(s, i)
    BY <2>1, <2>2, SeqEqual
  <2> QED BY <1>1, <2>3 DEF Opened
<1>2. CASE op = "pop"
  <2>1. /\ Len(t) = IF Len(s) = 0 THEN 0 ELSE Len(s) - 1
        /\ \A p \in 1 .. Len(t) : t[p] = s[p]
    BY <1>2 DEF Follows
  <2>2. CASE s = << >>
    BY <1>2, <2>1, <2>2 DEF Opened
  <2>3. CASE s # << >>
    <3> DEFINE u == SubSeq(s, 1, Len(s) - 1)
    <3>1. /\ u \in Seq(Int) /\ Len(u) = Len(s) - 1
          /\ \A p \in 1 .. (Len(s) - 1) : u[p] = s[p]
      BY <2>3, FrontOf
    <3>2. Len(s) \in Nat \ {0}
      BY <2>3
    <3> HIDE DEF u
    <3>3. Len(t) = Len(u) /\ \A p \in 1 .. Len(t) : t[p] = u[p]
      BY <2>1, <3>1, <3>2
    <3>4. t = u
      BY <3>1, <3>3, SeqEqual, Zenon
    <3> QED BY <1>2, <2>3, <3>4, Zenon DEF Opened, u
  <2> QED BY <2>2, <2>3
<1>3. CASE op \notin {"push", "pop"}
  BY <1>3 DEF Follows, Opened
<1> QED BY <1>1, <1>2, <1>3

\* The stacks are those SpecOwners computes.
LEMMA OwnersAre ==
    ASSUME NEW hs, Len(hs) \in Nat, callStack \in Seq(Entry),
           NEW f, Opens(f, hs, callStack)
    PROVE  SpecOwners(hs) = f[Len(hs)]
<1> DEFINE base == [p \in 1 .. Len(callStack) |-> p - Len(callStack)]
           Eq(g) == g = [i \in 0 .. Len(hs) |->
                            IF i = 0 THEN base ELSE Opened(g[i - 1], hs[i].op, i)]
           after == CHOOSE g : Eq(g)
<1>1. f[0] = base
  <2>1. /\ f[0] \in Seq(Int) /\ Len(f[0]) = Len(callStack)
        /\ \A p \in 1 .. Len(callStack) : f[0][p] = p - Len(callStack)
    BY DEF Opens
  <2>2. Len(callStack) \in Nat /\ base \in [1 .. Len(callStack) -> Int]
    OBVIOUS
  <2>3. base \in Seq(Int) /\ Len(base) = Len(callStack)
    BY <2>2
  <2>4. \A p \in 1 .. Len(callStack) : base[p] = p - Len(callStack)
    OBVIOUS
  <2> HIDE DEF base
  <2> QED BY <2>1, <2>3, <2>4, SeqEqual
<1>2. \A i \in 1 .. Len(hs) : f[i] = Opened(f[i - 1], hs[i].op, i)
  <2> TAKE i \in 1 .. Len(hs)
  <2>0. i \in 0 .. Len(hs) /\ i - 1 \in 0 .. Len(hs) /\ i \in Int
    OBVIOUS
  <2>1. f[i] \in Seq(Int) /\ f[i - 1] \in Seq(Int)
    BY <2>0, Zenon DEF Opens
  <2>2. Follows(f[i - 1], f[i], hs[i].op, i)
    BY DEF Opens
  <2> QED BY <2>0, <2>1, <2>2, OpenedFollows, Zenon
<1> HIDE DEF base
<1>3. Eq(f)
  <2>1. f = [i \in 0 .. Len(hs) |-> f[i]]
    BY DEF Opens
  <2>2. \A i \in 0 .. Len(hs) : f[i] = IF i = 0 THEN base ELSE Opened(f[i - 1], hs[i].op, i)
    BY <1>1, <1>2
  <2> QED BY <2>1, <2>2, Zenon
<1>4. Eq(after)
  <2> HIDE DEF Eq
  <2> QED BY <1>3, Zenon
<1>5. SpecOwners(hs) = after[Len(hs)]
  BY DEF SpecOwners, base
<1> HIDE DEF after
<1>6. \A i \in 0 .. Len(hs) : after[i] = IF i = 0 THEN base ELSE Opened(after[i - 1], hs[i].op, i)
  BY <1>4
<1> HIDE DEF Eq
<1>7. \A i \in 0 .. Len(hs) : after[i] = f[i]
  <2> DEFINE T == {i \in 0 .. Len(hs) : after[i] # f[i]}
  <2> SUFFICES ASSUME T # {} PROVE FALSE
    OBVIOUS
  <2>1. PICK m \in T : \A k \in T : m <= k
    <3>1. T \subseteq Nat
      OBVIOUS
    <3> HIDE DEF T
    <3> QED BY <3>1, LeastNat, Zenon
  <2>2. m # 0 /\ m \in 1 .. Len(hs)
    BY <1>1, <1>6
  <2>3. after[m - 1] = f[m - 1]
    BY <2>1, <2>2
  <2> QED BY <1>2, <1>6, <2>1, <2>2, <2>3
<1> QED BY <1>5, <1>7

-----------------------------------------------------------------------------
LEMMA StackIs ==
    ASSUME NEW k \in Nat, NEW g \in [1 .. k -> Int]
    PROVE  g \in Seq(Int) /\ Len(g) = k
OBVIOUS

LEMMA FrameTypes ==
    ASSUME NEW f, NEW hs, NEW cs, Len(hs) \in Nat, Frame(f, hs, cs)
    PROVE  \A i \in 0 .. Len(hs) :
               /\ f[i] \in Seq(Int) /\ Len(f[i]) \in Nat
               /\ \A p \in 1 .. Len(f[i]) : f[i][p] \in (1 - Len(cs)) .. i
<1> TAKE i \in 0 .. Len(hs)
<1>1. f[i] \in Seq(Int)
  BY Zenon DEF Frame, Opens
<1>2. Len(f[i]) \in Nat /\ \A p \in 1 .. Len(f[i]) : f[i][p] \in Int
  BY <1>1
<1>3. \A p \in 1 .. Len(f[i]) : 1 - Len(cs) <= f[i][p] /\ f[i][p] <= i
  BY DEF Frame, Ordered
<1> QED BY <1>1, <1>2, <1>3

\* That entries are lost, or that nothing but the directions changes, does no harm.
LEMMA LoseKeeps ==
    ASSUME NEW f, NEW hs, NEW cs, Len(hs) \in Nat, Len(cs) \in Nat, Frame(f, hs, cs),
           NEW hs2, NEW cs2, Len(hs2) = Len(hs), Len(cs2) = Len(cs),
           \A i \in 1 .. Len(hs) : /\ hs2[i].op = hs[i].op
                                   /\ hs[i].op # "push" => hs2[i].entry = hs[i].entry,
           \A o \in (1 - Len(cs)) .. Len(hs) :
               EntryIn(hs2, cs2, o) \in {NoAddr, EntryIn(hs, cs, o)}
    PROVE  /\ Frame(f, hs2, cs2)
           /\ \A i \in 0 .. Len(hs) : \A a, t :
                  Holds(f[i], hs, cs, a, t) => Holds(f[i], hs2, cs2, a, t)
<1>1. \A i \in 0 .. Len(hs) :
          /\ Len(f[i]) \in Nat
          /\ \A p \in 1 .. Len(f[i]) : f[i][p] \in (1 - Len(cs)) .. i
  BY FrameTypes
<1>2. \A i \in 0 .. Len(hs) : \A p \in 1 .. Len(f[i]) :
          EntryIn(hs2, cs2, f[i][p]) \in {NoAddr, EntryIn(hs, cs, f[i][p])}
  <2> TAKE i \in 0 .. Len(hs)
  <2> TAKE p \in 1 .. Len(f[i])
  <2>1. f[i][p] \in (1 - Len(cs)) .. Len(hs)
    BY <1>1
  <2> QED BY <2>1
<1>3. Opens(f, hs2, cs2)
  BY DEF Frame, Opens
<1>4. Ordered(f, hs2, cs2)
  <2> SUFFICES ASSUME NEW i \in 0 .. Len(hs), NEW p \in 1 .. Len(f[i])
               PROVE  /\ 1 - Len(cs) <= f[i][p] /\ f[i][p] <= i
                      /\ f[i][p] > 0 => hs2[f[i][p]].op = "push"
                      /\ \A q \in 1 .. (p - 1) : f[i][q] < f[i][p]
    BY Zenon DEF Ordered
  <2>1. /\ 1 - Len(cs) <= f[i][p] /\ f[i][p] <= i
        /\ f[i][p] > 0 => hs[f[i][p]].op = "push"
        /\ \A q \in 1 .. (p - 1) : f[i][q] < f[i][p]
    BY Zenon DEF Frame, Ordered
  <2>2. f[i][p] > 0 => f[i][p] \in 1 .. Len(hs)
    BY <1>1
  <2> QED BY <2>1, <2>2
<1>5. Remembered(f, hs2)
  BY DEF Frame, Remembered
<1>6. Saved(f, hs2, cs2)
  <2> SUFFICES ASSUME NEW i \in 1 .. Len(hs), hs2[i].op = "pop", Len(f[i - 1]) > 0
               PROVE  EntryIn(hs2, cs2, f[i - 1][Len(f[i - 1])]) \in {NoAddr, hs2[i].entry}
    BY Zenon DEF Saved
  <2>1. hs[i].op = "pop" /\ hs2[i].entry = hs[i].entry
    OBVIOUS
  <2>2. EntryIn(hs, cs, f[i - 1][Len(f[i - 1])]) \in {NoAddr, hs[i].entry}
    BY <2>1, Zenon DEF Frame, Saved
  <2>3. i - 1 \in 0 .. Len(hs) /\ Len(f[i - 1]) \in 1 .. Len(f[i - 1])
    BY <1>1
  <2> QED BY <1>2, <2>1, <2>2, <2>3, Zenon
<1>7. Deep(f, hs2, cs2)
  <2> SUFFICES ASSUME NEW i \in 0 .. Len(hs), NEW p \in 1 .. (Len(f[i]) - numEntries)
               PROVE  EntryIn(hs2, cs2, f[i][p]) = NoAddr
    BY Zenon DEF Deep
  <2>1. EntryIn(hs, cs, f[i][p]) = NoAddr
    BY Zenon DEF Frame, Deep
  <2>2. p \in 1 .. Len(f[i])
    BY <1>1, RASAssumption
  <2> QED BY <1>2, <2>1, <2>2, Zenon
<1>8. ASSUME NEW i \in 0 .. Len(hs), NEW a, NEW t, Holds(f[i], hs, cs, a, t)
      PROVE  Holds(f[i], hs2, cs2, a, t)
  <2> SUFFICES ASSUME NEW p \in 1 .. Len(f[i])
               PROVE  EntryIn(hs2, cs2, f[i][p])
                          \in {NoAddr, a[(t - (Len(f[i]) - p)) % numEntries]}
    BY Zenon DEF Holds
  <2>1. EntryIn(hs, cs, f[i][p]) \in {NoAddr, a[(t - (Len(f[i]) - p)) % numEntries]}
    BY <1>8, Zenon DEF Holds
  <2> QED BY <1>2, <2>1, Zenon
<1> QED BY <1>3, <1>4, <1>5, <1>6, <1>7, <1>8, Zenon DEF Frame

\* Every call of s is one of l in its place, or was pushed on top of them.
Places(l, s, op, k) ==
    /\ op = "push" => Len(s) = Len(l) + 1
    /\ op # "push" => Len(s) <= Len(l)
    /\ \A p \in 1 .. Len(s) :
           \/ p = Len(l) + 1 /\ Len(s) = Len(l) + 1 /\ s[p] = k /\ op = "push"
           \/ p \in 1 .. Len(l) /\ s[p] = l[p]

LEMMA FollowsPlaces ==
    ASSUME NEW l \in Seq(Int), NEW s \in Seq(Int), NEW op, NEW k, Follows(l, s, op, k)
    PROVE  Places(l, s, op, k)
<1>0. Len(l) \in Nat /\ Len(s) \in Nat
  OBVIOUS
<1>1. CASE op = "push"
  BY <1>0, <1>1 DEF Follows, Places
<1>2. CASE op = "pop"
  BY <1>0, <1>2 DEF Follows, Places
<1>3. CASE op \notin {"push", "pop"}
  BY <1>0, <1>3 DEF Follows, Places
<1> QED BY <1>1, <1>2, <1>3

\* hs2 are the branches hs and one more, h, which turns the stack l into s.
Extends(hs2, hs, h, l, s) ==
    /\ Len(hs2) = Len(hs) + 1 /\ hs2[Len(hs) + 1] = h
    /\ \A i \in 1 .. Len(hs) : hs2[i] = hs[i]
    /\ s \in Seq(Int) /\ Follows(l, s, h.op, Len(hs) + 1)

\* A return has saved the entry of the call at the top of l, and a call has had the
\* entry it overwrites declared lost.
Accounted(hs, cs, h, l) ==
    /\ h.op = "pop" /\ Len(l) > 0 => EntryIn(hs, cs, l[Len(l)]) \in {NoAddr, h.entry}
    /\ h.op = "push" =>
           \A p \in 1 .. (Len(l) + 1 - numEntries) : EntryIn(hs, cs, l[p]) = NoAddr

\* Such a branch extends the frame.
Extending(f, hs, cs, n, l, hs2, h, s) ==
    /\ n \in Nat /\ Len(hs) = n /\ Len(cs) \in Nat /\ Frame(f, hs, cs) /\ l = f[n]
    /\ Extends(hs2, hs, h, l, s) /\ Accounted(hs, cs, h, l)

LEMMA ExtendKeeps ==
    ASSUME NEW f, NEW hs, NEW cs, NEW n, NEW l, NEW hs2, NEW h, NEW s,
           Extending(f, hs, cs, n, l, hs2, h, s)
    PROVE  \E g : Frame(g, hs2, cs) /\ g[n + 1] = s
<1> SUFFICES ASSUME n \in Nat, Len(hs) = n, Len(cs) \in Nat, Frame(f, hs, cs), l = f[n],
                    Extends(hs2, hs, h, l, s), Accounted(hs, cs, h, l)
             PROVE  \E g : Frame(g, hs2, cs) /\ g[n + 1] = s
  BY Zenon DEF Extending
<1> DEFINE g == [i \in 0 .. (n + 1) |-> IF i = n + 1 THEN s ELSE f[i]]
<1>0. n \in Nat /\ n \in 0 .. n
  OBVIOUS
<1>a. /\ Len(hs2) = n + 1 /\ hs2[n + 1] = h /\ s \in Seq(Int) /\ Follows(l, s, h.op, n + 1)
      /\ \A i \in 1 .. n : hs2[i] = hs[i]
  BY DEF Extends
<1>1. \A i \in 0 .. n :
          /\ f[i] \in Seq(Int) /\ Len(f[i]) \in Nat
          /\ \A p \in 1 .. Len(f[i]) : f[i][p] \in (1 - Len(cs)) .. i
  BY FrameTypes
<1>2. /\ g[n + 1] = s /\ \A i \in 0 .. n : g[i] = f[i]
      /\ g \in [0 .. (n + 1) -> Seq(Int)]
  <2>1. \A i \in 0 .. (n + 1) : i # n + 1 => i \in 0 .. n
    BY <1>0
  <2>2. g \in [0 .. (n + 1) -> Seq(Int)]
    BY <1>a, <1>1, <2>1
  <2>3. n + 1 \in 0 .. (n + 1) /\ \A i \in 0 .. n : i \in 0 .. (n + 1) /\ i # n + 1
    BY <1>0
  <2> QED BY <2>2, <2>3
<1> HIDE DEF g
<1>3. /\ l \in Seq(Int) /\ Len(l) \in Nat /\ Len(s) \in Nat /\ g[n] = l
      /\ \A p \in 1 .. Len(l) : l[p] \in (1 - Len(cs)) .. n
      /\ \A p \in 1 .. Len(l), q \in 1 .. Len(l) : q < p => l[q] < l[p]
      /\ \A p \in 1 .. Len(l) : l[p] > 0 => hs[l[p]].op = "push"
  <2>1. \A p \in 1 .. Len(l) :
            /\ l[p] > 0 => hs[l[p]].op = "push"
            /\ \A q \in 1 .. (p - 1) : l[q] < l[p]
    BY <1>0 DEF Frame, Ordered
  <2>2. Len(l) \in Nat /\ l \in Seq(Int) /\ \A p \in 1 .. Len(l) : l[p] \in (1 - Len(cs)) .. n
    BY <1>0, <1>1
  <2>3. \A p \in 1 .. Len(l), q \in 1 .. Len(l) : q < p => q \in 1 .. (p - 1)
    BY <2>2
  <2>4. Len(s) \in Nat
    BY <1>a
  <2>5. g[n] = l
    BY <1>0, <1>2
  <2> QED BY <2>1, <2>2, <2>3, <2>4, <2>5, Zenon
<1>b. Len(l) \in Nat /\ Len(s) \in Nat /\ l \in Seq(Int) /\ s \in Seq(Int)
  BY <1>a, <1>3
<1>c. Len(l) \in Nat /\ Len(s) \in Nat
  BY <1>b
<1>d. Places(l, s, h.op, n + 1)
  BY <1>a, <1>b, FollowsPlaces, Zenon
<1>4. /\ h.op = "push" => Len(s) = Len(l) + 1
      /\ h.op # "push" => Len(s) <= Len(l)
      /\ \A p \in 1 .. Len(s) :
             \/ p = Len(l) + 1 /\ Len(s) = Len(l) + 1 /\ s[p] = n + 1 /\ h.op = "push"
             \/ p \in 1 .. Len(l) /\ s[p] = l[p]
  BY <1>d, Zenon DEF Places
<1>5. \A o \in Int : o <= n => EntryIn(hs2, cs, o) = EntryIn(hs, cs, o)
  <2> SUFFICES ASSUME NEW o \in Int, o <= n PROVE EntryIn(hs2, cs, o) = EntryIn(hs, cs, o)
    OBVIOUS
  <2>1. o > 0 => o \in 1 .. n /\ hs2[o] = hs[o]
    BY <1>a
  <2> QED BY <2>1 DEF EntryIn
<1>6. \A i \in 0 .. Len(hs2) : i \in 0 .. n \/ i = n + 1
  BY <1>0, <1>a
<1>7. Opens(g, hs2, cs)
  <2>1. /\ Len(f[0]) = Len(cs) /\ \A p \in 1 .. Len(cs) : f[0][p] = p - Len(cs)
        /\ \A i \in 1 .. n : Follows(f[i - 1], f[i], hs[i].op, i)
    BY Zenon DEF Frame, Opens
  <2>2. g[0] = f[0]
    BY <1>0, <1>2
  <2>3. ASSUME NEW i \in 1 .. Len(hs2) PROVE Follows(g[i - 1], g[i], hs2[i].op, i)
    <3>1. CASE i \in 1 .. n
      <4>1. g[i - 1] = f[i - 1] /\ g[i] = f[i] /\ hs2[i] = hs[i]
        BY <1>0, <1>a, <1>2, <3>1
      <4> QED BY <2>1, <3>1, <4>1, Zenon
    <3>2. CASE i = n + 1
      <4>1. g[i - 1] = l /\ g[i] = s /\ hs2[i] = h
        BY <1>0, <1>a, <1>2, <3>2
      <4> QED BY <1>a, <3>2, <4>1
    <3> QED BY <1>0, <1>a, <3>1, <3>2
  <2> QED BY <1>a, <1>2, <2>1, <2>2, <2>3 DEF Opens
<1>8. Ordered(g, hs2, cs)
  <2> SUFFICES ASSUME NEW i \in 0 .. Len(hs2), NEW p \in 1 .. Len(g[i])
               PROVE  /\ 1 - Len(cs) <= g[i][p] /\ g[i][p] <= i
                      /\ g[i][p] > 0 => hs2[g[i][p]].op = "push"
                      /\ \A q \in 1 .. (p - 1) : g[i][q] < g[i][p]
    BY Zenon DEF Ordered
  <2>1. CASE i \in 0 .. n
    <3>1. g[i] = f[i] /\ Len(f[i]) \in Nat /\ f[i][p] \in (1 - Len(cs)) .. i
      BY <1>1, <1>2, <2>1, Zenon
    <3>2. /\ f[i][p] > 0 => hs[f[i][p]].op = "push"
          /\ \A q \in 1 .. (p - 1) : f[i][q] < f[i][p]
      BY <2>1, <3>1, Zenon DEF Frame, Ordered
    <3>3. f[i][p] > 0 => f[i][p] \in 1 .. n
      BY <2>1, <3>1
    <3>4. f[i][p] > 0 => hs2[f[i][p]].op = "push"
      BY <1>a, <3>2, <3>3, Zenon
    <3>5. 1 - Len(cs) <= f[i][p] /\ f[i][p] <= i
      BY <3>1
    <3> QED BY <3>1, <3>2, <3>4, <3>5, Zenon
  <2>2. CASE i = n + 1
    <3>0. g[i] = s /\ p \in 1 .. Len(s)
      BY <1>2, <2>2
    <3>1. CASE p = Len(l) + 1 /\ Len(s) = Len(l) + 1 /\ s[p] = n + 1 /\ h.op = "push"
      <4>1. ASSUME NEW q \in 1 .. (p - 1) PROVE s[q] < n + 1
        <5>1. q \in 1 .. Len(s) /\ q # Len(l) + 1 /\ q \in 1 .. Len(l)
          <6>1. p = Len(l) + 1 /\ Len(s) = Len(l) + 1
            BY <3>1
          <6> QED BY <1>c, <6>1
        <5>2. s[q] = l[q]
          BY <1>4, <5>1, Zenon
        <5>3. l[q] \in (1 - Len(cs)) .. n
          BY <1>3, <5>1, Zenon
        <5> QED BY <5>2, <5>3
      <4>2. hs2[n + 1].op = "push" /\ 1 - Len(cs) <= n + 1
        BY <1>a, <3>1
      <4>3. /\ 1 - Len(cs) <= s[p] /\ s[p] <= n + 1 /\ hs2[s[p]].op = "push"
            /\ \A q \in 1 .. (p - 1) : s[q] < s[p]
        BY <3>1, <4>1, <4>2
      <4> QED BY <2>2, <3>0, <4>3, Zenon
    <3>2. CASE p \in 1 .. Len(l) /\ s[p] = l[p]
      <4>1. l[p] \in (1 - Len(cs)) .. n /\ (l[p] > 0 => hs[l[p]].op = "push")
        BY <1>3, <3>2, Zenon
      <4>a. l[p] > 0 => l[p] \in 1 .. n
        BY <4>1
      <4>b. l[p] > 0 => hs2[l[p]].op = "push"
        BY <1>a, <4>1, <4>a, Zenon
      <4>c. 1 - Len(cs) <= l[p] /\ l[p] <= n + 1
        BY <4>1
      <4>2. ASSUME NEW q \in 1 .. (p - 1) PROVE s[q] < s[p]
        <5>1. q \in 1 .. Len(s) /\ q # Len(l) + 1 /\ q < p /\ q \in 1 .. Len(l)
          <6>1. p \in 1 .. Len(l) /\ p \in 1 .. Len(s)
            BY <3>0, <3>2
          <6> QED BY <1>c, <6>1
        <5>2. s[q] = l[q]
          BY <1>4, <5>1, Zenon
        <5>3. l[q] < l[p]
          BY <1>3, <3>2, <5>1, Zenon
        <5> QED BY <3>2, <5>2, <5>3
      <4>3. /\ 1 - Len(cs) <= s[p] /\ s[p] <= n + 1
            /\ s[p] > 0 => hs2[s[p]].op = "push"
            /\ \A q \in 1 .. (p - 1) : s[q] < s[p]
        BY <3>2, <4>b, <4>c, <4>2
      <4> QED BY <2>2, <3>0, <4>3, Zenon
    <3> QED BY <1>4, <3>0, <3>1, <3>2
  <2> QED BY <1>6, <2>1, <2>2
<1>9. Remembered(g, hs2)
  <2> SUFFICES ASSUME NEW j \in 0 .. Len(hs2), NEW i \in 0 .. j, NEW p \in 1 .. Len(g[j]),
                      g[j][p] <= i
               PROVE  p <= Len(g[i]) /\ g[i][p] = g[j][p]
    BY Zenon DEF Remembered
  <2>1. CASE j \in 0 .. n
    <3>0. i \in 0 .. n
      BY <2>1
    <3>1. g[j] = f[j] /\ g[i] = f[i]
      BY <1>2, <2>1, <3>0, Zenon
    <3> QED BY <2>1, <3>1, Zenon DEF Frame, Remembered
  <2>2. CASE j = n + 1 /\ i = n + 1
    BY <1>2, <1>3, <2>2
  <2>3. CASE j = n + 1 /\ i \in 0 .. n
    <3>1. g[j] = s /\ g[i] = f[i] /\ p \in 1 .. Len(s)
      BY <1>2, <2>3, Zenon
    <3>2. p \in 1 .. Len(l) /\ s[p] = l[p]
      BY <1>0, <1>4, <2>3, <3>1
    <3>3. p <= Len(f[i]) /\ f[i][p] = l[p]
      BY <1>0, <2>3, <3>1, <3>2, Zenon DEF Frame, Remembered
    <3> QED BY <3>1, <3>2, <3>3, Zenon
  <2>4. i \in 0 .. Len(hs2)
    BY <1>a
  <2> QED BY <1>0, <1>6, <2>1, <2>2, <2>3, <2>4
<1>10. Saved(g, hs2, cs)
  <2> SUFFICES ASSUME NEW i \in 1 .. Len(hs2), hs2[i].op = "pop", Len(g[i - 1]) > 0
               PROVE  EntryIn(hs2, cs, g[i - 1][Len(g[i - 1])]) \in {NoAddr, hs2[i].entry}
    BY Zenon DEF Saved
  <2>a. i - 1 \in 0 .. n
    BY <1>a
  <2>b. g[i - 1] = f[i - 1] /\ Len(f[i - 1]) \in Nat
    BY <1>1, <1>2, <2>a, Zenon
  <2>c. Len(f[i - 1]) \in 1 .. Len(f[i - 1])
    BY <2>b
  <2>0. /\ g[i - 1] = f[i - 1]
        /\ f[i - 1][Len(f[i - 1])] \in (1 - Len(cs)) .. (i - 1)
    BY <1>1, <2>a, <2>b, <2>c, Zenon
  <2>1. EntryIn(hs2, cs, f[i - 1][Len(f[i - 1])]) = EntryIn(hs, cs, f[i - 1][Len(f[i - 1])])
    <3>1. f[i - 1][Len(f[i - 1])] \in Int /\ f[i - 1][Len(f[i - 1])] <= n
      BY <2>a, <2>0, SMTT(30)
    <3> QED BY <1>5, <3>1, Zenon
  <2>2. CASE i \in 1 .. n
    <3>1. hs2[i] = hs[i]
      BY <1>a, <2>2
    <3>2. EntryIn(hs, cs, f[i - 1][Len(f[i - 1])]) \in {NoAddr, hs[i].entry}
      BY <2>0, <2>2, <3>1, Zenon DEF Frame, Saved
    <3> QED BY <2>0, <2>1, <3>1, <3>2, Zenon
  <2>3. CASE i = n + 1
    <3>1. hs2[i] = h /\ i - 1 = n
      BY <1>a, <2>3
    <3>2. EntryIn(hs, cs, f[i - 1][Len(f[i - 1])]) \in {NoAddr, h.entry}
      BY <2>0, <3>1, Zenon DEF Accounted
    <3> QED BY <2>0, <2>1, <3>1, <3>2, Zenon
  <2>4. i \in 1 .. n \/ i = n + 1
    BY <1>a
  <2> QED BY <2>2, <2>3, <2>4
<1>11. Deep(g, hs2, cs)
  <2> SUFFICES ASSUME NEW i \in 0 .. Len(hs2), NEW p \in 1 .. (Len(g[i]) - numEntries)
               PROVE  EntryIn(hs2, cs, g[i][p]) = NoAddr
    BY Zenon DEF Deep
  <2>1. CASE i \in 0 .. n
    <3>a. g[i] = f[i] /\ Len(f[i]) \in Nat
      BY <1>1, <1>2, <2>1, Zenon
    <3>b. p \in 1 .. Len(f[i])
      BY <3>a, RASAssumption
    <3>c. f[i][p] \in (1 - Len(cs)) .. i
      BY <1>1, <2>1, <3>b, Zenon
    <3>1. g[i] = f[i] /\ f[i][p] \in Int /\ f[i][p] <= n
      BY <2>1, <3>a, <3>c
    <3>2. EntryIn(hs, cs, f[i][p]) = NoAddr
      BY <2>1, <3>1, Zenon DEF Frame, Deep
    <3> QED BY <1>5, <3>1, <3>2, Zenon
  <2>2. CASE i = n + 1
    <3>0. g[i] = s
      BY <1>2, <2>2
    <3>1. p \in 1 .. (Len(s) - numEntries) /\ p \in 1 .. Len(s) /\ p < Len(s)
      BY <1>3, <3>0, RASAssumption
    <3>a. p \in 1 .. Len(l) /\ s[p] = l[p]
      <4>1. ~(p = Len(l) + 1 /\ Len(s) = Len(l) + 1)
        BY <1>c, <3>1
      <4> QED BY <1>4, <3>1, <4>1, Zenon
    <3>b. l[p] \in (1 - Len(cs)) .. n
      BY <1>3, <3>a, Zenon
    <3>2. l[p] \in Int /\ l[p] <= n
      BY <3>b
    <3>3. EntryIn(hs, cs, l[p]) = NoAddr
      <4>1. CASE h.op = "push"
        <5>0. Len(s) = Len(l) + 1
          BY <1>4, <4>1, Zenon
        <5>1. p \in 1 .. (Len(l) + 1 - numEntries)
          BY <1>c, <3>1, <5>0, RASAssumption
        <5> QED BY <4>1, <5>1, Zenon DEF Accounted
      <4>2. CASE h.op # "push"
        <5>1. Len(s) <= Len(l)
          BY <1>4, <4>2
        <5>2. p \in 1 .. (Len(l) - numEntries)
          BY <1>3, <3>1, <5>1, RASAssumption
        <5> QED BY <1>0, <5>2, Zenon DEF Frame, Deep
      <4> QED BY <4>1, <4>2
    <3> QED BY <1>5, <3>0, <3>a, <3>2, <3>3, Zenon
  <2> QED BY <1>6, <2>1, <2>2
<1>12. Frame(g, hs2, cs)
  BY <1>7, <1>8, <1>9, <1>10, <1>11 DEF Frame
<1> QED BY <1>2, <1>12, Zenon

\* Without its youngest branch.
Restricts(hs2, f, hs, cs, n) ==
    /\ n \in Nat /\ Len(hs) = n + 1 /\ Len(cs) \in Nat /\ Frame(f, hs, cs)
    /\ Len(hs2) = n /\ \A i \in 1 .. n : hs2[i] = hs[i]

LEMMA RestrictKeeps ==
    ASSUME NEW f, NEW hs, NEW cs, NEW n, NEW hs2, Restricts(hs2, f, hs, cs, n)
    PROVE  \E g : Frame(g, hs2, cs) /\ g[n] = f[n]
<1> SUFFICES ASSUME n \in Nat, Len(hs) = n + 1, Len(cs) \in Nat, Frame(f, hs, cs),
                    Len(hs2) = n, \A i \in 1 .. n : hs2[i] = hs[i]
             PROVE  \E g : Frame(g, hs2, cs) /\ g[n] = f[n]
  BY Zenon DEF Restricts
<1> DEFINE g == [i \in 0 .. n |-> f[i]]
<1>0. \A i \in 0 .. n : i \in 0 .. Len(hs)
  OBVIOUS
<1>1. \A i \in 0 .. n :
          /\ f[i] \in Seq(Int) /\ Len(f[i]) \in Nat
          /\ \A p \in 1 .. Len(f[i]) : f[i][p] \in (1 - Len(cs)) .. i
  <2>1. Len(hs) \in Nat
    OBVIOUS
  <2> QED BY <1>0, <2>1, FrameTypes, Zenon
<1>2. (\A i \in 0 .. n : g[i] = f[i]) /\ g \in [0 .. n -> Seq(Int)]
  BY <1>1
<1> HIDE DEF g
<1>3. \A i \in 0 .. n : \A p \in 1 .. Len(f[i]) :
          EntryIn(hs2, cs, f[i][p]) = EntryIn(hs, cs, f[i][p])
  <2> TAKE i \in 0 .. n
  <2> TAKE p \in 1 .. Len(f[i])
  <2>1. f[i][p] \in (1 - Len(cs)) .. i
    BY <1>1, Zenon
  <2>2. f[i][p] > 0 => f[i][p] \in 1 .. n
    BY <2>1
  <2>3. f[i][p] > 0 => hs2[f[i][p]] = hs[f[i][p]]
    BY <2>2, Zenon
  <2> QED BY <2>3, Zenon DEF EntryIn
<1>4. Opens(g, hs2, cs)
  <2>1. /\ Len(f[0]) = Len(cs) /\ \A p \in 1 .. Len(cs) : f[0][p] = p - Len(cs)
        /\ \A i \in 1 .. Len(hs) : Follows(f[i - 1], f[i], hs[i].op, i)
    BY Zenon DEF Frame, Opens
  <2>2. 0 \in 0 .. n
    OBVIOUS
  <2>3. ASSUME NEW i \in 1 .. n PROVE Follows(g[i - 1], g[i], hs2[i].op, i)
    <3>1. i \in 0 .. n /\ i - 1 \in 0 .. n /\ i \in 1 .. Len(hs)
      OBVIOUS
    <3>2. g[i - 1] = f[i - 1] /\ g[i] = f[i] /\ hs2[i] = hs[i]
      BY <1>2, <3>1, Zenon
    <3> QED BY <2>1, <3>1, <3>2, Zenon
  <2>4. g[0] = f[0]
    BY <1>2, <2>2, Zenon
  <2> QED BY <1>2, <2>1, <2>3, <2>4, Zenon DEF Opens
<1>5. Ordered(g, hs2, cs)
  <2> SUFFICES ASSUME NEW i \in 0 .. n, NEW p \in 1 .. Len(g[i])
               PROVE  /\ 1 - Len(cs) <= g[i][p] /\ g[i][p] <= i
                      /\ g[i][p] > 0 => hs2[g[i][p]].op = "push"
                      /\ \A q \in 1 .. (p - 1) : g[i][q] < g[i][p]
    BY Zenon DEF Ordered
  <2>1. g[i] = f[i] /\ i \in 0 .. Len(hs)
    BY <1>0, <1>2, Zenon
  <2>2. /\ 1 - Len(cs) <= f[i][p] /\ f[i][p] <= i
        /\ f[i][p] > 0 => hs[f[i][p]].op = "push"
        /\ \A q \in 1 .. (p - 1) : f[i][q] < f[i][p]
    BY <2>1, Zenon DEF Frame, Ordered
  <2>3. f[i][p] \in (1 - Len(cs)) .. i
    BY <1>1, <2>1, Zenon
  <2>4. f[i][p] > 0 => f[i][p] \in 1 .. n
    BY <2>3
  <2>5. f[i][p] > 0 => hs2[f[i][p]].op = "push"
    BY <2>2, <2>4, Zenon
  <2> QED BY <2>1, <2>2, <2>5, Zenon
<1>6. Remembered(g, hs2)
  <2> SUFFICES ASSUME NEW j \in 0 .. n, NEW i \in 0 .. j, NEW p \in 1 .. Len(g[j]), g[j][p] <= i
               PROVE  p <= Len(g[i]) /\ g[i][p] = g[j][p]
    BY Zenon DEF Remembered
  <2>1. i \in 0 .. n
    OBVIOUS
  <2>2. g[i] = f[i] /\ g[j] = f[j] /\ j \in 0 .. Len(hs)
    BY <1>0, <1>2, <2>1, Zenon
  <2> QED BY <2>2, Zenon DEF Frame, Remembered
<1>7. Saved(g, hs2, cs)
  <2> SUFFICES ASSUME NEW i \in 1 .. n, hs2[i].op = "pop", Len(g[i - 1]) > 0
               PROVE  EntryIn(hs2, cs, g[i - 1][Len(g[i - 1])]) \in {NoAddr, hs2[i].entry}
    BY Zenon DEF Saved
  <2>1. i - 1 \in 0 .. n /\ i \in 1 .. Len(hs)
    OBVIOUS
  <2>2. hs2[i] = hs[i] /\ g[i - 1] = f[i - 1] /\ Len(f[i - 1]) \in Nat
    BY <1>1, <1>2, <2>1, Zenon
  <2>3. Len(f[i - 1]) \in 1 .. Len(f[i - 1])
    BY <2>2
  <2>4. EntryIn(hs, cs, f[i - 1][Len(f[i - 1])]) \in {NoAddr, hs[i].entry}
    BY <2>1, <2>2, Zenon DEF Frame, Saved
  <2> QED BY <1>3, <2>1, <2>2, <2>3, <2>4, Zenon
<1>8. Deep(g, hs2, cs)
  <2> SUFFICES ASSUME NEW i \in 0 .. n, NEW p \in 1 .. (Len(g[i]) - numEntries)
               PROVE  EntryIn(hs2, cs, g[i][p]) = NoAddr
    BY Zenon DEF Deep
  <2>1. g[i] = f[i] /\ Len(f[i]) \in Nat /\ i \in 0 .. Len(hs)
    BY <1>0, <1>1, <1>2, Zenon
  <2>2. p \in 1 .. Len(f[i])
    BY <2>1, RASAssumption
  <2>3. EntryIn(hs, cs, f[i][p]) = NoAddr
    BY <2>1, Zenon DEF Frame, Deep
  <2> QED BY <1>3, <2>1, <2>2, <2>3, Zenon
<1>9. n \in 0 .. n
  OBVIOUS
<1> QED BY <1>2, <1>4, <1>5, <1>6, <1>7, <1>8, <1>9, Zenon DEF Frame

-----------------------------------------------------------------------------
\* Two frames over the same branches whose stacks differ at the bottom only: the
\* entries are the same from the top down, so what the ring holds is the same.
SameTop(s, r, hs, cs, hs2, cs2) ==
    /\ Len(r) <= Len(s)
    /\ \A p \in 1 .. Len(r) :
           EntryIn(hs2, cs2, r[p]) = EntryIn(hs, cs, s[p + (Len(s) - Len(r))])

LEMMA SameTopHolds ==
    ASSUME NEW s, NEW r, NEW hs, NEW cs, NEW hs2, NEW cs2, Len(s) \in Nat, Len(r) \in Nat,
           SameTop(s, r, hs, cs, hs2, cs2), NEW a, NEW t \in Int, Holds(s, hs, cs, a, t)
    PROVE  Holds(r, hs2, cs2, a, t)
<1> DEFINE k == Len(s) - Len(r)
<1>1. k \in Nat
  BY DEF SameTop
<1>2. \A p \in 1 .. Len(r) : EntryIn(hs2, cs2, r[p]) = EntryIn(hs, cs, s[p + k])
  BY DEF SameTop
<1> SUFFICES ASSUME NEW p \in 1 .. Len(r)
             PROVE  EntryIn(hs2, cs2, r[p]) \in {NoAddr, a[(t - (Len(r) - p)) % numEntries]}
  BY Zenon DEF Holds
<1>3. p + k \in 1 .. Len(s) /\ Len(s) - (p + k) = Len(r) - p
  BY <1>1
<1>4. EntryIn(hs, cs, s[p + k]) \in {NoAddr, a[(t - (Len(s) - (p + k))) % numEntries]}
  BY <1>3, Zenon DEF Holds
<1> HIDE DEF k
<1> QED BY <1>2, <1>3, <1>4, Zenon

LEMMA SameTopDeep ==
    ASSUME NEW s, NEW r, NEW hs, NEW cs, NEW hs2, NEW cs2, Len(s) \in Nat, Len(r) \in Nat,
           SameTop(s, r, hs, cs, hs2, cs2),
           \A p \in 1 .. (Len(s) - numEntries) : EntryIn(hs, cs, s[p]) = NoAddr,
           NEW p \in 1 .. (Len(r) - numEntries)
    PROVE  EntryIn(hs2, cs2, r[p]) = NoAddr
<1> DEFINE k == Len(s) - Len(r)
<1>1. k \in Nat
  BY DEF SameTop
<1>2. p \in 1 .. Len(r) /\ p + k \in 1 .. (Len(s) - numEntries)
  BY <1>1, RASAssumption
<1>3. EntryIn(hs2, cs2, r[p]) = EntryIn(hs, cs, s[p + k])
  BY <1>2 DEF SameTop
<1> HIDE DEF k
<1> QED BY <1>2, <1>3, Zenon

\* The entry of the call at the top of s is e, or lost.
TopIs(s, hs, cs, e) == EntryIn(hs, cs, s[Len(s)]) \in {NoAddr, e}

LEMMA SameTopTop ==
    ASSUME NEW s, NEW r, NEW hs, NEW cs, NEW hs2, NEW cs2, Len(s) \in Nat, Len(r) \in Nat,
           SameTop(s, r, hs, cs, hs2, cs2), Len(r) > 0,
           NEW e, TopIs(s, hs, cs, e)
    PROVE  TopIs(r, hs2, cs2, e)
<1> DEFINE k == Len(s) - Len(r)
<1>1. k \in Nat
  BY DEF SameTop
<1>2. Len(r) \in 1 .. Len(r) /\ Len(r) + k = Len(s)
  BY <1>1
<1>3. EntryIn(hs2, cs2, r[Len(r)]) = EntryIn(hs, cs, s[Len(r) + k])
  BY <1>2 DEF SameTop
<1> HIDE DEF k
<1> QED BY <1>2, <1>3, Zenon DEF TopIs

\* The branches hs2 are hs without the oldest d, and g has the same entries as f from
\* the top down.
Shifted(f, g, hs, cs, hs2, cs2, n, d) ==
    /\ Len(hs) = n + d /\ Len(hs2) = n
    /\ \A i \in 1 .. n : hs2[i] = hs[i + d]
    /\ \A i \in 0 .. n : SameTop(f[i + d], g[i], hs, cs, hs2, cs2)

\* Then g holds what f holds.
LEMMA SameTopFrame ==
    ASSUME NEW f, NEW g, NEW hs, NEW cs, NEW hs2, NEW cs2, NEW n \in Nat, NEW d \in Nat,
           Frame(f, hs, cs), Opens(g, hs2, cs2), Shifted(f, g, hs, cs, hs2, cs2, n, d)
    PROVE  /\ Saved(g, hs2, cs2) /\ Deep(g, hs2, cs2)
           /\ \A a, t : t \in Int /\ Holds(f[n + d], hs, cs, a, t) => Holds(g[n], hs2, cs2, a, t)
<1>0. Len(hs) = n + d /\ Len(hs2) = n
  BY DEF Shifted
<1>1. \A i \in 0 .. n : /\ i + d \in 0 .. Len(hs)
                        /\ Len(f[i + d]) \in Nat /\ Len(g[i]) \in Nat
  <2> TAKE i \in 0 .. n
  <2>1. i + d \in 0 .. Len(hs) /\ Len(hs) \in Nat
    BY <1>0
  <2>2. Len(f[i + d]) \in Nat
    BY <2>1, FrameTypes, Zenon
  <2>3. g[i] \in Seq(Int)
    BY <1>0, Zenon DEF Opens
  <2> QED BY <2>1, <2>2, <2>3
<1>2. Saved(g, hs2, cs2)
  <2> SUFFICES ASSUME NEW i \in 1 .. n, hs2[i].op = "pop", Len(g[i - 1]) > 0
               PROVE  EntryIn(hs2, cs2, g[i - 1][Len(g[i - 1])]) \in {NoAddr, hs2[i].entry}
    BY <1>0, Zenon DEF Saved
  <2>1. i - 1 \in 0 .. n /\ i + d \in 1 .. Len(hs) /\ (i - 1) + d = (i + d) - 1
    BY <1>0
  <2>2. SameTop(f[(i + d) - 1], g[i - 1], hs, cs, hs2, cs2) /\ hs2[i] = hs[i + d]
    BY <2>1, Zenon DEF Shifted
  <2>3. Len(f[(i + d) - 1]) \in Nat /\ Len(g[i - 1]) \in Nat
    BY <1>1, <2>1, Zenon
  <2>4. Len(f[(i + d) - 1]) > 0
    BY <2>2, <2>3 DEF SameTop
  <2>5. hs[i + d].op = "pop"
    BY <2>2
  <2>6. TopIs(f[(i + d) - 1], hs, cs, hs[i + d].entry)
    BY <2>1, <2>4, <2>5, Zenon DEF Frame, Saved, TopIs
  <2>7. TopIs(g[i - 1], hs2, cs2, hs[i + d].entry)
    BY <2>2, <2>3, <2>6, SameTopTop, SMT
  <2> QED BY <2>2, <2>7, Zenon DEF TopIs
<1>3. Deep(g, hs2, cs2)
  <2> SUFFICES ASSUME NEW i \in 0 .. n
               PROVE  \A p \in 1 .. (Len(g[i]) - numEntries) :
                          EntryIn(hs2, cs2, g[i][p]) = NoAddr
    BY <1>0, Zenon DEF Deep
  <2>1. \A p \in 1 .. (Len(f[i + d]) - numEntries) : EntryIn(hs, cs, f[i + d][p]) = NoAddr
    BY <1>1, Zenon DEF Frame, Deep
  <2>2. SameTop(f[i + d], g[i], hs, cs, hs2, cs2) /\ Len(f[i + d]) \in Nat /\ Len(g[i]) \in Nat
    BY <1>1, Zenon DEF Shifted
  <2> QED BY <2>1, <2>2, SameTopDeep, Zenon
<1>4. n \in 0 .. n
  OBVIOUS
<1>5. \A a, t : t \in Int /\ Holds(f[n + d], hs, cs, a, t) => Holds(g[n], hs2, cs2, a, t)
  <2>1. /\ SameTop(f[n + d], g[n], hs, cs, hs2, cs2)
        /\ Len(f[n + d]) \in Nat /\ Len(g[n]) \in Nat
    BY <1>1, <1>4, Zenon DEF Shifted
  <2> QED BY <2>1, SameTopHolds, Zenon
<1> QED BY <1>2, <1>3, <1>5, Zenon

\* Strip: the bottom of callStack leaves every stack that still has it.
Stripped(cs2, f, hs, cs, n, L) ==
    /\ n \in Nat /\ Len(hs) = n /\ L \in Nat \ {0} /\ Len(cs) = L /\ Frame(f, hs, cs)
    /\ Len(cs2) = L - 1 /\ \A p \in 1 .. (L - 1) : cs2[p] = cs[p + 1]

LEMMA StripKeeps ==
    ASSUME NEW f, NEW hs, NEW cs, NEW n, NEW L, NEW cs2, Stripped(cs2, f, hs, cs, n, L)
    PROVE  \E g : /\ Frame(g, hs, cs2)
                  /\ \A a, t : t \in Int /\ Holds(f[n], hs, cs, a, t) => Holds(g[n], hs, cs2, a, t)
<1> SUFFICES ASSUME n \in Nat, Len(hs) = n, L \in Nat \ {0}, Len(cs) = L, Frame(f, hs, cs),
                    Len(cs2) = L - 1, \A p \in 1 .. (L - 1) : cs2[p] = cs[p + 1]
             PROVE  \E g : /\ Frame(g, hs, cs2)
                           /\ \A a, t : t \in Int /\ Holds(f[n], hs, cs, a, t) =>
                                            Holds(g[n], hs, cs2, a, t)
  BY Zenon DEF Stripped
<1> DEFINE k == [i \in 0 .. n |-> IF Len(f[i]) > 0 /\ f[i][1] = 1 - L THEN 1 ELSE 0]
           g == [i \in 0 .. n |-> [p \in 1 .. (Len(f[i]) - k[i]) |-> f[i][p + k[i]]]]
<1>1. \A i \in 0 .. n :
          /\ f[i] \in Seq(Int) /\ Len(f[i]) \in Nat
          /\ \A p \in 1 .. Len(f[i]) : f[i][p] \in (1 - L) .. i
  BY FrameTypes
<1>2. \A i \in 0 .. n : /\ k[i] \in 0 .. 1 /\ k[i] <= Len(f[i])
                        /\ k[i] = 1 <=> Len(f[i]) > 0 /\ f[i][1] = 1 - L
  <2> TAKE i \in 0 .. n
  <2>1. k[i] = IF Len(f[i]) > 0 /\ f[i][1] = 1 - L THEN 1 ELSE 0
    OBVIOUS
  <2>2. Len(f[i]) \in Nat
    BY <1>1
  <2> HIDE DEF k
  <2> QED BY <2>1, <2>2
<1> HIDE DEF k
<1>3. \A i \in 0 .. n :
          /\ g[i] \in Seq(Int) /\ Len(g[i]) = Len(f[i]) - k[i] /\ Len(g[i]) \in Nat
          /\ \A p \in 1 .. Len(g[i]) : p + k[i] \in 1 .. Len(f[i]) /\ g[i][p] = f[i][p + k[i]]
  <2> SUFFICES ASSUME NEW i \in 0 .. n
               PROVE  /\ g[i] \in Seq(Int) /\ Len(g[i]) = Len(f[i]) - k[i] /\ Len(g[i]) \in Nat
                      /\ \A p \in 1 .. Len(g[i]) :
                            p + k[i] \in 1 .. Len(f[i]) /\ g[i][p] = f[i][p + k[i]]
    BY Zenon
  <2>1. k[i] \in 0 .. 1 /\ k[i] <= Len(f[i]) /\ Len(f[i]) \in Nat /\ f[i] \in Seq(Int)
    BY <1>1, <1>2
  <2>2. g[i] = [p \in 1 .. (Len(f[i]) - k[i]) |-> f[i][p + k[i]]]
    OBVIOUS
  <2>3. Len(f[i]) - k[i] \in Nat
    BY <2>1
  <2>4. \A p \in 1 .. (Len(f[i]) - k[i]) : p + k[i] \in 1 .. Len(f[i])
    BY <2>1, KeptPosition, Zenon
  <2>5. \A p \in 1 .. (Len(f[i]) - k[i]) : f[i][p + k[i]] \in Int
    BY <2>1, <2>4
  <2> HIDE DEF g
  <2>6. g[i] \in [1 .. (Len(f[i]) - k[i]) -> Int]
    BY <2>2, <2>5
  <2>7. g[i] \in Seq(Int) /\ Len(g[i]) = Len(f[i]) - k[i]
    BY <2>3, <2>6, StackIs, Zenon
  <2>8. \A p \in 1 .. (Len(f[i]) - k[i]) : g[i][p] = f[i][p + k[i]]
    BY <2>2
  <2> QED BY <2>3, <2>4, <2>7, <2>8, Zenon
<1>4. g \in [0 .. n -> Seq(Int)]
  <2>1. g = [i \in 0 .. n |-> g[i]]
    OBVIOUS
  <2> HIDE DEF g
  <2> QED BY <1>3, <2>1
<1> HIDE DEF g
<1>5. \A i \in 0 .. n : \A p, q \in 1 .. Len(f[i]) : q < p => f[i][q] < f[i][p]
  <2> SUFFICES ASSUME NEW i \in 0 .. n, NEW p \in 1 .. Len(f[i]), NEW q \in 1 .. Len(f[i]), q < p
               PROVE  f[i][q] < f[i][p]
    OBVIOUS
  <2>1. q \in 1 .. (p - 1)
    BY <1>1
  <2> QED BY <2>1, Zenon DEF Frame, Ordered
\* What is left is above the bottom of cs.
<1>6. \A i \in 0 .. n : \A p \in 1 .. Len(g[i]) : g[i][p] \in (2 - L) .. i
  <2> TAKE i \in 0 .. n
  <2> TAKE p \in 1 .. Len(g[i])
  <2>1. /\ p + k[i] \in 1 .. Len(f[i]) /\ g[i][p] = f[i][p + k[i]] /\ k[i] \in 0 .. 1
        /\ k[i] = 1 <=> Len(f[i]) > 0 /\ f[i][1] = 1 - L
    BY <1>2, <1>3, Zenon
  <2>2. Len(f[i]) \in Nat /\ Len(g[i]) \in Nat
    BY <1>1, <1>3, Zenon
  <2>3. 1 \in 1 .. Len(f[i]) /\ Len(f[i]) > 0
    BY <2>1, <2>2
  <2>4. f[i][1] \in (1 - L) .. i /\ f[i][p + k[i]] \in (1 - L) .. i
    BY <1>1, <2>1, <2>3, Zenon
  <2>5. 1 < p + k[i] => f[i][1] < f[i][p + k[i]]
    BY <1>5, <2>1, <2>3, Zenon
  <2>6. k[i] = 1 => 1 < p + k[i]
    OBVIOUS
  <2>7. p + k[i] = 1 \/ 1 < p + k[i]
    BY <2>1
  <2>8. f[i][p + k[i]] # 1 - L
    BY <2>1, <2>3, <2>4, <2>5, <2>6, <2>7
  <2>9. L \in Nat /\ i \in Nat
    OBVIOUS
  <2>10. f[i][p + k[i]] \in (2 - L) .. i
    BY <2>4, <2>8, <2>9, AboveFirst, Zenon
  <2> QED BY <2>1, <2>10, Zenon
<1>7. \A i \in 0 .. n : \A p \in 1 .. Len(g[i]) :
          EntryIn(hs, cs2, g[i][p]) = EntryIn(hs, cs, f[i][p + k[i]])
  <2> TAKE i \in 0 .. n
  <2> TAKE p \in 1 .. Len(g[i])
  <2> DEFINE o == g[i][p]
  <2>1. o \in (2 - L) .. i /\ f[i][p + k[i]] = o
    BY <1>3, <1>6, Zenon
  <2> HIDE DEF o
  <2>2. ~(o > 0) => /\ L - 1 + o \in 1 .. (L - 1)
                    /\ (L - 1 + o) + 1 = L + o
    BY <2>1
  <2>3. ~(o > 0) => cs2[L - 1 + o] = cs[L + o]
    BY <2>2, Zenon
  <2>4. EntryIn(hs, cs2, o) = EntryIn(hs, cs, o)
    BY <2>3, Zenon DEF EntryIn
  <2> QED BY <2>1, <2>4 DEF o
<1>8. Opens(g, hs, cs2)
  <2>0. 0 \in 0 .. n
    OBVIOUS
  <2>1. Len(f[0]) = L /\ \A p \in 1 .. L : f[0][p] = p - L
    BY Zenon DEF Frame, Opens
  <2>2. k[0] = 1
    BY <1>2, <2>0, <2>1
  <2>a. Len(g[0]) = Len(f[0]) - k[0] /\ \A p \in 1 .. Len(g[0]) : g[0][p] = f[0][p + k[0]]
    BY <1>3, <2>0, Zenon
  <2>3. Len(g[0]) = L - 1 /\ \A p \in 1 .. (L - 1) : g[0][p] = f[0][p + 1]
    BY <2>1, <2>2, <2>a
  <2>4. \A p \in 1 .. (L - 1) : g[0][p] = p - (L - 1)
    BY <2>1, <2>3
  <2>5. ASSUME NEW i \in 1 .. n PROVE Follows(g[i - 1], g[i], hs[i].op, i)
    <3> DEFINE s == f[i - 1]
               t == f[i]
               a == k[i - 1]
               b == k[i]
               u == g[i - 1]
               v == g[i]
    <3>0. i - 1 \in 0 .. n /\ i \in 0 .. n
      OBVIOUS
    <3>1. /\ Len(s) \in Nat /\ Len(t) \in Nat /\ a \in 0 .. 1 /\ b \in 0 .. 1
          /\ a <= Len(s) /\ b <= Len(t) /\ Len(u) = Len(s) - a /\ Len(v) = Len(t) - b
      BY <1>1, <1>2, <1>3, <3>0, Zenon
    <3>2. /\ a = 1 <=> Len(s) > 0 /\ s[1] = 1 - L
          /\ b = 1 <=> Len(t) > 0 /\ t[1] = 1 - L
      BY <1>2, <3>0, Zenon
    <3>3. /\ \A p \in 1 .. Len(u) : u[p] = s[p + a]
          /\ \A p \in 1 .. Len(v) : v[p] = t[p + b]
      BY <1>3, <3>0, Zenon
    <3>4. Follows(s, t, hs[i].op, i)
      BY Zenon DEF Frame, Opens
    <3>5. i \in Int /\ i > 0 /\ i # 1 - L
      OBVIOUS
    <3>6. hs[i].op \notin {"push", "pop"} => v = u
      <4>1. g[i] = [p \in 1 .. (Len(f[i]) - k[i]) |-> f[i][p + k[i]]]
        BY <3>0 DEF g
      <4>2. g[i - 1] = [p \in 1 .. (Len(f[i - 1]) - k[i - 1]) |-> f[i - 1][p + k[i - 1]]]
        BY <3>0 DEF g
      <4>3. k[i] = IF Len(f[i]) > 0 /\ f[i][1] = 1 - L THEN 1 ELSE 0
        BY <3>0 DEF k
      <4>4. k[i - 1] = IF Len(f[i - 1]) > 0 /\ f[i - 1][1] = 1 - L THEN 1 ELSE 0
        BY <3>0 DEF k
      <4>5. ASSUME hs[i].op \notin {"push", "pop"} PROVE g[i] = g[i - 1]
        <5>1. f[i] = f[i - 1]
          BY <3>4, <4>5, Zenon DEF Follows
        <5>2. k[i] = k[i - 1]
          <6>1. k[i] = IF Len(f[i - 1]) > 0 /\ f[i - 1][1] = 1 - L THEN 1 ELSE 0
            BY <4>3, <5>1
          <6> QED BY <4>4, <6>1, Zenon
        <5> QED BY <4>1, <4>2, <5>1, <5>2, Zenon
      <4> QED BY <4>5, Zenon
    <3> HIDE DEF s, t, a, b, u, v
    <3>7. CASE hs[i].op = "push"
      <4>1. /\ Len(t) = Len(s) + 1 /\ t[Len(s) + 1] = i
            /\ \A p \in 1 .. Len(s) : t[p] = s[p]
        BY <3>4, <3>7, Zenon DEF Follows
      <4>2. a = b
        <5>1. CASE Len(s) = 0
          <6>1. t[1] = i
            BY <4>1, <5>1
          <6> QED BY <3>1, <3>2, <3>5, <5>1, <6>1
        <5>2. CASE Len(s) > 0
          <6>1. t[1] = s[1]
            BY <3>1, <4>1, <5>2
          <6> QED BY <3>1, <3>2, <4>1, <5>2, <6>1
        <5> QED BY <3>1, <5>1, <5>2
      <4>3. Len(v) = Len(u) + 1 /\ Len(u) + 1 \in 1 .. Len(v) /\ (Len(u) + 1) + b = Len(s) + 1
        BY <3>1, <4>1, <4>2
      <4>4. v[Len(u) + 1] = i
        <5>1. v[Len(u) + 1] = t[(Len(u) + 1) + b]
          BY <3>3, <4>3, Zenon
        <5> QED BY <4>1, <4>3, <5>1
      <4>5. ASSUME NEW p \in 1 .. Len(u) PROVE v[p] = u[p]
        <5>1. p \in 1 .. Len(v) /\ p + a \in 1 .. Len(s)
          <6>1. p \in 1 .. (Len(s) - a) /\ Len(v) = (Len(s) - a) + 1
            BY <3>1, <4>3, Zenon
          <6>2. Len(s) \in Nat /\ a \in 0 .. 1 /\ a <= Len(s)
            BY <3>1
          <6> QED BY <6>1, <6>2
        <5> QED BY <3>3, <4>1, <4>2, <5>1, Zenon
      <4>6. Follows(u, v, hs[i].op, i)
        BY <3>7, <4>3, <4>4, <4>5 DEF Follows
      <4> QED BY <4>6 DEF u, v
    <3>8. CASE hs[i].op = "pop"
      <4>1. /\ Len(t) = IF Len(s) = 0 THEN 0 ELSE Len(s) - 1
            /\ \A p \in 1 .. Len(t) : t[p] = s[p]
        BY <3>4, <3>8, Zenon DEF Follows
      <4>2. Len(t) > 0 => a = b
        <5> SUFFICES ASSUME Len(t) > 0 PROVE a = b
          OBVIOUS
        <5>1. t[1] = s[1] /\ Len(s) > 0
          BY <3>1, <4>1
        <5> QED BY <3>1, <3>2, <5>1
      <4>3. Len(v) = IF Len(u) = 0 THEN 0 ELSE Len(u) - 1
        <5>1. CASE Len(t) = 0
          BY <3>1, <4>1, <5>1
        <5>2. CASE Len(t) > 0
          BY <3>1, <4>1, <4>2, <5>2
        <5> QED BY <3>1, <5>1, <5>2
      <4>4. ASSUME NEW p \in 1 .. Len(v) PROVE v[p] = u[p]
        <5>1. Len(t) > 0 /\ a = b
          BY <3>1, <4>2
        <5>2. p \in 1 .. Len(u) /\ p + a \in 1 .. Len(t)
          BY <3>1, <4>1, <5>1
        <5> QED BY <3>3, <4>1, <5>1, <5>2, Zenon
      <4>5. Follows(u, v, hs[i].op, i)
        BY <3>8, <4>3, <4>4 DEF Follows
      <4> QED BY <4>5 DEF u, v
    <3>9. CASE hs[i].op \notin {"push", "pop"}
      <4>1. Follows(u, v, hs[i].op, i)
        BY <3>6, <3>9 DEF Follows
      <4> QED BY <4>1 DEF u, v
    <3> QED BY <3>7, <3>8, <3>9
  <2> QED BY <1>4, <2>3, <2>4, <2>5 DEF Opens
<1>9. Ordered(g, hs, cs2)
  <2> SUFFICES ASSUME NEW i \in 0 .. n, NEW p \in 1 .. Len(g[i])
               PROVE  /\ 1 - Len(cs2) <= g[i][p] /\ g[i][p] <= i
                      /\ g[i][p] > 0 => hs[g[i][p]].op = "push"
                      /\ \A q \in 1 .. (p - 1) : g[i][q] < g[i][p]
    BY Zenon DEF Ordered
  <2>1. p + k[i] \in 1 .. Len(f[i]) /\ g[i][p] = f[i][p + k[i]] /\ g[i][p] \in (2 - L) .. i
    BY <1>3, <1>6, Zenon
  <2>2. f[i][p + k[i]] > 0 => hs[f[i][p + k[i]]].op = "push"
    BY <2>1, Zenon DEF Frame, Ordered
  <2>3. 1 - Len(cs2) <= g[i][p] /\ g[i][p] <= i
    BY <2>1
  <2>4. ASSUME NEW q \in 1 .. (p - 1) PROVE g[i][q] < g[i][p]
    <3>0. Len(g[i]) \in Nat /\ k[i] \in 0 .. 1
      BY <1>2, <1>3, Zenon
    <3>1. q \in 1 .. Len(g[i]) /\ q + k[i] < p + k[i]
      BY <3>0
    <3>2. q + k[i] \in 1 .. Len(f[i]) /\ g[i][q] = f[i][q + k[i]]
      BY <1>3, <3>1, Zenon
    <3>3. f[i][q + k[i]] < f[i][p + k[i]]
      BY <1>5, <2>1, <3>1, <3>2, Zenon
    <3> QED BY <2>1, <3>2, <3>3, Zenon
  <2> QED BY <2>1, <2>2, <2>3, <2>4, Zenon
<1>10. Remembered(g, hs)
  <2> SUFFICES ASSUME NEW j \in 0 .. n, NEW i \in 0 .. j, NEW p \in 1 .. Len(g[j]), g[j][p] <= i
               PROVE  p <= Len(g[i]) /\ g[i][p] = g[j][p]
    BY Zenon DEF Remembered
  <2>0. i \in 0 .. n
    OBVIOUS
  <2> DEFINE x == p + k[j]
  <2>1. /\ x \in 1 .. Len(f[j]) /\ g[j][p] = f[j][x]
        /\ Len(f[j]) \in Nat /\ Len(f[i]) \in Nat /\ Len(g[j]) \in Nat
    BY <1>1, <1>3, <2>0, Zenon
  <2> HIDE DEF x
  <2>2. x <= Len(f[i]) /\ f[i][x] = f[j][x]
    BY <2>1, Zenon DEF Frame, Remembered
  <2>3. /\ k[i] \in 0 .. 1 /\ k[j] \in 0 .. 1
        /\ k[i] = 1 <=> Len(f[i]) > 0 /\ f[i][1] = 1 - L
        /\ k[j] = 1 <=> Len(f[j]) > 0 /\ f[j][1] = 1 - L
    BY <1>2, <2>0, Zenon
  <2>4. 1 \in 1 .. Len(f[j]) /\ Len(f[j]) > 0 /\ Len(f[i]) > 0
    BY <2>1, <2>2
  <2>5. f[j][1] <= i
    <3>1. f[j][1] \in (1 - L) .. j /\ f[j][x] \in (1 - L) .. j
      BY <1>1, <2>1, <2>4, Zenon
    <3>2. CASE x = 1
      BY <2>1, <3>2
    <3>3. CASE 1 < x
      <4>1. f[j][1] < f[j][x]
        BY <1>5, <2>1, <2>4, <3>3, Zenon
      <4>2. f[j][x] <= i
        BY <2>1
      <4> QED BY <3>1, <4>1, <4>2
    <3>4. x = 1 \/ 1 < x
      BY <2>1
    <3> QED BY <3>2, <3>3, <3>4
  <2>6. f[i][1] = f[j][1]
    BY <2>4, <2>5, Zenon DEF Frame, Remembered
  <2>7. k[i] = k[j]
    BY <2>3, <2>4, <2>6
  <2>8. p \in 1 .. Len(g[i])
    <3>1. Len(g[i]) = Len(f[i]) - k[i]
      BY <1>3, <2>0, Zenon
    <3>2. p + k[i] <= Len(f[i])
      BY <2>2, <2>7 DEF x
    <3>3. Len(f[i]) \in Nat /\ Len(g[j]) \in Nat /\ k[i] \in 0 .. 1
      BY <2>1, <2>3
    <3> QED BY <3>1, <3>2, <3>3, SMTT(30)
  <2>9. g[i][p] = f[i][p + k[i]]
    BY <1>3, <2>0, <2>8, Zenon
  <2>10. p <= Len(g[i])
    BY <2>8
  <2> QED BY <2>1, <2>2, <2>7, <2>9, <2>10, Zenon DEF x
<1>11. \A i \in 0 .. n : SameTop(f[i], g[i], hs, cs, hs, cs2)
  <2> TAKE i \in 0 .. n
  <2>1. k[i] \in 0 .. 1 /\ Len(g[i]) = Len(f[i]) - k[i] /\ Len(f[i]) \in Nat
    BY <1>1, <1>2, <1>3, Zenon
  <2>2. Len(g[i]) <= Len(f[i]) /\ Len(f[i]) - Len(g[i]) = k[i]
    BY <2>1
  <2> QED BY <1>7, <2>2, Zenon DEF SameTop
<1>12. /\ Saved(g, hs, cs2) /\ Deep(g, hs, cs2)
       /\ \A a, t : t \in Int /\ Holds(f[n], hs, cs, a, t) => Holds(g[n], hs, cs2, a, t)
  <2>1. Len(hs) = n + 0 /\ n + 0 = n /\ 0 \in Nat
    OBVIOUS
  <2>2. \A i \in 1 .. n : hs[i] = hs[i + 0]
    OBVIOUS
  <2>3. \A i \in 0 .. n : SameTop(f[i + 0], g[i], hs, cs, hs, cs2)
    <3> TAKE i \in 0 .. n
    <3>1. i + 0 = i
      OBVIOUS
    <3> QED BY <1>11, <3>1, Zenon
  <2>4. /\ Saved(g, hs, cs2) /\ Deep(g, hs, cs2)
        /\ \A a, t : t \in Int /\ Holds(f[n + 0], hs, cs, a, t) => Holds(g[n], hs, cs2, a, t)
    <3>1. Shifted(f, g, hs, cs, hs, cs2, n, 0)
      BY <2>1, <2>2, <2>3, Zenon DEF Shifted
    <3> QED BY <1>8, <2>1, <3>1, SameTopFrame, Zenon
  <2> QED BY <2>1, <2>4, Zenon
<1> QED BY <1>8, <1>9, <1>10, <1>12, Zenon DEF Frame

-----------------------------------------------------------------------------
\* The oldest branch commits: hs2 are the others, and cs2 has the entries of the calls
\* that are open after it.
Retired(f, hs, cs, hs2, cs2, n) ==
    /\ Len(hs) = n + 1 /\ Len(hs2) = n /\ \A i \in 1 .. n : hs2[i] = hs[i + 1]
    /\ Len(cs2) \in Nat /\ Len(f[1]) = Len(cs2)
    /\ \A p \in 1 .. Len(cs2) :
           f[1][p] = p - Len(cs) /\ cs2[p] = EntryIn(hs, cs, p - Len(cs))

\* The younger branches move down by one and the committed calls are counted from the
\* new top of callStack.
LEMMA CommitKeeps ==
    ASSUME NEW f, NEW hs, NEW cs, NEW hs2, NEW cs2, NEW n \in Nat, NEW L \in Nat, Len(cs) = L,
           Frame(f, hs, cs), Retired(f, hs, cs, hs2, cs2, n)
    PROVE  \E g : /\ Frame(g, hs2, cs2)
                  /\ \A a, t : t \in Int /\ Holds(f[n + 1], hs, cs, a, t) =>
                                   Holds(g[n], hs2, cs2, a, t)
<1> DEFINE M == Len(cs2)
           r(o) == IF o > 1 THEN o - 1 ELSE (o + L) - M
           g == [i \in 0 .. n |-> [p \in 1 .. Len(f[i + 1]) |-> r(f[i + 1][p])]]
<1>1. M \in Nat /\ Len(hs) = n + 1 /\ Len(hs2) = n /\ Len(f[1]) = M
  BY DEF Retired
<1>2. \A i \in 1 .. n : hs2[i] = hs[i + 1]
  BY DEF Retired
<1>3. \A p \in 1 .. M : f[1][p] = p - L /\ cs2[p] = EntryIn(hs, cs, p - L)
  BY DEF Retired
<1> HIDE DEF M
<1>4. \A i \in 1 .. (n + 1) :
          /\ f[i] \in Seq(Int) /\ Len(f[i]) \in Nat
          /\ \A p \in 1 .. Len(f[i]) : f[i][p] \in (1 - L) .. i
  <2>1. Len(hs) \in Nat /\ \A i \in 1 .. (n + 1) : i \in 0 .. Len(hs)
    BY <1>1
  <2> QED BY <2>1, FrameTypes, Zenon
<1>5. \A i \in 0 .. n : i + 1 \in 1 .. (n + 1)
  OBVIOUS
<1>6. \A i \in 0 .. n :
          /\ g[i] \in Seq(Int) /\ Len(g[i]) = Len(f[i + 1]) /\ Len(g[i]) \in Nat
          /\ \A p \in 1 .. Len(g[i]) : g[i][p] = r(f[i + 1][p])
  <2> TAKE i \in 0 .. n
  <2>1. Len(f[i + 1]) \in Nat /\ \A p \in 1 .. Len(f[i + 1]) : f[i + 1][p] \in (1 - L) .. (i + 1)
    BY <1>4, <1>5, Zenon
  <2>2. g[i] = [p \in 1 .. Len(f[i + 1]) |-> r(f[i + 1][p])]
    OBVIOUS
  <2>3. \A o \in Int : r(o) \in Int
    BY <1>1
  <2>4. \A p \in 1 .. Len(f[i + 1]) : f[i + 1][p] \in Int
    BY <2>1
  <2> HIDE DEF g, r
  <2>5. g[i] \in [1 .. Len(f[i + 1]) -> Int]
    BY <2>2, <2>3, <2>4, Zenon
  <2>6. g[i] \in Seq(Int) /\ Len(g[i]) = Len(f[i + 1])
    BY <2>1, <2>5, StackIs, Zenon
  <2>7. \A p \in 1 .. Len(f[i + 1]) : g[i][p] = r(f[i + 1][p])
    BY <2>2, Zenon
  <2> QED BY <2>1, <2>6, <2>7, Zenon
<1>7. g \in [0 .. n -> Seq(Int)]
  <2>1. g = [i \in 0 .. n |-> g[i]]
    OBVIOUS
  <2> HIDE DEF g
  <2> QED BY <1>6, <2>1
<1> HIDE DEF g
\* A call that is open after the oldest branch is one of a younger branch, or one of
\* those cs2 has, in its place.
<1>8. \A i \in 1 .. (n + 1) : \A p \in 1 .. Len(f[i]) :
          \/ f[i][p] > 1
          \/ f[i][p] <= 1 /\ p \in 1 .. M /\ f[i][p] = p - L
  <2> SUFFICES ASSUME NEW i \in 1 .. (n + 1), NEW p \in 1 .. Len(f[i]), ~(f[i][p] > 1)
               PROVE  f[i][p] <= 1 /\ p \in 1 .. M /\ f[i][p] = p - L
    OBVIOUS
  <2>1. Len(f[i]) \in Nat /\ f[i][p] \in (1 - L) .. i
    BY <1>4, Zenon
  <2>2. f[i][p] <= 1
    BY <2>1
  <2>3. i \in 0 .. Len(hs) /\ 1 \in 0 .. i
    BY <1>1
  <2>4. p <= Len(f[1]) /\ f[1][p] = f[i][p]
    BY <2>2, <2>3, Zenon DEF Frame, Remembered
  <2>5. p \in 1 .. M
    BY <1>1, <2>1, <2>4
  <2> QED BY <1>3, <2>2, <2>4, <2>5
\* What r does to such a call.
<1>9. \A i \in 1 .. (n + 1) : \A p \in 1 .. Len(f[i]) :
          \/ f[i][p] \in 2 .. i /\ r(f[i][p]) = f[i][p] - 1
          \/ f[i][p] <= 1 /\ p \in 1 .. M /\ f[i][p] = p - L /\ r(f[i][p]) = p - M
  <2> TAKE i \in 1 .. (n + 1)
  <2> TAKE p \in 1 .. Len(f[i])
  <2>1. f[i][p] \in (1 - L) .. i
    BY <1>4, Zenon
  <2>2. CASE f[i][p] > 1
    BY <2>1, <2>2
  <2>3. CASE f[i][p] <= 1 /\ p \in 1 .. M /\ f[i][p] = p - L
    <3>1. r(f[i][p]) = (f[i][p] + L) - M
      BY <2>1, <2>3
    <3>2. ((p - L) + L) - M = p - M
      BY <1>1, <2>3
    <3> QED BY <2>3, <3>1, <3>2
  <2> QED BY <1>8, <2>2, <2>3, Zenon
<1>10. \A i \in 1 .. (n + 1) : \A p \in 1 .. Len(f[i]) :
           EntryIn(hs2, cs2, r(f[i][p])) = EntryIn(hs, cs, f[i][p])
  <2> TAKE i \in 1 .. (n + 1)
  <2> TAKE p \in 1 .. Len(f[i])
  <2> DEFINE o == f[i][p]
             q == r(o)
  <2>1. CASE o \in 2 .. i /\ q = o - 1
    <3> HIDE DEF o, q
    <3>1. q \in 1 .. n /\ q + 1 = o /\ q > 0 /\ o > 0
      BY <2>1
    <3>2. hs2[q] = hs[o]
      BY <1>2, <3>1, Zenon
    <3>3. EntryIn(hs2, cs2, q) = EntryIn(hs, cs, o)
      BY <3>1, <3>2, Zenon DEF EntryIn
    <3> QED BY <3>3 DEF o, q
  <2>2. CASE o <= 1 /\ p \in 1 .. M /\ o = p - L /\ q = p - M
    <3> HIDE DEF o, q
    <3>1. ~(q > 0) /\ M + q = p
      BY <1>1, <2>2
    <3>2. EntryIn(hs2, cs2, q) = cs2[p]
      BY <3>1, Zenon DEF EntryIn, M
    <3>3. cs2[p] = EntryIn(hs, cs, o)
      BY <1>3, <2>2, Zenon
    <3> QED BY <3>2, <3>3 DEF o, q
  <2> HIDE DEF r
  <2> QED BY <1>9, <2>1, <2>2, Zenon
<1> HIDE DEF r
<1>11. Opens(g, hs2, cs2)
  <2>1. 0 \in 0 .. n /\ 1 \in 1 .. (n + 1) /\ 0 + 1 = 1
    OBVIOUS
  <2>2. Len(g[0]) = M /\ \A p \in 1 .. M : g[0][p] = r(f[1][p])
    BY <1>1, <1>6, <2>1, ZenonT(30)
  <2>3. \A p \in 1 .. M : r(f[1][p]) = p - M
    <3> TAKE p \in 1 .. M
    <3>1. p \in 1 .. Len(f[1])
      BY <1>1
    <3>2. ~(f[1][p] \in 2 .. 1)
      OBVIOUS
    <3> QED BY <1>9, <2>1, <3>1, <3>2, Zenon
  <2>4. ASSUME NEW i \in 1 .. n PROVE Follows(g[i - 1], g[i], hs2[i].op, i)
    <3> DEFINE s == f[i]
               t == f[i + 1]
               u == g[i - 1]
               v == g[i]
    <3>0. /\ i - 1 \in 0 .. n /\ i \in 0 .. n /\ (i - 1) + 1 = i /\ i + 1 \in 1 .. Len(hs)
          /\ (i + 1) - 1 = i
      BY <1>1
    <3>1. Follows(s, t, hs[i + 1].op, i + 1) /\ hs2[i] = hs[i + 1]
      <4>1. \A j \in 1 .. Len(hs) : Follows(f[j - 1], f[j], hs[j].op, j)
        BY Zenon DEF Frame, Opens
      <4>2. Follows(f[(i + 1) - 1], f[i + 1], hs[i + 1].op, i + 1)
        BY <3>0, <4>1, Zenon
      <4> QED BY <1>2, <3>0, <4>2, Zenon
    <3>2. /\ Len(u) = Len(s) /\ Len(u) \in Nat /\ \A p \in 1 .. Len(u) : u[p] = r(s[p])
          /\ Len(v) = Len(t) /\ Len(v) \in Nat /\ \A p \in 1 .. Len(v) : v[p] = r(t[p])
      BY <1>6, <3>0, Zenon
    <3>3. hs2[i].op \notin {"push", "pop"} => v = u
      <4> SUFFICES ASSUME hs2[i].op \notin {"push", "pop"} PROVE v = u
        OBVIOUS
      <4>1. f[i + 1] = f[i]
        BY <3>1, Zenon DEF Follows
      <4>2. g[i] = [p \in 1 .. Len(f[i + 1]) |-> r(f[i + 1][p])]
        BY <3>0 DEF g
      <4>3. g[i - 1] = [p \in 1 .. Len(f[(i - 1) + 1]) |-> r(f[(i - 1) + 1][p])]
        BY <3>0 DEF g
      <4> QED BY <3>0, <4>1, <4>2, <4>3, ZenonT(30)
    <3>4. r(i + 1) = i
      BY DEF r
    <3> HIDE DEF s, t, u, v
    <3>5. CASE hs2[i].op = "push"
      <4>1. /\ Len(t) = Len(s) + 1 /\ t[Len(s) + 1] = i + 1
            /\ \A p \in 1 .. Len(s) : t[p] = s[p]
        BY <3>1, <3>5, Zenon DEF Follows
      <4>2. Len(v) = Len(u) + 1 /\ Len(u) + 1 \in 1 .. Len(v)
        BY <3>2, <4>1
      <4>3. v[Len(u) + 1] = i
        BY <3>2, <3>4, <4>1, <4>2, Zenon
      <4>4. ASSUME NEW p \in 1 .. Len(u) PROVE v[p] = u[p]
        <5>1. p \in 1 .. Len(v)
          BY <3>2, <4>2
        <5> QED BY <3>2, <4>1, <5>1, Zenon
      <4>5. Follows(u, v, hs2[i].op, i)
        BY <3>5, <4>2, <4>3, <4>4 DEF Follows
      <4> QED BY <4>5 DEF u, v
    <3>6. CASE hs2[i].op = "pop"
      <4>1. /\ Len(t) = IF Len(s) = 0 THEN 0 ELSE Len(s) - 1
            /\ \A p \in 1 .. Len(t) : t[p] = s[p]
        BY <3>1, <3>6, Zenon DEF Follows
      <4>2. Len(v) = IF Len(u) = 0 THEN 0 ELSE Len(u) - 1
        BY <3>2, <4>1
      <4>3. ASSUME NEW p \in 1 .. Len(v) PROVE v[p] = u[p]
        <5>1. p \in 1 .. Len(u)
          BY <3>2, <4>2
        <5> QED BY <3>2, <4>1, <5>1, Zenon
      <4>4. Follows(u, v, hs2[i].op, i)
        BY <3>6, <4>2, <4>3 DEF Follows
      <4> QED BY <4>4 DEF u, v
    <3>7. CASE hs2[i].op \notin {"push", "pop"}
      <4>1. Follows(u, v, hs2[i].op, i)
        BY <3>3, <3>7 DEF Follows
      <4> QED BY <4>1 DEF u, v
    <3> QED BY <3>5, <3>6, <3>7
  <2>5. \A p \in 1 .. M : g[0][p] = p - M
    BY <2>2, <2>3
  <2> QED BY <1>1, <1>7, <2>2, <2>4, <2>5 DEF Opens, M
<1>12. Ordered(g, hs2, cs2)
  <2> SUFFICES ASSUME NEW i \in 0 .. n, NEW p \in 1 .. Len(g[i])
               PROVE  /\ 1 - M <= g[i][p] /\ g[i][p] <= i
                      /\ g[i][p] > 0 => hs2[g[i][p]].op = "push"
                      /\ \A q \in 1 .. (p - 1) : g[i][q] < g[i][p]
    BY <1>1, Zenon DEF Ordered, M
  <2> DEFINE j == i + 1
             s == f[j]
  <2>0. j \in 1 .. (n + 1) /\ j \in 0 .. Len(hs) /\ i = j - 1
    BY <1>1
  <2> HIDE DEF j
  <2>1. /\ Len(g[i]) = Len(s) /\ Len(s) \in Nat
        /\ \A q \in 1 .. Len(s) : g[i][q] = r(s[q])
    BY <1>6, Zenon DEF j
  <2>2. \A q \in 1 .. Len(s) : \/ s[q] \in 2 .. j /\ r(s[q]) = s[q] - 1
                               \/ s[q] <= 1 /\ q \in 1 .. M /\ s[q] = q - L /\ r(s[q]) = q - M
    BY <1>9, <2>0, Zenon
  <2>3. \A q \in 1 .. Len(s) : s[q] \in (1 - L) .. j
    BY <1>4, <2>0, Zenon
  <2>4. \A q \in 1 .. Len(s) : /\ s[q] > 0 => hs[s[q]].op = "push"
                               /\ \A b \in 1 .. (q - 1) : s[b] < s[q]
    BY <2>0, Zenon DEF Frame, Ordered
  <2> HIDE DEF s
  <2>5. p \in 1 .. Len(s) /\ p \in Nat
    BY <2>1
  <2>6. /\ 1 - M <= r(s[p]) /\ r(s[p]) <= i
        /\ r(s[p]) > 0 => s[p] \in 2 .. j /\ r(s[p]) = s[p] - 1
    <3>1. CASE s[p] \in 2 .. j /\ r(s[p]) = s[p] - 1
      BY <1>1, <2>0, <3>1
    <3>2. CASE s[p] <= 1 /\ p \in 1 .. M /\ s[p] = p - L /\ r(s[p]) = p - M
      BY <1>1, <2>0, <3>2
    <3> QED BY <2>2, <2>5, <3>1, <3>2, Zenon
  <2>7. r(s[p]) > 0 => hs2[r(s[p])].op = "push"
    <3> SUFFICES ASSUME r(s[p]) > 0 PROVE hs2[r(s[p])].op = "push"
      OBVIOUS
    <3> DEFINE o == s[p]
    <3>1. o \in 2 .. j /\ r(o) = o - 1
      BY <2>6
    <3>2. o > 0 => hs[o].op = "push"
      BY <2>4, <2>5, Zenon
    <3> HIDE DEF o
    <3>3. o - 1 \in 1 .. n /\ (o - 1) + 1 = o /\ o > 0
      BY <2>0, <3>1
    <3>4. hs2[o - 1] = hs[o]
      BY <1>2, <3>3, Zenon
    <3>5. hs2[r(o)].op = "push"
      BY <3>1, <3>2, <3>3, <3>4
    <3> QED BY <3>5 DEF o
  <2>8. ASSUME NEW b \in 1 .. (p - 1) PROVE r(s[b]) < r(s[p])
    <3>1. b \in 1 .. Len(s) /\ b < p /\ b \in Nat
      BY <2>1, <2>5
    <3>2. s[b] < s[p]
      BY <2>4, <2>5, Zenon
    <3>3. /\ \/ s[b] \in 2 .. j /\ r(s[b]) = s[b] - 1
             \/ s[b] <= 1 /\ b \in 1 .. M /\ s[b] = b - L /\ r(s[b]) = b - M
          /\ \/ s[p] \in 2 .. j /\ r(s[p]) = s[p] - 1
             \/ s[p] <= 1 /\ p \in 1 .. M /\ s[p] = p - L /\ r(s[p]) = p - M
      BY <2>2, <2>5, <3>1, Zenon
    <3>4. s[b] \in (1 - L) .. j /\ s[p] \in (1 - L) .. j
      BY <2>3, <2>5, <3>1, Zenon
    <3>5. CASE s[b] \in 2 .. j /\ r(s[b]) = s[b] - 1
      <4>1. s[p] \in 2 .. j /\ r(s[p]) = s[p] - 1
        BY <3>2, <3>3, <3>4, <3>5
      <4> QED BY <3>2, <3>5, <4>1, SMTT(30)
    <3>6. CASE b \in 1 .. M /\ r(s[b]) = b - M
      <4>1. CASE s[p] \in 2 .. j /\ r(s[p]) = s[p] - 1
        BY <1>1, <3>6, <4>1
      <4>2. CASE p \in 1 .. M /\ r(s[p]) = p - M
        BY <1>1, <3>1, <3>6, <4>2
      <4> QED BY <3>3, <4>1, <4>2, Zenon
    <3> QED BY <3>3, <3>5, <3>6, Zenon
  <2>9. \A b \in 1 .. (p - 1) : b \in 1 .. Len(s)
    BY <2>1, <2>5
  <2> QED BY <2>1, <2>5, <2>6, <2>7, <2>8, <2>9, Zenon
<1>13. Remembered(g, hs2)
  <2> SUFFICES ASSUME NEW j \in 0 .. n, NEW i \in 0 .. j, NEW p \in 1 .. Len(g[j]), g[j][p] <= i
               PROVE  p <= Len(g[i]) /\ g[i][p] = g[j][p]
    BY <1>1, Zenon DEF Remembered
  <2>0. i \in 0 .. n /\ j + 1 \in 1 .. (n + 1) /\ j + 1 \in 0 .. Len(hs) /\ i + 1 \in 0 .. (j + 1)
    BY <1>1
  <2>1. /\ Len(g[j]) = Len(f[j + 1]) /\ Len(g[j]) \in Nat /\ g[j][p] = r(f[j + 1][p])
        /\ Len(g[i]) = Len(f[i + 1]) /\ Len(g[i]) \in Nat
    BY <1>6, <2>0, Zenon
  <2>2. f[j + 1][p] \in (1 - L) .. (j + 1)
    BY <1>4, <2>0, <2>1, Zenon
  <2>3. \/ f[j + 1][p] \in 2 .. (j + 1) /\ r(f[j + 1][p]) = f[j + 1][p] - 1
        \/ f[j + 1][p] <= 1
    BY <1>9, <2>0, <2>1, Zenon
  <2>4. f[j + 1][p] <= i + 1
    <3> DEFINE o == f[j + 1][p]
    <3>1. o \in (1 - L) .. (j + 1) /\ r(o) <= i
      BY <2>1, <2>2
    <3>2. (o \in 2 .. (j + 1) /\ r(o) = o - 1) \/ o <= 1
      BY <2>3
    <3> HIDE DEF o
    <3>3. o <= i + 1
      BY <3>1, <3>2
    <3> QED BY <3>3 DEF o
  <2>5. p <= Len(f[i + 1]) /\ f[i + 1][p] = f[j + 1][p]
    BY <2>0, <2>1, <2>4, Zenon DEF Frame, Remembered
  <2>6. p \in 1 .. Len(g[i])
    BY <2>1, <2>5
  <2>7. g[i][p] = r(f[i + 1][p])
    BY <1>6, <2>0, <2>6, Zenon
  <2> QED BY <2>1, <2>5, <2>7, Zenon
<1>14. \A i \in 0 .. n : SameTop(f[i + 1], g[i], hs, cs, hs2, cs2)
  <2> TAKE i \in 0 .. n
  <2>1. Len(g[i]) = Len(f[i + 1]) /\ Len(g[i]) \in Nat
    BY <1>6, Zenon
  <2>2. Len(g[i]) <= Len(f[i + 1])
    BY <2>1
  <2>3. ASSUME NEW p \in 1 .. Len(g[i])
        PROVE  EntryIn(hs2, cs2, g[i][p])
                   = EntryIn(hs, cs, f[i + 1][p + (Len(f[i + 1]) - Len(g[i]))])
    <3>1. p + (Len(f[i + 1]) - Len(g[i])) = p
      BY <2>1
    <3>2. g[i][p] = r(f[i + 1][p]) /\ i + 1 \in 1 .. (n + 1) /\ p \in 1 .. Len(f[i + 1])
      BY <1>5, <1>6, <2>1, Zenon
    <3>3. EntryIn(hs2, cs2, r(f[i + 1][p])) = EntryIn(hs, cs, f[i + 1][p])
      BY <1>10, <3>2, Zenon
    <3> QED BY <3>1, <3>2, <3>3, Zenon
  <2> QED BY <2>2, <2>3, Zenon DEF SameTop
<1>15. Shifted(f, g, hs, cs, hs2, cs2, n, 1)
  BY <1>1, <1>2, <1>14, Zenon DEF Shifted
<1>16. /\ Saved(g, hs2, cs2) /\ Deep(g, hs2, cs2)
       /\ \A a, t : t \in Int /\ Holds(f[n + 1], hs, cs, a, t) => Holds(g[n], hs2, cs2, a, t)
  <2>1. 1 \in Nat
    OBVIOUS
  <2> QED BY <1>11, <1>15, <2>1, SameTopFrame, Zenon
<1> QED BY <1>11, <1>12, <1>13, <1>16, Zenon DEF Frame

-----------------------------------------------------------------------------
LEMMA Division ==
    ASSUME NEW n \in Nat \ {0}, NEW x \in Int
    PROVE  x \div n \in Int /\ x % n \in 0 .. (n - 1) /\ x = (n * (x \div n)) + (x % n)
OBVIOUS

LEMMA MultipleStep ==
    ASSUME NEW n \in Nat \ {0}, NEW a \in Int, NEW b \in Int, a < b
    PROVE  (n * a) + n <= n * b
<1>1. PICK k \in Nat : b = a + 1 + k
  <2>1. b - a - 1 \in Nat /\ b = a + 1 + (b - a - 1)
    OBVIOUS
  <2> QED BY <2>1
<1>2. n * b = (n * a) + n + (n * k)
  BY <1>1
<1>3. n * k \in Nat /\ n * a \in Int
  OBVIOUS
<1> QED BY <1>2, <1>3

LEMMA ModPlus ==
    ASSUME NEW n \in Nat \ {0}, NEW x \in Int, NEW y \in Int, y = x + n
    PROVE  y % n = x % n
<1> DEFINE q == x \div n
           r == x % n
           u == y \div n
           v == y % n
<1>1. q \in Int /\ r \in 0 .. (n - 1) /\ x = (n * q) + r
  BY Division
<1>2. u \in Int /\ v \in 0 .. (n - 1) /\ y = (n * u) + v
  BY Division, Zenon
<1> HIDE DEF q, r, u, v
<1> DEFINE a == n * (q + 1)
           b == n * u
<1>3. a = (n * q) + n /\ n * q \in Int /\ b \in Int /\ a \in Int
  BY <1>1, <1>2
<1>4. q + 1 < u => a + n <= b
  BY <1>1, <1>2, MultipleStep
<1>5. u < q + 1 => b + n <= a
  BY <1>1, <1>2, MultipleStep
<1>6. y = a + r /\ y = b + v
  BY <1>1, <1>2, <1>3
<1>7. u = q + 1 => b = a
  OBVIOUS
<1> HIDE DEF a, b
<1>8. u = q + 1
  BY <1>1, <1>2, <1>3, <1>4, <1>5, <1>6
<1>9. v = r
  BY <1>1, <1>2, <1>3, <1>6, <1>7, <1>8
<1> QED BY <1>9 DEF v, r

\* The slots below the top of stack, as the top moves.
LEMMA SlotsBelow ==
    ASSUME NEW t \in Slot, NEW d \in Int
    PROVE  /\ (incrTos(t) - (d + 1)) % numEntries = (t - d) % numEntries
           /\ (decrTos(t) - d) % numEntries = (t - (d + 1)) % numEntries
           /\ (t - d) % numEntries \in Slot
           /\ (t - 0) % numEntries = t
           /\ d \in 1 .. (numEntries - 1) => (t - d) % numEntries # t
<1> DEFINE N == numEntries
<1>1. N \in Nat \ {0} /\ t \in 0 .. (N - 1) /\ t \in Int
  BY RASAssumption DEF Slot
<1> HIDE DEF N
<1>2. \A x \in Int : x % N \in 0 .. (N - 1) /\ (x + N) % N = x % N
  <2> TAKE x \in Int
  <2>1. x + N \in Int
    BY <1>1
  <2>2. (x + N) % N = x % N
    BY <1>1, <2>1, ModPlus, Zenon
  <2>3. x % N \in 0 .. (N - 1)
    BY <1>1, Division
  <2> QED BY <2>2, <2>3
<1>3. \A x \in 0 .. (N - 1) : x % N = x
  BY <1>1
<1>4. (incrTos(t) - (d + 1)) % N = (t - d) % N
  <2>1. CASE t + 1 = N
    <3>1. incrTos(t) = 0
      BY <2>1 DEF incrTos, N
    <3>2. 0 - (d + 1) \in Int /\ (0 - (d + 1)) + N = t - d
      BY <1>1, <2>1
    <3> QED BY <1>2, <3>1, <3>2
  <2>2. CASE t + 1 # N
    <3>1. incrTos(t) = t + 1
      BY <2>2 DEF incrTos, N
    <3>2. (t + 1) - (d + 1) = t - d
      BY <1>1
    <3> QED BY <3>1, <3>2
  <2> QED BY <2>1, <2>2
<1>5. (decrTos(t) - d) % N = (t - (d + 1)) % N
  <2>1. CASE t = 0
    <3>1. decrTos(t) = N - 1
      BY <2>1 DEF decrTos, N
    <3>2. t - (d + 1) \in Int /\ (t - (d + 1)) + N = (N - 1) - d
      BY <1>1, <2>1
    <3> QED BY <1>2, <3>1, <3>2
  <2>2. CASE t # 0
    <3>1. decrTos(t) = t - 1
      BY <2>2 DEF decrTos
    <3>2. (t - 1) - d = t - (d + 1)
      BY <1>1
    <3> QED BY <3>1, <3>2
  <2> QED BY <2>1, <2>2
<1>6. (t - d) % N \in Slot
  <2>1. t - d \in Int
    BY <1>1
  <2> QED BY <1>2, <2>1 DEF Slot, N
<1>7. (t - 0) % N = t
  <2>1. t - 0 = t
    BY <1>1
  <2> QED BY <1>1, <1>3, <2>1
<1>8. ASSUME d \in 1 .. (N - 1) PROVE (t - d) % N # t
  <2>1. CASE t - d \in 0 .. (N - 1)
    <3>1. (t - d) % N = t - d
      BY <1>3, <2>1
    <3> QED BY <1>1, <1>8, <3>1
  <2>2. CASE ~(t - d \in 0 .. (N - 1))
    <3>1. t - d \in Int /\ (t - d) + N \in 0 .. (N - 1) /\ (t - d) + N # t
      BY <1>1, <1>8, <2>2
    <3>2. (t - d) % N = (t - d) + N
      BY <1>2, <1>3, <3>1, SMTT(30)
    <3> QED BY <3>1, <3>2
  <2> QED BY <2>1, <2>2
<1> QED BY <1>4, <1>5, <1>6, <1>7, <1>8, Zenon DEF N

\* The ring a with its top at t holds the first m of the entries E.
Ring(E, m, a, t) ==
    \A p \in 1 .. m : E[p] \in {NoAddr, a[(t - (m - p)) % numEntries]}

\* A push writes the slot above the top, where the entry numEntries below was.
LEMMA RingPush ==
    ASSUME NEW m \in Nat, NEW E, NEW a \in [Slot -> Entry], NEW t \in Slot, Ring(E, m, a, t),
           NEW F, \A p \in 1 .. m : F[p] = E[p], NEW ret, F[m + 1] = ret,
           \A p \in 1 .. (m + 1 - numEntries) : p \in 1 .. m /\ E[p] = NoAddr
    PROVE  Ring(F, m + 1, [a EXCEPT ![incrTos(t)] = ret], incrTos(t))
<1> DEFINE u == incrTos(t)
           b == [a EXCEPT ![u] = ret]
<1>1. u \in Slot
  BY TosRange
<1>2. \A x \in Slot : b[x] = IF x = u THEN ret ELSE a[x]
  BY <1>1
<1> HIDE DEF b
<1> SUFFICES ASSUME NEW p \in 1 .. (m + 1)
             PROVE  F[p] \in {NoAddr, b[(u - ((m + 1) - p)) % numEntries]}
  BY DEF Ring, b
<1>3. CASE p = m + 1
  <2>1. (m + 1) - p = 0
    BY <1>3
  <2>2. (u - 0) % numEntries = u
    BY <1>1, SlotsBelow, 0 \in Int
  <2>3. (u - ((m + 1) - p)) % numEntries = u
    BY <2>1, <2>2
  <2> HIDE DEF u
  <2> QED BY <1>1, <1>2, <1>3, <2>3
<1>4. CASE p \in 1 .. m
  <2> DEFINE d == m - p
             x == (t - d) % numEntries
  <2>1. d \in Int /\ (m + 1) - p = d + 1 /\ d + 1 \in Int /\ d + 1 >= 1
    BY <1>4
  <2>2. x \in Slot /\ (u - (d + 1)) % numEntries = x
    BY <2>1, SlotsBelow, Zenon
  <2>3. E[p] \in {NoAddr, a[x]} /\ F[p] = E[p]
    BY <1>4, Zenon DEF Ring
  <2>4. CASE x # u
    BY <1>2, <2>1, <2>2, <2>3, <2>4, Zenon
  <2>5. CASE x = u
    <3>1. ~(d + 1 \in 1 .. (numEntries - 1))
      BY <1>1, <2>1, <2>2, <2>5, SlotsBelow
    <3>2. p \in 1 .. (m + 1 - numEntries)
      BY <1>4, <2>1, <3>1, RASAssumption
    <3> QED BY <2>3, <3>2
  <2> QED BY <2>4, <2>5
<1> QED BY <1>3, <1>4

\* A pop, or the undoing of a push, moves the top down.
LEMMA RingPop ==
    ASSUME NEW m \in Nat, NEW E, NEW a, NEW t \in Slot, Ring(E, m + 1, a, t)
    PROVE  Ring(E, m, a, decrTos(t))
<1> SUFFICES ASSUME NEW p \in 1 .. m
             PROVE  E[p] \in {NoAddr, a[(decrTos(t) - (m - p)) % numEntries]}
  BY DEF Ring
<1>1. p \in 1 .. (m + 1) /\ m - p \in Int /\ (m + 1) - p = (m - p) + 1
  OBVIOUS
<1>2. E[p] \in {NoAddr, a[(t - ((m + 1) - p)) % numEntries]}
  BY <1>1, Zenon DEF Ring
<1>3. (decrTos(t) - (m - p)) % numEntries = (t - ((m - p) + 1)) % numEntries
  BY <1>1, SlotsBelow, SMTT(30)
<1> QED BY <1>1, <1>2, <1>3

\* The undoing of a pop moves it up and puts back the entry.
Unpops(E, m, a, t, e) ==
    /\ m \in Nat /\ a \in [Slot -> Entry] /\ t \in Slot /\ Ring(E, m, a, decrTos(t))
    /\ E[m + 1] \in {NoAddr, e} /\ \A p \in 1 .. (m + 1 - numEntries) : E[p] = NoAddr

LEMMA RingUnpop ==
    ASSUME NEW m, NEW E, NEW a, NEW t, NEW e, Unpops(E, m, a, t, e)
    PROVE  Ring(E, m + 1, [a EXCEPT ![t] = e], t)
<1> SUFFICES ASSUME m \in Nat, a \in [Slot -> Entry], t \in Slot, Ring(E, m, a, decrTos(t)),
                    E[m + 1] \in {NoAddr, e},
                    \A p \in 1 .. (m + 1 - numEntries) : E[p] = NoAddr
             PROVE  Ring(E, m + 1, [a EXCEPT ![t] = e], t)
  BY Zenon DEF Unpops
<1> DEFINE b == [a EXCEPT ![t] = e]
<1>1. \A x \in Slot : b[x] = IF x = t THEN e ELSE a[x]
  OBVIOUS
<1> HIDE DEF b
<1> SUFFICES ASSUME NEW p \in 1 .. (m + 1)
             PROVE  E[p] \in {NoAddr, b[(t - ((m + 1) - p)) % numEntries]}
  BY DEF Ring, b
<1>2. CASE p = m + 1
  <2>1. (m + 1) - p = 0 /\ (t - 0) % numEntries = t
    BY <1>2, SlotsBelow, 0 \in Int
  <2> QED BY <1>1, <1>2, <2>1
<1>3. CASE p \in 1 .. m
  <2> DEFINE d == m - p
             x == (t - (d + 1)) % numEntries
  <2>1. d \in Int /\ (m + 1) - p = d + 1 /\ d + 1 \in Int /\ d + 1 >= 1
    BY <1>3
  <2>2. x \in Slot /\ (decrTos(t) - d) % numEntries = x
    BY <2>1, SlotsBelow, Zenon
  <2>3. E[p] \in {NoAddr, a[x]}
    BY <1>3, <2>2 DEF Ring
  <2>4. CASE x # t
    BY <1>1, <2>1, <2>2, <2>3, <2>4, Zenon
  <2>5. CASE x = t
    <3>1. ~(d + 1 \in 1 .. (numEntries - 1))
      BY <2>1, <2>5, SlotsBelow
    <3>2. p \in 1 .. (m + 1 - numEntries)
      BY <1>3, <2>1, <3>1, RASAssumption
    <3> QED BY <3>2
  <2> QED BY <2>4, <2>5
<1> QED BY <1>2, <1>3

-----------------------------------------------------------------------------
\* The entries of a stack.
Entries(s, hs, cs) == [p \in 1 .. Len(s) |-> EntryIn(hs, cs, s[p])]

LEMMA HoldsRing ==
    ASSUME NEW s, NEW hs, NEW cs, NEW a, NEW t
    PROVE  Holds(s, hs, cs, a, t) <=> Ring(Entries(s, hs, cs), Len(s), a, t)
<1>1. \A p \in 1 .. Len(s) : Entries(s, hs, cs)[p] = EntryIn(hs, cs, s[p])
  BY DEF Entries
<1> QED BY <1>1, Zenon DEF Holds, Ring

\* What the ring holds for the branches hs, in the current state.
HoldsFor(f, hs) ==
    Frame(f, hs, callStack) /\ Holds(f[Len(hs)], hs, callStack, addrStack, tos)

\* hs2 and cs2 are hs and cs with the entries of the owners V lost.
Lost(hs2, cs2, hs, cs, V) ==
    /\ cs2 \in Seq(Entry) /\ Len(cs2) = Len(cs) /\ Len(hs2) = Len(hs)
    /\ \A i \in 1 .. Len(hs) : hs2[i].op = hs[i].op /\ (i \notin V => hs2[i] = hs[i])
    /\ \A o \in (1 - Len(cs)) .. Len(hs) :
           EntryIn(hs2, cs2, o) = IF o \in V THEN NoAddr ELSE EntryIn(hs, cs, o)

LEMMA LoseEntries ==
    ASSUME NEW hs \in Seq(BranchHist), NEW cs \in Seq(Entry), NEW V, NEW hs2, NEW cs2,
           hs2 = Lose(hs, V),
           cs2 = [p \in DOMAIN cs |-> IF p - Len(cs) \in V THEN NoAddr ELSE cs[p]]
    PROVE  Lost(hs2, cs2, hs, cs, V)
<1>1. /\ Len(cs) \in Nat /\ Len(hs) \in Nat /\ DOMAIN cs = 1 .. Len(cs)
      /\ DOMAIN hs = 1 .. Len(hs)
  OBVIOUS
<1>2. cs2 \in [1 .. Len(cs) -> Entry]
  BY <1>1 DEF Entry
<1>3. cs2 \in Seq(Entry) /\ Len(cs2) = Len(cs)
  BY <1>1, <1>2
<1>4. \A p \in 1 .. Len(cs) : cs2[p] = IF p - Len(cs) \in V THEN NoAddr ELSE cs[p]
  BY <1>1
<1>5. \A i \in 1 .. Len(hs) :
          hs2[i] = IF i \in V THEN [hs[i] EXCEPT !.entry = NoAddr] ELSE hs[i]
  BY <1>1 DEF Lose
<1>6. Len(hs2) = Len(hs)
  <2>1. hs2 = [i \in 1 .. Len(hs) |-> hs2[i]]
    BY <1>1 DEF Lose
  <2> QED BY <1>1, <2>1
<1>7. \A i \in 1 .. Len(hs) : /\ hs2[i].op = hs[i].op
                              /\ hs2[i].entry = IF i \in V THEN NoAddr ELSE hs[i].entry
                              /\ i \notin V => hs2[i] = hs[i]
  <2> TAKE i \in 1 .. Len(hs)
  <2>1. hs[i] \in BranchHist
    BY <1>1
  <2> QED BY <1>5, <2>1, Zenon DEF BranchHist
<1>8. ASSUME NEW o \in (1 - Len(cs)) .. Len(hs)
      PROVE  EntryIn(hs2, cs2, o) = IF o \in V THEN NoAddr ELSE EntryIn(hs, cs, o)
  <2>1. CASE o > 0
    <3>1. o \in 1 .. Len(hs)
      BY <1>1, <2>1
    <3>2. EntryIn(hs2, cs2, o) = hs2[o].entry /\ EntryIn(hs, cs, o) = hs[o].entry
      BY <2>1, Zenon DEF EntryIn
    <3> QED BY <1>7, <3>1, <3>2, Zenon
  <2>2. CASE ~(o > 0)
    <3>1. Len(cs) + o \in 1 .. Len(cs) /\ (Len(cs) + o) - Len(cs) = o
      BY <1>1, <2>2
    <3>2. EntryIn(hs2, cs2, o) = cs2[Len(cs) + o] /\ EntryIn(hs, cs, o) = cs[Len(cs) + o]
      BY <1>3, <2>2, Zenon DEF EntryIn
    <3>3. cs2[Len(cs) + o] = IF (Len(cs) + o) - Len(cs) \in V THEN NoAddr ELSE cs[Len(cs) + o]
      BY <1>4, <3>1, Zenon
    <3>4. cs2[Len(cs) + o] = IF o \in V THEN NoAddr ELSE cs[Len(cs) + o]
      BY <3>1, <3>3, Zenon
    <3> QED BY <3>2, <3>4, Zenon
  <2> QED BY <2>1, <2>2
<1> QED BY <1>3, <1>6, <1>7, <1>8, Zenon DEF Lost

\* Strip keeps what the ring holds.
LEMMA StripHolds ==
    ASSUME NEW f, NEW hs, NEW cs \in Seq(Entry), Len(hs) \in Nat, Frame(f, hs, cs),
           NEW a, NEW t \in Int, Holds(f[Len(hs)], hs, cs, a, t)
    PROVE  \E g : Frame(g, hs, Strip(cs)) /\ Holds(g[Len(hs)], hs, Strip(cs), a, t)
<1>1. CASE cs # << >> /\ cs[1] = NoAddr
  <2>1. Strip(cs) = Tail(cs)
    BY <1>1 DEF Strip
  <2>2. /\ Len(cs) \in Nat \ {0} /\ Len(Tail(cs)) = Len(cs) - 1
        /\ \A p \in 1 .. (Len(cs) - 1) : Tail(cs)[p] = cs[p + 1]
    BY <1>1, TailOf
  <2>3. PICK g : /\ Frame(g, hs, Tail(cs))
                 /\ \A b, u : u \in Int /\ Holds(f[Len(hs)], hs, cs, b, u) =>
                                  Holds(g[Len(hs)], hs, Tail(cs), b, u)
    <3>1. Stripped(Tail(cs), f, hs, cs, Len(hs), Len(cs))
      BY <2>2, Zenon DEF Stripped
    <3> QED BY <3>1, StripKeeps, Zenon
  <2>4. Holds(g[Len(hs)], hs, Tail(cs), a, t)
    BY <2>3, Zenon
  <2> QED BY <2>1, <2>3, <2>4, Zenon
<1>2. CASE ~(cs # << >> /\ cs[1] = NoAddr)
  <2>1. Strip(cs) = cs
    BY <1>2, Zenon DEF Strip
  <2> QED BY <2>1, Zenon
<1> QED BY <1>1, <1>2

\* A call pushes: the ring holds it, and what it overwrites is lost.
LEMMA PushHolds ==
    ASSUME TypeOK, NEW hs \in Seq(BranchHist), NEW h \in BranchHist, NEW f, HoldsFor(f, hs),
           DoPush(hs, h)
    PROVE  HoldsInv'
<1> DEFINE n == Len(hs)
           l == f[n]
           V == Victim(hs)
           cs == callStack
           cs1 == [p \in DOMAIN cs |-> IF p - Len(cs) \in V THEN NoAddr ELSE cs[p]]
           hs1 == Lose(hs, V)
           new == Pushed(h)
           hs2 == Append(hs1, new)
           s == Append(l, n + 1)
<1>1. /\ cs \in Seq(Entry) /\ tos \in Slot /\ addrStack \in [Slot -> Entry]
      /\ n \in Nat /\ Len(cs) \in Nat /\ n \in 0 .. n
  BY DEF TypeOK
<1>2. Frame(f, hs, cs) /\ Holds(l, hs, cs, addrStack, tos)
  BY DEF HoldsFor
<1>3. /\ l \in Seq(Int) /\ Len(l) \in Nat
      /\ \A p \in 1 .. Len(l) : l[p] \in (1 - Len(cs)) .. n
  BY <1>1, <1>2, FrameTypes, Zenon
<1>4. V = IF Len(l) >= numEntries THEN {l[Len(l) - numEntries + 1]} ELSE {}
  <2>1. SpecOwners(hs) = l
    BY <1>1, <1>2, OwnersAre, Zenon DEF Frame
  <2> QED BY <2>1, Zenon DEF Victim
<1>5. \A o \in V : o > 0 => hs[o].op = "push"
  <2>1. CASE Len(l) >= numEntries
    <3>1. Len(l) - numEntries + 1 \in 1 .. Len(l)
      BY <1>3, <2>1, RASAssumption
    <3>2. \A p \in 1 .. Len(l) : l[p] > 0 => hs[l[p]].op = "push"
      BY <1>1, <1>2, Zenon DEF Frame, Ordered
    <3> QED BY <1>4, <2>1, <3>1, <3>2, Zenon
  <2>2. CASE ~(Len(l) >= numEntries)
    BY <1>4, <2>2
  <2> QED BY <2>1, <2>2
<1>6. /\ tos' = incrTos(tos) /\ addrStack' = [addrStack EXCEPT ![incrTos(tos)] = h.ret]
      /\ predHist' = hs2 /\ callStack' = Strip(cs1)
  BY DEF DoPush, LoseCall
<1>7. new.op = "push" /\ new.entry = h.ret /\ new \in BranchHist
  BY <1>1, Zenon DEF Pushed, BranchHist, Entry
<1>8. hs1 \in Seq(BranchHist)
  <2>1. \A i \in 1 .. Len(hs) : hs1[i] \in BranchHist
    <3> TAKE i \in 1 .. Len(hs)
    <3>1. hs[i] \in BranchHist
      OBVIOUS
    <3>2. hs1[i] = IF i \in V THEN [hs[i] EXCEPT !.entry = NoAddr] ELSE hs[i]
      BY DEF Lose
    <3> QED BY <3>1, <3>2 DEF BranchHist, Entry
  <2>2. hs1 = [i \in 1 .. Len(hs) |-> hs1[i]]
    BY DEF Lose
  <2> HIDE DEF hs1
  <2>3. hs1 \in [1 .. Len(hs) -> BranchHist]
    BY <2>1, <2>2
  <2> QED BY <1>1, <2>3, SMTT(30)
<1>a. hs1 = Lose(hs, V) /\ cs1 = [p \in DOMAIN cs |-> IF p - Len(cs) \in V THEN NoAddr ELSE cs[p]]
  OBVIOUS
<1> HIDE DEF hs1, cs1, V, new, cs, l
<1>9. /\ cs1 \in Seq(Entry) /\ Len(cs1) = Len(cs) /\ Len(hs1) = n
      /\ \A i \in 1 .. n : hs1[i].op = hs[i].op /\ (i \notin V => hs1[i] = hs[i])
      /\ \A o \in (1 - Len(cs)) .. n :
             EntryIn(hs1, cs1, o) = IF o \in V THEN NoAddr ELSE EntryIn(hs, cs, o)
  <2>1. Lost(hs1, cs1, hs, cs, V)
    BY <1>1, <1>a, LoseEntries, Zenon
  <2> QED BY <2>1, Zenon DEF Lost
\* The victim is lost.
<1>10. Frame(f, hs1, cs1) /\ Holds(l, hs1, cs1, addrStack, tos)
  <2>1. \A i \in 1 .. n : /\ hs1[i].op = hs[i].op
                          /\ hs[i].op # "push" => hs1[i].entry = hs[i].entry
    <3> TAKE i \in 1 .. n
    <3>1. i > 0
      OBVIOUS
    <3> QED BY <1>5, <1>9, <3>1, Zenon
  <2>2. \A o \in (1 - Len(cs)) .. n : EntryIn(hs1, cs1, o) \in {NoAddr, EntryIn(hs, cs, o)}
    BY <1>9
  <2>3. /\ Frame(f, hs1, cs1)
        /\ \A i \in 0 .. n : \A a, t : Holds(f[i], hs, cs, a, t) => Holds(f[i], hs1, cs1, a, t)
    BY <1>1, <1>2, <1>9, <2>1, <2>2, LoseKeeps, Zenon
  <2> QED BY <1>1, <1>2, <2>3, Zenon DEF l
<1>11. \A p \in 1 .. (Len(l) + 1 - numEntries) : EntryIn(hs1, cs1, l[p]) = NoAddr
  <2> TAKE p \in 1 .. (Len(l) + 1 - numEntries)
  <2>1. CASE p \in 1 .. (Len(l) - numEntries)
    BY <1>1, <1>9, <1>10, <2>1, Zenon DEF Frame, Deep, l
  <2>2. CASE p = Len(l) - numEntries + 1
    <3>1. p \in 1 .. Len(l) /\ Len(l) >= numEntries
      BY <1>3, <2>2, RASAssumption
    <3>2. l[p] \in V
      BY <1>4, <2>2, <3>1, Zenon
    <3>3. l[p] \in (1 - Len(cs)) .. n
      BY <1>3, <3>1, Zenon
    <3> QED BY <1>9, <3>2, <3>3, Zenon
  <2>3. p \in 1 .. (Len(l) - numEntries) \/ p = Len(l) - numEntries + 1
    BY <1>3, RASAssumption
  <2> QED BY <2>1, <2>2, <2>3
\* The call is pushed.
<1>12. /\ Len(hs2) = n + 1 /\ hs2[n + 1] = new /\ \A i \in 1 .. n : hs2[i] = hs1[i]
  BY <1>7, <1>8, <1>9, AppendOf
<1>13. /\ s \in Seq(Int) /\ Len(s) = Len(l) + 1 /\ s[Len(l) + 1] = n + 1
       /\ \A p \in 1 .. Len(l) : s[p] = l[p]
  BY <1>1, <1>3
<1> HIDE DEF hs2, s
<1>14. Follows(l, s, "push", n + 1)
  BY <1>13 DEF Follows
<1>15. PICK g : Frame(g, hs2, cs1) /\ g[n + 1] = s
  <2>1. Extends(hs2, hs1, new, l, s)
    BY <1>7, <1>9, <1>12, <1>13, <1>14, Zenon DEF Extends
  <2>2. Accounted(hs1, cs1, new, l)
    BY <1>7, <1>11, Zenon DEF Accounted
  <2>3. Len(cs1) \in Nat /\ Len(hs1) = n /\ n \in Nat /\ Frame(f, hs1, cs1) /\ l = f[n]
    BY <1>1, <1>9, <1>10, Zenon DEF l
  <2>4. Extending(f, hs1, cs1, n, l, hs2, new, s)
    BY <2>1, <2>2, <2>3, Zenon DEF Extending
  <2> QED BY <2>4, ExtendKeeps
<1>16. Holds(s, hs2, cs1, addrStack', tos')
  <2> DEFINE E == Entries(l, hs1, cs1)
             F == Entries(s, hs2, cs1)
  <2>1. Ring(E, Len(l), addrStack, tos)
    BY <1>10, HoldsRing, Zenon
  <2>2. ASSUME NEW p \in 1 .. Len(l)
        PROVE  E[p] = EntryIn(hs1, cs1, l[p]) /\ F[p] = E[p]
    <3>1. E[p] = EntryIn(hs1, cs1, l[p])
      BY DEF Entries
    <3>2. p \in 1 .. Len(s)
      BY <1>3, <1>13
    <3>3. F[p] = EntryIn(hs2, cs1, l[p])
      BY <1>13, <3>2 DEF Entries
    <3>4. l[p] \in (1 - Len(cs)) .. n
      BY <1>3, Zenon
    <3>5. l[p] > 0 => l[p] \in 1 .. n
      BY <3>4
    <3>6. l[p] > 0 => hs2[l[p]] = hs1[l[p]]
      BY <1>12, <3>5, Zenon
    <3>7. EntryIn(hs2, cs1, l[p]) = EntryIn(hs1, cs1, l[p])
      BY <3>6, Zenon DEF EntryIn
    <3> QED BY <3>1, <3>3, <3>7
  <2>3. F[Len(l) + 1] = h.ret
    <3>1. Len(l) + 1 \in 1 .. Len(s)
      BY <1>3, <1>13
    <3>2. F[Len(l) + 1] = EntryIn(hs2, cs1, n + 1)
      BY <1>13, <3>1 DEF Entries
    <3>3. n + 1 > 0
      BY <1>1
    <3> QED BY <1>7, <1>12, <3>2, <3>3, Zenon DEF EntryIn
  <2>4. \A p \in 1 .. (Len(l) + 1 - numEntries) : p \in 1 .. Len(l) /\ E[p] = NoAddr
    <3> TAKE p \in 1 .. (Len(l) + 1 - numEntries)
    <3>1. p \in 1 .. Len(l)
      BY <1>3, RASAssumption
    <3> QED BY <1>11, <2>2, <3>1, Zenon
  <2> HIDE DEF E, F
  <2>5. Ring(F, Len(l) + 1, [addrStack EXCEPT ![incrTos(tos)] = h.ret], incrTos(tos))
    BY <1>1, <1>3, <2>1, <2>2, <2>3, <2>4, RingPush, Zenon
  <2>6. Ring(F, Len(s), addrStack', tos')
    BY <1>6, <1>13, <2>5, Zenon
  <2> QED BY <2>6, HoldsRing, Zenon DEF F
\* The lost entries at the bottom go.
<1>17. \E e : Frame(e, hs2, Strip(cs1)) /\ Holds(e[Len(hs2)], hs2, Strip(cs1), addrStack', tos')
  <2>1. tos' \in Int /\ Len(hs2) \in Nat
    <3>1. tos' \in Slot
      BY <1>1, <1>6, TosRange
    <3> QED BY <1>1, <1>12, <3>1, RASAssumption DEF Slot
  <2>2. Holds(g[Len(hs2)], hs2, cs1, addrStack', tos')
    BY <1>12, <1>15, <1>16, Zenon
  <2> QED BY <1>9, <1>15, <2>1, <2>2, StripHolds, Zenon
<1> QED BY <1>6, <1>17, Zenon DEF HoldsInv

\* Stacks that agree up to place m, of branches that agree up to n, have the same entries.
Agree(s, hs2, l, hs, m, n) ==
    /\ n \in Nat /\ m \in Nat /\ Len(l) \in Nat /\ Len(s) \in Nat /\ m <= Len(l) /\ m <= Len(s)
    /\ \A i \in 1 .. n : hs2[i] = hs[i]
    /\ \A p \in 1 .. m : s[p] = l[p] /\ l[p] \in Int /\ l[p] <= n

LEMMA SameEntries ==
    ASSUME NEW n, NEW m, NEW hs, NEW hs2, NEW l, NEW s, Agree(s, hs2, l, hs, m, n), NEW cs
    PROVE  \A p \in 1 .. m : Entries(s, hs2, cs)[p] = Entries(l, hs, cs)[p]
<1> SUFFICES ASSUME n \in Nat, m \in Nat, Len(l) \in Nat, Len(s) \in Nat,
                    m <= Len(l), m <= Len(s), \A i \in 1 .. n : hs2[i] = hs[i],
                    \A p \in 1 .. m : s[p] = l[p] /\ l[p] \in Int /\ l[p] <= n
             PROVE  \A p \in 1 .. m : Entries(s, hs2, cs)[p] = Entries(l, hs, cs)[p]
  BY Zenon DEF Agree
<1> TAKE p \in 1 .. m
<1>1. p \in 1 .. Len(l) /\ p \in 1 .. Len(s)
  OBVIOUS
<1>2. /\ Entries(l, hs, cs)[p] = EntryIn(hs, cs, l[p])
      /\ Entries(s, hs2, cs)[p] = EntryIn(hs2, cs, l[p])
  BY <1>1 DEF Entries
<1>3. l[p] > 0 => l[p] \in 1 .. n
  OBVIOUS
<1>4. l[p] > 0 => hs2[l[p]] = hs[l[p]]
  BY <1>3, Zenon
<1>5. EntryIn(hs2, cs, l[p]) = EntryIn(hs, cs, l[p])
  BY <1>4, Zenon DEF EntryIn
<1> QED BY <1>2, <1>5

\* Ring depends only on the entries.
LEMMA SameRing ==
    ASSUME NEW E, NEW F, NEW m, \A p \in 1 .. m : F[p] = E[p], NEW a, NEW t, Ring(E, m, a, t)
    PROVE  Ring(F, m, a, t)
BY Zenon DEF Ring

\* The branches hs and what the ring holds for them, unfolded.
LEMMA HoldsForFacts ==
    ASSUME TypeOK, NEW hs \in Seq(BranchHist), NEW f, HoldsFor(f, hs), NEW n, n = Len(hs),
           NEW l, l = f[n]
    PROVE  /\ n \in Nat /\ Len(callStack) \in Nat /\ tos \in Slot /\ addrStack \in [Slot -> Entry]
           /\ Frame(f, hs, callStack) /\ Holds(l, hs, callStack, addrStack, tos)
           /\ l \in Seq(Int) /\ Len(l) \in Nat
           /\ \A p \in 1 .. Len(l) : l[p] \in Int /\ l[p] <= n
<1>1. /\ Len(hs) \in Nat /\ Len(callStack) \in Nat /\ tos \in Slot
      /\ addrStack \in [Slot -> Entry] /\ Len(hs) \in 0 .. Len(hs)
  BY DEF TypeOK
<1>2. Frame(f, hs, callStack) /\ Holds(l, hs, callStack, addrStack, tos)
  BY DEF HoldsFor
<1>3. /\ l \in Seq(Int) /\ Len(l) \in Nat
      /\ \A p \in 1 .. Len(l) : l[p] \in (1 - Len(callStack)) .. Len(hs)
  BY <1>1, <1>2, FrameTypes, Zenon
<1>4. \A p \in 1 .. Len(l) : l[p] \in Int /\ l[p] <= n
  <2> TAKE p \in 1 .. Len(l)
  <2>1. l[p] \in (1 - Len(callStack)) .. Len(hs)
    BY <1>3, Zenon
  <2> QED BY <1>1, <2>1
<1> QED BY <1>1, <1>2, <1>3, <1>4, Zenon

\* A return pops: the ring is left alone and holds the calls below, and the history
\* of the return has the entry of the call at the top.
LEMMA PopHolds ==
    ASSUME TypeOK, NEW hs \in Seq(BranchHist), NEW h \in BranchHist, NEW f, HoldsFor(f, hs),
           DoPop(hs, h)
    PROVE  HoldsInv'
<1> DEFINE n == Len(hs)
           l == f[n]
           cs == callStack
           new == Popped(h)
           hs2 == Append(hs, new)
           s == IF l = << >> THEN << >> ELSE SubSeq(l, 1, Len(l) - 1)
<1>1. /\ n \in Nat /\ Len(cs) \in Nat /\ tos \in Slot /\ addrStack \in [Slot -> Entry]
      /\ Frame(f, hs, cs) /\ Holds(l, hs, cs, addrStack, tos)
      /\ l \in Seq(Int) /\ Len(l) \in Nat
      /\ \A p \in 1 .. Len(l) : l[p] \in Int /\ l[p] <= n
  BY HoldsForFacts, Zenon
<1>2. /\ tos' = decrTos(tos) /\ addrStack' = addrStack /\ predHist' = hs2 /\ callStack' = cs
  BY DEF DoPop
<1>3. new.op = "pop" /\ new.entry = addrStack[tos] /\ new \in BranchHist
  <2>1. addrStack[tos] \in Entry
    BY <1>1
  <2> QED BY <1>1, <2>1, Zenon DEF Popped, BranchHist
<1> HIDE DEF new
<1>4. /\ Len(hs2) = n + 1 /\ hs2[n + 1] = new /\ \A i \in 1 .. n : hs2[i] = hs[i]
  BY <1>1, <1>3
<1> HIDE DEF l
<1>5. /\ s \in Seq(Int) /\ Len(s) \in Nat /\ Len(s) = IF Len(l) = 0 THEN 0 ELSE Len(l) - 1
      /\ \A p \in 1 .. Len(s) : s[p] = l[p]
  <2>1. CASE l = << >>
    BY <2>1
  <2>2. CASE l # << >>
    <3>1. s = SubSeq(l, 1, Len(l) - 1) /\ Len(l) > 0
      BY <1>1, <2>2
    <3>2. /\ s \in Seq(Int) /\ Len(s) = Len(l) - 1
          /\ \A p \in 1 .. (Len(l) - 1) : s[p] = l[p]
      BY <1>1, <2>2, <3>1, FrontOf
    <3> HIDE DEF s
    <3> QED BY <1>1, <3>1, <3>2
  <2> QED BY <2>1, <2>2
<1> HIDE DEF hs2, s
<1>6. Follows(l, s, "pop", n + 1)
  BY <1>5 DEF Follows
<1>7. Len(l) > 0 => EntryIn(hs, cs, l[Len(l)]) \in {NoAddr, addrStack[tos]}
  <2> SUFFICES ASSUME Len(l) > 0 PROVE EntryIn(hs, cs, l[Len(l)]) \in {NoAddr, addrStack[tos]}
    OBVIOUS
  <2>1. Len(l) \in 1 .. Len(l) /\ Len(l) - Len(l) = 0
    BY <1>1
  <2>2. EntryIn(hs, cs, l[Len(l)]) \in {NoAddr, addrStack[(tos - (Len(l) - Len(l))) % numEntries]}
    BY <1>1, <2>1, Zenon DEF Holds
  <2>3. (tos - 0) % numEntries = tos
    BY <1>1, 0 \in Int, SlotsBelow
  <2> QED BY <2>1, <2>2, <2>3
<1>8. PICK g : Frame(g, hs2, cs) /\ g[n + 1] = s
  <2>1. Extends(hs2, hs, new, l, s)
    BY <1>3, <1>4, <1>5, <1>6, Zenon DEF Extends
  <2>2. Accounted(hs, cs, new, l)
    BY <1>3, <1>7 DEF Accounted
  <2>3. l = f[n] /\ Len(hs) = n
    BY Zenon DEF l
  <2>4. Extending(f, hs, cs, n, l, hs2, new, s)
    BY <1>1, <2>1, <2>2, <2>3, Zenon DEF Extending
  <2> QED BY <2>4, ExtendKeeps
<1>9. Ring(Entries(s, hs2, cs), Len(s), addrStack, decrTos(tos))
  <2> DEFINE E == Entries(l, hs, cs)
             F == Entries(s, hs2, cs)
  <2>1. Ring(E, Len(l), addrStack, tos)
    BY <1>1, HoldsRing, Zenon
  <2>2. Len(s) <= Len(l) /\ Len(s) <= Len(s)
    BY <1>1, <1>5
  <2>3. \A p \in 1 .. Len(s) : s[p] = l[p] /\ l[p] \in Int /\ l[p] <= n
    <3> TAKE p \in 1 .. Len(s)
    <3>1. p \in 1 .. Len(l)
      BY <1>1, <1>5, <2>2
    <3> QED BY <1>1, <1>5, <3>1, Zenon
  <2>4. \A p \in 1 .. Len(s) : F[p] = E[p]
    <3>1. Agree(s, hs2, l, hs, Len(s), n)
      BY <1>1, <1>4, <1>5, <2>2, <2>3, Zenon DEF Agree
    <3> QED BY <3>1, SameEntries
  <2> HIDE DEF E, F
  <2>5. CASE Len(l) = 0
    <3>1. Len(s) = 0
      BY <1>5, <2>5
    <3> QED BY <3>1 DEF Ring, F
  <2>6. CASE Len(l) # 0
    <3>1. Len(l) = Len(s) + 1
      BY <1>1, <1>5, <2>6
    <3>2. Ring(E, Len(s) + 1, addrStack, tos)
      BY <2>1, <3>1, Zenon
    <3>3. Ring(E, Len(s), addrStack, decrTos(tos))
      BY <1>1, <1>5, <3>2, RingPop, Zenon
    <3>4. Ring(F, Len(s), addrStack, decrTos(tos))
      BY <2>4, <3>3, SameRing, Zenon
    <3> QED BY <3>4 DEF F
  <2> QED BY <2>5, <2>6
<1>10. Holds(s, hs2, cs, addrStack, decrTos(tos))
  BY <1>9, HoldsRing, Zenon
<1> QED BY <1>2, <1>4, <1>8, <1>10, Zenon DEF HoldsInv

\* A branch that does not use the stack.
LEMMA OtherHolds ==
    ASSUME TypeOK, NEW hs \in Seq(BranchHist), NEW h \in BranchHist, NEW f, HoldsFor(f, hs),
           h.op = "none", predHist' = Append(hs, h), UNCHANGED << addrStack, tos, callStack >>
    PROVE  HoldsInv'
<1> DEFINE n == Len(hs)
           l == f[n]
           cs == callStack
           hs2 == Append(hs, h)
<1>1. /\ n \in Nat /\ Len(cs) \in Nat /\ tos \in Slot /\ addrStack \in [Slot -> Entry]
      /\ Frame(f, hs, cs) /\ Holds(l, hs, cs, addrStack, tos)
      /\ l \in Seq(Int) /\ Len(l) \in Nat
      /\ \A p \in 1 .. Len(l) : l[p] \in Int /\ l[p] <= n
  BY HoldsForFacts, Zenon
<1>2. tos' = tos /\ addrStack' = addrStack /\ predHist' = hs2 /\ callStack' = cs
  OBVIOUS
<1>3. /\ Len(hs2) = n + 1 /\ hs2[n + 1] = h /\ \A i \in 1 .. n : hs2[i] = hs[i]
  BY <1>1
<1> HIDE DEF l, hs2
<1>4. Follows(l, l, h.op, n + 1)
  BY Zenon DEF Follows
<1>5. PICK g : Frame(g, hs2, cs) /\ g[n + 1] = l
  <2>1. Extends(hs2, hs, h, l, l)
    BY <1>1, <1>3, <1>4, Zenon DEF Extends
  <2>2. Accounted(hs, cs, h, l)
    BY Zenon DEF Accounted
  <2>3. l = f[n] /\ Len(hs) = n
    BY Zenon DEF l
  <2>4. Extending(f, hs, cs, n, l, hs2, h, l)
    BY <1>1, <2>1, <2>2, <2>3, Zenon DEF Extending
  <2> QED BY <2>4, ExtendKeeps
<1>6. Holds(l, hs2, cs, addrStack, tos)
  <2>1. Ring(Entries(l, hs, cs), Len(l), addrStack, tos)
    BY <1>1, HoldsRing, Zenon
  <2>2. \A p \in 1 .. Len(l) : Entries(l, hs2, cs)[p] = Entries(l, hs, cs)[p]
    <3>1. Len(l) <= Len(l)
      BY <1>1
    <3>2. Agree(l, hs2, l, hs, Len(l), n)
      BY <1>1, <1>3, <3>1, Zenon DEF Agree
    <3> QED BY <3>2, SameEntries
  <2>3. Ring(Entries(l, hs2, cs), Len(l), addrStack, tos)
    BY <2>1, <2>2, SameRing, Zenon
  <2> QED BY <2>3, HoldsRing, Zenon
<1> QED BY <1>2, <1>3, <1>5, <1>6, Zenon DEF HoldsInv

\* Without the youngest branch: the stack of open calls is the one it was predicted with.
LEMMA OlderHolds ==
    ASSUME IInv, predHist # << >>, NEW n, n = Len(predHist) - 1, NEW f,
           HoldsFor(f, predHist)
    PROVE  /\ n \in Nat /\ Len(Older) = n /\ Older \in Seq(BranchHist)
           /\ \A i \in 1 .. n : Older[i] = predHist[i]
           /\ Follows(f[n], f[n + 1], Youngest.op, n + 1)
           /\ \E g : Frame(g, Older, callStack) /\ g[n] = f[n]
<1>1. predHist \in Seq(BranchHist) /\ Len(predHist) \in Nat \ {0} /\ Len(callStack) \in Nat
  BY DEF IInv, TypeOK
<1>2. n \in Nat /\ Len(predHist) = n + 1 /\ n + 1 \in 1 .. Len(predHist) /\ (n + 1) - 1 = n
  BY <1>1
<1>3. /\ Older \in Seq(BranchHist) /\ Len(Older) = n
      /\ \A i \in 1 .. n : Older[i] = predHist[i]
  BY <1>1, FrontOf, Zenon DEF Older
<1>4. Frame(f, predHist, callStack)
  BY Zenon DEF HoldsFor
<1>5. Follows(f[n], f[n + 1], Youngest.op, n + 1)
  <2>1. Follows(f[(n + 1) - 1], f[n + 1], predHist[n + 1].op, n + 1)
    BY <1>2, <1>4, Zenon DEF Frame, Opens
  <2>2. Youngest = predHist[n + 1]
    BY <1>2, Zenon DEF Youngest
  <2> QED BY <1>2, <2>1, <2>2, Zenon
<1>6. \E g : Frame(g, Older, callStack) /\ g[n] = f[n]
  <2>1. Restricts(Older, f, predHist, callStack, n)
    BY <1>1, <1>2, <1>3, <1>4, Zenon DEF Restricts
  <2> QED BY <2>1, RestrictKeeps
<1> QED BY <1>2, <1>3, <1>5, <1>6, Zenon

\* A branch that has not used the stack leaves nothing to undo.
LEMMA OlderUnused ==
    ASSUME IInv, predHist # << >>, HoldsInv, Youngest.op = "none"
    PROVE  \E g : HoldsFor(g, Older)
<1> DEFINE n == Len(predHist) - 1
<1>1. PICK f : HoldsFor(f, predHist)
  BY Zenon DEF HoldsInv, HoldsFor
<1>2. /\ n \in Nat /\ Len(Older) = n /\ Older \in Seq(BranchHist)
      /\ \A i \in 1 .. n : Older[i] = predHist[i]
      /\ Follows(f[n], f[n + 1], Youngest.op, n + 1)
      /\ \E g : Frame(g, Older, callStack) /\ g[n] = f[n]
  BY <1>1, OlderHolds, Zenon
<1>3. PICK g : Frame(g, Older, callStack) /\ g[n] = f[n]
  BY <1>2, Zenon
<1>4. f[n + 1] = f[n] /\ Len(predHist) = n + 1
  BY <1>2 DEF Follows
<1>5. Holds(f[n], predHist, callStack, addrStack, tos)
  BY <1>1, <1>4 DEF HoldsFor
<1>6. Len(Older) \in 0 .. Len(Older) /\ Len(callStack) \in Nat /\ Len(Older) \in Nat
  BY <1>2 DEF IInv, TypeOK
<1>7. /\ Len(f[n]) \in Nat
      /\ \A p \in 1 .. Len(f[n]) : f[n][p] \in Int /\ f[n][p] <= n
  <2>1. /\ g[Len(Older)] \in Seq(Int) /\ Len(g[Len(Older)]) \in Nat
        /\ \A p \in 1 .. Len(g[Len(Older)]) :
               g[Len(Older)][p] \in (1 - Len(callStack)) .. Len(Older)
    BY <1>3, <1>6, FrameTypes, Zenon
  <2>2. g[Len(Older)] = f[n]
    BY <1>2, <1>3
  <2>3. Len(f[n]) \in Nat /\ \A p \in 1 .. Len(f[n]) : f[n][p] \in (1 - Len(callStack)) .. n
    BY <1>2, <2>1, <2>2
  <2> HIDE DEF n
  <2> QED BY <1>2, <1>6, <2>3
<1> HIDE DEF n
<1>8. Holds(f[n], Older, callStack, addrStack, tos)
  <2>1. Ring(Entries(f[n], predHist, callStack), Len(f[n]), addrStack, tos)
    BY <1>5, HoldsRing, Zenon
  <2>2. Len(f[n]) <= Len(f[n])
    BY <1>7
  <2>3. Agree(f[n], Older, f[n], predHist, Len(f[n]), n)
    BY <1>2, <1>7, <2>2, Zenon DEF Agree
  <2>4. \A p \in 1 .. Len(f[n]) :
            Entries(f[n], Older, callStack)[p] = Entries(f[n], predHist, callStack)[p]
    BY <2>3, SameEntries
  <2>5. Ring(Entries(f[n], Older, callStack), Len(f[n]), addrStack, tos)
    BY <2>1, <2>4, SameRing, Zenon
  <2> QED BY <2>5, HoldsRing, Zenon
<1>9. g[Len(Older)] = f[n]
  BY <1>2, <1>3
<1> QED BY <1>3, <1>8, <1>9, Zenon DEF HoldsFor

\* Undoing a push: the top goes down over the entry.
LEMMA SquashPush ==
    ASSUME IInv, predHist # << >>, HoldsInv, Youngest.op = "push"
    PROVE  \E g : Frame(g, Older, callStack) /\
                  Holds(g[Len(Older)], Older, callStack, addrStack, decrTos(tos))
<1> DEFINE n == Len(predHist) - 1
<1>1. PICK f : HoldsFor(f, predHist)
  BY Zenon DEF HoldsInv, HoldsFor
<1>2. /\ n \in Nat /\ Len(Older) = n /\ Older \in Seq(BranchHist)
      /\ \A i \in 1 .. n : Older[i] = predHist[i]
      /\ Follows(f[n], f[n + 1], Youngest.op, n + 1)
      /\ \E g : Frame(g, Older, callStack) /\ g[n] = f[n]
  BY <1>1, OlderHolds
<1>3. PICK g : Frame(g, Older, callStack) /\ g[n] = f[n]
  BY <1>2, Zenon
<1> DEFINE l == f[n]
           m == f[n + 1]
<1>4. Len(m) = Len(l) + 1 /\ (\A p \in 1 .. Len(l) : m[p] = l[p]) /\ Len(predHist) = n + 1
  BY <1>2 DEF Follows
<1>5. Holds(m, predHist, callStack, addrStack, tos)
  BY <1>1, <1>4 DEF HoldsFor
<1>6. /\ Len(Older) \in 0 .. Len(Older) /\ Len(callStack) \in Nat /\ Len(Older) \in Nat
      /\ tos \in Slot
  BY <1>2 DEF IInv, TypeOK
<1> HIDE DEF l, m, n
<1>7. Len(l) \in Nat /\ \A p \in 1 .. Len(l) : l[p] \in Int /\ l[p] <= n
  <2>1. /\ g[Len(Older)] \in Seq(Int) /\ Len(g[Len(Older)]) \in Nat
        /\ \A p \in 1 .. Len(g[Len(Older)]) :
               g[Len(Older)][p] \in (1 - Len(callStack)) .. Len(Older)
    BY <1>3, <1>6, FrameTypes, Zenon
  <2>2. g[Len(Older)] = l
    BY <1>2, <1>3 DEF l
  <2>3. Len(l) \in Nat /\ \A p \in 1 .. Len(l) : l[p] \in (1 - Len(callStack)) .. n
    BY <1>2, <2>1, <2>2
  <2> QED BY <1>2, <1>6, <2>3
<1>8. Holds(l, Older, callStack, addrStack, decrTos(tos))
  <2>1. Ring(Entries(m, predHist, callStack), Len(l) + 1, addrStack, tos)
    BY <1>4, <1>5, HoldsRing
  <2>2. Ring(Entries(m, predHist, callStack), Len(l), addrStack, decrTos(tos))
    BY <1>6, <1>7, <2>1, RingPop, Zenon
  <2>3. Len(l) <= Len(l) /\ Len(l) <= Len(m) /\ Len(m) \in Nat
    BY <1>4, <1>7
  <2>4. \A p \in 1 .. Len(l) : l[p] = m[p] /\ m[p] \in Int /\ m[p] <= n
    BY <1>4, <1>7
  <2>5. Agree(l, Older, m, predHist, Len(l), n)
    BY <1>2, <1>7, <2>3, <2>4, Zenon DEF Agree
  <2>6. \A p \in 1 .. Len(l) :
            Entries(l, Older, callStack)[p] = Entries(m, predHist, callStack)[p]
    BY <2>5, SameEntries
  <2>7. Ring(Entries(l, Older, callStack), Len(l), addrStack, decrTos(tos))
    BY <2>2, <2>6, SameRing, Zenon
  <2> QED BY <2>7, HoldsRing, Zenon
<1>9. g[Len(Older)] = l
  BY <1>2, <1>3 DEF l
<1> QED BY <1>3, <1>8, <1>9, Zenon

\* Undoing a pop: the top goes back up, and the entry its history has is written there.
LEMMA SquashPop ==
    ASSUME IInv, predHist # << >>, HoldsInv, Youngest.op = "pop",
           NEW b, b = [addrStack EXCEPT ![Youngest.tos] = Youngest.entry]
    PROVE  \E g : Frame(g, Older, callStack) /\
                  Holds(g[Len(Older)], Older, callStack, b, Youngest.tos)
<1> DEFINE n == Len(predHist) - 1
           y == Youngest
<1>1. PICK f : HoldsFor(f, predHist)
  BY Zenon DEF HoldsInv, HoldsFor
<1>2. /\ n \in Nat /\ Len(Older) = n /\ Older \in Seq(BranchHist)
      /\ \A i \in 1 .. n : Older[i] = predHist[i]
      /\ Follows(f[n], f[n + 1], y.op, n + 1)
      /\ \E g : Frame(g, Older, callStack) /\ g[n] = f[n]
  BY <1>1, OlderHolds
<1>3. PICK g : Frame(g, Older, callStack) /\ g[n] = f[n]
  BY <1>2, Zenon
<1> DEFINE l == f[n]
           m == f[n + 1]
<1>4. /\ Len(m) = IF Len(l) = 0 THEN 0 ELSE Len(l) - 1
      /\ \A p \in 1 .. Len(m) : m[p] = l[p]
      /\ Len(predHist) = n + 1
  BY <1>2 DEF Follows
<1>5. Holds(m, predHist, callStack, addrStack, tos) /\ Frame(f, predHist, callStack)
  BY <1>1, <1>4 DEF HoldsFor
<1>6. /\ Len(Older) \in 0 .. Len(Older) /\ Len(callStack) \in Nat /\ Len(Older) \in Nat
      /\ addrStack \in [Slot -> Entry] /\ y = predHist[n + 1]
  <2>1. Len(callStack) \in Nat /\ addrStack \in [Slot -> Entry]
    BY DEF IInv, TypeOK
  <2>2. y = predHist[n + 1]
    BY <1>4, Zenon DEF Youngest
  <2>3. Len(Older) \in Nat
    BY <1>2
  <2> QED BY <2>1, <2>2, <2>3
<1>7. y.tos \in Slot /\ tos = decrTos(y.tos)
  <2>1. Youngest \in BranchHist /\ tos = TosAfter(Youngest)
    BY OlderFacts, Zenon
  <2> QED BY <2>1 DEF TosAfter, BranchHist
<1>8. b = [addrStack EXCEPT ![y.tos] = y.entry] /\ y.op = "pop"
  OBVIOUS
<1> HIDE DEF l, m, n, y
<1>9. Len(l) \in Nat /\ \A p \in 1 .. Len(l) : l[p] \in Int /\ l[p] <= n
  <2>1. /\ g[Len(Older)] \in Seq(Int) /\ Len(g[Len(Older)]) \in Nat
        /\ \A p \in 1 .. Len(g[Len(Older)]) :
               g[Len(Older)][p] \in (1 - Len(callStack)) .. Len(Older)
    BY <1>3, <1>6, FrameTypes, Zenon
  <2>2. g[Len(Older)] = l
    BY <1>2, <1>3 DEF l
  <2>3. Len(l) \in Nat /\ \A p \in 1 .. Len(l) : l[p] \in (1 - Len(callStack)) .. n
    BY <1>2, <2>1, <2>2
  <2> QED BY <1>2, <1>6, <2>3
<1>10. Holds(l, Older, callStack, b, y.tos)
  <2>1. CASE Len(l) = 0
    BY <2>1 DEF Holds
  <2>2. CASE Len(l) # 0
    <3> DEFINE k == Len(m)
               E == Entries(l, predHist, callStack)
    <3>1. k \in Nat /\ Len(l) = k + 1 /\ k <= k /\ k <= Len(l) /\ k + 1 \in 1 .. Len(l)
      BY <1>4, <1>9, <2>2
    <3>2. Ring(Entries(m, predHist, callStack), k, addrStack, decrTos(y.tos))
      BY <1>5, <1>7, HoldsRing
    <3>3. \A p \in 1 .. k : l[p] = m[p] /\ m[p] \in Int /\ m[p] <= n
      <4> TAKE p \in 1 .. k
      <4>1. p \in 1 .. Len(l)
        BY <3>1
      <4> QED BY <1>4, <1>9, <4>1
    <3>4. Agree(l, predHist, m, predHist, k, n)
      BY <1>2, <1>9, <3>1, <3>3 DEF Agree
    <3>5. \A p \in 1 .. k : E[p] = Entries(m, predHist, callStack)[p]
      BY <3>4, SameEntries
    <3>6. Ring(E, k, addrStack, decrTos(y.tos))
      BY <3>2, <3>5, SameRing, Zenon
    <3>7. \A p \in 1 .. Len(l) : E[p] = EntryIn(predHist, callStack, l[p])
      BY DEF Entries
    <3>8. E[k + 1] \in {NoAddr, y.entry}
      <4>1. n + 1 \in 1 .. Len(predHist) /\ (n + 1) - 1 = n
        BY <1>2, <1>4
      <4>2. Len(f[n]) > 0 /\ Len(f[n]) = k + 1
        BY <1>9, <2>2, <3>1 DEF l
      <4>3. predHist[n + 1].op = "pop" /\ Len(f[(n + 1) - 1]) > 0
        BY <1>6, <1>8, <4>1, <4>2, Zenon
      <4>4. EntryIn(predHist, callStack, f[(n + 1) - 1][Len(f[(n + 1) - 1])])
                \in {NoAddr, predHist[n + 1].entry}
        BY <1>5, <4>1, <4>3, Zenon DEF Frame, Saved
      <4>5. EntryIn(predHist, callStack, l[k + 1]) \in {NoAddr, y.entry}
        BY <1>6, <4>1, <4>2, <4>4, Zenon DEF l
      <4> QED BY <3>1, <3>7, <4>5, Zenon
    <3>9. \A p \in 1 .. (k + 1 - numEntries) : E[p] = NoAddr
      <4> TAKE p \in 1 .. (k + 1 - numEntries)
      <4>1. p \in 1 .. (Len(l) - numEntries) /\ p \in 1 .. Len(l)
        BY <1>9, <3>1, RASAssumption, SMTT(30)
      <4>2. n \in 0 .. Len(predHist)
        BY <1>2, <1>4
      <4>3. EntryIn(predHist, callStack, l[p]) = NoAddr
        BY <1>5, <4>1, <4>2, Zenon DEF Frame, Deep, l
      <4> QED BY <3>7, <4>1, <4>3, Zenon
    <3> HIDE DEF k, E
    <3>10. Ring(E, k + 1, b, y.tos)
      <4>1. Unpops(E, k, addrStack, y.tos, y.entry)
        BY <1>6, <1>7, <3>1, <3>6, <3>8, <3>9, Zenon DEF Unpops
      <4>2. Ring(E, k + 1, [addrStack EXCEPT ![y.tos] = y.entry], y.tos)
        BY <4>1, RingUnpop, Zenon
      <4> QED BY <1>8, <4>2, Zenon
    <3>11. \A p \in 1 .. Len(l) : Entries(l, Older, callStack)[p] = E[p]
      <4>1. Len(l) <= Len(l)
        BY <1>9
      <4>2. Agree(l, Older, l, predHist, Len(l), n)
        BY <1>2, <1>9, <4>1, Zenon DEF Agree
      <4> QED BY <4>2, SameEntries DEF E
    <3>12. Ring(E, Len(l), b, y.tos)
      BY <3>1, <3>10, Zenon
    <3>13. Ring(Entries(l, Older, callStack), Len(l), b, y.tos)
      BY <3>11, <3>12, SameRing, Zenon
    <3> QED BY <3>13, HoldsRing, Zenon
  <2> QED BY <2>1, <2>2
<1>11. g[Len(Older)] = l
  BY <1>2, <1>3 DEF l
<1> QED BY <1>3, <1>10, <1>11, Zenon DEF y

LEMMA PredictHolds ==
    ASSUME IInv, HoldsInv,
           \/ \E ret \in RetAddr : PredictCall(ret) \/ PredictOther(NewHist("Call", FALSE, ret))
           \/ PredictReturn \/ PredictOther(NewHist("Return", FALSE, NoAddr))
           \/ \E taken \in BOOLEAN : PredictOther(NewHist("Other", taken, NoAddr))
    PROVE  HoldsInv'
<1>1. TypeOK /\ predHist \in Seq(BranchHist) /\ tos \in Slot
  BY DEF IInv, TypeOK
<1>2. PICK f : HoldsFor(f, predHist)
  BY Zenon DEF HoldsInv, HoldsFor
<1>3. ASSUME NEW type \in {"Call", "Return", "Other"}, NEW taken \in BOOLEAN, NEW ret \in Entry
      PROVE  NewHist(type, taken, ret) \in BranchHist /\ NewHist(type, taken, ret).op = "none"
  BY <1>1 DEF NewHist, BranchHist, Entry
<1>4. NoAddr \in Entry /\ RetAddr \subseteq Entry
  BY DEF Entry
<1>5. ASSUME NEW h \in BranchHist, h.op = "none", PredictOther(h) PROVE HoldsInv'
  <2>1. predHist' = Append(predHist, h) /\ UNCHANGED << addrStack, tos, callStack >>
    BY <1>5 DEF PredictOther
  <2> QED BY <1>1, <1>2, <1>5, <2>1, OtherHolds, Zenon
<1>6. ASSUME NEW ret \in RetAddr, PredictCall(ret) PROVE HoldsInv'
  <2>1. ret \in Entry
    BY <1>4
  <2>2. NewHist("Call", TRUE, ret) \in BranchHist
    BY <1>3, <2>1, Zenon
  <2>3. DoPush(predHist, NewHist("Call", TRUE, ret))
    BY <1>6, Zenon DEF PredictCall
  <2> QED BY <1>1, <1>2, <2>2, <2>3, PushHolds, Zenon
<1>7. CASE PredictReturn
  <2>1. NewHist("Return", TRUE, NoAddr) \in BranchHist
    BY <1>3, <1>4, Zenon
  <2>2. DoPop(predHist, NewHist("Return", TRUE, NoAddr))
    BY <1>7, Zenon DEF PredictReturn
  <2> QED BY <1>1, <1>2, <2>1, <2>2, PopHolds, Zenon
<1>8. ASSUME NEW ret \in RetAddr, PredictOther(NewHist("Call", FALSE, ret)) PROVE HoldsInv'
  <2>1. ret \in Entry
    BY <1>4
  <2>2. NewHist("Call", FALSE, ret) \in BranchHist /\ NewHist("Call", FALSE, ret).op = "none"
    BY <1>3, <2>1, Zenon
  <2> QED BY <1>5, <1>8, <2>2, Zenon
<1>9. CASE PredictOther(NewHist("Return", FALSE, NoAddr))
  <2>1. NewHist("Return", FALSE, NoAddr) \in BranchHist /\ NewHist("Return", FALSE, NoAddr).op = "none"
    BY <1>3, <1>4, Zenon
  <2> QED BY <1>5, <1>9, <2>1, Zenon
<1>10. ASSUME NEW taken \in BOOLEAN, PredictOther(NewHist("Other", taken, NoAddr)) PROVE HoldsInv'
  <2>1. NewHist("Other", taken, NoAddr) \in BranchHist /\ NewHist("Other", taken, NoAddr).op = "none"
    BY <1>3, <1>4
  <2> QED BY <1>5, <1>10, <2>1, Zenon
<1> QED BY <1>6, <1>7, <1>8, <1>9, <1>10, Zenon

LEMMA SquashYoungestHolds ==
    ASSUME IInv, HoldsInv, SquashYoungest PROVE HoldsInv'
<1> DEFINE y == Youngest
<1>1. predHist # << >> /\ predHist' = Older /\ callStack' = callStack
  BY DEF SquashYoungest, DoSquash
<1>2. /\ tos' = CASE y.op = "push" -> decrTos(tos) [] y.op = "pop" -> y.tos [] OTHER -> tos
      /\ addrStack' = IF y.op = "pop" THEN [addrStack EXCEPT ![y.tos] = y.entry] ELSE addrStack
  BY DEF SquashYoungest, DoSquash
<1>3. y.op \in {"none", "push", "pop"}
  <2>1. Youngest \in BranchHist
    BY <1>1, OlderFacts, Zenon
  <2> QED BY <2>1 DEF BranchHist
<1>4. SUFFICES \E g : Frame(g, Older, callStack) /\
                      Holds(g[Len(Older)], Older, callStack, addrStack', tos')
  BY <1>1, Zenon DEF HoldsInv
<1>5. CASE y.op = "none"
  <2>1. tos' = tos /\ addrStack' = addrStack
    BY <1>2, <1>5
  <2> QED BY <1>1, <1>5, <2>1, OlderUnused, Zenon DEF HoldsFor
<1>6. CASE y.op = "push"
  <2>1. tos' = decrTos(tos) /\ addrStack' = addrStack
    BY <1>2, <1>6
  <2> QED BY <1>1, <1>6, <2>1, SquashPush, Zenon
<1>7. CASE y.op = "pop"
  <2>1. tos' = Youngest.tos /\ addrStack' = [addrStack EXCEPT ![Youngest.tos] = Youngest.entry]
    BY <1>2, <1>7
  <2> QED BY <1>1, <1>7, <2>1, SquashPop, Zenon
<1> QED BY <1>3, <1>5, <1>6, <1>7, Zenon

\* The youngest branch changes, but not its entry or what it did to the stack.
LEMMA SameUse ==
    ASSUME IInv, HoldsInv, predHist # << >>, NEW h \in BranchHist,
           h.op = Youngest.op, h.entry = Youngest.entry,
           predHist' = Append(Older, h), UNCHANGED << addrStack, tos, callStack >>
    PROVE  HoldsInv'
<1> DEFINE n == Len(predHist)
           hs2 == Append(Older, h)
<1>1. PICK f : HoldsFor(f, predHist)
  BY Zenon DEF HoldsInv, HoldsFor
<1>2. /\ predHist \in Seq(BranchHist) /\ n \in Nat \ {0} /\ Len(callStack) \in Nat /\ n \in 0 .. n
  <2>1. predHist \in Seq(BranchHist) /\ callStack \in Seq(Entry)
    BY Zenon DEF IInv, TypeOK
  <2>2. n \in Nat \ {0} /\ Len(callStack) \in Nat
    BY <2>1
  <2> QED BY <2>1, <2>2
<1>3. /\ Older \in Seq(BranchHist) /\ Len(Older) = n - 1
      /\ \A i \in 1 .. (n - 1) : Older[i] = predHist[i]
  BY <1>2, FrontOf, Zenon DEF Older
<1>4. /\ Len(hs2) = n /\ hs2[n] = h /\ \A i \in 1 .. (n - 1) : hs2[i] = predHist[i]
  <2>1. (n - 1) + 1 = n
    BY <1>2
  <2>2. /\ Len(hs2) = (n - 1) + 1 /\ hs2[(n - 1) + 1] = h
        /\ \A i \in 1 .. (n - 1) : hs2[i] = Older[i]
    BY <1>3, AppendOf, SMTT(30)
  <2> QED BY <1>3, <2>1, <2>2, Zenon
<1>5. Youngest = predHist[n]
  BY DEF Youngest
<1> HIDE DEF hs2, n
<1>6. \A i \in 1 .. n : hs2[i].op = predHist[i].op /\ hs2[i].entry = predHist[i].entry
  <2> TAKE i \in 1 .. n
  <2>1. i = n \/ i \in 1 .. (n - 1)
    BY <1>2
  <2> QED BY <1>4, <1>5, <2>1, Zenon
<1>7. \A o \in (1 - Len(callStack)) .. n :
          EntryIn(hs2, callStack, o) \in {NoAddr, EntryIn(predHist, callStack, o)}
  <2> TAKE o \in (1 - Len(callStack)) .. n
  <2>1. o > 0 => o \in 1 .. n
    BY <1>2
  <2>2. EntryIn(hs2, callStack, o) = EntryIn(predHist, callStack, o)
    BY <1>6, <2>1, Zenon DEF EntryIn
  <2> QED BY <2>2, Zenon
<1>8. /\ Frame(f, hs2, callStack)
      /\ \A i \in 0 .. n : \A a, t :
             Holds(f[i], predHist, callStack, a, t) => Holds(f[i], hs2, callStack, a, t)
  <2>1. Len(predHist) = n /\ Len(hs2) = Len(predHist) /\ Len(predHist) \in Nat
    BY <1>2, <1>4 DEF n
  <2>2. Frame(f, predHist, callStack)
    BY <1>1, Zenon DEF HoldsFor
  <2>3. /\ \A i \in 1 .. Len(predHist) :
               /\ hs2[i].op = predHist[i].op
               /\ predHist[i].op # "push" => hs2[i].entry = predHist[i].entry
        /\ \A o \in (1 - Len(callStack)) .. Len(predHist) :
               EntryIn(hs2, callStack, o) \in {NoAddr, EntryIn(predHist, callStack, o)}
    BY <1>6, <1>7, <2>1, Zenon
  <2>4. /\ Frame(f, hs2, callStack)
        /\ \A i \in 0 .. Len(predHist) : \A a, t :
               Holds(f[i], predHist, callStack, a, t) => Holds(f[i], hs2, callStack, a, t)
    BY <1>2, <2>1, <2>2, <2>3, LoseKeeps, Zenon
  <2> QED BY <2>1, <2>4, Zenon
<1>9. Holds(f[Len(hs2)], hs2, callStack, addrStack, tos)
  <2>1. Holds(f[n], predHist, callStack, addrStack, tos)
    BY <1>1, Zenon DEF HoldsFor, n
  <2> QED BY <1>2, <1>4, <1>8, <2>1, Zenon
<1>10. predHist' = hs2 /\ addrStack' = addrStack /\ tos' = tos /\ callStack' = callStack
  BY Zenon DEF hs2
<1> QED BY <1>8, <1>9, <1>10, Zenon DEF HoldsInv

LEMMA CorrectTakenHolds ==
    ASSUME IInv, HoldsInv, CorrectTaken PROVE HoldsInv'
<1> DEFINE h == [Youngest EXCEPT !.taken = TRUE]
<1>1. predHist # << >> /\ TypeOK
  BY DEF CorrectTaken, IInv
<1>2. Youngest \in BranchHist /\ Older \in Seq(BranchHist)
  BY <1>1, OlderFacts
<1>3. /\ h \in BranchHist /\ h.type = Youngest.type /\ h.op = Youngest.op
      /\ h.entry = Youngest.entry
  BY <1>2, Zenon DEF BranchHist
<1>4. CASE h.op = "none" /\ h.type = "Return"
  <2>1. DoPop(Older, h)
    BY <1>4 DEF CorrectTaken
  <2> HIDE DEF h
  <2>2. PICK g : HoldsFor(g, Older)
    BY <1>1, <1>3, <1>4, OlderUnused, Zenon
  <2> QED BY <1>1, <1>2, <1>3, <2>1, <2>2, PopHolds, Zenon
<1>5. CASE h.op = "none" /\ h.type = "Call"
  <2>1. DoPush(Older, h)
    BY <1>5 DEF CorrectTaken
  <2> HIDE DEF h
  <2>2. PICK g : HoldsFor(g, Older)
    BY <1>1, <1>3, <1>5, OlderUnused, Zenon
  <2> QED BY <1>1, <1>2, <1>3, <2>1, <2>2, PushHolds, Zenon
<1>6. CASE ~(h.op = "none" /\ h.type = "Return") /\ ~(h.op = "none" /\ h.type = "Call")
  <2>1. predHist' = Append(Older, h) /\ UNCHANGED << addrStack, tos, callStack >>
    BY <1>6 DEF CorrectTaken
  <2> HIDE DEF h
  <2> QED BY <1>1, <1>3, <2>1, SameUse, Zenon
<1> QED BY <1>4, <1>5, <1>6

LEMMA CorrectNotTakenHolds ==
    ASSUME IInv, HoldsInv, CorrectNotTaken PROVE HoldsInv'
<1> DEFINE h == [Youngest EXCEPT !.taken = FALSE, !.op = "none"]
<1>1. /\ predHist # << >> /\ Youngest.type = "Other" /\ DoSquash(Youngest)
      /\ predHist' = Append(Older, h) /\ TypeOK
  BY DEF CorrectNotTaken, IInv
<1>2. Youngest \in BranchHist /\ OpFits(Youngest) /\ Older \in Seq(BranchHist)
  BY <1>1, OlderFacts, Zenon
<1>3. h \in BranchHist /\ h.op = "none"
  BY <1>2, Zenon DEF BranchHist
<1>4. Youngest.op = "none"
  BY <1>1, <1>2 DEF OpFits
<1>5. UNCHANGED << addrStack, tos, callStack >>
  BY <1>1, <1>4 DEF DoSquash
<1> HIDE DEF h
<1>6. PICK g : HoldsFor(g, Older)
  BY <1>1, <1>4, OlderUnused, Zenon
<1> QED BY <1>1, <1>2, <1>3, <1>5, <1>6, OtherHolds, Zenon

\* The branch that commits opens, closes or leaves the calls of callStack.
LEMMA CommitOldestHolds ==
    ASSUME IInv, HoldsInv, CommitOldest PROVE HoldsInv'
<1> DEFINE h == predHist[1]
           n == Len(predHist) - 1
           L == Len(callStack)
           hs2 == Tail(predHist)
<1>1. /\ predHist # << >> /\ (h.type # "Other" => h.taken) /\ predHist' = hs2
      /\ UNCHANGED << addrStack, tos >>
  BY DEF CommitOldest
<1>2. /\ predHist \in Seq(BranchHist) /\ n \in Nat /\ callStack \in Seq(Entry) /\ L \in Nat
      /\ tos \in Int /\ Len(predHist) = n + 1
  <2>1. predHist \in Seq(BranchHist) /\ callStack \in Seq(Entry) /\ tos \in Slot
    BY Zenon DEF IInv, TypeOK
  <2>2. n \in Nat /\ L \in Nat /\ Len(predHist) = n + 1
    BY <1>1, <2>1
  <2>3. tos \in Int
    BY <2>1, RASAssumption DEF Slot
  <2> QED BY <2>1, <2>2, <2>3
<1>3. h \in BranchHist /\ OpFits(h) /\ 1 \in 1 .. Len(predHist)
  <2>1. 1 \in 1 .. Len(predHist)
    BY <1>2
  <2>2. h \in BranchHist
    BY <1>2, <2>1
  <2>3. OpFits(h)
    BY <2>1 DEF IInv, OpsFit
  <2> QED BY <2>1, <2>2, <2>3
<1>4. h.type \in {"Call", "Return", "Other"} /\ h.entry \in Entry /\ h.taken \in BOOLEAN
  BY <1>3 DEF BranchHist
<1>5. Len(hs2) = n /\ \A i \in 1 .. n : hs2[i] = predHist[i + 1]
  BY <1>1, <1>2, TailOf
<1>6. PICK f : HoldsFor(f, predHist)
  BY Zenon DEF HoldsInv, HoldsFor
<1>7. Frame(f, predHist, callStack) /\ Holds(f[n + 1], predHist, callStack, addrStack, tos)
  BY <1>2, <1>6, Zenon DEF HoldsFor
<1>8. /\ Len(f[0]) = L /\ \A p \in 1 .. L : f[0][p] = p - L
      /\ Follows(f[0], f[1], h.op, 1)
  <2>1. Follows(f[1 - 1], f[1], predHist[1].op, 1)
    BY <1>3, <1>7, Zenon DEF Frame, Opens
  <2>2. 1 - 1 = 0
    OBVIOUS
  <2> QED BY <1>7, <2>1, <2>2, Zenon DEF Frame, Opens
<1> HIDE DEF hs2, n, h, L
\* What commits with callStack is what was open after the branch.
<1>9. ASSUME NEW cs2 \in Seq(Entry), Len(f[1]) = Len(cs2),
             \A p \in 1 .. Len(cs2) :
                 f[1][p] = p - L /\ cs2[p] = EntryIn(predHist, callStack, p - L)
      PROVE  \E g : /\ Frame(g, hs2, cs2)
                    /\ Holds(g[Len(hs2)], hs2, cs2, addrStack, tos)
  <2>1. Len(cs2) \in Nat
    OBVIOUS
  <2>2. Retired(f, predHist, callStack, hs2, cs2, n)
    BY <1>2, <1>5, <1>9, <2>1, Zenon DEF Retired, L
  <2>3. \E g : /\ Frame(g, hs2, cs2)
               /\ \A a, t : t \in Int /\ Holds(f[n + 1], predHist, callStack, a, t) =>
                                Holds(g[n], hs2, cs2, a, t)
    BY <1>2, <1>7, <2>2, CommitKeeps, Zenon DEF L
  <2> QED BY <1>2, <1>5, <1>7, <2>3, Zenon
<1>10. \A p \in 1 .. L : EntryIn(predHist, callStack, p - L) = callStack[p]
  <2> TAKE p \in 1 .. L
  <2>1. ~(p - L > 0) /\ L + (p - L) = p
    BY <1>2
  <2> QED BY <2>1 DEF EntryIn, L
<1>11. CASE h.type = "Call"
  <2> DEFINE cs2 == Append(callStack, h.entry)
  <2>1. h.op = "push"
    BY <1>1, <1>3, <1>4, <1>11 DEF OpFits
  <2>2. callStack' = Strip(cs2)
    BY <1>11 DEF CommitOldest, h
  <2>3. /\ cs2 \in Seq(Entry) /\ Len(cs2) = L + 1 /\ cs2[L + 1] = h.entry
        /\ \A p \in 1 .. L : cs2[p] = callStack[p]
    BY <1>2, <1>4 DEF L
  <2> HIDE DEF cs2
  <2>4. /\ Len(f[1]) = L + 1 /\ f[1][L + 1] = 1 /\ \A p \in 1 .. L : f[1][p] = p - L
    BY <1>8, <2>1, Zenon DEF Follows
  <2>5. \A p \in 1 .. Len(cs2) :
            f[1][p] = p - L /\ cs2[p] = EntryIn(predHist, callStack, p - L)
    <3> TAKE p \in 1 .. Len(cs2)
    <3>1. CASE p \in 1 .. L
      BY <1>10, <2>3, <2>4, <3>1, Zenon
    <3>2. CASE p = L + 1
      <4>1. p - L = 1 /\ 1 > 0
        BY <1>2, <3>2
      <4>2. EntryIn(predHist, callStack, p - L) = h.entry
        BY <4>1, Zenon DEF EntryIn, h
      <4> QED BY <2>3, <2>4, <3>2, <4>1, <4>2, Zenon
    <3>3. p \in 1 .. L \/ p = L + 1
      BY <1>2, <2>3
    <3> QED BY <3>1, <3>2, <3>3, Zenon
  <2>6. Len(f[1]) = Len(cs2)
    BY <2>3, <2>4, Zenon
  <2>7. PICK g : Frame(g, hs2, cs2) /\ Holds(g[Len(hs2)], hs2, cs2, addrStack, tos)
    BY <1>9, <2>3, <2>5, <2>6, Zenon
  <2>8. Len(hs2) \in Nat
    BY <1>2, <1>5
  <2>9. \E e : Frame(e, hs2, Strip(cs2)) /\ Holds(e[Len(hs2)], hs2, Strip(cs2), addrStack, tos)
    BY <1>2, <2>3, <2>7, <2>8, StripHolds, Zenon
  <2> QED BY <1>1, <2>2, <2>9, Zenon DEF HoldsInv
<1>12. CASE h.type = "Return"
  <2> DEFINE cs2 == IF callStack = << >> THEN << >> ELSE SubSeq(callStack, 1, L - 1)
  <2>1. h.op = "pop"
    BY <1>1, <1>3, <1>4, <1>12 DEF OpFits
  <2>2. callStack' = cs2
    BY <1>12 DEF CommitOldest, h, L
  <2>3. /\ cs2 \in Seq(Entry) /\ Len(cs2) = IF L = 0 THEN 0 ELSE L - 1
        /\ \A p \in 1 .. Len(cs2) : cs2[p] = callStack[p]
    <3>1. CASE callStack = << >>
      BY <3>1 DEF L
    <3>2. CASE callStack # << >>
      <4>1. cs2 = SubSeq(callStack, 1, L - 1) /\ L # 0
        BY <1>2, <3>2 DEF L
      <4>2. /\ cs2 \in Seq(Entry) /\ Len(cs2) = L - 1
            /\ \A p \in 1 .. (L - 1) : cs2[p] = callStack[p]
        BY <1>2, <3>2, <4>1, FrontOf DEF L
      <4> HIDE DEF cs2
      <4> QED BY <4>1, <4>2, Zenon
    <3> QED BY <3>1, <3>2, Zenon
  <2> HIDE DEF cs2
  <2>4. /\ Len(f[1]) = IF L = 0 THEN 0 ELSE L - 1
        /\ \A p \in 1 .. Len(f[1]) : f[1][p] = f[0][p]
    BY <1>8, <2>1, Zenon DEF Follows
  <2>5. Len(f[1]) = Len(cs2)
    BY <2>3, <2>4
  <2>6. \A p \in 1 .. Len(cs2) :
            f[1][p] = p - L /\ cs2[p] = EntryIn(predHist, callStack, p - L)
    <3> TAKE p \in 1 .. Len(cs2)
    <3>1. p \in 1 .. L
      BY <1>2, <2>3
    <3> QED BY <1>8, <1>10, <2>3, <2>4, <2>5, <3>1, Zenon
  <2> QED BY <1>1, <1>9, <2>2, <2>3, <2>5, <2>6, Zenon DEF HoldsInv
<1>13. CASE h.type = "Other"
  <2>1. h.op = "none"
    BY <1>3, <1>13 DEF OpFits
  <2>2. callStack' = callStack
    BY <1>13 DEF CommitOldest, h
  <2>3. f[1] = f[0]
    BY <1>8, <2>1, Zenon DEF Follows
  <2>4. Len(f[1]) = Len(callStack)
    BY <1>8, <2>3, Zenon DEF L
  <2>5. \A p \in 1 .. Len(callStack) :
            f[1][p] = p - L /\ callStack[p] = EntryIn(predHist, callStack, p - L)
    BY <1>8, <1>10, <2>3, Zenon DEF L
  <2> QED BY <1>1, <1>2, <1>9, <2>2, <2>4, <2>5, Zenon DEF HoldsInv
<1> QED BY <1>4, <1>11, <1>12, <1>13, Zenon

LEMMA InitHolds == Init => HoldsInv
<1> SUFFICES ASSUME Init PROVE HoldsInv
  OBVIOUS
<1> DEFINE f == [i \in 0 .. 0 |-> << >>]
<1>1. predHist = << >> /\ callStack = << >> /\ Len(predHist) = 0 /\ Len(callStack) = 0
  BY DEF Init
<1>2. /\ f \in [0 .. 0 -> Seq(Int)] /\ \A i \in 0 .. 0 : f[i] = << >> /\ Len(f[i]) = 0
      /\ f[0] = << >> /\ Len(f[0]) = 0
  OBVIOUS
<1> HIDE DEF f
<1>3. Opens(f, predHist, callStack)
  BY <1>1, <1>2 DEF Opens
<1>4. Ordered(f, predHist, callStack) /\ Remembered(f, predHist)
  <2>1. \A i \in 0 .. Len(predHist) : 1 .. Len(f[i]) = {}
    BY <1>1, <1>2
  <2>2. Ordered(f, predHist, callStack)
    BY <2>1 DEF Ordered
  <2>3. Remembered(f, predHist)
    BY <2>1 DEF Remembered
  <2> QED BY <2>2, <2>3
<1>5. Saved(f, predHist, callStack)
  BY <1>1 DEF Saved
<1>6. Deep(f, predHist, callStack)
  BY <1>1, <1>2, RASAssumption DEF Deep
<1>7. Holds(f[Len(predHist)], predHist, callStack, addrStack, tos)
  BY <1>1, <1>2 DEF Holds
<1> QED BY <1>3, <1>4, <1>5, <1>6, <1>7, Zenon DEF HoldsInv, Frame

LEMMA HoldsInductive == Spec => []HoldsInv
<1>1. ASSUME IInv, HoldsInv, [Next]_vars PROVE HoldsInv'
  <2>1. CASE UNCHANGED vars
    <3>1. UNCHANGED << predHist, callStack, addrStack, tos >>
      BY <2>1 DEF vars
    <3> QED BY <1>1, <3>1 DEF HoldsInv
  <2> QED BY <1>1, <2>1, PredictHolds, SquashYoungestHolds, CorrectTakenHolds,
             CorrectNotTakenHolds, CommitOldestHolds, Zenon DEF Next
<1> QED BY <1>1, InitHolds, Inductive, PTL DEF Spec

\* Whatever is predicted, squashed, corrected and committed, and however deep the calls
\* nest, the stack holds the return addresses of the open calls from its top down,
\* except those a push on a full stack has overwritten: for every size of the stack.
THEOREM StackHoldsOpenCalls == Spec => []HoldsOpenCalls
<1>1. IInv /\ HoldsInv => HoldsOpenCalls
  <2> SUFFICES ASSUME IInv, HoldsInv PROVE HoldsOpenCalls
    OBVIOUS
  <2>1. PICK f : /\ Frame(f, predHist, callStack)
                 /\ Holds(f[Len(predHist)], predHist, callStack, addrStack, tos)
    BY Zenon DEF HoldsInv
  <2>2. /\ Len(predHist) \in Nat /\ callStack \in Seq(Entry) /\ Len(callStack) \in Nat
        /\ Len(predHist) \in 0 .. Len(predHist)
    BY DEF IInv, TypeOK
  <2> DEFINE l == f[Len(predHist)]
  <2>3. SpecOwners(predHist) = l
    BY <2>1, <2>2, OwnersAre, Zenon DEF Frame
  <2>4. Len(l) \in Nat
    BY <2>1, <2>2, FrameTypes, Zenon
  <2>5. Holds(l, predHist, callStack, addrStack, tos)
    BY <2>1, Zenon
  <2> HIDE DEF l
  <2>6. ASSUME NEW d \in 0 .. (Len(l) - 1)
        PROVE  EntryOf(l[Len(l) - d]) \in {NoAddr, addrStack[(tos - d) % numEntries]}
    <3>1. Len(l) - d \in 1 .. Len(l) /\ Len(l) - (Len(l) - d) = d
      BY <2>4
    <3>2. EntryIn(predHist, callStack, l[Len(l) - d])
              \in {NoAddr, addrStack[(tos - (Len(l) - (Len(l) - d))) % numEntries]}
      BY <2>5, <3>1, Zenon DEF Holds
    <3>3. EntryOf(l[Len(l) - d]) = EntryIn(predHist, callStack, l[Len(l) - d])
      BY Zenon DEF EntryOf, EntryIn
    <3> QED BY <3>1, <3>2, <3>3, Zenon
  <2> QED BY <2>3, <2>6, Zenon DEF HoldsOpenCalls
<1> QED BY <1>1, Inductive, HoldsInductive, PTL

\* The invariant TypeOK holds for any number of entries and of branches in flight: no
\* index of addrStack leaves the vector, at the wrap-around either way, and the ghost
\* stack holds entries.
THEOREM TypeCorrect == Spec => []TypeOK
<1>1. IInv => TypeOK
  BY DEF IInv
<1> QED BY <1>1, Inductive, PTL

\* The invariant TosFollowsCommit holds: whatever mix of predictions, squashes,
\* corrections and overflows BPredUnit puts the stack through, undoing the branches in
\* flight takes tos back to where the committed calls and returns have left it.
THEOREM TosNeverDrifts == Spec => []TosFollowsCommit
<1>1. IInv => TosFollowsCommit
  BY DEF IInv, Chain, TosFollowsCommit, Youngest
<1> QED BY <1>1, Inductive, PTL
=============================================================================
