-------------------------- MODULE ReturnAddrStack --------------------------
(***************************************************************************)
(* The return address stack (pred/ras.cc) under the speculation of the      *)
(* BPredUnit: predict pushes and pops it, squashHistory undoes the youngest *)
(* branch, squash corrects it, commitBranch retires the oldest.             *)
(*                                                                          *)
(* The stack is a ring of numEntries slots that overwrites its oldest entry *)
(* when it is full and never knows that it is empty.  Undoing a call moves  *)
(* the top of stack back and leaves the slot it wrote; undoing a return     *)
(* puts back the entry it popped, which its history has saved.              *)
(*                                                                          *)
(* callStack holds the return addresses of the calls that committed and     *)
(* have not returned, as the program sees them, and committedTos where they *)
(* end in the ring.  Calls and returns are unconditional, as on AArch64.    *)
(***************************************************************************)
EXTENDS Integers, Sequences

CONSTANTS
    numEntries,
    RetAddr,     \* return addresses
    NoAddr,      \* a null entry, or a return address that was overwritten
    MaxHist      \* branches in flight

ASSUME RASAssumption ==
    numEntries \in Nat \ {0} /\ MaxHist \in Nat /\ NoAddr \notin RetAddr

VARIABLES
    addrStack, tos,     \* ReturnAddrStack::AddrStack
    predHist,           \* the branches in flight, oldest first
    callStack, committedTos

vars == << addrStack, tos, predHist, callStack, committedTos >>

Slot  == 0 .. (numEntries - 1)
Entry == RetAddr \cup {NoAddr}

\* The part of a PredictorHistory that concerns the stack.  op says whether there
\* is a rasHistory and what it records.  The history of a return has the old top
\* of stack and the entry found there; for the others the two fields only serve
\* the properties: the top of stack before the branch, and the address it pushed.
BranchHist == [type : {"Call", "Return", "Other"}, taken : BOOLEAN, ret : Entry,
               op : {"none", "push", "pop"}, tos : Slot, entry : Entry]

\* Mutant: the top of stack runs off the end of the vector.
incrTosNoWrap(t) == t + 1

incrTos(t) == IF t + 1 = numEntries THEN 0 ELSE t + 1
decrTos(t) == IF t = 0 THEN numEntries - 1 ELSE t - 1

NewHist(type, taken, ret) ==
    [type |-> type, taken |-> taken, ret |-> ret, op |-> "none", tos |-> tos, entry |-> NoAddr]

\* The history of a branch after ReturnAddrStack::push and pop.
Pushed(h) == [h EXCEPT !.op = "push", !.tos = tos, !.entry = h.ret]
Popped(h) == [h EXCEPT !.op = "pop",  !.tos = tos, !.entry = addrStack[tos]]

-----------------------------------------------------------------------------
\* The stack of open calls once the i-th branch in flight has done op.
Opened(owners, op, i) ==
    CASE op = "push" -> Append(owners, i)
      [] op = "pop"  -> IF owners = << >> THEN << >> ELSE SubSeq(owners, 1, Len(owners) - 1)
      [] OTHER       -> owners

\* The stack the program and the branches hs in flight ought to see, by the owner
\* of each entry, bottom first: the i-th branch in flight, or with o <= 0 the
\* (-o)-th entry from the top of callStack.
SpecOwners(hs) ==
    LET after[i \in 0 .. Len(hs)] ==
            IF i = 0 THEN [p \in 1 .. Len(callStack) |-> p - Len(callStack)]
            ELSE Opened(after[i - 1], hs[i].op, i)
    IN  after[Len(hs)]

EntryOf(o) == IF o > 0 THEN predHist[o].entry ELSE callStack[Len(callStack) + o]

\* The owner whose entry a push overwrites, if the stack is full.
Victim(hs) == LET owners == SpecOwners(hs)
              IN  IF Len(owners) >= numEntries
                  THEN {owners[Len(owners) - numEntries + 1]} ELSE {}

Lose(hs, victim) == [i \in DOMAIN hs |-> IF i \in victim THEN [hs[i] EXCEPT !.entry = NoAddr]
                                         ELSE hs[i]]

\* Entries at the bottom that are lost do not matter any more.
Strip(stack) == IF stack # << >> /\ stack[1] = NoAddr THEN Tail(stack) ELSE stack

LoseCall(victim) ==
    Strip([p \in DOMAIN callStack |-> IF p - Len(callStack) \in victim THEN NoAddr ELSE callStack[p]])

-----------------------------------------------------------------------------
\* A call pushes; hs are the histories of the older branches, h is its own.
DoPush(hs, h) ==
    /\ tos' = incrTos(tos)
    /\ addrStack' = [addrStack EXCEPT ![incrTos(tos)] = h.ret]
    /\ predHist' = Append(Lose(hs, Victim(hs)), Pushed(h))
    /\ callStack' = LoseCall(Victim(hs))

DoPop(hs, h) ==
    /\ tos' = decrTos(tos)
    /\ predHist' = Append(hs, Popped(h))
    /\ UNCHANGED << addrStack, callStack >>

\* Mutant: the entry that was pushed is not given back.
SquashPopsOnly(h) ==
    /\ tos' = IF h.op = "pop" THEN h.tos ELSE tos
    /\ addrStack' = IF h.op = "pop" THEN [addrStack EXCEPT ![h.tos] = h.entry] ELSE addrStack
    /\ UNCHANGED callStack

\* Mutant: the top of stack is put back, the entry is not.
SquashTosOnly(h) ==
    /\ tos' = CASE h.op = "push" -> decrTos(tos)
                [] h.op = "pop"  -> h.tos
                [] OTHER         -> tos
    /\ UNCHANGED << addrStack, callStack >>

\* ReturnAddrStack::squash
DoSquash(h) ==
    /\ tos' = CASE h.op = "push" -> decrTos(tos)
                [] h.op = "pop"  -> h.tos
                [] OTHER         -> tos
    /\ addrStack' = IF h.op = "pop" THEN [addrStack EXCEPT ![h.tos] = h.entry] ELSE addrStack
    /\ UNCHANGED callStack

-----------------------------------------------------------------------------
Init ==
    /\ addrStack = [s \in Slot |-> NoAddr] /\ tos = 0
    /\ predHist = << >>
    /\ callStack = << >> /\ committedTos = 0

\* A call or return the BTB has is predicted taken and uses the stack.
PredictCall(ret) ==
    /\ Len(predHist) < MaxHist
    /\ DoPush(predHist, NewHist("Call", TRUE, ret))
    /\ UNCHANGED committedTos

PredictReturn ==
    /\ Len(predHist) < MaxHist
    /\ DoPop(predHist, NewHist("Return", TRUE, NoAddr))
    /\ UNCHANGED committedTos

\* A branch of another type leaves the stack alone, and so does the placeholder of
\* a call or return the BTB does not have, which says not taken.
PredictOther(hist) ==
    /\ Len(predHist) < MaxHist
    /\ predHist' = Append(predHist, hist)
    /\ UNCHANGED << addrStack, tos, callStack, committedTos >>

Youngest == predHist[Len(predHist)]
Older    == SubSeq(predHist, 1, Len(predHist) - 1)

\* squashHistory; a squash of several branches is as many steps.
SquashYoungest ==
    /\ predHist # << >>
    /\ DoSquash(Youngest)
    /\ predHist' = Older
    /\ UNCHANGED committedTos

\* squash with a correction: the stack is used if the branch is taken and has not
\* used it yet, and given back if it has used it and is not taken.
CorrectTaken ==
    /\ predHist # << >>
    /\ LET h == [Youngest EXCEPT !.taken = TRUE]
       IN  CASE h.op = "none" /\ h.type = "Return" -> DoPop(Older, h)
             [] h.op = "none" /\ h.type = "Call"   -> DoPush(Older, h)
             [] OTHER -> predHist' = Append(Older, h) /\ UNCHANGED << addrStack, tos, callStack >>
    /\ UNCHANGED committedTos

CorrectNotTaken ==
    /\ predHist # << >> /\ Youngest.type = "Other"
    /\ DoSquash(Youngest)
    /\ predHist' = Append(Older, [Youngest EXCEPT !.taken = FALSE, !.op = "none"])
    /\ UNCHANGED committedTos

\* commitBranch: a call or return that was predicted not taken has been corrected
\* by now.  The stack does not change, only what it should hold.
CommitOldest ==
    /\ predHist # << >>
    /\ predHist[1].type # "Other" => predHist[1].taken
    /\ predHist' = Tail(predHist)
    /\ CASE predHist[1].type = "Call" ->
                /\ callStack' = Strip(Append(callStack, predHist[1].entry))
                /\ committedTos' = incrTos(committedTos)
         [] predHist[1].type = "Return" ->
                /\ callStack' = IF callStack = << >> THEN << >>
                                ELSE SubSeq(callStack, 1, Len(callStack) - 1)
                /\ committedTos' = decrTos(committedTos)
         [] OTHER -> UNCHANGED << callStack, committedTos >>
    /\ UNCHANGED << addrStack, tos >>

Next ==
    \/ \E ret \in RetAddr : PredictCall(ret) \/ PredictOther(NewHist("Call", FALSE, ret))
    \/ PredictReturn \/ PredictOther(NewHist("Return", FALSE, NoAddr))
    \/ \E taken \in BOOLEAN : PredictOther(NewHist("Other", taken, NoAddr))
    \/ SquashYoungest \/ CorrectTaken \/ CorrectNotTaken \/ CommitOldest

Spec == Init /\ [][Next]_vars

-----------------------------------------------------------------------------
\* Every variable has its type; in particular tos stays within the vector.
TypeOK ==
    /\ addrStack \in [Slot -> Entry] /\ tos \in Slot
    /\ predHist \in Seq(BranchHist)
    /\ callStack \in Seq(Entry) /\ committedTos \in Slot

\* The top of stack once a branch has used the stack.
TosAfter(h) == CASE h.op = "push" -> incrTos(h.tos)
                 [] h.op = "pop"  -> decrTos(h.tos)
                 [] OTHER         -> h.tos

\* Undoing the branches in flight, youngest first, passes through the tops of stack
\* at which they were predicted and ends at the committed one: the stack pointer
\* never drifts, whatever was mispredicted, missed by the BTB or overflowed.
TosFollowsCommit ==
    /\ predHist = << >> => tos = committedTos
    /\ predHist # << >> => predHist[1].tos = committedTos /\ tos = TosAfter(Youngest)
    /\ \A i \in 1 .. (Len(predHist) - 1) : predHist[i + 1].tos = TosAfter(predHist[i])

\* The stack holds, from its top down, the return addresses of the calls that are
\* open on the path being predicted, the committed ones included, except those that
\* a push on a full stack has overwritten: a push costs the oldest entry and
\* nothing else, and a squash brings back everything but that.
HoldsOpenCalls ==
    LET owners == SpecOwners(predHist)
    IN  \A d \in 0 .. (Len(owners) - 1) :
            EntryOf(owners[Len(owners) - d]) \in {NoAddr, addrStack[(tos - d) % numEntries]}
=============================================================================
