------------------------------ MODULE BTBLevels ------------------------------
(***************************************************************************)
(* The storage of the multi-level BTB: what one associative level does      *)
(* when an entry is written into it, and what freeing an L1 way does to the *)
(* levels below (gem5/src/cpu/pred/multilevel_btb.cc, btb_entry.hh,         *)
(* gem5/src/base/cache/associative_cache.hh).                               *)
(*                                                                         *)
(* A level is a function from the branch addresses PC to the entry it       *)
(* holds, or NoEntry.  The addresses of PC are ones that the partial tags   *)
(* of every level tell apart.  Which valid way of a full set is replaced is *)
(* left open: the replacement policy is a parameter of the simulator.       *)
(***************************************************************************)
EXTENDS Naturals, FiniteSets

CONSTANTS
    PC,         \* branch addresses
    Addr,       \* all addresses: branches, block starts, targets
    NoEntry,    \* an invalid way
    L1Set, L2Set, L3Set, PBSet,     \* set index of each branch, per level
    L1Ways, L2Ways, L3Ways, PBWays, \* associativity of each level
    enableL3, nonexclusive          \* parameters of MultiLevelBTB

\* The two prefetch bits of an entry, prefetchTarget and prefetchThrough, as
\* the set of the paths whose bit is one.
Paths == {"target", "through"}

Entry == [target : Addr, bits : SUBSET Paths]

ASSUME AddrAssumption ==
    /\ PC \subseteq Addr
    /\ Addr \subseteq Nat \ {0}
    /\ IsFiniteSet(PC)

ASSUME NoEntryAssumption ==
    /\ NoEntry \notin Entry
    /\ NoEntry \notin PC

ASSUME GeometryAssumption ==
    /\ \A index \in {L1Set, L2Set, L3Set, PBSet} : index \in [PC -> Nat]
    /\ \A ways \in {L1Ways, L2Ways, L3Ways, PBWays} : ways \in Nat \ {0}

ASSUME LevelFlagsAssumption == {enableL3, nonexclusive} \subseteq BOOLEAN

Level == [PC -> Entry \cup {NoEntry}]

Resident(level) == {pc \in PC : level[pc] # NoEntry}

----------------------------------------------------------------------------
(* One associative level. *)

SetMates(level, index, pc) ==
    {q \in Resident(level) : index[q] = index[pc]}

\* findVictim: a free way of the set if there is one (invalid ways carry the
\* oldest timestamp), else any of its valid ways.  The free way is written pc,
\* which the callers know not to be resident.
Victims(level, index, ways, pc) ==
    IF Cardinality(SetMates(level, index, pc)) < ways
    THEN {pc}
    ELSE SetMates(level, index, pc)

\* BTBEntry::update(other): the through bit accumulates, the rest is copied.
Merge(old, new) ==
    [target |-> new.target,
     bits   |-> (new.bits \cap {"target"})
                  \cup ((old.bits \cup new.bits) \cap {"through"})]

Replace(level, victim, pc, entry) ==
    [q \in PC |-> IF q = pc THEN entry
                  ELSE IF q = victim THEN NoEntry ELSE level[q]]

\* Write an entry into a level: into its own way if the level holds the
\* branch, else over a victim.  The set of the possible outcomes.
Write(level, index, ways, pc, entry) ==
    IF level[pc] # NoEntry
    THEN {[level EXCEPT ![pc] = Merge(level[pc], entry)]}
    ELSE {Replace(level, v, pc, entry) : v \in Victims(level, index, ways, pc)}

----------------------------------------------------------------------------
(* freeUpL1Entry *)

Hierarchy == [l1 : Level, l2 : Level, l3 : Level]

\* The entry an L2 way held goes to the L3 when the way is reused.
SpillL2(h, victim) ==
    IF enableL3 /\ h.l2[victim] # NoEntry
    THEN {[h EXCEPT !.l3 = l3] :
            l3 \in Write(h.l3, L3Set, L3Ways, victim, h.l2[victim])}
    ELSE {h}

\* Write the content of an L1 victim into the L2.
WriteBackL2(h, pc, entry) ==
    IF h.l2[pc] # NoEntry
    THEN {[h EXCEPT !.l2 = [h.l2 EXCEPT ![pc] = Merge(h.l2[pc], entry)]]}
    ELSE UNION { {[s EXCEPT !.l2 = Replace(h.l2, v, pc, entry)] :
                    s \in SpillL2(h, v)} :
                 v \in Victims(h.l2, L2Set, L2Ways, pc) }

\* The nonexclusive hierarchy also mirrors the L1 victim into the L3.
MirrorL3(h, pc, entry) ==
    IF nonexclusive /\ enableL3
    THEN {[h EXCEPT !.l3 = l3] : l3 \in Write(h.l3, L3Set, L3Ways, pc, entry)}
    ELSE {h}

WriteBack(h, pc, entry) ==
    UNION {MirrorL3(b, pc, entry) : b \in WriteBackL2(h, pc, entry)}

\* Free an L1 way for pc, write its content back, and give it to pc.  The new
\* way is left holding `entry', which the caller fills in right after.
FreeUpL1Entry(h, pc, entry) ==
    UNION { {[b EXCEPT !.l1 = Replace(h.l1, v, pc, entry)] :
               b \in IF h.l1[v] # NoEntry THEN WriteBack(h, v, h.l1[v]) ELSE {h}} :
            v \in Victims(h.l1, L1Set, L1Ways, pc) }

----------------------------------------------------------------------------
(* Looking a branch up: the first level that holds it answers. *)

LowerTarget(h, pc) ==
    IF h.l2[pc] # NoEntry THEN h.l2[pc].target
    ELSE IF enableL3 /\ h.l3[pc] # NoEntry THEN h.l3[pc].target
    ELSE NoEntry

LookupTarget(h, pc) ==
    IF h.l1[pc] # NoEntry THEN h.l1[pc].target ELSE LowerTarget(h, pc)
=============================================================================
