----------------------------- MODULE AbstractBTB -----------------------------
(***************************************************************************)
(* What a branch target buffer promises (the interface in                   *)
(* gem5/src/cpu/pred/btb.hh): a map from branches to targets.  update       *)
(* stores the target of the branch it is called for; lookup keeps the       *)
(* branch it is called for; both may forget other branches to make room.    *)
(* Nothing else stores a target, so the buffer never answers with anything  *)
(* but the last target stored and never recalls what it has forgotten.      *)
(***************************************************************************)
CONSTANTS Branch, Target, NoTarget

VARIABLE map   \* the target a lookup of each branch would give, or NoTarget

AbsInit == map = [b \in Branch |-> NoTarget]

\* Some branches are forgotten, the others keep their target.
Forget(before) ==
    \E gone \in SUBSET Branch :
        map' = [b \in Branch |-> IF b \in gone THEN NoTarget ELSE before[b]]

AbsLookup(b) ==
    /\ Forget(map)
    /\ map'[b] = map[b]

AbsUpdate(b, t) ==
    /\ Forget([map EXCEPT ![b] = t])
    /\ map'[b] = t

AbsInvalidate == map' = [b \in Branch |-> NoTarget]

AbsNext ==
    \/ \E b \in Branch : AbsLookup(b) \/ \E t \in Target : AbsUpdate(b, t)
    \/ AbsInvalidate

AbsSpec == AbsInit /\ [][AbsNext]_map
=============================================================================
