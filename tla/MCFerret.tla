------------------------------ MODULE MCFerret ------------------------------
(* Instances of the BTB model: a program of three fetch targets [1..2], [3..4] *)
(* and [5..6], addresses counted in instructions.  Branch 2 jumps forward over *)
(* the second fetch target, branch 4 calls the first one, and branch 6 closes  *)
(* the loop.                                                                   *)
EXTENDS MultiLevelBTB, TLC

MCPC     == {2, 4, 6}
MCAddr   == 1 .. 7

MCBrType    == (2 :> "DirectCond") @@ (4 :> "CallDirect") @@ (6 :> "DirectCond")
MCStartsOf  == (2 :> {1}) @@ (4 :> {3}) @@ (6 :> {5})
MCTargetsOf == (2 :> {5}) @@ (4 :> {1}) @@ (6 :> {1})

\* Every level is a single set; its size is given by the number of ways.
OneSet == [pc \in MCPC |-> 0]

\* Branch 2 loops back to its own block, branch 6 returns behind the call.
MCReturnBrType    == [MCBrType EXCEPT ![6] = "Return"]
MCReturnTargetsOf == (2 :> {1}) @@ (4 :> {1}) @@ (6 :> {5})

\* Branch 6 is indirect and changes its target.
MCIndirectBrType    == [MCBrType EXCEPT ![6] = "IndirectUncond"]
MCIndirectTargetsOf == [MCTargetsOf EXCEPT ![6] = {1, 3}]

\* Every branch changes its target.
MCTwoTargetsOf == [pc \in MCPC |-> {1, 5}]
=============================================================================
