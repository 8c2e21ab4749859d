----------------------------- MODULE MCFrontEnd -----------------------------
(* Three instructions: a branch, a plain one, and one of two micro-ops of     *)
(* which the first is a branch.  Taken branches and squashes lead to the last. *)
EXTENDS FrontEnd, TLC

MCCode == (0 :> << [ctl |-> TRUE, type |-> "c"] >>)
       @@ (1 :> << [ctl |-> FALSE, type |-> "n"] >>)
       @@ (2 :> << [ctl |-> TRUE, type |-> "d"], [ctl |-> FALSE, type |-> "n"] >>)

MCTarget == {2}
=============================================================================
