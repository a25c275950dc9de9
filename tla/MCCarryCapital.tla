---------------------------- MODULE MCCarryCapital ----------------------------
(***************************************************************************)
(* Two cycles of the carry book and one intent of another strategy, each   *)
(* for half of what there is.                                              *)
(***************************************************************************)
EXTENDS CarryCapital

TwoCycles == {1, 2}
OneOther == {3}
HalfEach == [i \in {1, 2, 3} |-> 2]
===============================================================================
