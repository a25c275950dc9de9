------------------------------ MODULE MCCarryPair ------------------------------
(* The carry engine's pair alone, without fairness: three lots, three faults. *)
EXTENDS CarryPair
===============================================================================
