---------------------------- MODULE MCCloseBoth --------------------------------
(***************************************************************************)
(* The close in both policies of close_plan.py: with a fresh id for every  *)
(* attempt, as the constants say, and with the same id sent again, for a   *)
(* short of one lot and one wait.  One crash, and one lot traded by        *)
(* somebody else.                                                          *)
(***************************************************************************)
EXTENDS CloseExecutor

VARIABLE sameId     \* which of the two this behaviour is

SameId == INSTANCE CloseExecutor WITH Resend <- TRUE, Short <- 1, MaxWaits <- 1

BothInit == \/ sameId = FALSE /\ CloseInit
            \/ sameId = TRUE /\ SameId!CloseInit

BothNext == \/ ~sameId /\ CloseNext /\ UNCHANGED sameId
            \/ sameId /\ SameId!CloseNext /\ UNCHANGED sameId

BothSpec == BothInit /\ [][BothNext]_<<closeVars, sameId>>

\* What the log of a close with fresh ids calls settled is settled at the venue.
FreshResolvedIsTrue == ~sameId => ResolvedIsTrue

\* A close with fresh ids that reports nothing left to book has booked it all.
FreshNothingUnreported == ~sameId => NothingUnreported
===============================================================================
