---------------------------- MODULE MCCloseExecutor ----------------------------
(***************************************************************************)
(* One policy at a time: two attempts, one crash, one lot traded by        *)
(* somebody else.                                                          *)
(***************************************************************************)
EXTENDS CloseExecutor
===============================================================================
