---------------------------- MODULE MCOverlayOpen ----------------------------
(***************************************************************************)
(* Two lots of inventory and two order ids: a maker and a taker order, or  *)
(* one order before a restart and one in the leg opened after it.          *)
(***************************************************************************)
EXTENDS OverlayOpen

MCQuantities == 1..2
MCReports == 0..2
===============================================================================
