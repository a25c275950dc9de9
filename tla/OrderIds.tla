------------------------------- MODULE OrderIds -------------------------------
(***************************************************************************)
(* The order link ids.  Minted by bybit_connection.build_order_link_id from *)
(* a persisted sequence number, so that no two orders share one; here they *)
(* are opaque.                                                             *)
(***************************************************************************)
CONSTANT Links
===============================================================================
