---------------------------- MODULE MCMarketFeed -----------------------------
(***************************************************************************)
(* One price level that the venue shows or not, and two updates: enough    *)
(* for a frame to be skipped, repeated or left over from another           *)
(* numbering; books of any depth are the proofs' business. The timeouts    *)
(* are the code's in steps of five seconds (resync 5 s, book silence 10 s, *)
(* silence 15 s, ping 20 s, pong 10 s more).                               *)
(***************************************************************************)
EXTENDS MarketFeed

OneLevel == {<<"bid", 1>>}
===============================================================================
