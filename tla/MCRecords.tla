------------------------------- MODULE MCRecords -------------------------------
(***************************************************************************)
(* The durable records and the procedures that keep them true, each on its *)
(* own: a behaviour is one of the order log under any evidence, of the     *)
(* carry broker on that log, of the carry engine's pair and its ledger, of *)
(* the market-data log, or of the replay of that log.                      *)
(*                                                                         *)
(* Orders: one order for one or two lots, with reports up to one lot beyond*)
(* the larger; rows do not influence one another.  Broker: two copies of   *)
(* each request, one tick in which a copy can land, one in which the order *)
(* lists can lag.  Pair: three lots, the smallest number with a list       *)
(* caught strictly between two positions that are not flat, and three      *)
(* faults.  Files: four days and a retention of one, so that a file can be *)
(* removed while another is written; commits of up to three records, so    *)
(* that a crash has a tail to lose; four records, one restart and one      *)
(* failed call, with records before and after either in the log.           *)
(* Replay: one snapshot and its deltas (in line, and after a gap) and one  *)
(* ticker snapshot (a ticker delta changes neither state), enough for each *)
(* kind of frame to change, keep or lose what a product's market holds,    *)
(* and two tick sizes of which their prices are on one.                    *)
(***************************************************************************)
EXTENDS CarryBroker, CarryPair, MarketStore, MarketReplay

VARIABLE part       \* which of the five

MCQuantities == 1..2
MCReports == 0..3

OneLevel == {<<"bid", 1>>}

TwoTicks == {"was", "finer"}

\* A tick size that was, and the finer one that replaced it and the prices are on.
FrameOf(kind, u, levels, changes) ==
    [kind |-> kind, u |-> u, seq |-> u, levels |-> levels, changes |-> changes, fits |-> {"finer"}]

Bid == [level |-> <<"bid", 1>>, present |-> TRUE]

SomeFrames ==
    {FrameOf("snapshot", 1, {}, {}), FrameOf("delta", 2, {}, {Bid}), FrameOf("delta", 4, {}, {}),
     FrameOf("tickerSnapshot", 0, {}, {})}

mcVars == <<part, vars, pairVars, storeVars, replayVars>>

\* The evidence that reaches the bare log has no venue behind it: the broker's
\* promises about the venue are not asked of its orders.  Only the pair's part
\* has a style to choose.
MCInit ==
    /\ part \in {"orders", "broker", "pair", "files", "replay"}
    /\ LogInit /\ VenueInit /\ PairInit /\ StoreInit /\ ReplayInit
    /\ part # "pair" => style = "ACQUIRE"
    /\ mode = "trading" /\ call = Idle /\ todo = {}
    /\ blind = (IF part = "orders" THEN Links ELSE {})

OrdersMove ==
    /\ part = "orders"
    /\ UNCHANGED <<venue, net, age, mode, call, todo, blind, pairVars, storeVars, replayVars>>
    /\ LogNext

BrokerMoves == part = "broker" /\ UNCHANGED <<pairVars, storeVars, replayVars>> /\ Next
PairMoves == part = "pair" /\ UNCHANGED <<vars, storeVars, replayVars>> /\ PairNext
FilesMove == part = "files" /\ UNCHANGED <<vars, pairVars, replayVars>> /\ StoreNext
ReplayMoves == part = "replay" /\ UNCHANGED <<vars, pairVars, storeVars>> /\ ReplayNext

MCNext ==
    /\ UNCHANGED part
    /\ OrdersMove \/ BrokerMoves \/ PairMoves \/ FilesMove \/ ReplayMoves

\* BrokerFairness and PairFairness, each of the behaviours its part takes a step in.
MCFairness ==
    /\ WF_vars(part = "broker" /\ Procedure)
    /\ WF_vars(part = "broker" /\ RecoveryStep)
    /\ WF_pairVars(part = "pair" /\ PairThread)
    /\ SF_pairVars(part = "pair" /\ ViewedTick)

MCSpec == MCInit /\ [][MCNext]_mcVars /\ MCFairness

\* Whatever happens to them, the records stay well-formed: among the rest, the files
\* stay in the order of their days whatever the clock does (md_store.py:296).
RecordsTypeOK == TypeOK /\ StoreTypeOK /\ ReplayTypeOK
===============================================================================
