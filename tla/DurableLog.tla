------------------------------ MODULE DurableLog ------------------------------
(***************************************************************************)
(* What the market-data log promises its reader (md_store.py:1-25): one    *)
(* sequence of records in arrival order that only grows at its end, of     *)
(* which a crash or a failed write may lose the records not yet durable    *)
(* and nothing else, and from which retention removes the oldest and       *)
(* nothing else.                                                           *)
(***************************************************************************)
EXTENDS Naturals, Sequences

CONSTANT Records

VARIABLES
    log,        \* the records accepted and not lost or pruned
    durable     \* how many of them no crash or failed write can lose

logVars == <<log, durable>>

LogInit == log = <<>> /\ durable = 0

AppendRecord ==
    \E r \in Records :
        /\ log' = Append(log, r)
        /\ durable' \in {durable, Len(log'), Len(log)}

Sync ==
    /\ durable' = Len(log)
    /\ UNCHANGED log

LoseTail ==
    /\ log' = SubSeq(log, 1, durable)
    /\ UNCHANGED durable

DropOldest ==
    \E n \in 1..durable :
        /\ log' = SubSeq(log, n + 1, Len(log))
        /\ durable' = durable - n

LogNext == AppendRecord \/ Sync \/ LoseTail \/ DropOldest

LogSpec == LogInit /\ [][LogNext]_logVars
===============================================================================
