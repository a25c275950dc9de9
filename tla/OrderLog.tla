------------------------------- MODULE OrderLog -------------------------------
(***************************************************************************)
(* The durable order record: the `orders' and `order_events' tables of     *)
(* src/bot/persistence.py, written only through record_order_intent and    *)
(* apply_order_event.  Each of the two runs in one SQLite transaction, so  *)
(* each is one step here and a crash falls between steps, never inside.    *)
(*                                                                         *)
(* This module says nothing about WHO writes: its specification lets any   *)
(* event with any reported quantity arrive for any order in any order,     *)
(* which is what the record must survive.  CarryBroker extends it with the *)
(* code that actually produces the events.                                 *)
(***************************************************************************)
EXTENDS OrderLifecycle, OrderIds

CONSTANTS
    Quantities, \* the quantities, in lots, an order can ask for
    Reports     \* the cumulative quantities evidence can carry

ASSUME QuantitiesAssumption == Quantities \subseteq Nat \ {0}
ASSUME ReportsAssumption == Reports \subseteq Nat

VARIABLE
    orders      \* the orders table, one row per link id

-------------------------------------------------------------------------------
(***************************************************************************)
(* A row.  `submits' counts the submit_attempt rows of order_events;       *)
(* `keys' is the set of quantities whose "<link>:fill:<cum>" event key is  *)
(* already in order_events.                                                *)
(***************************************************************************)
Row(status, req) ==
    [status |-> status, req |-> req, filled |-> 0, submits |-> 0, keys |-> {}]

NoRow == Row("absent", 0)

Rows == [status : Statuses \cup {"absent"}, req : Quantities \cup {0},
         filled : Nat, submits : Nat, keys : SUBSET Nat]

LogTypeOK == orders \in [Links -> Rows]

Recorded(l) == orders[l].status # "absent"

UnresolvedOrders == {l \in Links : orders[l].status \in Unresolved}

LogInit == orders = [l \in Links |-> NoRow]

(***************************************************************************)
(* What apply_order_event leaves in the row.  A filled quantity is never   *)
(* lowered, except by a resolution, which carries the verified quantity.   *)
(***************************************************************************)
NewFill(r, k, v) ==
    IF k = "resolve_contradiction" THEN v.filled ELSE Larger(r.filled, v.filled)

After(r, k, cum, keyed) ==
    LET v == Decide(r.status, k, r.filled, r.req, cum)
    IN IF (keyed /\ cum \in r.keys) \/ ~v.applied THEN r
       ELSE [r EXCEPT !.status = v.status,
                      !.filled = NewFill(r, k, v),
                      !.submits = IF k = "submit_attempt" THEN @ + 1 ELSE @,
                      !.keys = IF keyed THEN @ \cup {cum} ELSE @]

RecordIntent(l, q) ==
    /\ ~Recorded(l)
    /\ orders' = [orders EXCEPT ![l] = Row("pending", q)]

Apply(l, k, cum, keyed) ==
    /\ Recorded(l)
    /\ orders' = [orders EXCEPT ![l] = After(@, k, cum, keyed)]

-------------------------------------------------------------------------------
\* Evidence of any kind, in any order.
Evidence(l) ==
    \/ \E q \in Quantities : RecordIntent(l, q)
    \/ \E k \in Kinds \ Quantified : Apply(l, k, NoQty, FALSE)
    \/ \E k \in Quantified, cum \in Reports \cup {NoQty, NoQty - 1} :
           Apply(l, k, cum, FALSE)
    \/ \E cum \in Reports : Apply(l, "fill_report", cum, TRUE)

LogNext == \E l \in Links : Evidence(l)

LogSpec == LogInit /\ [][LogNext]_orders

-------------------------------------------------------------------------------
(***************************************************************************)
(* Properties.                                                             *)
(***************************************************************************)

\* The status and the recorded fill never tell two stories: an order closed
\* as rejected, never sent or abandoned holds no fill, one closed as filled
\* holds all that was asked, one closed as cancelled or still open holds less.
FillFitsStatus(r) ==
    /\ r.status \in {"absent", "pending", "rejected", "never_sent", "abandoned"}
           => r.filled = 0
    /\ r.status = "partial" => r.filled > 0
    /\ r.status \in MaybeLive \cup {"cancelled"} => r.filled < r.req
    /\ r.status = "filled" => r.filled >= r.req

StatusMatchesFill == \A l \in Links : FillFitsStatus(orders[l])

\* A sent order is never sent again (order_lifecycle.py:32): whatever evidence
\* arrives afterwards, in whatever order, at most one submit marker is written.
SentAtMostOnce ==
    \A l \in Links :
        /\ orders[l].submits <= 1
        /\ orders[l].status \in {"absent", "pending"} => orders[l].submits = 0

\* A finished order changes only into a contradiction, and only on more fill
\* than the record holds (order_lifecycle.py:34-37).
FinishedIsFinal(l) ==
    orders[l].status \in Terminal =>
        \/ orders'[l] = orders[l]
        \/ /\ orders'[l].status = "contradicted"
           /\ orders'[l].filled > orders[l].filled

\* The recorded fill falls only when a person resolves a contradiction, and
\* nothing else ends one (order_lifecycle.py:22-26, 33).
FillOnlyGrows(l) ==
    LET resolved == /\ orders[l].status = "contradicted"
                    /\ orders'[l].status \in {"filled", "cancelled"}
    IN /\ orders'[l].filled < orders[l].filled => resolved
       /\ orders[l].status = "contradicted" =>
              resolved \/ orders'[l].status = "contradicted"

EvidenceIsKept == [][\A l \in Links : FinishedIsFinal(l) /\ FillOnlyGrows(l)]_orders
===============================================================================
