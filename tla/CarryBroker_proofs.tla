--------------------------- MODULE CarryBroker_proofs ---------------------------
(***************************************************************************)
(* Theorems about the order log, and about the broker and the recovery     *)
(* pass that write it, for any set of orders, any quantities, any          *)
(* evidence, any number of request copies and any delays.                  *)
(*                                                                         *)
(* The log comes first.  Every step of LogSpec changes at most one row,    *)
(* and leaves in it either a fresh intent or After(r, ...), so its         *)
(* properties follow from facts about one row, and those from facts about  *)
(* the verdict `Decide'.                                                   *)
(*                                                                         *)
(* The first lemma about the broker shows that every step of it is a step  *)
(* of the order log's own specification, so what is shown about the log    *)
(* holds of the log the broker writes.  The inductive invariant adds where *)
(* the quantities come from (every report the broker files was read from a *)
(* venue that never fills beyond an order's quantity) and that a request   *)
(* leaves only under a submit marker.                                      *)
(***************************************************************************)
EXTENDS CarryBroker, TLAPS

Verdicts == [applied : BOOLEAN, status : Statuses \cup {"absent"}, filled : Int]

LEMMA VerdictType ==
    ASSUME NEW s \in Statuses \cup {"absent"}, NEW k \in Kinds,
           NEW rec \in Nat, NEW req \in Nat, NEW cum \in Int
    PROVE  /\ Decide(s, k, rec, req, cum) \in Verdicts
           /\ /\ k = "resolve_contradiction"
              /\ Decide(s, k, rec, req, cum).applied
              => Decide(s, k, rec, req, cum).filled \in Nat
<1> DEFINE V == Decide(s, k, rec, req, cum)
<1> USE DEF Verdicts, Refused, Moved, MoveFrom, Statuses, Terminal, Unresolved, MaybeLive, Larger
<1>1. OnResolve(s, rec, req, cum) \in Verdicts
  BY DEF OnResolve
<1>2. OnContradicted(k, rec, cum) \in Verdicts
  BY DEF OnContradicted
<1>3. OnFill(s, rec, req, cum) \in Verdicts
  BY DEF OnFill
<1>4. OnSubmit(s, rec) \in Verdicts /\ OnReject(s, rec) \in Verdicts
  BY DEF OnSubmit, OnReject
<1>5. OnUnknownOutcome(s, rec) \in Verdicts
  BY DEF OnUnknownOutcome
<1>6. OnCancelConfirm(s, rec, req, cum) \in Verdicts
  BY DEF OnCancelConfirm
<1>7. /\ OnEndUnfilled("never_sent", s, rec) \in Verdicts
      /\ OnEndUnfilled("abandoned", s, rec) \in Verdicts
  BY DEF OnEndUnfilled
<1>8. V \in Verdicts
  BY <1>1, <1>2, <1>3, <1>4, <1>5, <1>6, <1>7 DEF Decide
<1>9. k = "resolve_contradiction" /\ V.applied => V.filled \in Nat
  BY DEF Decide, OnResolve, Unusable, Quantified, NoQty
<1> QED
  BY <1>8, <1>9

-------------------------------------------------------------------------------
(***************************************************************************)
(* One row.                                                                *)
(***************************************************************************)

\* The quantities an event of kind k can carry (Evidence).
Carries(k, cum, keyed) ==
    /\ k \in Kinds
    /\ cum \in Reports \cup {NoQty, NoQty - 1}
    /\ keyed \in BOOLEAN
    /\ keyed => k = "fill_report" /\ cum \in Reports

LEMMA RowType ==
    ASSUME NEW r \in Rows, NEW k, NEW cum, NEW keyed, Carries(k, cum, keyed)
    PROVE  After(r, k, cum, keyed) \in Rows
<1> DEFINE v == Decide(r.status, k, r.filled, r.req, cum)
<1>1. /\ k \in Kinds /\ cum \in Int
      /\ keyed => cum \in Nat
  BY ReportsAssumption DEF Carries, NoQty
<1>2. /\ r.status \in Statuses \cup {"absent"} /\ r.filled \in Nat /\ r.req \in Nat
      /\ r.submits \in Nat /\ r.keys \in SUBSET Nat
  <2>1. r.req \in Quantities \cup {0}
    BY DEF Rows
  <2>2. \A q \in Quantities \cup {0} : q \in Nat
    BY QuantitiesAssumption
  <2>3. r.status \in Statuses \cup {"absent"} /\ r.filled \in Nat /\ r.submits \in Nat
    BY DEF Rows
  <2>4. r.keys \in SUBSET Nat
    BY DEF Rows
  <2> QED
    BY <2>1, <2>2, <2>3, <2>4
<1>3. /\ v \in Verdicts
      /\ k = "resolve_contradiction" /\ v.applied => v.filled \in Nat
  BY <1>1, <1>2, VerdictType
<1>4. CASE (keyed /\ cum \in r.keys) \/ ~v.applied
  BY <1>4 DEF After
<1>5. CASE ~(keyed /\ cum \in r.keys) /\ v.applied
  <2>1. NewFill(r, k, v) \in Nat
    BY <1>2, <1>3, <1>5 DEF NewFill, Larger, Verdicts
  <2> DEFINE subs == IF k = "submit_attempt" THEN r.submits + 1 ELSE r.submits
             held == IF keyed THEN r.keys \cup {cum} ELSE r.keys
  <2>2. subs \in Nat /\ held \in SUBSET Nat
    BY <1>1, <1>2
  <2>3. After(r, k, cum, keyed) =
            [r EXCEPT !.status = v.status, !.filled = NewFill(r, k, v),
                      !.submits = subs, !.keys = held]
    BY <1>5 DEF After
  <2> QED
    BY <1>3, <2>1, <2>2, <2>3 DEF Rows, Verdicts
<1> QED
  BY <1>4, <1>5

(***************************************************************************)
(* What makes the properties inductive: besides the two properties, that a *)
(* recorded order asks for something.                                      *)
(***************************************************************************)
SubmitsFit(r) ==
    /\ r.submits <= 1
    /\ r.status \in {"absent", "pending"} => r.submits = 0

RowInv(r) ==
    /\ FillFitsStatus(r)
    /\ SubmitsFit(r)
    /\ r.status # "absent" => r.req > 0
\* The verdict keeps status and fill telling one story, never returns an order
\* to "pending", and sends only from there.
LEMMA VerdictFits ==
    ASSUME NEW s \in Statuses, NEW k \in Kinds,
           NEW rec \in Nat, NEW req \in Nat, req > 0, NEW cum \in Int,
           NEW v, v = Decide(s, k, rec, req, cum), v.applied,
           s \in {"pending", "rejected", "never_sent", "abandoned"} => rec = 0,
           s \in MaybeLive \cup {"cancelled"} => rec < req,
           s = "partial" => rec > 0
    PROVE  LET f == IF k = "resolve_contradiction" THEN v.filled
                    ELSE Larger(rec, v.filled)
           IN /\ v.status \in {"rejected", "never_sent", "abandoned"} => f = 0
              /\ v.status = "partial" => f > 0
              /\ v.status \in MaybeLive \cup {"cancelled"} => f < req
              /\ v.status = "filled" => f >= req
              /\ v.status \notin {"absent", "pending"}
              /\ k = "submit_attempt" => s = "pending"
<1> DEFINE f == IF k = "resolve_contradiction" THEN v.filled
                ELSE Larger(rec, v.filled)
<1> USE DEF Refused, Moved, MoveFrom, MaybeLive, Terminal, Unresolved, Statuses, Larger
<1>1. CASE k = "resolve_contradiction"
  BY <1>1 DEF Decide, OnResolve
<1>2. CASE k # "resolve_contradiction" /\ s = "contradicted"
  BY <1>2 DEF Decide, OnContradicted
<1>3. CASE BeyondTheRecord(s, k, rec, cum)
  BY <1>3 DEF Decide, BeyondTheRecord
<1>4. CASE /\ k \notin {"resolve_contradiction"} /\ s # "contradicted"
           /\ ~BeyondTheRecord(s, k, rec, cum)
  <2> USE <1>4 DEF Decide
  <2>1. CASE k = "fill_report"
    BY <2>1 DEF OnFill
  <2>2. CASE k = "submit_attempt"
    BY <2>2 DEF OnSubmit
  <2>3. CASE k = "reject"
    BY <2>3 DEF OnReject
  <2>4. CASE k = "unknown_outcome"
    BY <2>4 DEF OnUnknownOutcome
  <2>5. CASE k = "cancel_confirm"
    BY <2>5 DEF OnCancelConfirm
  <2>6. CASE k = "never_sent"
    BY <2>6 DEF OnEndUnfilled
  <2>8. CASE k = "abandon"
    BY <2>8 DEF OnEndUnfilled
  <2>7. CASE k \in {"ack", "timeout", "reconcile_required", "cancel_request"}
    BY <2>7
  <2> QED
    BY <2>1, <2>2, <2>3, <2>4, <2>5, <2>6, <2>7, <2>8 DEF Kinds
<1> QED
  BY <1>1, <1>2, <1>3, <1>4
LEMMA RowStep ==
    ASSUME NEW r \in Rows, r.status # "absent", RowInv(r),
           NEW k, NEW cum, NEW keyed, Carries(k, cum, keyed)
    PROVE  RowInv(After(r, k, cum, keyed)) /\ After(r, k, cum, keyed).status # "absent"
<1> DEFINE v == Decide(r.status, k, r.filled, r.req, cum)
           a == After(r, k, cum, keyed)
<1>1. k \in Kinds /\ cum \in Int
  BY ReportsAssumption DEF Carries, NoQty
<1>2. /\ r.status \in Statuses /\ r.filled \in Nat /\ r.submits \in Nat
      /\ r.req \in Nat /\ r.req > 0
  <2>1. \A q \in Quantities \cup {0} : q \in Nat
    BY QuantitiesAssumption
  <2>2. r.req \in Quantities \cup {0}
    BY DEF Rows
  <2> QED
    BY <2>1, <2>2 DEF Rows, RowInv
<1>3. CASE (keyed /\ cum \in r.keys) \/ ~v.applied
  BY <1>3 DEF After
<1>4. CASE ~(keyed /\ cum \in r.keys) /\ v.applied
  <2>1. v \in Verdicts
    BY <1>1, <1>2, VerdictType
  <2>2. /\ a.status = v.status /\ a.filled = NewFill(r, k, v) /\ a.req = r.req
        /\ a.submits = IF k = "submit_attempt" THEN r.submits + 1 ELSE r.submits
    <3> DEFINE subs == IF k = "submit_attempt" THEN r.submits + 1 ELSE r.submits
               held == IF keyed THEN r.keys \cup {cum} ELSE r.keys
    <3>1. a = [r EXCEPT !.status = v.status, !.filled = NewFill(r, k, v),
                        !.submits = subs, !.keys = held]
      BY <1>4 DEF After
    <3> QED
      BY <3>1 DEF Rows
  <2> DEFINE f == IF k = "resolve_contradiction" THEN v.filled
                  ELSE Larger(r.filled, v.filled)
  <2>3. /\ v.status \in {"rejected", "never_sent", "abandoned"} => f = 0
        /\ v.status = "partial" => f > 0
        /\ v.status \in MaybeLive \cup {"cancelled"} => f < r.req
        /\ v.status = "filled" => f >= r.req
        /\ v.status \notin {"absent", "pending"}
        /\ k = "submit_attempt" => r.status = "pending"
    <3>1. /\ r.status \in {"pending", "rejected", "never_sent", "abandoned"}
             => r.filled = 0
          /\ r.status \in MaybeLive \cup {"cancelled"} => r.filled < r.req
          /\ r.status = "partial" => r.filled > 0
      BY DEF RowInv, FillFitsStatus
    <3> HIDE DEF v
    <3> QED
      BY <1>1, <1>2, <1>4, <3>1, VerdictFits DEF v
  <2>4. a.filled = f
    BY <2>2 DEF NewFill
  <2>5. FillFitsStatus(a)
    BY <2>2, <2>3, <2>4 DEF FillFitsStatus
  <2>6. SubmitsFit(a)
    BY <1>2, <2>2, <2>3 DEF SubmitsFit, RowInv
  <2> QED
    BY <1>2, <2>2, <2>3, <2>5, <2>6 DEF RowInv
<1> QED
  BY <1>3, <1>4

-------------------------------------------------------------------------------
(***************************************************************************)
(* The log.                                                                *)
(***************************************************************************)

\* The two ways a step of the log changes its row.
LEMMA LogStep ==
    ASSUME LogNext
    PROVE  \E l \in Links :
              \/ \E q \in Quantities : RecordIntent(l, q)
              \/ \E k, cum, keyed : /\ Carries(k, cum, keyed)
                                    /\ Recorded(l)
                                    /\ orders' = [orders EXCEPT
                                          ![l] = After(orders[l], k, cum, keyed)]
<1>1. PICK l \in Links : Evidence(l)
  BY DEF LogNext
<1>2. CASE \E q \in Quantities : RecordIntent(l, q)
  BY <1>2
<1>3. CASE \E k \in Kinds \ Quantified : Apply(l, k, NoQty, FALSE)
  BY <1>3 DEF Apply, Carries
<1>4. CASE \E k \in Quantified, cum \in Reports \cup {NoQty, NoQty - 1} :
              Apply(l, k, cum, FALSE)
  BY <1>4 DEF Apply, Carries, Quantified, Kinds
<1>5. CASE \E cum \in Reports : Apply(l, "fill_report", cum, TRUE)
  BY <1>5 DEF Apply, Carries, Kinds
<1> QED
  BY <1>1, <1>2, <1>3, <1>4, <1>5 DEF Evidence

LogInv == LogTypeOK /\ \A l \in Links : RowInv(orders[l])

LEMMA LogInit_LogInv == LogInit => LogInv
<1> SUFFICES ASSUME LogInit PROVE LogInv
  OBVIOUS
<1>1. NoRow \in Rows
  BY DEF NoRow, Row, Rows
<1>2. RowInv(NoRow)
  BY DEF NoRow, Row, RowInv, FillFitsStatus, SubmitsFit, MaybeLive
<1> QED
  BY <1>1, <1>2 DEF LogInit, LogInv, LogTypeOK

LEMMA LogNext_LogInv == LogInv /\ [LogNext]_orders => LogInv'
<1> SUFFICES ASSUME LogInv, [LogNext]_orders PROVE LogInv'
  OBVIOUS
<1>1. CASE UNCHANGED orders
  BY <1>1 DEF LogInv, LogTypeOK
<1>2. CASE LogNext
  <2>1. PICK l \in Links :
            \/ \E q \in Quantities : RecordIntent(l, q)
            \/ \E k, cum, keyed : /\ Carries(k, cum, keyed)
                                  /\ Recorded(l)
                                  /\ orders' = [orders EXCEPT
                                        ![l] = After(orders[l], k, cum, keyed)]
    BY <1>2, LogStep
  <2>2. \E r \in Rows : RowInv(r) /\ orders' = [orders EXCEPT ![l] = r]
    <3>1. CASE \E q \in Quantities : RecordIntent(l, q)
      <4>1. PICK q \in Quantities : RecordIntent(l, q)
        BY <3>1
      <4>2. q \in Nat /\ q > 0
        BY QuantitiesAssumption
      <4>3. Row("pending", q) \in Rows
        BY DEF Row, Rows, Statuses, Unresolved
      <4>4. RowInv(Row("pending", q))
        BY <4>2 DEF Row, RowInv, FillFitsStatus, SubmitsFit, MaybeLive
      <4> QED
        BY <4>1, <4>3, <4>4 DEF RecordIntent
    <3>2. CASE \E k, cum, keyed :
                  /\ Carries(k, cum, keyed)
                  /\ Recorded(l)
                  /\ orders' = [orders EXCEPT ![l] = After(orders[l], k, cum, keyed)]
      <4>1. PICK k, cum, keyed :
                  /\ Carries(k, cum, keyed)
                  /\ Recorded(l)
                  /\ orders' = [orders EXCEPT ![l] = After(orders[l], k, cum, keyed)]
        BY <3>2
      <4>2. /\ orders[l] \in Rows /\ RowInv(orders[l]) /\ orders[l].status # "absent"
        BY <4>1 DEF LogInv, LogTypeOK, Recorded
      <4> QED
        BY <4>1, <4>2, RowType, RowStep
    <3> QED
      BY <2>1, <3>1, <3>2
  <2> QED
    BY <2>2 DEF LogInv, LogTypeOK
<1> QED
  BY <1>1, <1>2

\* The rows hold what their columns may hold, whatever evidence arrives.
THEOREM LogTyped == LogSpec => []LogTypeOK
<1>1. LogInv => LogTypeOK
  BY DEF LogInv
<1> QED
  BY <1>1, LogInit_LogInv, LogNext_LogInv, PTL DEF LogSpec

\* The status and the recorded fill of an order never tell two stories.
THEOREM StatusAlwaysMatchesFill == LogSpec => []StatusMatchesFill
<1>1. LogInv => StatusMatchesFill
  BY DEF LogInv, RowInv, StatusMatchesFill
<1> QED
  BY <1>1, LogInit_LogInv, LogNext_LogInv, PTL DEF LogSpec

\* No order is sent twice, whatever evidence arrives about it.
THEOREM NeverSentTwice == LogSpec => []SentAtMostOnce
<1>1. LogInv => SentAtMostOnce
  BY DEF LogInv, RowInv, SubmitsFit, SentAtMostOnce
<1> QED
  BY <1>1, LogInit_LogInv, LogNext_LogInv, PTL DEF LogSpec
-------------------------------------------------------------------------------
(***************************************************************************)
(* What evidence may never undo.                                           *)
(***************************************************************************)

LEMMA VerdictKeeps ==
    ASSUME NEW s \in Statuses, NEW k \in Kinds,
           NEW rec \in Nat, NEW req \in Nat, NEW cum \in Int,
           NEW v, v = Decide(s, k, rec, req, cum), v.applied
    PROVE  /\ s \in Terminal => v.status = "contradicted" /\ v.filled > rec
           /\ k = "resolve_contradiction" =>
                  s = "contradicted" /\ v.status \in {"filled", "cancelled"}
           /\ s = "contradicted" => v.status \in {"filled", "cancelled", "contradicted"}
<1> USE DEF Refused, Moved, MoveFrom, Terminal, Decide
<1>1. CASE k = "resolve_contradiction"
  BY <1>1 DEF OnResolve
<1>2. CASE k # "resolve_contradiction" /\ s = "contradicted"
  BY <1>2 DEF OnContradicted
<1>3. CASE k # "resolve_contradiction" /\ s \in Terminal
  BY <1>3 DEF BeyondTheRecord, OnFill
<1>4. CASE k # "resolve_contradiction" /\ s \notin Terminal /\ s # "contradicted"
  BY <1>4
<1> QED
  BY <1>1, <1>2, <1>3, <1>4

LEMMA RowKeeps ==
    ASSUME NEW r \in Rows, r.status # "absent",
           NEW k, NEW cum, NEW keyed, Carries(k, cum, keyed),
           NEW a, a = After(r, k, cum, keyed)
    PROVE  /\ r.status \in Terminal =>
                  a = r \/ (a.status = "contradicted" /\ a.filled > r.filled)
           /\ a.filled < r.filled =>
                  r.status = "contradicted" /\ a.status \in {"filled", "cancelled"}
           /\ r.status = "contradicted" =>
                  a.status \in {"filled", "cancelled", "contradicted"}
<1> DEFINE v == Decide(r.status, k, r.filled, r.req, cum)
<1>1. k \in Kinds /\ cum \in Int
  BY ReportsAssumption DEF Carries, NoQty
<1>2. r.status \in Statuses /\ r.filled \in Nat /\ r.req \in Nat
  <2>1. \A q \in Quantities \cup {0} : q \in Nat
    BY QuantitiesAssumption
  <2>2. r.req \in Quantities \cup {0}
    BY DEF Rows
  <2> QED
    BY <2>1, <2>2 DEF Rows
<1>3. CASE (keyed /\ cum \in r.keys) \/ ~v.applied
  BY <1>2, <1>3 DEF After
<1>4. CASE ~(keyed /\ cum \in r.keys) /\ v.applied
  <2>1. v \in Verdicts
    BY <1>1, <1>2, VerdictType
  <2>2. a.status = v.status /\ a.filled = NewFill(r, k, v)
    <3> DEFINE subs == IF k = "submit_attempt" THEN r.submits + 1 ELSE r.submits
               held == IF keyed THEN r.keys \cup {cum} ELSE r.keys
    <3>1. a = [r EXCEPT !.status = v.status, !.filled = NewFill(r, k, v),
                        !.submits = subs, !.keys = held]
      BY <1>4 DEF After
    <3> QED
      BY <3>1 DEF Rows
  <2>3. /\ r.status \in Terminal => v.status = "contradicted" /\ v.filled > r.filled
        /\ k = "resolve_contradiction" =>
               r.status = "contradicted" /\ v.status \in {"filled", "cancelled"}
        /\ r.status = "contradicted" => v.status \in {"filled", "cancelled", "contradicted"}
    <3> HIDE DEF v
    <3> QED
      BY <1>1, <1>2, <1>4, VerdictKeeps DEF v
  <2>4. CASE k = "resolve_contradiction"
    BY <2>2, <2>3, <2>4 DEF Terminal
  <2>5. CASE k # "resolve_contradiction"
    BY <1>2, <2>1, <2>2, <2>3, <2>5 DEF NewFill, Larger, Verdicts
  <2> QED
    BY <2>4, <2>5
<1> QED
  BY <1>3, <1>4

\* Finished orders reopen only as contradictions and on more fill; a recorded
\* fill falls, and a contradiction ends, only when a person resolves it.
THEOREM EvidenceAlwaysKept == LogSpec => EvidenceIsKept
<1>1. ASSUME LogInv, [LogNext]_orders
      PROVE  [\A l \in Links : FinishedIsFinal(l) /\ FillOnlyGrows(l)]_orders
  <2>1. CASE UNCHANGED orders
    BY <2>1
  <2>2. CASE LogNext
    <3> SUFFICES ASSUME NEW m \in Links
                 PROVE  FinishedIsFinal(m) /\ FillOnlyGrows(m)
      OBVIOUS
    <3>1. PICK l \in Links :
              \/ \E q \in Quantities : RecordIntent(l, q)
              \/ \E k, cum, keyed : /\ Carries(k, cum, keyed)
                                    /\ Recorded(l)
                                    /\ orders' = [orders EXCEPT
                                          ![l] = After(orders[l], k, cum, keyed)]
      BY <2>2, LogStep
    <3>2. orders \in [Links -> Rows]
      BY <1>1 DEF LogInv, LogTypeOK
    <3>3. orders[m] \in Rows /\ orders[m].filled \in Nat
      BY <3>2 DEF Rows
    <3>4. CASE orders'[m] = orders[m]
      BY <3>3, <3>4 DEF FinishedIsFinal, FillOnlyGrows
    <3>5. CASE l = m /\ \E q \in Quantities : RecordIntent(l, q)
      <4>1. orders[m].status = "absent"
        BY <3>5 DEF RecordIntent, Recorded
      <4>2. orders[m].filled = 0
        BY <4>1, <1>1 DEF LogInv, RowInv, FillFitsStatus
      <4>3. PICK q \in Quantities : orders'[m] = Row("pending", q)
        BY <3>2, <3>5 DEF RecordIntent
      <4>4. orders'[m].filled = 0
        BY <4>3 DEF Row
      <4> QED
        BY <4>1, <4>2, <4>4 DEF FinishedIsFinal, FillOnlyGrows, Terminal
    <3>6. CASE l = m /\ \E k, cum, keyed :
                  /\ Carries(k, cum, keyed)
                  /\ Recorded(l)
                  /\ orders' = [orders EXCEPT ![l] = After(orders[l], k, cum, keyed)]
      <4>1. PICK k, cum, keyed :
                  /\ Carries(k, cum, keyed)
                  /\ Recorded(m)
                  /\ orders' = [orders EXCEPT ![m] = After(orders[m], k, cum, keyed)]
        BY <3>6
      <4>2. orders'[m] = After(orders[m], k, cum, keyed)
        BY <3>2, <4>1
      <4> QED
        BY <3>3, <4>1, <4>2, RowKeeps DEF FinishedIsFinal, FillOnlyGrows, Recorded
    <3>7. CASE l # m
      BY <3>1, <3>2, <3>4, <3>7 DEF RecordIntent
    <3> QED
      BY <3>1, <3>5, <3>6, <3>7
  <2> QED
    BY <1>1, <2>1, <2>2
<1> QED
  BY <1>1, LogInit_LogInv, LogNext_LogInv, PTL DEF LogSpec, EvidenceIsKept
-------------------------------------------------------------------------------
(***************************************************************************)
(* What writers of the log may rely on: a row, once there, stays, and so   *)
(* does its submit marker.                                                 *)
(***************************************************************************)

LEMMA RowGrows ==
    ASSUME NEW r \in Rows, NEW k, NEW cum, NEW keyed, Carries(k, cum, keyed)
    PROVE  /\ After(r, k, cum, keyed).req = r.req
           /\ After(r, k, cum, keyed).submits >= r.submits
<1> DEFINE v == Decide(r.status, k, r.filled, r.req, cum)
<1>1. r.submits \in Nat
  BY DEF Rows
<1>2. CASE (keyed /\ cum \in r.keys) \/ ~v.applied
  BY <1>1, <1>2 DEF After
<1>3. CASE ~(keyed /\ cum \in r.keys) /\ v.applied
  <2> DEFINE subs == IF k = "submit_attempt" THEN r.submits + 1 ELSE r.submits
             held == IF keyed THEN r.keys \cup {cum} ELSE r.keys
  <2>1. After(r, k, cum, keyed) =
            [r EXCEPT !.status = v.status, !.filled = NewFill(r, k, v),
                      !.submits = subs, !.keys = held]
    BY <1>3 DEF After
  <2>2. /\ After(r, k, cum, keyed).req = r.req
        /\ After(r, k, cum, keyed).submits = subs
    BY <2>1 DEF Rows
  <2> QED
    BY <1>1, <2>2
<1> QED
  BY <1>2, <1>3

LEMMA LogGrows ==
    ASSUME LogInv, [LogNext]_orders, NEW m \in Links
    PROVE  /\ Recorded(m) => Recorded(m)' /\ orders'[m].req = orders[m].req
           /\ orders[m].submits = 1 => orders'[m].submits = 1
<1>1. CASE UNCHANGED orders
  BY <1>1 DEF Recorded
<1>2. CASE LogNext
  <2>1. PICK l \in Links :
            \/ \E q \in Quantities : RecordIntent(l, q)
            \/ \E k, cum, keyed : /\ Carries(k, cum, keyed)
                                  /\ Recorded(l)
                                  /\ orders' = [orders EXCEPT
                                        ![l] = After(orders[l], k, cum, keyed)]
    BY <1>2, LogStep
  <2>2. orders \in [Links -> Rows] /\ orders' \in [Links -> Rows]
    BY <1>2, LogNext_LogInv DEF LogInv, LogTypeOK
  <2>3. CASE l # m
    BY <2>1, <2>2, <2>3 DEF RecordIntent, Recorded
  <2>4. CASE l = m /\ \E q \in Quantities : RecordIntent(l, q)
    BY <2>4 DEF RecordIntent, Recorded, LogInv, RowInv, SubmitsFit
  <2>5. CASE l = m /\ \E k, cum, keyed :
                /\ Carries(k, cum, keyed)
                /\ Recorded(l)
                /\ orders' = [orders EXCEPT ![l] = After(orders[l], k, cum, keyed)]
    <3>1. PICK k, cum, keyed :
                /\ Carries(k, cum, keyed)
                /\ Recorded(m)
                /\ orders' = [orders EXCEPT ![m] = After(orders[m], k, cum, keyed)]
      BY <2>5
    <3>2. orders'[m] = After(orders[m], k, cum, keyed) /\ orders[m] \in Rows
      BY <2>2, <3>1
    <3>3. /\ orders'[m].req = orders[m].req
          /\ orders'[m].submits >= orders[m].submits
      BY <3>1, <3>2, RowGrows
    <3>4. orders'[m].submits \in Nat /\ orders'[m].submits <= 1
          /\ orders'[m].status # "absent"
      <4>1. RowInv(After(orders[m], k, cum, keyed))
        BY <3>1, <3>2, RowStep DEF LogInv, Recorded
      <4>2. orders'[m] \in Rows
        BY <2>2
      <4>3. After(orders[m], k, cum, keyed).status # "absent"
        BY <3>1, <3>2, RowStep DEF LogInv, Recorded
      <4> QED
        BY <3>2, <4>1, <4>2, <4>3 DEF RowInv, SubmitsFit, Rows
    <3> QED
      BY <3>1, <3>3, <3>4 DEF Recorded
  <2> QED
    BY <2>1, <2>3, <2>4, <2>5
<1> QED
  BY <1>1, <1>2

-------------------------------------------------------------------------------
(***************************************************************************)
(* The broker and the recovery pass.                                       *)
(***************************************************************************)

\* The venue holds orders of a quantity somebody asked for, and fills within it.
VenueRowFits(v) ==
    /\ v.st = "none" => v.cum = 0
    /\ v.st # "none" => v.qty \in Quantities /\ v.cum <= v.qty
    /\ v.st = "live" => v.cum < v.qty

VenueFits ==
    \A l \in Links :
        /\ VenueRowFits(venue[l])
        /\ net[l].out # {} => net[l].qty \in Quantities

\* What the local state of a procedure promises the steps that follow.
CallFits ==
    /\ call.pc # "idle" => call.qty \in Quantities
    /\ call.pc \in {"intent", "submit"} => call.tries = 0
    /\ call.pc = "post" => call.tries < Attempts
    /\ call.pc \in {"fill", "confirm", "settle"} => call.got.cum \in Reports

\* A request leaves only under a submit marker.
SentFirst ==
    /\ call.pc \in {"post", "wait"} => orders[call.link].submits = 1
    /\ NothingHidden

TodoRecorded == \A l \in todo : Recorded(l)

BrokerInv ==
    TypeOK /\ LogInv /\ VenueFits /\ CallFits /\ SentFirst /\ TodoRecorded

-------------------------------------------------------------------------------
(***************************************************************************)
(* Every step of the broker is a step of the log.                          *)
(***************************************************************************)

LEMMA QuantityReported ==
    ASSUME NEW q \in Quantities
    PROVE  q \in Nat /\ q > 0 /\ 0 \in Reports /\ \A n \in Nat : n <= q => n \in Reports
<1>1. q \in Nat /\ q > 0
  BY QuantitiesAssumption
<1>2. 0..q \subseteq Reports
  BY CoverAssumption
<1> QED
  BY <1>1, <1>2

\* A row read of an order reports a quantity evidence can carry.
LEMMA RowReported ==
    ASSUME TypeOK, VenueFits, NEW l \in Links, venue[l].st # "none"
    PROVE  venue[l].cum \in Nat /\ venue[l].cum \in Reports
<1>1. venue[l] \in VenueRows
  BY DEF TypeOK, VenueTypeOK
<1>2. venue[l].cum \in Nat
  BY <1>1 DEF VenueRows
<1>3. venue[l].qty \in Quantities /\ venue[l].cum <= venue[l].qty
  BY DEF VenueFits, VenueRowFits
<1> QED
  BY <1>2, <1>3, QuantityReported

LEMMA ReadReported ==
    ASSUME TypeOK, VenueFits, NEW l \in Links, NEW r \in Reads(l)
    PROVE  /\ r.kind \in {"error", "none", "row"}
           /\ r.cum \in Nat /\ r.resting \in BOOLEAN /\ r.rejected \in BOOLEAN
           /\ r.kind = "row" => r.cum \in Reports
           /\ r.kind = "row" => r \in Results
<1>1. CASE r = ReadError
  BY <1>1 DEF ReadError, Reading
<1>2. CASE r = Reading("none", 0, "none")
  BY <1>2 DEF Reading
<1>3. CASE venue[l].st # "none" /\ r = Reading("row", venue[l].cum, venue[l].st)
  <2>1. venue[l].cum \in Nat /\ venue[l].cum \in Reports
    BY <1>3, RowReported
  <2> QED
    BY <1>3, <2>1 DEF Reading, Results
<1> QED
  BY <1>1, <1>2, <1>3 DEF Reads, ReadOrder

LEMMA ApplyPlain ==
    ASSUME NEW l \in Links, NEW k \in Kinds \ Quantified, Apply(l, k, NoQty, FALSE)
    PROVE  LogNext
BY DEF LogNext, Evidence

LEMMA ApplyQuantity ==
    ASSUME NEW l \in Links, NEW k \in Quantified, NEW cum \in Reports,
           Apply(l, k, cum, FALSE)
    PROVE  LogNext
BY DEF LogNext, Evidence

LEMMA ApplyFill ==
    ASSUME NEW l \in Links, NEW cum \in Reports, Apply(l, "fill_report", cum, TRUE)
    PROVE  LogNext
BY DEF LogNext, Evidence

LEMMA NextLogs ==
    ASSUME BrokerInv, [Next]_vars
    PROVE  [LogNext]_orders
<1> USE DEF BrokerInv
<1>1. call \in Calls /\ call.link \in Links
  BY DEF TypeOK, Calls
<1>2. CASE UNCHANGED vars
  BY <1>2 DEF vars
<1>3. CASE Callers
  <2>1. ASSUME NEW l \in Links, CancelOrder(l) PROVE [LogNext]_orders
    BY <2>1, ApplyPlain DEF CancelOrder, LogEvent, Kinds, Quantified
  <2>2. ASSUME NEW l \in Links, NEW q \in Quantities,
               PlaceMarket(l, q) \/ PlacePostOnly(l, q)
        PROVE  UNCHANGED orders
    BY <2>2 DEF PlaceMarket, PlacePostOnly, Begin
  <2> QED
    BY <1>3, <2>1, <2>2 DEF Callers, Taken
<1>4. CASE Procedure
  <2>1. CASE IntentNew
    <3>1. call.qty \in Quantities
      BY <2>1 DEF IntentNew, At, CallFits
    <3> QED
      BY <1>1, <2>1, <3>1 DEF IntentNew, LogNext, Evidence
  <2>2. CASE SubmitMarker
    BY <1>1, <2>2, ApplyPlain DEF SubmitMarker, Kinds, Quantified
  <2>3. CASE Acknowledge
    BY <1>1, <2>3, ApplyPlain DEF Acknowledge, LogEvent, Kinds, Quantified
  <2>4. CASE FinishNothing
    <3>1. 0 \in Reports
      BY <2>4, QuantityReported DEF FinishNothing, At, CallFits
    <3> QED
      BY <1>1, <2>4, <3>1, ApplyPlain, ApplyQuantity
      DEF FinishNothing, LogEvent, Kinds, Quantified
  <2>5. CASE FinishFill
    <3>1. call.got.cum \in Reports
      BY <2>5 DEF FinishFill, At, CallFits
    <3> QED
      BY <1>1, <2>5, <3>1, ApplyFill DEF FinishFill, LogEvent
  <2>6. CASE FinishRest
    <3>1. call.got.cum \in Reports
      BY <2>6 DEF FinishRest, At, CallFits
    <3> QED
      BY <1>1, <2>6, <3>1, ApplyQuantity DEF FinishRest, LogEvent, Quantified
  <2>7. CASE FinishDoubt
    BY <1>1, <2>7, ApplyPlain DEF FinishDoubt, LogEvent, Kinds, Quantified
  <2>8. CASE CancelRead
    BY <1>1, <2>8, ApplyPlain DEF CancelRead, LogEvent, Kinds, Quantified
  <2>9. CASE \/ IntentKnown \/ LogRefuses \/ SendCopy \/ NoAnswer
             \/ HearAccepted \/ HearRefused \/ HearDuplicate \/ ReadBack
    BY <2>9 DEF IntentKnown, LogRefuses, SendCopy, NoAnswer, HearAccepted,
                HearRefused, HearDuplicate, ReadBack, HeardIt
  <2> QED
    BY <1>4, <2>1, <2>2, <2>3, <2>4, <2>5, <2>6, <2>7, <2>8, <2>9 DEF Procedure
<1>5. CASE Recovery
  <2>1. ASSUME NEW l \in Links, RecoverPending(l) PROVE LogNext
    BY <2>1, ApplyPlain DEF RecoverPending, Kinds, Quantified
  <2>2. ASSUME NEW l \in Links, RecoverRead(l) PROVE [LogNext]_orders
    <3>1. PICK r \in Reads(l) :
              \/ /\ r.kind = "row"
                 /\ IF r.cum > 0 THEN Apply(l, "fill_report", r.cum, TRUE)
                                 ELSE UNCHANGED orders
              \/ Apply(l, "never_sent", NoQty, FALSE)
              \/ Apply(l, "reconcile_required", NoQty, FALSE)
      BY <2>2 DEF RecoverRead
    <3>2. r.kind = "row" => r.cum \in Reports
      BY ReadReported
    <3> QED
      BY <3>1, <3>2, ApplyPlain, ApplyFill DEF Kinds, Quantified
  <2>3. CASE RecoverSettle
    <3>1. call.got.cum \in Reports
      BY <2>3 DEF RecoverSettle, At, CallFits
    <3>2. \/ Apply(call.link, "ack", NoQty, FALSE)
          \/ Apply(call.link, "cancel_confirm", call.got.cum, FALSE)
          \/ Apply(call.link, "reject", NoQty, FALSE)
          \/ UNCHANGED orders
      BY <2>3 DEF RecoverSettle
    <3> QED
      BY <1>1, <3>1, <3>2, ApplyPlain, ApplyQuantity DEF Kinds, Quantified
  <2> QED
    BY <1>5, <2>1, <2>2, <2>3 DEF Recovery, Restart, RecoverDone
<1>6. CASE Crash \/ Outside
  BY <1>6 DEF Crash, Outside
<1> QED
  BY <1>2, <1>3, <1>4, <1>5, <1>6 DEF Next

-------------------------------------------------------------------------------
(***************************************************************************)
(* The venue and the network.                                              *)
(***************************************************************************)

VenueInv == VenueTypeOK /\ VenueFits

LEMMA VenueUpdate ==
    ASSUME VenueInv, NEW l \in Links,
           NEW v \in VenueRows, VenueRowFits(v), venue' = [venue EXCEPT ![l] = v],
           net' \in [Links -> Nets],
           \A m \in Links : net'[m].qty = net[m].qty /\ net'[m].out \subseteq net[m].out,
           UNCHANGED age
    PROVE  VenueInv'
BY DEF VenueInv, VenueTypeOK, VenueFits, VenueRowFits

LEMMA VenueStepInv ==
    ASSUME VenueInv, NEW l \in Links, NEW awaited, VenueStep(l, awaited)
    PROVE  VenueInv'
<1>1. /\ venue[l] \in VenueRows /\ VenueRowFits(venue[l])
      /\ venue \in [Links -> VenueRows] /\ net \in [Links -> Nets]
  BY DEF VenueInv, VenueTypeOK, VenueFits
<1>2. CASE Land(l, awaited)
  <2>1. PICK i \in net[l].out :
            LandAccepted(l, i, awaited) \/ LandRefused(l, i, awaited)
                                        \/ LandDuplicate(l, i, awaited)
    BY <1>2 DEF Land
  <2>2. ASSUME NEW said \in Answers, Answer(l, i, said, awaited)
        PROVE  /\ net' \in [Links -> Nets]
               /\ \A m \in Links : net'[m].qty = net[m].qty
                                   /\ net'[m].out \subseteq net[m].out
    BY <1>1, <2>2 DEF Answer, Nets
  <2>3. CASE LandAccepted(l, i, awaited)
    <3>1. net[l].qty \in Quantities
      BY <2>1 DEF VenueInv, VenueFits
    <3>2. net[l].qty \in Nat /\ net[l].qty > 0
      BY <3>1, QuantityReported
    <3>3. PICK seen \in BOOLEAN :
              venue' = [venue EXCEPT ![l].st = "live", ![l].qty = net[l].qty,
                                     ![l].seen = seen]
      BY <2>3 DEF LandAccepted
    <3> DEFINE v == [venue[l] EXCEPT !.st = "live", !.qty = net[l].qty, !.seen = seen]
    <3>4. v \in VenueRows
      BY <1>1, <3>2 DEF VenueRows
    <3>5. v.st = "live" /\ v.qty = net[l].qty /\ v.cum = venue[l].cum
      BY <1>1 DEF VenueRows
    <3>6. venue[l].cum = 0
      BY <1>1, <2>3 DEF LandAccepted, VenueRowFits
    <3>7. VenueRowFits(v)
      BY <3>1, <3>2, <3>5, <3>6 DEF VenueRowFits
    <3>8. venue' = [venue EXCEPT ![l] = v]
      BY <1>1, <3>3
    <3>9. Answer(l, i, "ok", awaited) /\ UNCHANGED age
      BY <1>2, <2>3 DEF LandAccepted, Land
    <3> QED
      BY <2>2, <3>4, <3>7, <3>8, <3>9, VenueUpdate DEF Answers
  <2>4. CASE LandRefused(l, i, awaited)
    <3> DEFINE v == [venue[l] EXCEPT !.refused = TRUE]
    <3>1. v \in VenueRows /\ v.st = venue[l].st /\ v.qty = venue[l].qty
                          /\ v.cum = venue[l].cum
      BY <1>1 DEF VenueRows
    <3>2. VenueRowFits(v)
      BY <1>1, <3>1 DEF VenueRowFits
    <3>3. /\ venue' = [venue EXCEPT ![l] = v]
          /\ Answer(l, i, "refused", awaited) /\ UNCHANGED age
      BY <1>1, <1>2, <2>4 DEF LandRefused, Land
    <3> QED
      BY <2>2, <3>1, <3>2, <3>3, VenueUpdate DEF Answers
  <2>5. CASE LandDuplicate(l, i, awaited)
    <3>1. /\ venue' = [venue EXCEPT ![l] = venue[l]]
          /\ Answer(l, i, "duplicate", awaited) /\ UNCHANGED age
      BY <1>1, <1>2, <2>5 DEF LandDuplicate, Land
    <3> QED
      BY <1>1, <2>2, <3>1, VenueUpdate DEF Answers
  <2> QED
    BY <2>1, <2>3, <2>4, <2>5
<1>3. CASE Fill(l)
  <2>1. /\ venue[l].qty \in Quantities /\ venue[l].cum < venue[l].qty
        /\ venue[l].st = "live" /\ venue[l].cum \in Nat
    BY <1>1, <1>3 DEF Fill, VenueRowFits, VenueRows
  <2>2. venue[l].qty \in Nat
    BY <2>1, QuantityReported
  <2> DEFINE n == venue[l].cum + 1
             st == IF n = venue[l].qty THEN "filled" ELSE "live"
             v == [venue[l] EXCEPT !.cum = n, !.st = st]
  <2>3. venue' = [venue EXCEPT ![l] = v] /\ UNCHANGED <<net, age>>
    BY <1>1, <1>3, <2>1 DEF Fill
  <2>4. n \in Nat /\ n <= venue[l].qty /\ (st = "live" => n < venue[l].qty)
    BY <2>1, <2>2
  <2>5. st \in {"live"} \cup Ended /\ st # "none"
    BY DEF Ended
  <2> HIDE DEF n, st
  <2>6. v \in VenueRows /\ v.st = st /\ v.cum = n /\ v.qty = venue[l].qty
    BY <1>1, <2>4, <2>5 DEF VenueRows
  <2>7. VenueRowFits(v)
    BY <2>1, <2>4, <2>5, <2>6 DEF VenueRowFits
  <2> QED
    BY <1>1, <2>3, <2>6, <2>7, VenueUpdate
<1>4. CASE End(l)
  <2>1. PICK how \in {"cancelled", "rejected"} : venue' = [venue EXCEPT ![l].st = how]
    BY <1>4 DEF End
  <2> DEFINE v == [venue[l] EXCEPT !.st = how]
  <2>2. /\ v \in VenueRows /\ v.st = how /\ v.cum = venue[l].cum
        /\ v.qty = venue[l].qty
    BY <1>1 DEF VenueRows, Ended
  <2>3. VenueRowFits(v)
    BY <1>1, <1>4, <2>2 DEF VenueRowFits, End
  <2>4. venue' = [venue EXCEPT ![l] = v] /\ UNCHANGED <<net, age>>
    BY <1>1, <1>4, <2>1 DEF End
  <2> QED
    BY <1>1, <2>2, <2>3, <2>4, VenueUpdate
<1>5. CASE Show(l)
  <2> DEFINE v == [venue[l] EXCEPT !.seen = TRUE, !.dark = 0]
  <2>1. /\ v \in VenueRows /\ v.st = venue[l].st /\ v.cum = venue[l].cum
        /\ v.qty = venue[l].qty
    BY <1>1 DEF VenueRows
  <2>2. VenueRowFits(v)
    BY <1>1, <2>1 DEF VenueRowFits
  <2>3. venue' = [venue EXCEPT ![l] = v] /\ UNCHANGED <<net, age>>
    BY <1>1, <1>5 DEF Show
  <2> QED
    BY <1>1, <2>1, <2>2, <2>3, VenueUpdate
<1> QED
  BY <1>2, <1>3, <1>4, <1>5 DEF VenueStep

LEMMA TickInv ==
    ASSUME VenueInv, NEW aging, Tick(aging)
    PROVE  VenueInv'
<1> USE DEF VenueInv, VenueTypeOK, VenueFits, VenueRowFits, VenueRows, Nets
<1>1. Window \in Nat
  BY WindowAssumption
<1>2. age' \in [Links -> 0..Window]
  BY <1>1 DEF Tick, Older
<1>3. /\ venue' \in [Links -> VenueRows]
      /\ \A m \in Links : /\ venue'[m].st = venue[m].st
                          /\ venue'[m].cum = venue[m].cum
                          /\ venue'[m].qty = venue[m].qty
  <2>1. venue' = [l \in Links |->
                    IF Hidden(l) THEN [venue[l] EXCEPT !.dark = @ + 1] ELSE venue[l]]
        /\ \A l \in Links : Hidden(l) => venue[l].dark < Lag
    BY DEF Tick
  <2> SUFFICES ASSUME NEW m \in Links
               PROVE  /\ venue'[m] \in VenueRows /\ venue'[m].st = venue[m].st
                      /\ venue'[m].cum = venue[m].cum /\ venue'[m].qty = venue[m].qty
    BY <2>1
  <2>2. venue[m] \in VenueRows /\ Lag \in Nat
    BY WindowAssumption
  <2>3. venue'[m] = IF Hidden(m) THEN [venue[m] EXCEPT !.dark = @ + 1] ELSE venue[m]
    BY <2>1
  <2>4. Hidden(m) => venue[m].dark + 1 \in 0 .. Lag
    BY <2>1, <2>2
  <2> QED
    BY <2>2, <2>3, <2>4
<1>4. /\ net' \in [Links -> Nets]
      /\ \A m \in Links : net'[m].qty = net[m].qty /\ net'[m].out \subseteq net[m].out
  BY DEF Tick
<1> QED
  BY <1>2, <1>3, <1>4

LEMMA NextVenueInv ==
    ASSUME BrokerInv, [Next]_vars
    PROVE  VenueInv'
<1> USE DEF BrokerInv
<1>1. VenueInv
  BY DEF TypeOK, VenueInv
<1>2. call \in Calls /\ call.link \in Links
  BY DEF TypeOK, Calls
<1>3. CASE UNCHANGED venueVars
  BY <1>1, <1>3 DEF venueVars, VenueInv, VenueTypeOK, VenueFits
<1>4. CASE HangUp(call.link) /\ UNCHANGED <<venue, age>>
  BY <1>1, <1>4 DEF HangUp, VenueInv, VenueTypeOK, VenueFits, Nets
<1>5. CASE SendCopy
  <2>1. call.tries + 1 \in 1..Attempts
    BY <1>5, AttemptsAssumption DEF SendCopy, At, CallFits, TypeOK, Calls
  <2>2. call.qty \in Quantities /\ call.qty \in Nat
    BY <1>5, QuantityReported DEF SendCopy, At, CallFits
  <2> QED
    BY <1>1, <1>2, <1>5, <2>1, <2>2
    DEF SendCopy, Post, VenueInv, VenueTypeOK, VenueFits, Nets
<1>6. CASE Outside
  BY <1>1, <1>6, VenueStepInv, TickInv DEF Outside
<1>7. CASE Callers
  <2>1. UNCHANGED venueVars
    BY <1>7 DEF Callers, PlaceMarket, PlacePostOnly, Begin, CancelOrder, Taken,
                LocalBlind, Local, venueVars
  <2> QED
    BY <1>3, <2>1
<1>8. CASE Procedure
  <2>1. CASE NoAnswer \/ HearAccepted \/ HearRefused \/ HearDuplicate
    BY <1>4, <2>1 DEF NoAnswer, HearAccepted, HearRefused, HearDuplicate, HeardIt
  <2>2. CASE \/ IntentNew \/ IntentKnown \/ SubmitMarker \/ LogRefuses
             \/ Acknowledge \/ ReadBack \/ FinishNothing \/ FinishFill
             \/ FinishRest \/ FinishDoubt \/ CancelRead
    <3>1. UNCHANGED venueVars
      BY <2>2 DEF IntentNew, IntentKnown, SubmitMarker, LogRefuses,
                Acknowledge, ReadBack, FinishNothing, FinishFill, FinishRest,
                FinishDoubt, CancelRead, LocalBlind, Local, venueVars
    <3> QED
      BY <1>3, <3>1
  <2> QED
    BY <1>5, <1>8, <2>1, <2>2 DEF Procedure
<1>9. CASE Recovery
  <2>1. UNCHANGED venueVars
    BY <1>9 DEF Recovery, Restart, RecoverPending, RecoverRead, RecoverSettle,
                RecoverDone, RecoverSteady, venueVars
  <2> QED
    BY <1>3, <2>1
<1>10. CASE Crash
  BY <1>4, <1>10 DEF Crash
<1>11. CASE UNCHANGED vars
  BY <1>3, <1>11 DEF vars, venueVars
<1> QED
  BY <1>6, <1>7, <1>8, <1>9, <1>10, <1>11 DEF Next

-------------------------------------------------------------------------------
(***************************************************************************)
(* The procedure in progress.                                              *)
(***************************************************************************)

CallInv == call \in Calls /\ CallFits

LEMMA NewCallFields ==
    ASSUME NEW op \in Ops, NEW l \in Links, NEW q \in Nat, NEW pc \in Points
    PROVE  /\ NewCall(op, l, q, pc) \in Calls
           /\ NewCall(op, l, q, pc).pc = pc
           /\ NewCall(op, l, q, pc).qty = q
           /\ NewCall(op, l, q, pc).link = l
           /\ NewCall(op, l, q, pc).tries = 0
<1>1. Told("pending") \in Results /\ 0 \in 0..Attempts
  BY AttemptsAssumption DEF Told, Reading, Results
<1> QED
  BY <1>1 DEF NewCall, Calls, Reasons

LEMMA IdleFits ==
    /\ Idle \in Calls /\ Idle.pc = "idle"
<1>1. (CHOOSE l \in Links : TRUE) \in Links
  BY LinksAssumption
<1> QED
  BY <1>1, NewCallFields DEF Idle, Ops, Points

LEMMA ReturnFits ==
    ASSUME call \in Calls, CallFits, call.pc # "idle",
           NEW kind \in {"refused", "none", "unknown"}, Return(kind)
    PROVE  CallInv' /\ call'.pc = "return"
<1> DEFINE n == NewCall(call.op, call.link, call.qty, "return")
<1>1. call.op \in Ops /\ call.link \in Links /\ call.qty \in Nat
  BY DEF Calls
<1>2. n \in Calls /\ n.pc = "return" /\ n.qty = call.qty
  BY <1>1, NewCallFields DEF Points
<1>3. Told(kind) \in Results
  BY DEF Told, Reading, Results
<1>4. call' = [n EXCEPT !.got = Told(kind)]
  BY DEF Return
<1> HIDE DEF n
<1>5. call' \in Calls /\ call'.pc = "return" /\ call'.qty = call.qty
  BY <1>2, <1>3, <1>4 DEF Calls
<1> QED
  BY <1>5 DEF CallInv, CallFits

LEMMA GotoFits ==
    ASSUME call \in Calls, CallFits, call.pc # "idle",
           NEW pc \in Points \ {"idle", "intent", "submit", "post"}, Goto(pc),
           pc \in {"fill", "confirm", "settle"} => call.got.cum \in Reports
    PROVE  CallInv' /\ call'.pc = pc
<1>1. /\ call' \in Calls /\ call'.pc = pc /\ call'.qty = call.qty
      /\ call'.got = call.got
  BY DEF Goto, Calls
<1> QED
  BY <1>1 DEF CallInv, CallFits

LEMMA GoReadFits ==
    ASSUME call \in Calls, CallFits, call.pc # "idle",
           NEW why \in Reasons, GoRead(why)
    PROVE  CallInv' /\ call'.pc = "read"
<1>1. 0 \in 0..Attempts
  BY AttemptsAssumption
<1>2. call' \in Calls /\ call'.pc = "read" /\ call'.qty = call.qty
  BY <1>1 DEF GoRead, Calls, Points
<1> QED
  BY <1>2 DEF CallInv, CallFits
LEMMA RecordedAsked ==
    ASSUME LogInv, NEW l \in Links, Recorded(l)
    PROVE  orders[l].req \in Quantities /\ orders[l].req \in Nat
<1>1. orders[l].req \in Quantities \cup {0} /\ orders[l].req > 0
  BY DEF LogInv, LogTypeOK, Rows, RowInv, Recorded
<1>2. \A q \in Quantities \cup {0} : q > 0 => q \in Quantities /\ q \in Nat
  BY QuantitiesAssumption
<1> QED
  BY <1>1, <1>2

LEMMA CallersCall ==
    ASSUME BrokerInv, Callers
    PROVE  CallInv'
<1> USE DEF BrokerInv
<1>1. ASSUME NEW l \in Links, NEW q \in Quantities,
             PlaceMarket(l, q) \/ PlacePostOnly(l, q)
      PROVE  CallInv'
  <2>1. PICK op \in {"market", "post_only"} : call' = NewCall(op, l, q, "intent")
    BY <1>1 DEF PlaceMarket, PlacePostOnly, Begin
  <2>2. q \in Nat
    BY QuantityReported
  <2>3. /\ call' \in Calls /\ call'.pc = "intent" /\ call'.qty = q
        /\ call'.tries = 0
    BY <2>1, <2>2, NewCallFields DEF Ops, Points
  <2> QED
    BY <2>3 DEF CallInv, CallFits
<1>2. ASSUME NEW l \in Links, CancelOrder(l) PROVE CallInv'
  <2>1. Recorded(l)
    BY <1>2 DEF CancelOrder, Recorded, LogInv, RowInv, SubmitsFit
  <2>2. orders[l].req \in Quantities /\ orders[l].req \in Nat
    BY <2>1, RecordedAsked
  <2> DEFINE n == NewCall("cancel", l, orders[l].req, "read")
  <2>3. n \in Calls /\ n.pc = "read" /\ n.qty = orders[l].req
    BY <2>2, NewCallFields DEF Ops, Points
  <2>4. call' = [n EXCEPT !.why = "cancel"]
    BY <1>2 DEF CancelOrder
  <2> HIDE DEF n
  <2>5. call' \in Calls /\ call'.pc = "read" /\ call'.qty = orders[l].req
    BY <2>3, <2>4 DEF Calls, Reasons
  <2> QED
    BY <2>2, <2>5 DEF CallInv, CallFits
<1>3. CASE Taken
  BY <1>3, IdleFits DEF Taken, CallInv, CallFits
<1> QED
  BY <1>1, <1>2, <1>3 DEF Callers

LEMMA ProcedureCall ==
    ASSUME BrokerInv, Procedure
    PROVE  CallInv'
<1> USE DEF BrokerInv
<1>1. call \in Calls /\ call.link \in Links /\ call.tries \in 0..Attempts
  BY DEF TypeOK, Calls
<1>2. CallFits
  OBVIOUS
<1>3. Attempts \in Nat /\ Attempts > 0
  BY AttemptsAssumption
<1>4. CASE IntentNew
  <2>1. /\ call' \in Calls /\ call'.pc = "submit" /\ call'.qty = call.qty
        /\ call'.tries = call.tries
    BY <1>1, <1>4 DEF IntentNew, Goto, Calls, Points
  <2> QED
    BY <1>2, <1>4, <2>1 DEF IntentNew, At, CallInv, CallFits
<1>5. CASE IntentKnown
  <2>1. CASE Return("unknown")
    BY <1>1, <1>5, <2>1, ReturnFits DEF IntentKnown, At
  <2>2. CASE Goto("submit")
    <3>1. /\ call' \in Calls /\ call'.pc = "submit" /\ call'.qty = call.qty
          /\ call'.tries = call.tries
      BY <1>1, <2>2 DEF Goto, Calls, Points
    <3> QED
      BY <1>2, <1>5, <3>1 DEF IntentKnown, At, CallInv, CallFits
  <2>3. CASE call' = [call EXCEPT !.pc = "read", !.why = "resume",
                                  !.acked = Resent(call.link)]
    <3>1. Resent(call.link) \in BOOLEAN
      BY DEF Resent
    <3> DEFINE known == Resent(call.link)
    <3>2. call' = [call EXCEPT !.pc = "read", !.why = "resume", !.acked = known]
      BY <2>3
    <3> HIDE DEF known
    <3>3. call' \in Calls /\ call'.pc = "read" /\ call'.qty = call.qty
      BY <1>1, <3>1, <3>2 DEF Calls, Points, Reasons, known
    <3> QED
      BY <1>2, <1>5, <3>3 DEF IntentKnown, At, CallInv, CallFits
  <2> QED
    BY <1>5, <2>1, <2>2, <2>3 DEF IntentKnown
<1>6. CASE SubmitMarker
  <2>1. /\ call' \in Calls /\ call'.pc = "post" /\ call'.qty = call.qty
        /\ call'.tries = call.tries
    BY <1>1, <1>6 DEF SubmitMarker, Goto, Calls, Points
  <2> QED
    BY <1>2, <1>3, <1>6, <2>1 DEF SubmitMarker, At, CallInv, CallFits
<1>7. CASE LogRefuses
  BY <1>1, <1>7, ReturnFits DEF LogRefuses, At
<1>8. CASE SendCopy
  <2>1. call.tries + 1 \in 0..Attempts
    BY <1>1, <1>3, <1>8 DEF SendCopy, At, CallFits
  <2>2. call' \in Calls /\ call'.pc = "wait" /\ call'.qty = call.qty
    BY <1>1, <1>8, <2>1 DEF SendCopy, Calls, Points
  <2> QED
    BY <1>8, <2>2 DEF SendCopy, At, CallInv, CallFits
<1>9. CASE NoAnswer
  <2>1. CASE TriesLeft(call.tries) /\ Goto("post")
    <3>1. /\ call' \in Calls /\ call'.pc = "post" /\ call'.qty = call.qty
          /\ call'.tries = call.tries
      BY <1>1, <2>1 DEF Goto, Calls, Points
    <3> QED
      BY <1>9, <2>1, <3>1 DEF NoAnswer, At, CallInv, CallFits, TriesLeft
  <2>2. CASE GoRead("lost")
    BY <1>1, <1>9, <2>2, GoReadFits DEF NoAnswer, At, Reasons
  <2> QED
    BY <1>9, <2>1, <2>2 DEF NoAnswer
<1>10. CASE HearAccepted
  <2>1. 0 \in 0..Attempts
    BY <1>3
  <2>2. call' \in Calls /\ call'.pc = "ack" /\ call'.qty = call.qty
    BY <1>1, <1>10, <2>1 DEF HearAccepted, Calls, Points
  <2> QED
    BY <1>10, <2>2 DEF HearAccepted, Heard, At, CallInv, CallFits
<1>11. CASE HearRefused
  BY <1>1, <1>11, GotoFits, GoReadFits DEF HearRefused, Heard, At, Points, Reasons
<1>12. CASE HearDuplicate
  BY <1>1, <1>12, GoReadFits DEF HearDuplicate, Heard, At, Reasons
<1>13. CASE Acknowledge
  <2> DEFINE cum == venue[call.link].cum
             claim == Reading("row", cum, "filled")
             short == cum < call.qty
  <2>1. CASE GoRead("acked")
    BY <1>1, <1>13, <2>1, GoReadFits DEF Acknowledge, At, Reasons
  <2>2. CASE cum > 0 /\ call' = [call EXCEPT !.pc = "fill", !.got = claim,
                                             !.unconfirmed = short]
    <3>1. venue[call.link].st # "none"
      BY <1>1, <2>2 DEF VenueFits, VenueRowFits
    <3>2. cum \in Nat /\ cum \in Reports
      BY <1>1, <3>1, RowReported
    <3>3. claim \in Results /\ claim.cum = cum /\ short \in BOOLEAN
      BY <3>2 DEF Reading, Results
    <3> HIDE DEF claim, short
    <3>4. /\ call' \in Calls /\ call'.pc = "fill" /\ call'.qty = call.qty
          /\ call'.got = claim
      BY <1>1, <2>2, <3>3 DEF Calls, Points
    <3> QED
      BY <1>13, <3>2, <3>3, <3>4 DEF Acknowledge, At, CallInv, CallFits
  <2> QED
    BY <1>13, <2>1, <2>2 DEF Acknowledge
<1>14. CASE ReadBack
  <2>1. PICK r \in Reads(call.link) :
            \/ Goto("nothing")
            \/ Usable(r) /\ call' = [call EXCEPT !.pc = "fill", !.got = r, !.why = ""]
            \/ Goto("doubt")
    BY <1>14 DEF ReadBack
  <2>2. CASE Goto("nothing") \/ Goto("doubt")
    BY <1>1, <1>14, <2>2, GotoFits DEF ReadBack, At, Points
  <2>3. CASE Usable(r) /\ call' = [call EXCEPT !.pc = "fill", !.got = r, !.why = ""]
    <3>1. r \in Results /\ r.cum \in Reports
      BY <1>1, <2>3, ReadReported DEF Usable
    <3>2. /\ call' \in Calls /\ call'.pc = "fill" /\ call'.qty = call.qty
          /\ call'.got = r
      BY <1>1, <2>3, <3>1 DEF Calls, Points, Reasons
    <3> QED
      BY <1>14, <3>1, <3>2 DEF ReadBack, At, CallInv, CallFits
  <2> QED
    BY <2>1, <2>2, <2>3
<1>15. CASE FinishNothing \/ FinishDoubt
  BY <1>1, <1>15, ReturnFits DEF FinishNothing, FinishDoubt, At
<1>16. CASE FinishFill
  <2>1. PICK pc \in {"confirm", "return"} : Goto(pc)
    BY <1>16 DEF FinishFill
  <2>2. call.pc = "fill" /\ call.got.cum \in Reports
    BY <1>16 DEF FinishFill, At, CallFits
  <2> QED
    BY <1>1, <2>1, <2>2, GotoFits DEF Points
<1>17. CASE FinishRest
  BY <1>1, <1>17, GotoFits DEF FinishRest, At, Points
<1>18. CASE CancelRead
  <2>1. PICK r \in Reads(call.link) :
            \/ /\ r.kind = "row"
               /\ call' = [call EXCEPT !.pc = IF r.resting THEN "fill" ELSE "confirm",
                                       !.got = r]
            \/ Return("unknown")
    BY <1>18 DEF CancelRead
  <2>2. CASE Return("unknown")
    BY <1>1, <1>18, <2>2, ReturnFits DEF CancelRead, At
  <2>3. CASE /\ r.kind = "row"
             /\ call' = [call EXCEPT !.pc = IF r.resting THEN "fill" ELSE "confirm",
                                     !.got = r]
    <3> DEFINE pc == IF r.resting THEN "fill" ELSE "confirm"
    <3>1. r \in Results /\ r.cum \in Reports
      BY <1>1, <2>3, ReadReported
    <3>2. pc \in {"fill", "confirm"} /\ call' = [call EXCEPT !.pc = pc, !.got = r]
      BY <2>3
    <3> HIDE DEF pc
    <3>3. /\ call' \in Calls /\ call'.pc = pc /\ call'.qty = call.qty
          /\ call'.got = r
      BY <1>1, <3>1, <3>2 DEF Calls, Points
    <3> QED
      BY <1>18, <3>1, <3>2, <3>3 DEF CancelRead, At, CallInv, CallFits
  <2> QED
    BY <2>1, <2>2, <2>3
<1> QED
  BY <1>4, <1>5, <1>6, <1>7, <1>8, <1>9, <1>10, <1>11, <1>12, <1>13, <1>14,
     <1>15, <1>16, <1>17, <1>18 DEF Procedure
LEMMA RecoveryCall ==
    ASSUME BrokerInv, Recovery
    PROVE  CallInv'
<1> USE DEF BrokerInv
<1>1. CASE UNCHANGED call
  BY <1>1 DEF TypeOK, CallInv, CallFits
<1>2. CASE RecoverSettle
  BY <1>2, IdleFits DEF RecoverSettle, CallInv, CallFits
<1>3. ASSUME NEW l \in Links, RecoverRead(l) PROVE CallInv'
  <2>1. PICK r \in Reads(l) :
            \/ /\ r.kind = "row"
               /\ call' = [NewCall("recover", l, orders[l].req, "settle")
                              EXCEPT !.got = r]
            \/ UNCHANGED call
    BY <1>3 DEF RecoverRead
  <2>2. CASE /\ r.kind = "row"
             /\ call' = [NewCall("recover", l, orders[l].req, "settle")
                            EXCEPT !.got = r]
    <3>1. Recorded(l)
      BY <1>3 DEF RecoverRead, TodoRecorded
    <3>2. orders[l].req \in Quantities /\ orders[l].req \in Nat
      BY <3>1, RecordedAsked
    <3>3. r \in Results /\ r.cum \in Reports
      BY <2>2, ReadReported
    <3> DEFINE n == NewCall("recover", l, orders[l].req, "settle")
    <3>4. n \in Calls /\ n.pc = "settle" /\ n.qty = orders[l].req
      BY <3>2, NewCallFields DEF Ops, Points
    <3>5. call' = [n EXCEPT !.got = r]
      BY <2>2
    <3> HIDE DEF n
    <3>6. /\ call' \in Calls /\ call'.pc = "settle" /\ call'.qty = orders[l].req
          /\ call'.got = r
      BY <3>3, <3>4, <3>5 DEF Calls
    <3> QED
      BY <3>2, <3>3, <3>6 DEF CallInv, CallFits
  <2> QED
    BY <1>1, <2>1, <2>2
<1> QED
  BY <1>1, <1>2, <1>3
  DEF Recovery, Restart, RecoverPending, RecoverDone

LEMMA NextCallInv ==
    ASSUME BrokerInv, [Next]_vars
    PROVE  CallInv'
<1>1. CASE UNCHANGED call
  BY <1>1 DEF BrokerInv, TypeOK, CallInv, CallFits
<1>2. CASE Crash
  BY <1>2, IdleFits DEF Crash, CallInv, CallFits
<1> QED
  BY <1>1, <1>2, CallersCall, ProcedureCall, RecoveryCall DEF Next, Outside, vars

-------------------------------------------------------------------------------
(***************************************************************************)
(* No request without its marker.                                          *)
(***************************************************************************)

\* The procedure reaches the wire only through SubmitMarker, or again from there.
LEMMA ReachesPost ==
    ASSUME BrokerInv, Next, call'.pc \in {"post", "wait"}
    PROVE  \/ UNCHANGED call
           \/ SubmitMarker /\ call'.link = call.link
           \/ call.pc \in {"post", "wait"} /\ call'.link = call.link
<1> USE DEF BrokerInv
<1>1. call \in Calls /\ call.link \in Links
  BY DEF TypeOK, Calls
<1>2. CASE Callers
  <2>1. ASSUME NEW l \in Links, NEW q \in Quantities,
               PlaceMarket(l, q) \/ PlacePostOnly(l, q)
        PROVE  call'.pc = "intent"
    <3>1. PICK op : call' = NewCall(op, l, q, "intent")
      BY <2>1 DEF PlaceMarket, PlacePostOnly, Begin
    <3> QED
      BY <3>1 DEF NewCall
  <2>2. ASSUME NEW l \in Links, CancelOrder(l) PROVE call'.pc = "read"
    BY <2>2 DEF CancelOrder, NewCall
  <2>3. Taken => call'.pc = "idle"
    BY IdleFits DEF Taken
  <2> QED
    BY <1>2, <2>1, <2>2, <2>3 DEF Callers
<1>3. CASE Recovery
  BY <1>3, IdleFits DEF Recovery, Restart, RecoverPending, RecoverRead,
                        RecoverSettle, RecoverDone, NewCall
<1>4. CASE Crash \/ Outside
  BY <1>4, IdleFits DEF Crash, Outside
<1>5. CASE Procedure
  <2>1. ASSUME NEW kind, Return(kind) PROVE call'.pc = "return"
    BY <2>1 DEF Return, NewCall
  <2>2. ASSUME NEW why, GoRead(why) PROVE call'.pc = "read"
    BY <1>1, <2>2 DEF GoRead, Calls
  <2>3. ASSUME NEW pc, Goto(pc) PROVE call'.pc = pc /\ call'.link = call.link
    BY <1>1, <2>3 DEF Goto, Calls
  <2>4. CASE SubmitMarker \/ NoAnswer
    BY <2>2, <2>3, <2>4 DEF SubmitMarker, NoAnswer, At
  <2>5. CASE \/ IntentNew \/ LogRefuses \/ HearRefused \/ HearDuplicate
             \/ FinishNothing \/ FinishFill \/ FinishRest \/ FinishDoubt
    BY <2>1, <2>2, <2>3, <2>5
    DEF IntentNew, LogRefuses, HearRefused, HearDuplicate,
        FinishNothing, FinishFill, FinishRest, FinishDoubt
  <2>6. CASE IntentKnown
    BY <1>1, <2>1, <2>3, <2>6 DEF IntentKnown, Calls
  <2>7. CASE SendCopy \/ HearAccepted
    BY <1>1, <2>7 DEF SendCopy, HearAccepted, Heard, At, Calls
  <2>8. CASE Acknowledge
    <3>1. \/ GoRead("acked")
          \/ \E got, unconfirmed : call' = [call EXCEPT !.pc = "fill", !.got = got,
                                              !.unconfirmed = unconfirmed]
      BY <2>8 DEF Acknowledge
    <3> QED
      BY <1>1, <2>2, <3>1 DEF Calls
  <2>9. CASE ReadBack
    BY <1>1, <2>3, <2>9 DEF ReadBack, Calls
  <2>10. CASE CancelRead
    BY <1>1, <2>1, <2>10 DEF CancelRead, Calls
  <2> QED
    BY <1>5, <2>4, <2>5, <2>6, <2>7, <2>8, <2>9, <2>10 DEF Procedure
<1> QED
  BY <1>2, <1>3, <1>4, <1>5 DEF Next
\* A submit marker the log takes is the order's first.
LEMMA MarkerCounts ==
    ASSUME NEW r \in Rows, RowInv(r), r.status # "absent",
           NEW a, a = After(r, "submit_attempt", NoQty, FALSE), a # r
    PROVE  a.submits = 1
<1> DEFINE v == Decide(r.status, "submit_attempt", r.filled, r.req, NoQty)
<1>1. v.applied
  BY DEF After
<1>2. Carries("submit_attempt", NoQty, FALSE)
  BY DEF Carries, Kinds
<1>3. RowInv(a)
  BY <1>2, RowStep
<1> DEFINE st == v.status
           f == NewFill(r, "submit_attempt", v)
           n == r.submits + 1
           ks == r.keys
<1>4. a = [r EXCEPT !.status = st, !.filled = f, !.submits = n, !.keys = ks]
  BY <1>1 DEF After
<1> HIDE DEF st, f, n, ks
<1>5. a.submits = n
  BY <1>4 DEF Rows
<1>6. n = r.submits + 1 /\ r.submits \in Nat /\ n \in Nat /\ n >= 1
  BY DEF Rows, n
<1>7. n <= 1
  BY <1>3, <1>5 DEF RowInv, SubmitsFit
<1>8. n = 1
  BY <1>6, <1>7
<1> QED
  BY <1>5, <1>8

\* An order appears on the wire or at the venue only by being sent.
LEMMA OnlySending ==
    ASSUME BrokerInv, [Next]_vars, NEW l \in Links, AtTheVenue(l)', ~AtTheVenue(l)
    PROVE  SendCopy /\ l = call.link
<1> USE DEF BrokerInv
<1>1. /\ venue \in [Links -> VenueRows] /\ net \in [Links -> Nets]
      /\ call \in Calls /\ call.link \in Links
  BY DEF TypeOK, VenueTypeOK, Calls
<1>2. /\ net[l].out = {} /\ net[l].back = {}
      /\ venue[l].st = "none" /\ ~venue[l].refused
  BY DEF AtTheVenue
<1>3. ~UNCHANGED venueVars
  BY <1>2 DEF venueVars, AtTheVenue
<1>4. ~(HangUp(call.link) /\ UNCHANGED venue)
  BY <1>1, <1>2 DEF HangUp, AtTheVenue, Nets
<1>5. ASSUME NEW m \in Links, NEW awaited, VenueStep(m, awaited) PROVE FALSE
  <2>1. CASE m # l
    <3>1. net'[l] = net[l] /\ venue'[l] = venue[l]
      BY <1>1, <1>5, <2>1
      DEF VenueStep, Land, LandAccepted, LandRefused, LandDuplicate, Answer,
          Fill, End, Show
    <3> QED
      BY <1>2, <3>1 DEF AtTheVenue
  <2>2. CASE m = l
    BY <1>2, <1>5, <2>2 DEF VenueStep, Land, Fill, End, Show
  <2> QED
    BY <2>1, <2>2
<1>6. ~Tick(Aging)
  <2> SUFFICES ASSUME Tick(Aging) PROVE FALSE
    OBVIOUS
  <2>1. /\ net'[l].out = {} /\ net'[l].back = net[l].back
        /\ venue'[l] = venue[l]
    BY <1>1, <1>2 DEF Tick, Hidden, Nets
  <2> QED
    BY <1>2, <2>1 DEF AtTheVenue
<1>7. CASE SendCopy
  <2>1. l # call.link => net'[l] = net[l] /\ venue'[l] = venue[l]
    BY <1>1, <1>7 DEF SendCopy, Post
  <2> QED
    BY <1>2, <1>7, <2>1 DEF AtTheVenue
<1>8. CASE Callers
  BY <1>3, <1>8 DEF Callers, PlaceMarket, PlacePostOnly, Begin, CancelOrder, Taken,
                    LocalBlind, Local, venueVars
<1>9. CASE Recovery
  BY <1>3, <1>9 DEF Recovery, Restart, RecoverPending, RecoverRead, RecoverSettle,
                    RecoverDone, RecoverSteady, venueVars
<1>10. CASE Crash
  BY <1>4, <1>10 DEF Crash
<1>11. CASE Outside
  BY <1>5, <1>6, <1>11 DEF Outside
<1>12. CASE NoAnswer \/ HearAccepted \/ HearRefused \/ HearDuplicate
  BY <1>4, <1>12 DEF NoAnswer, HearAccepted, HearRefused, HearDuplicate, HeardIt
<1>13. CASE \/ IntentNew \/ IntentKnown \/ SubmitMarker \/ LogRefuses
            \/ Acknowledge \/ ReadBack \/ FinishNothing \/ FinishFill
            \/ FinishRest \/ FinishDoubt \/ CancelRead
  <2>1. UNCHANGED venueVars
    BY <1>13 DEF IntentNew, IntentKnown, SubmitMarker, LogRefuses,
                 Acknowledge, ReadBack, FinishNothing, FinishFill, FinishRest,
                 FinishDoubt, CancelRead, LocalBlind, Local, venueVars
  <2> QED
    BY <1>3, <2>1
<1>14. CASE UNCHANGED vars
  BY <1>3, <1>14 DEF vars, venueVars
<1> QED
  BY <1>7, <1>8, <1>9, <1>10, <1>11, <1>12, <1>13, <1>14 DEF Next, Procedure

LEMMA NextSentFirst ==
    ASSUME BrokerInv, [Next]_vars
    PROVE  SentFirst'
<1> USE DEF BrokerInv
<1>1. \A l \in Links : orders[l].submits = 1 => orders'[l].submits = 1
  BY NextLogs, LogGrows
<1>2. call \in Calls /\ call.link \in Links
  BY DEF TypeOK, Calls
<1>3. ASSUME call'.pc \in {"post", "wait"} PROVE orders'[call'.link].submits = 1
  <2>1. CASE UNCHANGED call
    BY <1>1, <1>2, <1>3, <2>1 DEF SentFirst
  <2>2. CASE call.pc \in {"post", "wait"} /\ call'.link = call.link
    BY <1>1, <1>2, <2>2 DEF SentFirst
  <2>3. CASE SubmitMarker /\ call'.link = call.link
    <3>1. /\ orders[call.link] \in Rows /\ RowInv(orders[call.link])
          /\ orders \in [Links -> Rows]
      BY <1>2 DEF LogInv, LogTypeOK
    <3>2. /\ orders[call.link].status # "absent"
          /\ orders'[call.link] =
                 After(orders[call.link], "submit_attempt", NoQty, FALSE)
          /\ orders'[call.link] # orders[call.link]
      BY <1>2, <2>3, <3>1 DEF SubmitMarker, Apply, Recorded
    <3> QED
      BY <2>3, <3>1, <3>2, MarkerCounts
  <2> QED
    BY <1>3, <2>1, <2>2, <2>3, ReachesPost DEF vars
<1>4. ASSUME NEW l \in Links, AtTheVenue(l)', ~AtTheVenue(l)
      PROVE  orders[l].submits = 1
  BY <1>4, OnlySending DEF SendCopy, At, SentFirst
<1> QED
  BY <1>1, <1>3, <1>4 DEF SentFirst, NothingHidden

-------------------------------------------------------------------------------
(***************************************************************************)
(* The inductive invariant, and what follows from it.                      *)
(***************************************************************************)

LEMMA InitBroker == Init => BrokerInv
<1> SUFFICES ASSUME Init PROVE BrokerInv
  OBVIOUS
<1>1. LogInv
  BY LogInit_LogInv DEF Init
<1>2. VenueTypeOK /\ VenueFits
  <2>1. /\ [st |-> "none", cum |-> 0, qty |-> 0, seen |-> FALSE, dark |-> 0,
            refused |-> FALSE] \in VenueRows
        /\ [out |-> {}, back |-> {}, qty |-> 0] \in Nets
        /\ 0 \in 0..Window
    BY WindowAssumption DEF VenueRows, Nets
  <2> QED
    BY <2>1 DEF Init, VenueInit, VenueTypeOK, VenueFits, VenueRowFits
<1>3. call \in Calls /\ call.pc = "idle"
  BY IdleFits DEF Init
<1>4. SentFirst
  BY <1>3 DEF Init, VenueInit, SentFirst, NothingHidden, AtTheVenue
<1> QED
  BY <1>1, <1>2, <1>3, <1>4
  DEF Init, BrokerInv, TypeOK, CallFits, TodoRecorded, LogInv

LEMMA NextTodo ==
    ASSUME BrokerInv, [Next]_vars
    PROVE  /\ mode' \in {"down", "recovering", "trading", "protect"}
           /\ blind' \subseteq Links /\ todo' \subseteq Links
           /\ TodoRecorded'
<1> USE DEF BrokerInv
<1>1. \A l \in Links : Recorded(l) => Recorded(l)'
  BY NextLogs, LogGrows
<1>2. todo \subseteq Links /\ blind \subseteq Links /\ call.link \in Links
  BY DEF TypeOK, Calls
<1>3. mode' \in {"down", "recovering", "trading", "protect"}
  BY DEF Next, Callers, Procedure, Recovery, Outside, vars, TypeOK,
     PlaceMarket, PlacePostOnly, Begin, CancelOrder, Taken, Crash, Restart,
     IntentNew, IntentKnown, SubmitMarker, LogRefuses, SendCopy, NoAnswer,
     HearAccepted, HearRefused, HearDuplicate, HeardIt, Acknowledge, ReadBack,
     FinishNothing, FinishFill, FinishRest, FinishDoubt, CancelRead,
     RecoverPending, RecoverRead, RecoverSettle, RecoverDone, RecoverSteady,
     LocalBlind, Local
<1>4. blind' \subseteq Links
  BY <1>2 DEF Next, Callers, Procedure, Recovery, Outside, vars,
     PlaceMarket, PlacePostOnly, Begin, CancelOrder, Taken, Crash, Restart,
     IntentNew, IntentKnown, SubmitMarker, LogRefuses, SendCopy, NoAnswer,
     HearAccepted, HearRefused, HearDuplicate, HeardIt, Acknowledge, ReadBack,
     FinishNothing, FinishFill, FinishRest, FinishDoubt, CancelRead,
     RecoverPending, RecoverRead, RecoverSettle, RecoverDone, RecoverSteady,
     LocalBlind
<1>5. todo' \subseteq todo \/ (Restart /\ todo' = UnresolvedOrders /\ UNCHANGED orders)
  BY DEF Next, Callers, Procedure, Recovery, Outside, vars,
     PlaceMarket, PlacePostOnly, Begin, CancelOrder, Taken, Crash, Restart,
     IntentNew, IntentKnown, SubmitMarker, LogRefuses, SendCopy, NoAnswer,
     HearAccepted, HearRefused, HearDuplicate, HeardIt, Acknowledge, ReadBack,
     FinishNothing, FinishFill, FinishRest, FinishDoubt, CancelRead, Settled,
     RecoverPending, RecoverRead, RecoverSettle, RecoverDone, RecoverSteady,
     LocalBlind, Local
<1>6. CASE todo' \subseteq todo
  BY <1>1, <1>2, <1>3, <1>4, <1>6 DEF TodoRecorded
<1>7. CASE todo' = UnresolvedOrders /\ UNCHANGED orders
  <2>1. \A l \in UnresolvedOrders : Recorded(l)
    BY DEF UnresolvedOrders, Unresolved, MaybeLive, Recorded
  <2> QED
    BY <1>1, <1>3, <1>4, <1>7, <2>1 DEF TodoRecorded, UnresolvedOrders
<1> QED
  BY <1>5, <1>6, <1>7

LEMMA NextBroker == BrokerInv /\ [Next]_vars => BrokerInv'
<1> SUFFICES ASSUME BrokerInv, [Next]_vars PROVE BrokerInv'
  OBVIOUS
<1>1. LogInv'
  BY NextLogs, LogNext_LogInv DEF BrokerInv
<1> QED
  BY <1>1, NextVenueInv, NextCallInv, NextSentFirst, NextTodo
  DEF BrokerInv, TypeOK, VenueInv, CallInv, LogInv

LEMMA BrokerInvariant == Spec => []BrokerInv
BY InitBroker, NextBroker, PTL DEF Spec

\* Every variable of the broker stays in its range.
THEOREM BrokerTyped == Spec => []TypeOK
<1>1. BrokerInv => TypeOK
  BY DEF BrokerInv
<1> QED
  BY <1>1, BrokerInvariant, PTL

\* The broker and the recovery pass write the record only as its own
\* specification allows: they implement the order log.
THEOREM BrokerImplementsLog == Spec => ImplementsLog
<1>1. Init => LogInit
  BY DEF Init
<1>2. BrokerInv /\ [Next]_vars => [LogNext]_orders
  BY NextLogs
<1> QED
  BY <1>1, <1>2, BrokerInvariant, PTL DEF Spec, ImplementsLog, LogSpec

\* No request, answer or venue order exists whose submit marker is not on file.
THEOREM NothingEverHidden == Spec => []NothingHidden
<1>1. BrokerInv => NothingHidden
  BY DEF BrokerInv, SentFirst
<1> QED
  BY <1>1, BrokerInvariant, PTL

\* What holds of any log holds of the broker's: no order is sent twice, and
\* status and fill agree, through every crash, lost answer and restart.
COROLLARY BrokerNeverSendsTwice == Spec => []SentAtMostOnce /\ []StatusMatchesFill
BY BrokerImplementsLog, NeverSentTwice, StatusAlwaysMatchesFill, PTL DEF ImplementsLog

COROLLARY BrokerKeepsEvidence == Spec => EvidenceIsKept
BY BrokerImplementsLog, EvidenceAlwaysKept, PTL DEF ImplementsLog

-------------------------------------------------------------------------------
(***************************************************************************)
(* What the order log and the broker's answers say is true of the venue,   *)
(* for any number of orders, quantities, copies and delays.                *)
(*                                                                         *)
(* The argument.  The last word of a row or of an answer must never be     *)
(* overtaken, so it rests on facts about the venue that no later step can  *)
(* undo: an order that ended, one the venue refused, or one that is not    *)
(* there once no copy can land (Gone).  CallTrue says which such fact      *)
(* every step of a procedure carries to the next; RowTrue what the row has *)
(* of it.  Silence of the lists is such a fact only past the window: an    *)
(* accepted order that is not listed is younger than LandBy plus the ticks *)
(* it has been hidden (VenueTold), and Window covers both.                 *)
(***************************************************************************)

\* The venue's last word on the order: it ended, or none of its copies is accepted.
Over(l) ==
    \/ venue[l].st \in Ended
    \/ venue[l].st = "none" /\ venue[l].refused

\* No later step of anybody changes what the order has filled.
Gone(l) == Over(l) \/ (venue[l].st = "none" /\ age[l] >= LandBy)

\* What the venue holds and has answered, against the request that was sent.
VenueTold(l) ==
    /\ venue[l].refused => venue[l].st = "none"
    /\ "refused" \in net[l].back => venue[l].refused
    /\ "duplicate" \in net[l].back => venue[l].st # "none"
    /\ venue[l].st # "none" => venue[l].qty = net[l].qty
    /\ venue[l].st # "none" \/ net[l].out # {} => net[l].qty <= orders[l].req
    /\ venue[l].st = "none" => venue[l].dark = 0
    /\ venue[l].dark <= Lag
    /\ Hidden(l) => age[l] < LandBy + venue[l].dark

\* The row claims no fill the venue does not have, and its end is the venue's.
RowTrue(l) ==
    /\ orders[l].status # "contradicted"
    /\ orders[l].filled <= venue[l].cum
    /\ orders[l].status \in Terminal =>
          /\ Gone(l) \/ orders[l].submits = 0
          /\ orders[l].filled = venue[l].cum

\* An order that ended without a fill.
EndedUnfilled(l) == Over(l) /\ venue[l].cum = 0

\* A reading is the venue's: what it showed has filled, and if it does not rest
\* it is all there will be.
Shown(l, g) ==
    /\ g.kind = "row" /\ g.cum <= venue[l].cum
    /\ ~g.resting /\ ~call.unconfirmed => venue[l].st \in Ended /\ venue[l].cum = g.cum

\* Until the outcome is known: the row is untouched and the request is the call's.
Sending(l) ==
    /\ orders[l].status = "submitted" /\ call.qty <= orders[l].req
    /\ call.tries > 0 \/ call.pc = "ack" => net[l].qty = call.qty

CallTrue ==
    LET l == call.link
        g == call.got
    IN /\ call.pc = "submit" => orders[l].status = "pending" /\ call.qty <= orders[l].req
       /\ call.pc \in {"post", "wait", "ack"} => Sending(l)
       /\ call.pc = "post" /\ call.tries = 0 => venue[l].st = "none" /\ net[l].out = {}
       /\ call.pc = "wait" => call.tries > 0
       /\ call.pc = "read" /\ call.why = "refused" => venue[l].refused \/ venue[l].st # "none"
       /\ call.pc = "nothing" => l \in blind \/ EndedUnfilled(l)
       /\ call.pc \in {"fill", "confirm", "settle"} => Shown(l, g)
       /\ call.pc = "confirm" => ~g.resting
       /\ call.unconfirmed => call.pc \in {"fill", "return"}
       /\ call.pc = "fill" /\ call.unconfirmed =>
             /\ orders[l].status \in {"submitted", "acknowledged"}
             /\ ~g.resting /\ g.cum < call.qty /\ call.qty <= orders[l].req
       /\ call.pc = "return" =>
             /\ g.kind = "none" => l \in blind \/ EndedUnfilled(l)
             /\ g.kind = "row" =>
                   /\ g.cum <= venue[l].cum
                   /\ ~g.resting => \/ venue[l].st \in Ended /\ venue[l].cum = g.cum
                                    \/ orders[l].status \in MaybeLive

BrokerTruth ==
    /\ BrokerInv
    /\ \A l \in Links : VenueTold(l)
    /\ \A l \in Links \ blind : RowTrue(l)
    /\ CallTrue

-------------------------------------------------------------------------------
(***************************************************************************)
(* What a step does to the venue: nothing, a hang-up, a copy on the wire,  *)
(* or a move of the venue's own, which writes nothing.                     *)
(***************************************************************************)

LEMMA StepsOutside ==
    ASSUME BrokerInv, [Next]_vars
    PROVE  \/ UNCHANGED venueVars
           \/ /\ HangUp(call.link) /\ UNCHANGED <<venue, age, orders, blind>>
              /\ \/ Crash \/ NoAnswer \/ HearAccepted \/ HearRefused \/ HearDuplicate
           \/ SendCopy /\ UNCHANGED <<venue, age, orders, blind>>
           \/ /\ UNCHANGED <<orders, call, blind>>
              /\ \/ \E m \in Links : VenueStep(m, Awaited(m))
                 \/ call.pc # "post" /\ Tick(Aging)
<1>1. CASE UNCHANGED vars
  BY <1>1 DEF vars, venueVars
<1>2. CASE Callers
  BY <1>2 DEF Callers, PlaceMarket, PlacePostOnly, Begin, CancelOrder, Taken,
              LocalBlind, Local, venueVars
<1>3. CASE Crash
  BY <1>3 DEF Crash
<1>4. CASE Recovery
  BY <1>4 DEF Recovery, Restart, RecoverPending, RecoverRead, RecoverSettle,
              RecoverDone, RecoverSteady, venueVars
<1>5. CASE Outside
  BY <1>5 DEF Outside
<1>6. CASE NoAnswer \/ HearAccepted \/ HearRefused \/ HearDuplicate
  BY <1>6 DEF NoAnswer, HearAccepted, HearRefused, HearDuplicate, HeardIt
<1>7. CASE SendCopy
  BY <1>7 DEF SendCopy
<1>8. CASE \/ IntentNew \/ IntentKnown \/ SubmitMarker \/ LogRefuses
           \/ Acknowledge \/ ReadBack \/ FinishNothing \/ FinishFill
           \/ FinishRest \/ FinishDoubt \/ CancelRead
  BY <1>8 DEF IntentNew, IntentKnown, SubmitMarker, LogRefuses,
              Acknowledge, ReadBack, FinishNothing, FinishFill, FinishRest,
              FinishDoubt, CancelRead, LocalBlind, Local, venueVars
<1> QED
  BY <1>1, <1>2, <1>3, <1>4, <1>5, <1>6, <1>7, <1>8 DEF Next, Procedure

\* What no step takes back: an order does not disappear, shrink or come alive
\* again, and an order that is not on its way does not appear.
VenueOnward(l) ==
    /\ venue'[l].cum >= venue[l].cum
    /\ venue[l].st # "none" => venue'[l].st # "none"
    /\ venue[l].refused => venue'[l].refused
    /\ venue[l].st \in Ended => venue'[l] .st = venue[l].st /\ venue'[l].cum = venue[l].cum
    /\ Over(l) => Over(l)' /\ venue'[l].cum = venue[l].cum
    /\ Gone(l) => Gone(l)' /\ venue'[l].cum = venue[l].cum
    /\ venue[l].st = "none" /\ net[l].out = {} =>
          venue'[l].st = "none" /\ venue'[l].cum = venue[l].cum

LEMMA VenueFacts ==
    ASSUME BrokerInv, NEW l \in Links
    PROVE  /\ venue \in [Links -> VenueRows] /\ net \in [Links -> Nets]
           /\ age \in [Links -> 0..Window]
           /\ venue[l].st \in {"none", "live"} \cup Ended /\ "none" \notin Ended /\ "live" \notin Ended
           /\ venue[l].cum \in Nat /\ venue[l].qty \in Nat /\ venue[l].dark \in Nat
           /\ venue[l].seen \in BOOLEAN /\ venue[l].refused \in BOOLEAN
           /\ net[l].qty \in Nat /\ net[l].out \subseteq 1..Attempts /\ net[l].back \subseteq Answers
           /\ age[l] \in Nat /\ age[l] <= Window
           /\ venue[l].st = "none" => venue[l].cum = 0
           /\ venue[l].st = "live" => venue[l].cum < venue[l].qty
           /\ venue[l].cum <= venue[l].qty \/ venue[l].st = "none"
<1>1. /\ venue \in [Links -> VenueRows] /\ net \in [Links -> Nets]
      /\ age \in [Links -> 0..Window] /\ VenueRowFits(venue[l])
  BY DEF BrokerInv, TypeOK, VenueTypeOK, VenueFits
<1>2. venue[l] \in VenueRows /\ net[l] \in Nets /\ age[l] \in 0..Window
  BY <1>1
<1>3. Window \in Nat
  BY WindowAssumption
<1>4. "none" \notin Ended /\ "live" \notin Ended
  BY DEF Ended
<1> QED
  BY <1>1, <1>2, <1>3, <1>4 DEF VenueRows, Nets, VenueRowFits

\* One move of the venue on the order l.
LEMMA VenueStepOnward ==
    ASSUME BrokerInv, NEW l \in Links, NEW awaited, VenueStep(l, awaited), VenueTold(l)
    PROVE  VenueOnward(l)
<1>0. /\ LandBy \in Nat /\ age[l] \in Nat /\ venue[l].cum \in Nat
      /\ venue[l].st \in {"none", "live"} \cup Ended /\ "none" \notin Ended /\ "live" \notin Ended
      /\ venue \in [Links -> VenueRows] /\ venue[l] \in VenueRows
  BY VenueFacts, WindowAssumption
<1> USE DEF VenueOnward, Over, Gone
<1>1. CASE Land(l, awaited)
  <2>1. age[l] < LandBy /\ net[l].out # {} /\ UNCHANGED age
    BY <1>1 DEF Land
  <2>2. PICK i \in net[l].out :
            LandAccepted(l, i, awaited) \/ LandRefused(l, i, awaited)
                                        \/ LandDuplicate(l, i, awaited)
    BY <1>1 DEF Land
  <2>3. CASE LandAccepted(l, i, awaited)
    <3>1. /\ venue[l].st = "none" /\ ~venue[l].refused /\ venue'[l].st = "live"
          /\ venue'[l].cum = venue[l].cum
      BY <1>0, <2>3 DEF LandAccepted, VenueRows
    <3> QED
      BY <1>0, <2>1, <3>1
  <2>4. CASE LandRefused(l, i, awaited)
    <3>1. /\ venue[l].st = "none" /\ venue'[l].st = "none" /\ venue'[l].refused
          /\ venue'[l].cum = venue[l].cum
      BY <1>0, <2>4 DEF LandRefused, VenueRows
    <3> QED
      BY <1>0, <2>1, <3>1
  <2>5. CASE LandDuplicate(l, i, awaited)
    BY <1>0, <2>1, <2>5 DEF LandDuplicate
  <2> QED
    BY <2>2, <2>3, <2>4, <2>5
<1>2. CASE Fill(l)
  <2>1. /\ venue[l].st = "live" /\ venue'[l].st \in {"live", "filled"}
        /\ venue'[l].cum = venue[l].cum + 1 /\ venue'[l].refused = venue[l].refused
    BY <1>0, <1>2 DEF Fill, VenueRows
  <2> QED
    BY <1>0, <2>1
<1>3. CASE End(l)
  <2>1. /\ venue[l].st = "live" /\ venue'[l].st \in {"cancelled", "rejected"}
        /\ venue'[l].cum = venue[l].cum /\ venue'[l].refused = venue[l].refused
    BY <1>0, <1>3 DEF End, VenueRows
  <2> QED
    BY <1>0, <2>1
<1>4. CASE Show(l)
  <2>1. /\ venue'[l].st = venue[l].st /\ venue'[l].cum = venue[l].cum
        /\ venue'[l].refused = venue[l].refused /\ UNCHANGED <<net, age>>
    BY <1>0, <1>4 DEF Show, VenueRows
  <2> QED
    BY <1>0, <2>1
<1> QED
  BY <1>1, <1>2, <1>3, <1>4 DEF VenueStep

LEMMA TickMoves ==
    ASSUME BrokerInv, NEW aging, Tick(aging), NEW l \in Links
    PROVE  /\ venue'[l].st = venue[l].st /\ venue'[l].cum = venue[l].cum
           /\ venue'[l].refused = venue[l].refused /\ venue'[l].qty = venue[l].qty
           /\ venue'[l].seen = venue[l].seen
           /\ venue'[l].dark = IF Hidden(l) THEN venue[l].dark + 1 ELSE venue[l].dark
           /\ Hidden(l) => venue[l].dark < Lag
           /\ age'[l] \in {age[l], age[l] + 1}
           /\ net'[l].out \subseteq net[l].out /\ net'[l].back = net[l].back
           /\ net'[l].qty = net[l].qty
<1>1. venue[l] \in VenueRows /\ net[l] \in Nets
  BY VenueFacts
<1>2. /\ venue'[l] = IF Hidden(l) THEN [venue[l] EXCEPT !.dark = @ + 1] ELSE venue[l]
      /\ net'[l] = IF Older(l, aging) < LandBy THEN net[l] ELSE [net[l] EXCEPT !.out = {}]
      /\ age'[l] = Older(l, aging)
      /\ Hidden(l) => venue[l].dark < Lag
  BY DEF Tick
<1>3. age'[l] \in {age[l], age[l] + 1}
  BY <1>2 DEF Older
<1> QED
  BY <1>1, <1>2, <1>3 DEF VenueRows, Nets

LEMMA NeverBack ==
    ASSUME BrokerInv, [Next]_vars, NEW l \in Links, VenueTold(l)
    PROVE  VenueOnward(l)
<1>0. LandBy \in Nat /\ age[l] \in Nat /\ venue[l].cum \in Nat
  BY VenueFacts, WindowAssumption
<1>1. CASE UNCHANGED <<venue, age>>
  BY <1>0, <1>1 DEF VenueOnward, Over, Gone
<1>2. ASSUME NEW m \in Links, VenueStep(m, Awaited(m)) PROVE VenueOnward(l)
  <2>1. CASE m = l
    BY <1>2, <2>1, VenueStepOnward
  <2>2. CASE m # l
    <3>1. venue'[l] = venue[l] /\ UNCHANGED age
      BY <1>2, <2>2, VenueFacts
      DEF VenueStep, Land, LandAccepted, LandRefused, LandDuplicate, Fill, End, Show
    <3> QED
      BY <1>0, <3>1 DEF VenueOnward, Over, Gone
  <2> QED
    BY <2>1, <2>2
<1>3. CASE Tick(Aging)
  BY <1>0, <1>3, TickMoves DEF VenueOnward, Over, Gone
<1> QED
  BY <1>1, <1>2, <1>3, StepsOutside DEF venueVars

-------------------------------------------------------------------------------
(***************************************************************************)
(* The venue's side of the invariant.                                      *)
(***************************************************************************)

LEMMA SentIsRecorded ==
    ASSUME BrokerInv, NEW l \in Links, orders[l].submits # 0
    PROVE  Recorded(l) /\ orders[l].status # "pending"
BY DEF BrokerInv, LogInv, RowInv, SubmitsFit, Recorded

LEMMA StepTold ==
    ASSUME BrokerInv, NEW l \in Links, VenueTold(l), NEW awaited, VenueStep(l, awaited),
           UNCHANGED orders
    PROVE  VenueTold(l)'
<1>0. /\ LandBy \in Nat /\ Lag \in Nat /\ age[l] \in Nat /\ net[l].out \subseteq 1..Attempts
      /\ venue[l].st \in {"none", "live"} \cup Ended /\ "none" \notin Ended /\ "live" \notin Ended
      /\ venue \in [Links -> VenueRows] /\ venue[l] \in VenueRows
      /\ net \in [Links -> Nets] /\ net[l] \in Nets
      /\ venue[l].dark \in Nat /\ venue[l].seen \in BOOLEAN /\ venue[l].refused \in BOOLEAN
  BY VenueFacts, WindowAssumption
<1>1. ASSUME NEW i \in net[l].out, NEW said \in Answers, Answer(l, i, said, awaited)
      PROVE  /\ net'[l].out \subseteq net[l].out /\ net[l].out # {} /\ net'[l].qty = net[l].qty
             /\ net'[l].back \in {net[l].back, {said}}
  BY <1>0, <1>1 DEF Answer, Nets
<1>2. CASE Land(l, awaited)
  <2>1. age[l] < LandBy /\ UNCHANGED age
    BY <1>2 DEF Land
  <2>2. PICK i \in net[l].out :
            LandAccepted(l, i, awaited) \/ LandRefused(l, i, awaited)
                                        \/ LandDuplicate(l, i, awaited)
    BY <1>2 DEF Land
  <2>3. CASE LandAccepted(l, i, awaited)
    <3>1. PICK seen \in BOOLEAN :
              venue' = [venue EXCEPT ![l].st = "live", ![l].qty = net[l].qty, ![l].seen = seen]
      BY <2>3 DEF LandAccepted
    <3>2. /\ venue[l].st = "none" /\ ~venue[l].refused /\ venue'[l].st = "live"
          /\ venue'[l].qty = net[l].qty /\ venue'[l].dark = venue[l].dark
          /\ venue'[l].refused = venue[l].refused
      BY <1>0, <2>3, <3>1 DEF LandAccepted, VenueRows
    <3>3. Answer(l, i, "ok", awaited) /\ "ok" \in Answers
      BY <2>3 DEF LandAccepted, Answers
    <3>4. /\ net'[l].out \subseteq net[l].out /\ net[l].out # {} /\ net'[l].qty = net[l].qty
          /\ net'[l].back \in {net[l].back, {"ok"}}
      BY <1>1, <3>3
    <3> QED
      BY <1>0, <2>1, <3>2, <3>4 DEF VenueTold, Hidden
  <2>4. CASE LandRefused(l, i, awaited)
    <3>2. /\ venue[l].st = "none" /\ venue'[l].st = "none" /\ venue'[l].refused
          /\ venue'[l].dark = venue[l].dark
      BY <1>0, <2>4 DEF LandRefused, VenueRows
    <3>3. Answer(l, i, "refused", awaited) /\ "refused" \in Answers
      BY <2>4 DEF LandRefused, Answers
    <3>4. /\ net'[l].out \subseteq net[l].out /\ net[l].out # {} /\ net'[l].qty = net[l].qty
          /\ net'[l].back \in {net[l].back, {"refused"}}
      BY <1>1, <3>3
    <3> QED
      BY <1>0, <2>1, <3>2, <3>4 DEF VenueTold, Hidden
  <2>5. CASE LandDuplicate(l, i, awaited)
    <3>2. venue[l].st # "none" /\ UNCHANGED venue
      BY <2>5 DEF LandDuplicate
    <3>3. Answer(l, i, "duplicate", awaited) /\ "duplicate" \in Answers
      BY <2>5 DEF LandDuplicate, Answers
    <3>4. /\ net'[l].out \subseteq net[l].out /\ net[l].out # {} /\ net'[l].qty = net[l].qty
          /\ net'[l].back \in {net[l].back, {"duplicate"}}
      BY <1>1, <3>3
    <3> QED
      BY <1>0, <2>1, <3>2, <3>4 DEF VenueTold, Hidden
  <2> QED
    BY <2>2, <2>3, <2>4, <2>5
<1>3. CASE Fill(l) \/ End(l)
  <2>1. /\ venue[l].st = "live" /\ venue'[l].st # "none" /\ UNCHANGED <<net, age>>
        /\ venue'[l].refused = venue[l].refused /\ venue'[l].qty = venue[l].qty
        /\ venue'[l].seen = venue[l].seen /\ venue'[l].dark = venue[l].dark
    BY <1>0, <1>3 DEF Fill, End, VenueRows
  <2> QED
    BY <1>0, <2>1 DEF VenueTold, Hidden
<1>4. CASE Show(l)
  <2>1. /\ venue'[l].st = venue[l].st /\ venue[l].st # "none" /\ UNCHANGED <<net, age>>
        /\ venue'[l].refused = venue[l].refused /\ venue'[l].qty = venue[l].qty
        /\ venue'[l].seen /\ venue'[l].dark = 0
    BY <1>0, <1>4 DEF Show, VenueRows
  <2> QED
    BY <1>0, <2>1 DEF VenueTold, Hidden
<1> QED
  BY <1>2, <1>3, <1>4 DEF VenueStep

LEMMA ToldKeeps ==
    ASSUME BrokerTruth, [Next]_vars, NEW l \in Links
    PROVE  VenueTold(l)'
<1>0. BrokerInv /\ VenueTold(l) /\ CallTrue /\ call.link \in Links
  BY DEF BrokerTruth, BrokerInv, TypeOK, Calls
<1>1. CASE UNCHANGED venueVars
  <2>1. venue[l].st # "none" \/ net[l].out # {} => Recorded(l)
    BY <1>0, SentIsRecorded DEF BrokerInv, SentFirst, NothingHidden, AtTheVenue
  <2>2. Recorded(l) => orders'[l].req = orders[l].req
    BY <1>0, NextLogs, LogGrows DEF BrokerInv
  <2> QED
    BY <1>0, <1>1, <2>1, <2>2 DEF VenueTold, Hidden, venueVars
<1>2. CASE HangUp(call.link) /\ UNCHANGED <<venue, age, orders>>
  <2>1. net'[l].back \subseteq net[l].back /\ net'[l].out = net[l].out /\ net'[l].qty = net[l].qty
    BY <1>0, <1>2, VenueFacts DEF HangUp, Nets
  <2> QED
    BY <1>0, <1>2, <2>1 DEF VenueTold, Hidden
<1>3. CASE SendCopy /\ UNCHANGED <<venue, age, orders>>
  <2>1. CASE l # call.link
    <3>1. net'[l] = net[l]
      BY <1>0, <1>3, <2>1, VenueFacts DEF SendCopy, Post
    <3> QED
      BY <1>0, <1>3, <3>1 DEF VenueTold, Hidden
  <2>2. CASE l = call.link
    <3>1. net'[l].back = net[l].back /\ net'[l].qty = call.qty
      BY <1>0, <1>3, <2>2, VenueFacts DEF SendCopy, Post, Nets
    <3>2. call.qty <= orders[l].req /\ (venue[l].st # "none" => net[l].qty = call.qty)
      <4>1. call.tries \in Nat
        BY <1>0, AttemptsAssumption DEF BrokerInv, TypeOK, Calls
      <4> QED
        BY <1>0, <1>3, <2>2, <4>1 DEF SendCopy, At, CallTrue, Sending
    <3> QED
      BY <1>0, <1>3, <3>1, <3>2 DEF VenueTold, Hidden
  <2> QED
    BY <2>1, <2>2
<1>4. ASSUME NEW m \in Links, VenueStep(m, Awaited(m)), UNCHANGED orders PROVE VenueTold(l)'
  <2>1. CASE m = l
    BY <1>0, <1>4, <2>1, StepTold
  <2>2. CASE m # l
    <3>1. venue'[l] = venue[l] /\ net'[l] = net[l] /\ UNCHANGED age
      BY <1>0, <1>4, <2>2, VenueFacts
      DEF VenueStep, Land, LandAccepted, LandRefused, LandDuplicate, Answer, Fill, End, Show
    <3> QED
      BY <1>0, <1>4, <3>1 DEF VenueTold, Hidden
  <2> QED
    BY <2>1, <2>2
<1>5. CASE Tick(Aging) /\ UNCHANGED orders
  <2>1. age[l] \in Nat /\ venue[l].dark \in Nat /\ LandBy \in Nat /\ Lag \in Nat
    BY <1>0, VenueFacts, WindowAssumption
  <2>2. /\ venue'[l].st = venue[l].st /\ venue'[l].refused = venue[l].refused
        /\ venue'[l].qty = venue[l].qty /\ venue'[l].seen = venue[l].seen
        /\ net'[l].out \subseteq net[l].out /\ net'[l].back = net[l].back
        /\ net'[l].qty = net[l].qty
    BY <1>0, <1>5, TickMoves
  <2>3. Hidden(l)' <=> Hidden(l)
    BY <2>2 DEF Hidden
  <2>4. /\ Hidden(l) => venue'[l].dark = venue[l].dark + 1 /\ venue[l].dark < Lag
        /\ ~Hidden(l) => venue'[l].dark = venue[l].dark
        /\ age'[l] \in {age[l], age[l] + 1}
    BY <1>0, <1>5, TickMoves
  <2>5. venue'[l].dark <= Lag /\ (Hidden(l)' => age'[l] < LandBy + venue'[l].dark)
    BY <1>0, <2>1, <2>3, <2>4 DEF VenueTold
  <2>6. venue'[l].st = "none" => venue'[l].dark = 0
    BY <1>0, <2>2, <2>4 DEF VenueTold, Hidden
  <2> HIDE DEF Hidden
  <2> QED
    BY <1>0, <1>5, <2>2, <2>5, <2>6 DEF VenueTold
<1> QED
  BY <1>0, <1>1, <1>2, <1>3, <1>4, <1>5, StepsOutside

-------------------------------------------------------------------------------
(***************************************************************************)
(* What each kind of evidence makes of one row.                            *)
(***************************************************************************)

\* A row is left alone, or gets the verdict's status and fill.
LEMMA AfterIs ==
    ASSUME NEW r \in Rows, NEW k \in Kinds \ {"resolve_contradiction"}, NEW cum, NEW keyed \in BOOLEAN
    PROVE  LET v == Decide(r.status, k, r.filled, r.req, cum)
               a == After(r, k, cum, keyed)
           IN \/ a = r
              \/ /\ v.applied /\ a.status = v.status /\ a.filled = Larger(r.filled, v.filled)
                 /\ a.req = r.req
                 /\ k # "submit_attempt" => a.submits = r.submits
<1> DEFINE v == Decide(r.status, k, r.filled, r.req, cum)
           a == After(r, k, cum, keyed)
<1> HIDE DEF a
<1> SUFFICES \/ a = r
             \/ /\ v.applied /\ a.status = v.status /\ a.filled = Larger(r.filled, v.filled)
                /\ a.req = r.req
                /\ k # "submit_attempt" => a.submits = r.submits
  BY DEF a
<1>1. CASE (keyed /\ cum \in r.keys) \/ ~v.applied
  BY <1>1 DEF After, a
<1>2. CASE ~(keyed /\ cum \in r.keys) /\ v.applied
  <2> DEFINE st == v.status
             f == NewFill(r, k, v)
             n == IF k = "submit_attempt" THEN r.submits + 1 ELSE r.submits
             ks == IF keyed THEN r.keys \cup {cum} ELSE r.keys
  <2>1. a = [r EXCEPT !.status = st, !.filled = f, !.submits = n, !.keys = ks]
    BY <1>2 DEF After, a
  <2>2. f = Larger(r.filled, v.filled) /\ (k # "submit_attempt" => n = r.submits)
    BY DEF NewFill
  <2> HIDE DEF st, f, n, ks
  <2>3. a.status = st /\ a.filled = f /\ a.submits = n /\ a.req = r.req
    BY <2>1 DEF Rows
  <2> QED
    BY <1>2, <2>2, <2>3 DEF st
<1> QED
  BY <1>1, <1>2

LEMMA AfterKeepsSubmits ==
    ASSUME NEW r \in Rows, NEW k \in Kinds \ {"resolve_contradiction", "submit_attempt"}, NEW cum,
           NEW keyed \in BOOLEAN
    PROVE  LET v == Decide(r.status, k, r.filled, r.req, cum)
               a == After(r, k, cum, keyed)
           IN \/ a = r
              \/ /\ v.applied /\ a.status = v.status /\ a.filled = Larger(r.filled, v.filled)
                 /\ a.req = r.req /\ a.submits = r.submits
BY AfterIs

\* Evidence without a quantity, and without an end.
Plain == {"submit_attempt", "ack", "timeout", "unknown_outcome", "cancel_request",
          "reconcile_required"}

LEMMA PlainEvidence ==
    ASSUME NEW r \in Rows, r.status \notin {"absent", "contradicted"}, NEW k \in Plain,
           NEW keyed \in BOOLEAN, NEW a, a = After(r, k, NoQty, keyed)
    PROVE  \/ a = r
           \/ /\ a.status \in MaybeLive /\ r.status \in MaybeLive \cup {"pending"}
              /\ a.filled = r.filled /\ a.req = r.req
<1> DEFINE v == Decide(r.status, k, r.filled, r.req, NoQty)
<1>1. r.filled \in Nat /\ r.status \in Statuses
  BY DEF Rows
<1>2. v.applied => /\ v.status \in MaybeLive /\ r.status \in MaybeLive \cup {"pending"}
                   /\ v.filled = r.filled
  BY <1>1 DEF Decide, Plain, Unusable, Quantified, BeyondTheRecord, OnSubmit, MoveFrom, Moved,
     Refused, OnUnknownOutcome, MaybeLive, Unresolved, Terminal, Statuses
<1>3. k \in Kinds \ {"resolve_contradiction"}
  BY DEF Plain, Kinds
<1>4. \/ a = r
      \/ /\ v.applied /\ a.status = v.status /\ a.filled = Larger(r.filled, v.filled)
         /\ a.req = r.req
  BY <1>3, AfterIs
<1> HIDE DEF v
<1> QED
  BY <1>1, <1>2, <1>4 DEF Larger

\* A fill within what was asked, and no news for an order that is closed.
LEMMA FillEvidence ==
    ASSUME NEW r \in Rows, NEW cum \in Nat, NEW keyed \in BOOLEAN,
           NEW a, a = After(r, "fill_report", cum, keyed)
    PROVE  /\ r.status \notin {"absent", "contradicted", "pending"}
           /\ cum <= r.req
           /\ (r.status \in Terminal => cum <= r.filled)
           =>
           \/ a = r
           \/ /\ r.status \in MaybeLive /\ a.filled = cum /\ cum >= r.filled
              /\ a.status \in MaybeLive \/ (a.status = "filled" /\ cum = r.req)
              /\ a.submits = r.submits /\ a.req = r.req
<1> DEFINE v == Decide(r.status, "fill_report", r.filled, r.req, cum)
<1>0. "fill_report" \in Kinds \ {"resolve_contradiction", "submit_attempt"}
  BY DEF Kinds
<1>5. \/ a = r
      \/ /\ v.applied /\ a.status = v.status /\ a.filled = Larger(r.filled, v.filled)
         /\ a.req = r.req /\ a.submits = r.submits
  BY <1>0, AfterKeepsSubmits
<1> SUFFICES ASSUME r.status \notin {"absent", "contradicted", "pending"},
                    cum <= r.req,
                    (r.status \in Terminal => cum <= r.filled)
             PROVE  \/ a = r
                    \/ /\ r.status \in MaybeLive /\ a.filled = cum /\ cum >= r.filled
                       /\ a.status \in MaybeLive \/ (a.status = "filled" /\ cum = r.req)
                       /\ a.submits = r.submits /\ a.req = r.req
  OBVIOUS
<1>1. /\ r.filled \in Nat /\ r.status \in MaybeLive \cup Terminal /\ r.req \in Nat
      /\ MaybeLive \cap Terminal = {}
  <2>1. \A q \in Quantities \cup {0} : q \in Nat
    BY QuantitiesAssumption
  <2> QED
    BY <2>1 DEF Rows, Statuses, Unresolved, MaybeLive, Terminal
<1>2. v = IF BeyondTheRecord(r.status, "fill_report", r.filled, cum) THEN Moved("contradicted", cum)
          ELSE OnFill(r.status, r.filled, r.req, cum)
  BY <1>1 DEF Decide, Unusable, NoQty
<1>3. ~BeyondTheRecord(r.status, "fill_report", r.filled, cum)
  BY <1>1 DEF BeyondTheRecord
<1>4. v.applied => /\ r.status \in MaybeLive /\ v.filled = cum /\ cum >= r.filled
                   /\ v.status \in MaybeLive \/ (v.status = "filled" /\ cum = r.req)
  <2>1. v = OnFill(r.status, r.filled, r.req, cum)
    BY <1>2, <1>3
  <2> HIDE DEF v
  <2> QED
    BY <1>1, <2>1 DEF OnFill, Moved, Refused, MaybeLive, Terminal
<1> HIDE DEF v
<1>6. cum >= r.filled => Larger(r.filled, cum) = cum
  BY <1>1 DEF Larger
<1> QED
  BY <1>1, <1>4, <1>5, <1>6

LEMMA ConfirmEvidence ==
    ASSUME NEW r \in Rows, NEW cum \in Nat, NEW keyed \in BOOLEAN,
           NEW a, a = After(r, "cancel_confirm", cum, keyed)
    PROVE  /\ r.status \notin {"absent", "contradicted"}
           /\ (r.status \in Terminal => cum <= r.filled)
           =>
           \/ a = r
           \/ /\ r.status \in MaybeLive /\ a.filled = cum /\ cum >= r.filled
              /\ a.status \in {"filled", "cancelled"}
              /\ a.submits = r.submits /\ a.req = r.req
<1> DEFINE v == Decide(r.status, "cancel_confirm", r.filled, r.req, cum)
<1>0. "cancel_confirm" \in Kinds \ {"resolve_contradiction", "submit_attempt"}
  BY DEF Kinds
<1>5. \/ a = r
      \/ /\ v.applied /\ a.status = v.status /\ a.filled = Larger(r.filled, v.filled)
         /\ a.req = r.req /\ a.submits = r.submits
  BY <1>0, AfterKeepsSubmits
<1> SUFFICES ASSUME r.status \notin {"absent", "contradicted"},
                    (r.status \in Terminal => cum <= r.filled)
             PROVE  \/ a = r
                    \/ /\ r.status \in MaybeLive /\ a.filled = cum /\ cum >= r.filled
                       /\ a.status \in {"filled", "cancelled"}
                       /\ a.submits = r.submits /\ a.req = r.req
  OBVIOUS
<1>1. /\ r.filled \in Nat /\ r.status \in MaybeLive \cup Terminal \cup {"pending"} /\ r.req \in Nat
      /\ MaybeLive \cap Terminal = {}
  <2>1. \A q \in Quantities \cup {0} : q \in Nat
    BY QuantitiesAssumption
  <2> QED
    BY <2>1 DEF Rows, Statuses, Unresolved, MaybeLive, Terminal
<1>3. ~BeyondTheRecord(r.status, "cancel_confirm", r.filled, cum)
  BY <1>1 DEF BeyondTheRecord
<1>4. v.applied => /\ r.status \in MaybeLive /\ v.filled = cum /\ cum >= r.filled
                   /\ v.status \in {"filled", "cancelled"}
  BY <1>1, <1>3 DEF Decide, Unusable, NoQty, OnCancelConfirm, Moved, Refused
<1> HIDE DEF v
<1>6. cum >= r.filled => Larger(r.filled, cum) = cum
  BY <1>1 DEF Larger
<1> QED
  BY <1>1, <1>4, <1>5, <1>6

LEMMA RejectEvidence ==
    ASSUME NEW r \in Rows, NEW keyed \in BOOLEAN,
           NEW a, a = After(r, "reject", NoQty, keyed)
    PROVE  /\ r.status \notin {"absent", "contradicted"}
           /\ (r.status \notin Terminal => r.filled = 0)
           =>
           \/ a = r
           \/ /\ r.status \notin Terminal /\ a.status = "rejected" /\ a.filled = 0
              /\ a.submits = r.submits /\ a.req = r.req
<1> DEFINE v == Decide(r.status, "reject", r.filled, r.req, NoQty)
<1>0. "reject" \in Kinds \ {"resolve_contradiction", "submit_attempt"}
  BY DEF Kinds
<1>5. \/ a = r
      \/ /\ v.applied /\ a.status = v.status /\ a.filled = Larger(r.filled, v.filled)
         /\ a.req = r.req /\ a.submits = r.submits
  BY <1>0, AfterKeepsSubmits
<1> SUFFICES ASSUME r.status \notin {"absent", "contradicted"},
                    (r.status \notin Terminal => r.filled = 0)
             PROVE  \/ a = r
                    \/ /\ r.status \notin Terminal /\ a.status = "rejected" /\ a.filled = 0
                       /\ a.submits = r.submits /\ a.req = r.req
  OBVIOUS
<1>1. r.filled \in Nat
  BY DEF Rows
<1>2. v.applied => r.status \notin Terminal /\ v.status = "rejected" /\ v.filled = r.filled
  BY <1>1 DEF Decide, Unusable, Quantified, BeyondTheRecord, OnReject, MoveFrom, Moved, Refused
<1> HIDE DEF v
<1> QED
  BY <1>1, <1>2, <1>5 DEF Larger

LEMMA NeverSentEvidence ==
    ASSUME NEW r \in Rows, NEW keyed \in BOOLEAN,
           NEW a, a = After(r, "never_sent", NoQty, keyed)
    PROVE  /\ r.status \notin {"absent", "contradicted"}
           =>
           \/ a = r
           \/ /\ r.status \notin Terminal /\ a.status = "never_sent"
              /\ r.filled = 0 /\ a.filled = 0
              /\ a.submits = r.submits /\ a.req = r.req
<1> DEFINE v == Decide(r.status, "never_sent", r.filled, r.req, NoQty)
<1>0. "never_sent" \in Kinds \ {"resolve_contradiction", "submit_attempt"}
  BY DEF Kinds
<1>5. \/ a = r
      \/ /\ v.applied /\ a.status = v.status /\ a.filled = Larger(r.filled, v.filled)
         /\ a.req = r.req /\ a.submits = r.submits
  BY <1>0, AfterKeepsSubmits
<1> SUFFICES ASSUME r.status \notin {"absent", "contradicted"}
             PROVE  \/ a = r
                    \/ /\ r.status \notin Terminal /\ a.status = "never_sent"
                       /\ r.filled = 0 /\ a.filled = 0
                       /\ a.submits = r.submits /\ a.req = r.req
  OBVIOUS
<1>1. r.filled \in Nat
  BY DEF Rows
<1>2. v.applied => /\ r.status \notin Terminal /\ v.status = "never_sent"
                   /\ v.filled = r.filled /\ r.filled = 0
  BY <1>1 DEF Decide, Unusable, Quantified, BeyondTheRecord, OnEndUnfilled, Moved, Refused
<1> HIDE DEF v
<1> QED
  BY <1>1, <1>2, <1>5 DEF Larger


-------------------------------------------------------------------------------
(***************************************************************************)
(* Every write of the broker and of the recovery pass has the venue's word *)
(* behind it.                                                              *)
(***************************************************************************)

Judged(l, k, cum) ==
    Recorded(l) /\ \E keyed \in BOOLEAN : orders'[l] = After(orders[l], k, cum, keyed)

Backed(l) ==
    \/ ~Recorded(l) /\ \E q \in Quantities : orders'[l] = Row("pending", q)
    \/ \E k \in Plain : Judged(l, k, NoQty)
    \/ \E cum \in Nat : cum > 0 /\ cum <= venue[l].cum /\ Judged(l, "fill_report", cum)
    \/ Over(l) /\ Judged(l, "cancel_confirm", venue[l].cum)
    \/ EndedUnfilled(l) /\ Judged(l, "reject", NoQty)
    \/ /\ Gone(l) \/ orders[l].submits = 0
       /\ venue[l].cum = 0 /\ Judged(l, "never_sent", NoQty)

LEMMA AppliedHere ==
    ASSUME LogTypeOK, NEW m \in Links, NEW l \in Links, NEW k, NEW cum, NEW keyed \in BOOLEAN,
           Apply(m, k, cum, keyed), orders'[l] # orders[l]
    PROVE  l = m /\ Judged(l, k, cum)
<1>1. l = m
  BY DEF Apply, LogTypeOK
<1>2. orders'[m] = After(orders[m], k, cum, keyed)
  BY DEF Apply, LogTypeOK
<1> QED
  BY <1>1, <1>2 DEF Apply, Judged

\* What a reading tells of the order it was made of.
LEMMA ReadTells ==
    ASSUME NEW l \in Links, NEW r \in Reads(l)
    PROVE  /\ r.kind = "row" => /\ venue[l].st # "none" /\ r.cum = venue[l].cum
                                /\ r.resting \in BOOLEAN
                                /\ r.resting => venue[l].st = "live"
                                /\ ~r.resting => venue[l].st # "live"
           /\ r.kind = "none" => venue[l].st = "none" \/ Hidden(l)
<1>1. CASE r = ReadError
  BY <1>1 DEF ReadError, Reading
<1>2. CASE r = ReadOrder(l) /\ ~(venue[l].st # "none" /\ venue[l].seen)
  BY <1>2 DEF ReadOrder, Reading, Hidden
<1>3. CASE r = ReadOrder(l) /\ venue[l].st # "none" /\ venue[l].seen
  BY <1>3 DEF ReadOrder, Reading
<1> QED
  BY <1>1, <1>2, <1>3 DEF Reads

LEMMA ProcedureBacked ==
    ASSUME BrokerTruth, Procedure, NEW l \in Links, l \notin blind', orders'[l] # orders[l]
    PROVE  Backed(l)
<1>0. /\ BrokerInv /\ CallTrue /\ LogTypeOK /\ call \in Calls /\ call.link \in Links
      /\ call.got.cum \in Nat /\ venue[l].cum \in Nat
  BY VenueFacts DEF BrokerTruth, BrokerInv, LogInv, TypeOK, Calls, Results
<1>1. ASSUME NEW k \in Plain, Apply(call.link, k, NoQty, FALSE) PROVE Backed(l)
  BY <1>0, <1>1, AppliedHere DEF Backed
<1>2. CASE IntentNew
  <2>1. /\ ~Recorded(call.link) /\ call.qty \in Quantities
        /\ orders' = [orders EXCEPT ![call.link] = Row("pending", call.qty)]
    BY <1>0, <1>2 DEF IntentNew, RecordIntent, At, BrokerInv, CallFits
  <2>2. l = call.link
    BY <1>0, <2>1 DEF LogTypeOK
  <2> QED
    BY <1>0, <2>1, <2>2 DEF Backed, LogTypeOK
<1>3. CASE SubmitMarker \/ Acknowledge \/ FinishDoubt \/ CancelRead
  <2>1. \E k \in Plain : Apply(call.link, k, NoQty, FALSE)
    BY <1>3 DEF SubmitMarker, Acknowledge, FinishDoubt, CancelRead, LogEvent, Plain
  <2> QED
    BY <1>1, <2>1
<1>4. CASE FinishNothing
  <2>1. UNCHANGED blind /\ call.pc = "nothing"
    BY <1>4 DEF FinishNothing, LocalBlind, At
  <2>2. \/ Apply(call.link, "cancel_confirm", 0, FALSE)
        \/ Apply(call.link, "reject", NoQty, FALSE)
    BY <1>4 DEF FinishNothing, LogEvent
  <2>3. l = call.link
    BY <1>0, <2>2, AppliedHere
  <2>4. EndedUnfilled(l)
    BY <1>0, <2>1, <2>3 DEF CallTrue
  <2>5. Judged(l, "cancel_confirm", 0) \/ Judged(l, "reject", NoQty)
    BY <1>0, <2>2, AppliedHere
  <2> QED
    BY <2>4, <2>5 DEF Backed, EndedUnfilled
<1>5. CASE FinishFill
  <2>1. call.got.cum > 0 /\ Apply(call.link, "fill_report", call.got.cum, TRUE)
    BY <1>0, <1>5 DEF FinishFill, LogEvent
  <2>2. l = call.link /\ Judged(l, "fill_report", call.got.cum)
    BY <1>0, <2>1, AppliedHere, ZenonT(40)
  <2>3. call.got.cum <= venue[l].cum
    BY <1>0, <1>5, <2>2 DEF FinishFill, At, CallTrue, Shown
  <2>4. call.got.cum > 0 /\ Judged(l, "fill_report", call.got.cum)
    BY <2>1, <2>2
  <2>5. \E cum \in Nat : cum > 0 /\ cum <= venue[l].cum /\ Judged(l, "fill_report", cum)
    BY <1>0, <2>3, <2>4, Zenon
  <2> QED
    BY <2>5 DEF Backed
<1>6. CASE FinishRest
  <2>1. Apply(call.link, "cancel_confirm", call.got.cum, FALSE)
    BY <1>6 DEF FinishRest, LogEvent
  <2>2. l = call.link /\ Judged(l, "cancel_confirm", call.got.cum)
    BY <1>0, <2>1, AppliedHere, ZenonT(40)
  <2>3. venue[l].st \in Ended /\ call.got.cum = venue[l].cum
    BY <1>0, <1>6, <2>2 DEF FinishRest, At, CallTrue, Shown
  <2> QED
    BY <2>2, <2>3 DEF Backed, Over
<1>7. CASE \/ IntentKnown \/ LogRefuses \/ SendCopy \/ NoAnswer
           \/ HearAccepted \/ HearRefused \/ HearDuplicate \/ ReadBack
  BY <1>7 DEF IntentKnown, LogRefuses, SendCopy, NoAnswer, HearAccepted,
              HearRefused, HearDuplicate, ReadBack, HeardIt
<1> QED
  BY <1>2, <1>3, <1>4, <1>5, <1>6, <1>7 DEF Procedure

\* Silence of the lists past the window: the order is not there and cannot come.
LEMMA SilenceIsProof ==
    ASSUME BrokerTruth, NEW l \in Links, NEW r \in Reads(l), r.kind = "none", AbsenceProved(l)
    PROVE  Gone(l) /\ venue[l].cum = 0
<1>1. BrokerInv /\ VenueTold(l)
  BY DEF BrokerTruth
<1>2. /\ LandBy \in Nat /\ Lag \in Nat /\ Window \in Nat /\ LandBy + Lag <= Window
      /\ age[l] \in Nat /\ venue[l].dark \in Nat
  BY <1>1, VenueFacts, WindowAssumption
<1>3. age[l] >= Window
  BY DEF AbsenceProved
<1>4. venue[l].dark <= Lag /\ (Hidden(l) => age[l] < LandBy + venue[l].dark)
  BY <1>1 DEF VenueTold
<1>5. ~Hidden(l)
  BY <1>2, <1>3, <1>4
<1>6. venue[l].st = "none"
  BY <1>5, ReadTells
<1> QED
  BY <1>1, <1>2, <1>3, <1>6, VenueFacts DEF Gone

LEMMA RecoveryBacked ==
    ASSUME BrokerTruth, Recovery, NEW l \in Links, l \notin blind', orders'[l] # orders[l]
    PROVE  Backed(l)
<1>0. /\ BrokerInv /\ CallTrue /\ LogTypeOK /\ call \in Calls /\ call.link \in Links
      /\ call.got.cum \in Nat /\ venue[l].cum \in Nat
  BY VenueFacts DEF BrokerTruth, BrokerInv, LogInv, TypeOK, Calls, Results
<1>1. ASSUME NEW m \in Links, NEW k \in Plain, Apply(m, k, NoQty, FALSE) PROVE Backed(l)
  BY <1>0, <1>1, AppliedHere DEF Backed
<1>2. ASSUME NEW m \in Links, RecoverPending(m) PROVE Backed(l)
  <2>1. l = m /\ Judged(l, "never_sent", NoQty)
    BY <1>0, <1>2, AppliedHere DEF RecoverPending
  <2>2. orders[l].submits = 0
    BY <1>0, <1>2, <2>1, SentIsRecorded DEF RecoverPending
  <2>3. venue[l].cum = 0
    BY <1>0, <2>2, VenueFacts DEF BrokerInv, SentFirst, NothingHidden, AtTheVenue
  <2> QED
    BY <2>1, <2>2, <2>3 DEF Backed
<1>3. ASSUME NEW m \in Links, RecoverRead(m) PROVE Backed(l)
  <2>1. PICK r \in Reads(m) :
            \/ r.kind = "row" /\ r.cum > 0 /\ Apply(m, "fill_report", r.cum, TRUE)
            \/ UNCHANGED orders
            \/ r.kind = "none" /\ AbsenceProved(m) /\ Apply(m, "never_sent", NoQty, FALSE)
            \/ Apply(m, "reconcile_required", NoQty, FALSE)
    BY <1>3 DEF RecoverRead
  <2>2. CASE r.kind = "row" /\ r.cum > 0 /\ Apply(m, "fill_report", r.cum, TRUE)
    <3>1. l = m /\ Judged(l, "fill_report", r.cum)
      BY <1>0, <2>2, AppliedHere
    <3>2. r.cum = venue[m].cum
      BY <2>2, ReadTells
    <3>3. r.cum \in Nat /\ r.cum <= venue[l].cum
      BY <1>0, <3>1, <3>2
    <3> QED
      BY <2>2, <3>1, <3>3 DEF Backed
  <2>3. CASE r.kind = "none" /\ AbsenceProved(m) /\ Apply(m, "never_sent", NoQty, FALSE)
    <3>1. l = m /\ Judged(l, "never_sent", NoQty)
      BY <1>0, <2>3, AppliedHere
    <3>2. Gone(l) /\ venue[l].cum = 0
      BY <2>3, <3>1, SilenceIsProof
    <3> QED
      BY <3>1, <3>2 DEF Backed
  <2>4. CASE Apply(m, "reconcile_required", NoQty, FALSE)
    BY <1>1, <2>4 DEF Plain
  <2> QED
    BY <2>1, <2>2, <2>3, <2>4
<1>4. CASE RecoverSettle
  <2> DEFINE g == call.got
  <2>1. /\ call.pc = "settle"
        /\ \/ Apply(call.link, "ack", NoQty, FALSE)
           \/ ~g.resting /\ Apply(call.link, "cancel_confirm", g.cum, FALSE)
           \/ ~g.resting /\ g.cum = 0 /\ Apply(call.link, "reject", NoQty, FALSE)
    BY <1>4 DEF RecoverSettle, At
  <2>2. ~call.unconfirmed /\ Shown(call.link, g)
    BY <1>0, <2>1 DEF CallTrue
  <2>3. CASE Apply(call.link, "ack", NoQty, FALSE)
    BY <1>0, <1>1, <2>3 DEF Plain
  <2>4. CASE ~g.resting /\ Apply(call.link, "cancel_confirm", g.cum, FALSE)
    <3>1. l = call.link /\ Judged(l, "cancel_confirm", g.cum)
      BY <1>0, <2>4, AppliedHere
    <3> QED
      BY <2>2, <2>4, <3>1 DEF Backed, Over, Shown
  <2>5. CASE ~g.resting /\ g.cum = 0 /\ Apply(call.link, "reject", NoQty, FALSE)
    <3>1. l = call.link /\ Judged(l, "reject", NoQty)
      BY <1>0, <2>5, AppliedHere
    <3> QED
      BY <2>2, <2>5, <3>1 DEF Backed, Over, Shown, EndedUnfilled
  <2> QED
    BY <2>1, <2>3, <2>4, <2>5
<1>5. CASE Restart \/ RecoverDone
  BY <1>5 DEF Restart, RecoverDone
<1> QED
  BY <1>2, <1>3, <1>4, <1>5 DEF Recovery

LEMMA BlindStays ==
    ASSUME [Next]_vars, NEW l, l \notin blind'
    PROVE  l \notin blind
<1>1. blind \subseteq blind'
  BY DEF Next, vars, Callers, PlaceMarket, PlacePostOnly, Begin, CancelOrder, Taken,
     Procedure, IntentNew, IntentKnown, SubmitMarker, LogRefuses, SendCopy, NoAnswer,
     HearAccepted, HearRefused, HearDuplicate, Acknowledge, ReadBack, FinishNothing,
     FinishFill, FinishRest, FinishDoubt, CancelRead, Crash, Recovery, Restart,
     RecoverPending, RecoverRead, RecoverSettle, RecoverDone, RecoverSteady, Outside,
     Local, LocalBlind, HeardIt
<1> QED
  BY <1>1

LEMMA WritesAreBacked ==
    ASSUME BrokerTruth, [Next]_vars, NEW l \in Links, l \notin blind', orders'[l] # orders[l]
    PROVE  Backed(l) /\ UNCHANGED venueVars /\ l \notin blind
<1>1. BrokerInv /\ LogTypeOK
  BY DEF BrokerTruth, BrokerInv, LogInv
<1>2. Backed(l)
  <2>1. ASSUME NEW m \in Links, CancelOrder(m) PROVE Backed(l)
    <3>1. Apply(m, "cancel_request", NoQty, FALSE)
      BY <2>1 DEF CancelOrder, LogEvent
    <3>2. Judged(l, "cancel_request", NoQty)
      BY <1>1, <3>1, AppliedHere
    <3> QED
      BY <3>2 DEF Backed, Plain
  <2>2. CASE Callers
    BY <2>1, <2>2 DEF Callers, PlaceMarket, PlacePostOnly, Begin, Taken
  <2> QED
    BY <2>2, ProcedureBacked, RecoveryBacked DEF Next, vars, Crash, Outside
<1>3. UNCHANGED venueVars
  BY <1>1, StepsOutside DEF SendCopy
<1>4. l \notin blind
  BY BlindStays
<1> QED
  BY <1>2, <1>3, <1>4

LEMMA RowFacts ==
    ASSUME BrokerInv, NEW l \in Links
    PROVE  /\ orders[l] \in Rows /\ orders[l].filled \in Nat /\ orders[l].req \in Nat
           /\ orders[l].submits = 0 => venue[l].st = "none" /\ net[l].out = {}
<1>1. orders[l] \in Rows
  BY DEF BrokerInv, LogInv, LogTypeOK
<1>2. \A q \in Quantities \cup {0} : q \in Nat
  BY QuantitiesAssumption
<1>3. orders[l].submits = 0 => venue[l].st = "none" /\ net[l].out = {}
  BY DEF BrokerInv, SentFirst, NothingHidden, AtTheVenue
<1> QED
  BY <1>1, <1>2, <1>3 DEF Rows

\* The venue moves, the row stays.
LEMMA RowOutlives ==
    ASSUME BrokerTruth, [Next]_vars, NEW l \in Links, l \notin blind, orders'[l] = orders[l]
    PROVE  RowTrue(l)'
<1>0. BrokerInv /\ VenueTold(l) /\ RowTrue(l) /\ VenueOnward(l)
  BY NeverBack DEF BrokerTruth
<1>1. /\ venue'[l].cum >= venue[l].cum /\ venue'[l].cum \in Nat
      /\ orders[l].filled \in Nat /\ venue[l].cum \in Nat
  BY <1>0, NextVenueInv, VenueFacts, RowFacts DEF VenueOnward, VenueInv, VenueTypeOK, VenueRows
<1>2. Gone(l) => Gone(l)' /\ venue'[l].cum = venue[l].cum
  BY <1>0 DEF VenueOnward
<1>3. orders[l].submits = 0 => venue'[l].cum = venue[l].cum
  BY <1>0, RowFacts DEF VenueOnward
<1> QED
  BY <1>0, <1>1, <1>2, <1>3 DEF RowTrue

\* The row is judged, the venue stays.
LEMMA RowJudged ==
    ASSUME BrokerTruth, NEW l \in Links, l \notin blind, Backed(l), orders'[l] # orders[l],
           UNCHANGED venueVars
    PROVE  RowTrue(l)'
<1> DEFINE r == orders[l]
<1>0. BrokerInv /\ VenueTold(l) /\ RowTrue(l) /\ r \in Rows /\ r.filled \in Nat /\ r.req \in Nat
  BY RowFacts DEF BrokerTruth
<1>1. /\ venue[l].cum \in Nat /\ venue[l].qty \in Nat /\ net[l].qty \in Nat
      /\ venue[l].st = "none" => venue[l].cum = 0
      /\ venue[l].st # "none" => venue[l].cum <= venue[l].qty
      /\ venue[l].st \in {"none", "live"} \cup Ended
      /\ venue[l].st = "live" => venue[l].cum < venue[l].qty
  BY <1>0, VenueFacts
<1>2. venue'[l].cum = venue[l].cum /\ (Gone(l)' <=> Gone(l))
  BY DEF venueVars, Gone, Over
<1>3. Recorded(l) => r.status \notin {"absent", "contradicted"}
  BY <1>0 DEF RowTrue, Recorded
<1>4. ASSUME NEW q \in Quantities, orders'[l] = Row("pending", q) PROVE RowTrue(l)'
  BY <1>1, <1>2, <1>4 DEF RowTrue, Row, Terminal
<1>5. ASSUME NEW k \in Plain, Judged(l, k, NoQty) PROVE RowTrue(l)'
  <2>1. orders'[l].status \in MaybeLive /\ orders'[l].filled = r.filled
    BY <1>0, <1>3, <1>5, PlainEvidence DEF Judged
  <2> QED
    BY <1>0, <1>2, <2>1 DEF RowTrue, MaybeLive, Terminal
<1>6. ASSUME NEW cum \in Nat, cum > 0, cum <= venue[l].cum,
             Judged(l, "fill_report", cum)
      PROVE  RowTrue(l)'
  <2>1. venue[l].st # "none"
    BY <1>1, <1>6
  <2>2. r.status # "pending"
    BY <1>0, <2>1, RowFacts, SentIsRecorded
  <2>3. venue[l].qty <= r.req /\ cum <= r.req
    BY <1>0, <1>1, <1>6, <2>1 DEF VenueTold
  <2>4. r.status \in Terminal => cum <= r.filled
    BY <1>0, <1>6 DEF RowTrue
  <2>5. /\ orders'[l].filled = cum
        /\ orders'[l].status \in MaybeLive \/ (orders'[l].status = "filled" /\ cum = r.req)
    <3>1. PICK keyed \in BOOLEAN : orders'[l] = After(r, "fill_report", cum, keyed)
      BY <1>6 DEF Judged
    <3>2. r.status \notin {"absent", "contradicted", "pending"}
      BY <1>3, <1>6, <2>2 DEF Judged
    <3> QED
      BY <1>0, <1>6, <2>3, <2>4, <3>1, <3>2, FillEvidence
  <2>6. cum = r.req => cum = venue[l].cum /\ Gone(l)
    BY <1>0, <1>1, <1>6, <2>1, <2>3 DEF Gone, Over
  <2> QED
    BY <1>2, <1>6, <2>5, <2>6 DEF RowTrue, MaybeLive, Terminal
<1>7. ASSUME Over(l), Judged(l, "cancel_confirm", venue[l].cum) PROVE RowTrue(l)'
  <2>1. r.status \in Terminal => venue[l].cum <= r.filled
    BY <1>0, <1>1 DEF RowTrue
  <2>2. orders'[l].filled = venue[l].cum /\ orders'[l].status \in {"filled", "cancelled"}
    <3>1. PICK keyed \in BOOLEAN : orders'[l] = After(r, "cancel_confirm", venue[l].cum, keyed)
      BY <1>7 DEF Judged
    <3>2. r.status \notin {"absent", "contradicted"}
      BY <1>3, <1>7 DEF Judged
    <3> QED
      BY <1>0, <1>1, <2>1, <3>1, <3>2, ConfirmEvidence
  <2> QED
    BY <1>1, <1>2, <1>7, <2>2 DEF RowTrue, Gone
<1>8. ASSUME EndedUnfilled(l), Judged(l, "reject", NoQty) PROVE RowTrue(l)'
  <2>1. r.filled = 0
    BY <1>0, <1>1, <1>8 DEF RowTrue, EndedUnfilled
  <2>2. orders'[l].status = "rejected" /\ orders'[l].filled = 0
    BY <1>0, <1>3, <1>8, <2>1, RejectEvidence DEF Judged
  <2> QED
    BY <1>2, <1>8, <2>2 DEF RowTrue, Gone, EndedUnfilled
<1>9. ASSUME Gone(l) \/ r.submits = 0, venue[l].cum = 0,
             Judged(l, "never_sent", NoQty)
      PROVE  RowTrue(l)'
  <2>1. /\ orders'[l].status = "never_sent" /\ orders'[l].filled = 0
        /\ orders'[l].submits = r.submits
    BY <1>0, <1>3, <1>9, NeverSentEvidence DEF Judged
  <2> QED
    BY <1>2, <1>9, <2>1 DEF RowTrue
<1> QED
  BY <1>4, <1>5, <1>6, <1>7, <1>8, <1>9 DEF Backed

LEMMA RowStaysTrue ==
    ASSUME BrokerTruth, [Next]_vars, NEW l \in Links, l \notin blind'
    PROVE  RowTrue(l)'
<1>1. orders'[l] # orders[l] => RowTrue(l)'
  BY WritesAreBacked, RowJudged
<1>2. orders'[l] = orders[l] => RowTrue(l)'
  BY BlindStays, RowOutlives
<1> QED
  BY <1>1, <1>2

-------------------------------------------------------------------------------
(***************************************************************************)
(* What each step of a procedure hands to the next.                        *)
(***************************************************************************)

LEMMA CallFields ==
    ASSUME BrokerTruth
    PROVE  /\ BrokerInv /\ CallTrue /\ VenueTold(call.link)
           /\ call \in Calls /\ call.link \in Links /\ call.qty \in Nat /\ call.tries \in Nat
           /\ call.got.cum \in Nat /\ call.got.resting \in BOOLEAN
           /\ call.unconfirmed \in BOOLEAN
           /\ call.pc \notin {"fill", "return"} => ~call.unconfirmed
BY AttemptsAssumption DEF BrokerTruth, BrokerInv, TypeOK, Calls, Results, CallTrue

LEMMA GotoTells ==
    ASSUME call \in Calls, NEW pc, Goto(pc)
    PROVE  /\ call'.pc = pc /\ call'.link = call.link /\ call'.qty = call.qty
           /\ call'.tries = call.tries /\ call'.got = call.got /\ call'.op = call.op
           /\ call'.unconfirmed = call.unconfirmed
BY DEF Goto, Calls

LEMMA GoReadTells ==
    ASSUME call \in Calls, NEW why, GoRead(why)
    PROVE  /\ call'.pc = "read" /\ call'.why = why /\ call'.link = call.link
           /\ call'.unconfirmed = call.unconfirmed
BY DEF GoRead, Calls

LEMMA ReturnTells ==
    ASSUME call \in Calls, NEW kind, Return(kind)
    PROVE  /\ call'.pc = "return" /\ call'.link = call.link /\ call'.got.kind = kind
           /\ ~call'.unconfirmed
<1> DEFINE n == NewCall(call.op, call.link, call.qty, "return")
           g == Told(kind)
<1>1. call' = [n EXCEPT !.got = g] /\ g.kind = kind
  BY DEF Return, Told, Reading
<1>2. /\ call'.pc = "return" /\ call'.link = call.link /\ call'.got = g
      /\ call'.unconfirmed = FALSE
  <2> HIDE DEF g
  <2> QED
    BY <1>1 DEF NewCall
<1> QED
  BY <1>1, <1>2

LEMMA IdleTells ==
    /\ Idle.pc = "idle" /\ ~Idle.unconfirmed
BY DEF Idle, NewCall

\* At these points nothing is claimed.
LEMMA NothingClaimed ==
    ASSUME ~call'.unconfirmed,
           \/ call'.pc \in {"idle", "intent", "doubt"}
           \/ call'.pc = "read" /\ call'.why # "refused"
           \/ call'.pc = "return" /\ call'.got.kind \in {"refused", "unknown"}
    PROVE  CallTrue'
BY DEF CallTrue

\* The marker the log takes leaves the row submitted.
LEMMA MarkerSubmits ==
    ASSUME NEW r \in Rows, r.status = "pending", NEW keyed \in BOOLEAN,
           NEW a, a = After(r, "submit_attempt", NoQty, keyed), a # r
    PROVE  a.status = "submitted" /\ a.req = r.req
<1> DEFINE v == Decide(r.status, "submit_attempt", r.filled, r.req, NoQty)
<1>1. "submit_attempt" \in Kinds \ {"resolve_contradiction"}
  BY DEF Kinds
<1>2. a.status = v.status /\ a.req = r.req
  BY <1>1, AfterIs
<1>3. v.status = "submitted"
  BY DEF Decide, Unusable, Quantified, BeyondTheRecord, OnSubmit, MoveFrom, Moved, Refused,
     Terminal, NoQty
<1> HIDE DEF v
<1> QED
  BY <1>2, <1>3

LEMMA AckKeepsOpen ==
    ASSUME NEW r \in Rows, r.status = "submitted", NEW keyed \in BOOLEAN,
           NEW a, a = After(r, "ack", NoQty, keyed)
    PROVE  a.status \in {"submitted", "acknowledged"} /\ a.req = r.req
<1> DEFINE v == Decide(r.status, "ack", r.filled, r.req, NoQty)
<1>1. "ack" \in Kinds \ {"resolve_contradiction"}
  BY DEF Kinds
<1>2. a = r \/ (a.status = v.status /\ a.req = r.req)
  BY <1>1, AfterIs
<1>3. v.status = "acknowledged"
  BY DEF Decide, Unusable, Quantified, BeyondTheRecord, MoveFrom, Moved, Terminal, NoQty
<1> HIDE DEF v
<1> QED
  BY <1>2, <1>3

\* Less than was asked does not close an order that is open.
LEMMA ShortFillStaysOpen ==
    ASSUME NEW r \in Rows, NEW cum \in Nat, NEW keyed \in BOOLEAN,
           NEW a, a = After(r, "fill_report", cum, keyed)
    PROVE  /\ r.status \in {"submitted", "acknowledged"} /\ cum <= r.req /\ cum # r.req
           => a.status \in MaybeLive
<1>1. r.status \in {"submitted", "acknowledged"} =>
          /\ r.status \in MaybeLive /\ r.status \notin Terminal
          /\ r.status \notin {"absent", "contradicted", "pending"}
  BY DEF MaybeLive, Terminal
<1> QED
  BY <1>1, FillEvidence

LEMMA CallersTrue ==
    ASSUME BrokerTruth, Callers
    PROVE  CallTrue'
<1>1. ASSUME NEW l \in Links, NEW q \in Quantities, PlaceMarket(l, q) \/ PlacePostOnly(l, q)
      PROVE  CallTrue'
  <2>1. PICK op : call' = NewCall(op, l, q, "intent")
    BY <1>1 DEF PlaceMarket, PlacePostOnly, Begin
  <2>2. call'.pc = "intent" /\ ~call'.unconfirmed
    BY <2>1 DEF NewCall
  <2> QED
    BY <2>2, NothingClaimed
<1>2. ASSUME NEW l \in Links, CancelOrder(l) PROVE CallTrue'
  <2> DEFINE n == NewCall("cancel", l, orders[l].req, "read")
  <2>1. call' = [n EXCEPT !.why = "cancel"]
    BY <1>2 DEF CancelOrder
  <2>2. call'.pc = "read" /\ call'.why = "cancel" /\ ~call'.unconfirmed
    BY <2>1 DEF NewCall
  <2> QED
    BY <2>2, NothingClaimed
<1>3. CASE Taken
  BY <1>3, IdleTells, NothingClaimed DEF Taken
<1> QED
  BY <1>1, <1>2, <1>3 DEF Callers

\* The venue and the clock take back nothing the call was told.
LEMMA OutsideTrue ==
    ASSUME BrokerTruth, Outside
    PROVE  CallTrue'
<1> DEFINE l == call.link
<1>0. /\ BrokerInv /\ CallTrue /\ VenueTold(l) /\ l \in Links /\ UNCHANGED <<orders, call, blind>>
      /\ call.got.cum \in Nat /\ venue[l].cum \in Nat /\ venue'[l].cum \in Nat
  BY CallFields, VenueFacts, NextVenueInv DEF Outside, Next, VenueInv, VenueTypeOK, VenueRows
<1>1. VenueOnward(l)
  BY <1>0, NeverBack DEF Next
<1>2. /\ net'[l].qty = net[l].qty
      /\ net[l].out = {} => net'[l].out = {}
  <2>1. net \in [Links -> Nets]
    BY <1>0, VenueFacts
  <2>2. ASSUME NEW m \in Links, NEW awaited, VenueStep(m, awaited)
        PROVE  net'[l].qty = net[l].qty /\ net'[l].out \subseteq net[l].out
    <3>1. UNCHANGED net \/ \E i \in net[m].out, said \in Answers : Answer(m, i, said, awaited)
      BY <2>2 DEF VenueStep, Land, LandAccepted, LandRefused, LandDuplicate, Fill, End, Show, Answers
    <3>2. ASSUME NEW i, NEW said \in Answers, Answer(m, i, said, awaited)
          PROVE  net'[l].qty = net[l].qty /\ net'[l].out \subseteq net[l].out
      <4>1. CASE m = l
        BY <1>0, <2>1, <3>2, <4>1 DEF Answer, Nets
      <4>2. CASE m # l
        BY <1>0, <2>1, <3>2, <4>2 DEF Answer
      <4> QED
        BY <4>1, <4>2
    <3> QED
      BY <3>1, <3>2
  <2>3. CASE Tick(Aging)
    BY <1>0, <2>3, TickMoves
  <2> QED
    BY <2>2, <2>3 DEF Outside
<1>3. /\ call.pc = "submit" => orders[l].status = "pending" /\ call.qty <= orders[l].req
      /\ call.pc \in {"post", "wait", "ack"} => Sending(l)'
      /\ call.pc = "post" /\ call.tries = 0 => venue'[l].st = "none" /\ net'[l].out = {}
      /\ call.pc = "wait" => call.tries > 0
  BY <1>0, <1>1, <1>2 DEF CallTrue, Sending, VenueOnward
<1>4. /\ call.pc = "read" /\ call.why = "refused" => venue'[l].refused \/ venue'[l].st # "none"
      /\ call.pc = "nothing" => l \in blind \/ EndedUnfilled(l)'
  BY <1>0, <1>1 DEF CallTrue, VenueOnward, EndedUnfilled
<1>5. ASSUME Shown(l, call.got) PROVE Shown(l, call.got)'
  BY <1>0, <1>1, <1>5 DEF Shown, VenueOnward
<1>6. /\ call.pc \in {"fill", "confirm", "settle"} => Shown(l, call.got)'
      /\ call.pc = "confirm" => ~call.got.resting
      /\ call.unconfirmed => call.pc \in {"fill", "return"}
      /\ call.pc = "fill" /\ call.unconfirmed =>
            /\ orders[l].status \in {"submitted", "acknowledged"}
            /\ ~call.got.resting /\ call.got.cum < call.qty /\ call.qty <= orders[l].req
  BY <1>0, <1>5 DEF CallTrue
<1>7. call.pc = "return" =>
          /\ call.got.kind = "none" => l \in blind \/ EndedUnfilled(l)'
          /\ call.got.kind = "row" =>
                /\ call.got.cum <= venue'[l].cum
                /\ ~call.got.resting => \/ venue'[l].st \in Ended /\ venue'[l].cum = call.got.cum
                                        \/ orders[l].status \in MaybeLive
  BY <1>0, <1>1 DEF CallTrue, VenueOnward, EndedUnfilled
<1> QED
  BY <1>0, <1>3, <1>4, <1>6, <1>7 DEF CallTrue

\* Before the request, and sending it.
LEMMA BeforeAndSendTrue ==
    ASSUME BrokerTruth, \/ IntentNew \/ IntentKnown \/ SubmitMarker \/ LogRefuses
                        \/ SendCopy \/ NoAnswer \/ HearAccepted \/ HearRefused \/ HearDuplicate
    PROVE  CallTrue'
<1> DEFINE l == call.link
<1>0. /\ BrokerInv /\ CallTrue /\ VenueTold(l) /\ l \in Links /\ call \in Calls
      /\ call.pc \notin {"fill", "return"} => ~call.unconfirmed
      /\ orders[l] \in Rows /\ call.tries \in Nat
  BY CallFields, RowFacts
<1>1. venue \in [Links -> VenueRows] /\ net \in [Links -> Nets] /\ orders \in [Links -> Rows]
  BY <1>0, VenueFacts DEF BrokerInv, LogInv, LogTypeOK
<1>2. CASE IntentNew
  <2>1. call'.pc = "submit" /\ call'.link = l /\ call'.qty = call.qty /\ ~call'.unconfirmed
    BY <1>0, <1>2, GotoTells DEF IntentNew, At
  <2>2. orders'[l].status = "pending" /\ orders'[l].req = call.qty
    BY <1>0, <1>1, <1>2 DEF IntentNew, RecordIntent, Row
  <2>3. call.qty <= orders'[l].req
    BY <2>2, CallFields
  <2> QED
    BY <2>1, <2>2, <2>3 DEF CallTrue
<1>3. CASE IntentKnown
  <2>1. call.pc = "intent" /\ UNCHANGED orders
    BY <1>3 DEF IntentKnown, At
  <2>2. CASE Return("unknown")
    BY <1>0, <2>2, ReturnTells, NothingClaimed
  <2>3. CASE /\ call.qty <= orders[l].req /\ orders[l].status = "pending"
             /\ Goto("submit")
    <3>1. call'.pc = "submit" /\ call'.link = l /\ call'.qty = call.qty /\ ~call'.unconfirmed
      BY <1>0, <2>1, <2>3, GotoTells
    <3> QED
      BY <2>1, <2>3, <3>1 DEF CallTrue
  <2>4. CASE call' = [call EXCEPT !.pc = "read", !.why = "resume", !.acked = Resent(call.link)]
    <3> DEFINE known == Resent(call.link)
    <3>1. call' = [call EXCEPT !.pc = "read", !.why = "resume", !.acked = known]
      BY <2>4
    <3> HIDE DEF known
    <3>2. call'.pc = "read" /\ call'.why = "resume" /\ call'.unconfirmed = call.unconfirmed
      BY <1>0, <3>1 DEF Calls
    <3> QED
      BY <1>0, <2>1, <3>2, NothingClaimed
  <2> QED
    BY <1>3, <2>2, <2>3, <2>4 DEF IntentKnown
<1>4. CASE SubmitMarker
  <2>1. /\ call.pc = "submit" /\ UNCHANGED <<venue, net>>
        /\ call'.pc = "post" /\ call'.link = l /\ call'.qty = call.qty /\ ~call'.unconfirmed
        /\ call'.tries = call.tries
    BY <1>0, <1>4, GotoTells DEF SubmitMarker, At, LocalBlind, Local
  <2>2. orders[l].status = "pending" /\ call.qty <= orders[l].req /\ call.tries = 0
    BY <1>0, <2>1 DEF CallTrue, BrokerInv, CallFits
  <2>3. orders'[l] = After(orders[l], "submit_attempt", NoQty, FALSE) /\ orders'[l] # orders[l]
    BY <1>0, <1>1, <1>4 DEF SubmitMarker, Apply
  <2>4. orders'[l].status = "submitted" /\ orders'[l].req = orders[l].req
    BY <1>0, <2>2, <2>3, MarkerSubmits
  <2>5. venue[l].st = "none" /\ net[l].out = {}
    <3>1. orders[l].submits = 0
      BY <1>0, <2>2, SentIsRecorded
    <3> QED
      BY <1>0, <3>1, RowFacts
  <2>6. Sending(l)'
    BY <2>1, <2>2, <2>4 DEF Sending
  <2> QED
    BY <2>1, <2>5, <2>6 DEF CallTrue
<1>5. CASE LogRefuses
  BY <1>0, <1>5, ReturnTells, NothingClaimed DEF LogRefuses
<1>6. CASE SendCopy
  <2>1. /\ call.pc = "post" /\ UNCHANGED <<orders, venue>>
        /\ call' = [call EXCEPT !.pc = "wait", !.tries = call.tries + 1]
        /\ Post(l, call.tries + 1, call.qty)
    BY <1>6 DEF SendCopy, At
  <2>2. /\ call'.pc = "wait" /\ call'.link = l /\ call'.qty = call.qty
        /\ call'.tries = call.tries + 1 /\ call'.unconfirmed = call.unconfirmed
    BY <1>0, <2>1 DEF Calls
  <2>3. net'[l].qty = call.qty
    BY <1>0, <1>1, <2>1 DEF Post, Nets
  <2>4. Sending(l)' /\ call'.tries > 0 /\ ~call'.unconfirmed
    BY <1>0, <2>1, <2>2, <2>3 DEF CallTrue, Sending
  <2> QED
    BY <2>2, <2>4 DEF CallTrue
<1>7. CASE NoAnswer \/ HearAccepted \/ HearRefused \/ HearDuplicate
  <2>1. /\ call.pc = "wait" /\ UNCHANGED <<orders, venue, blind>> /\ HangUp(l)
        /\ call.tries > 0 /\ Sending(l) /\ ~call.unconfirmed
    BY <1>0, <1>7 DEF NoAnswer, HearAccepted, HearRefused, HearDuplicate, Heard, At, HeardIt, CallTrue
  <2>2. net'[l].qty = net[l].qty /\ net[l].qty = call.qty
    BY <1>0, <1>1, <2>1 DEF HangUp, Nets, Sending
  <2>3. CASE Goto("post")
    <3>1. /\ call'.pc = "post" /\ call'.link = l /\ call'.qty = call.qty
          /\ call'.tries = call.tries /\ ~call'.unconfirmed
      BY <1>0, <2>1, <2>3, GotoTells
    <3>2. Sending(l)' /\ call'.tries # 0
      BY <2>1, <2>2, <3>1, <1>0 DEF Sending
    <3> QED
      BY <3>1, <3>2 DEF CallTrue
  <2>4. CASE HearAccepted
    <3>1. /\ call'.pc = "ack" /\ call'.link = l /\ call'.qty = call.qty
          /\ call'.unconfirmed = call.unconfirmed
      BY <1>0, <2>4 DEF HearAccepted, Calls
    <3>2. Sending(l)'
      BY <2>1, <2>2, <3>1 DEF Sending
    <3> QED
      BY <2>1, <3>1, <3>2 DEF CallTrue
  <2>5. CASE GoRead("lost") \/ GoRead("dup")
    BY <1>0, <2>1, <2>5, GoReadTells, NothingClaimed
  <2>6. CASE HearRefused
    <3>1. venue[l].refused /\ venue[l].st = "none" /\ venue[l].cum = 0
      BY <1>0, <2>6, VenueFacts DEF HearRefused, Heard, VenueTold
    <3>2. CASE Goto("nothing")
      <4>1. call'.pc = "nothing" /\ call'.link = l /\ ~call'.unconfirmed
        BY <1>0, <2>1, <3>2, GotoTells
      <4>2. EndedUnfilled(l)'
        BY <2>1, <3>1, <4>1 DEF EndedUnfilled, Over
      <4> QED
        BY <4>1, <4>2 DEF CallTrue
    <3>3. CASE GoRead("refused")
      <4>1. call'.pc = "read" /\ call'.link = l /\ ~call'.unconfirmed
        BY <1>0, <2>1, <3>3, GoReadTells
      <4> QED
        BY <2>1, <3>1, <4>1 DEF CallTrue
    <3> QED
      BY <2>6, <3>2, <3>3 DEF HearRefused
  <2>7. CASE HearDuplicate /\ GoRead("refused")
    <3>1. venue[l].st # "none"
      BY <1>0, <2>7 DEF HearDuplicate, Heard, VenueTold
    <3>2. call'.pc = "read" /\ call'.link = l /\ ~call'.unconfirmed
      BY <1>0, <2>1, <2>7, GoReadTells
    <3> QED
      BY <2>1, <3>1, <3>2 DEF CallTrue
  <2> QED
    BY <1>7, <2>3, <2>4, <2>5, <2>6, <2>7 DEF NoAnswer, HearDuplicate
<1> QED
  BY <1>2, <1>3, <1>4, <1>5, <1>6, <1>7

\* After the request: the answer, the readings, and what is filed of them.
LEMMA ReadIsShown ==
    ASSUME BrokerInv, NEW l \in Links, NEW r \in Reads(l), r.kind = "row"
    PROVE  r.cum = venue[l].cum /\ (~r.resting => venue[l].st \in Ended)
BY ReadTells, VenueFacts

LEMMA AcknowledgeTrue ==
    ASSUME BrokerTruth, Acknowledge
    PROVE  CallTrue'
<1> DEFINE l == call.link
           cum == venue[l].cum
           claim == Reading("row", cum, "filled")
           short == cum < call.qty
<1>0. /\ BrokerInv /\ CallTrue /\ VenueTold(l) /\ l \in Links /\ call \in Calls
      /\ orders[l] \in Rows /\ call.qty \in Nat /\ cum \in Nat /\ venue[l].qty \in Nat
  BY CallFields, RowFacts, VenueFacts
<1>1. /\ call.pc = "ack" /\ Sending(l) /\ ~call.unconfirmed /\ UNCHANGED venue
  BY <1>0 DEF Acknowledge, At, CallTrue, LocalBlind, Local
<1>2. CASE GoRead("acked")
  BY <1>0, <1>1, <1>2, GoReadTells, NothingClaimed
<1>3. CASE /\ cum > 0
           /\ call' = [call EXCEPT !.pc = "fill", !.got = claim, !.unconfirmed = short]
  <2>1. claim.kind = "row" /\ claim.cum = cum /\ claim.resting = FALSE
    BY DEF Reading
  <2>2. /\ call'.pc = "fill" /\ call'.link = l /\ call'.qty = call.qty
        /\ call'.got = claim /\ call'.unconfirmed = short
    <3> HIDE DEF claim, short
    <3> QED
      BY <1>0, <1>3 DEF Calls
  <2>3. venue[l].st # "none" /\ venue[l].qty = call.qty
    BY <1>0, <1>1, <1>3, VenueFacts DEF VenueTold, Sending
  <2>4. ~short => venue[l].st \in Ended
    BY <1>0, <2>3, VenueFacts
  <2>5. /\ call'.got.kind = "row" /\ call'.got.cum = venue[l].cum /\ ~call'.got.resting
        /\ call'.unconfirmed <=> venue[l].cum < call.qty
        /\ venue'[l] = venue[l]
    BY <1>1, <2>1, <2>2
  <2>6. orders'[l].status \in {"submitted", "acknowledged"} /\ orders'[l].req = orders[l].req
    <3>1. CASE UNCHANGED orders
      BY <1>1, <3>1 DEF Sending
    <3>2. CASE Apply(l, "ack", NoQty, FALSE)
      <4>1. orders'[l] = After(orders[l], "ack", NoQty, FALSE)
        BY <1>0, <3>2 DEF Apply, BrokerInv, LogInv, LogTypeOK
      <4> QED
        BY <1>0, <1>1, <4>1, AckKeepsOpen DEF Sending
    <3> QED
      BY <3>1, <3>2 DEF Acknowledge, LogEvent
  <2>7. call.qty <= orders'[l].req
    BY <1>1, <2>6 DEF Sending
  <2>8. /\ ~(venue[l].cum < call.qty) => venue[l].st \in Ended
        /\ venue[l].cum <= venue[l].cum
    BY <1>0, <2>4
  <2> HIDE DEF cum, claim, short
  <2>9. Shown(call.link, call.got)'
    BY <2>2, <2>5, <2>8 DEF Shown
  <2> QED
    BY <2>2, <2>5, <2>6, <2>7, <2>9 DEF CallTrue
<1> QED
  BY <1>2, <1>3 DEF Acknowledge

LEMMA ReadBackTrue ==
    ASSUME BrokerTruth, ReadBack
    PROVE  CallTrue'
<1> DEFINE l == call.link
<1>0. /\ BrokerInv /\ CallTrue /\ l \in Links /\ call \in Calls
  BY CallFields
<1>1. call.pc = "read" /\ ~call.unconfirmed /\ UNCHANGED <<orders, venue>>
  BY <1>0, CallFields DEF ReadBack, At, Local
<1>2. PICK r \in Reads(l) :
          /\ \/ Nothing(r) /\ Goto("nothing")
             \/ Usable(r) /\ call' = [call EXCEPT !.pc = "fill", !.got = r, !.why = ""]
             \/ ~Nothing(r) /\ ~Usable(r) /\ Goto("doubt")
          /\ blind' = IF r.kind = "none" /\ Nothing(r) /\ venue[l].st # "none"
                      THEN blind \cup {l} ELSE blind
  BY DEF ReadBack
<1>3. CASE Nothing(r) /\ Goto("nothing")
  <2>1. call'.pc = "nothing" /\ call'.link = l /\ ~call'.unconfirmed
    BY <1>0, <1>1, <1>3, GotoTells
  <2>2. l \in blind' \/ EndedUnfilled(l)
    <3>1. CASE FinalUnfilled(r)
      <4>1. r.kind = "row" /\ ~r.resting /\ r.cum = 0
        BY <3>1 DEF FinalUnfilled
      <4>2. venue[l].cum = 0 /\ venue[l].st \in Ended
        BY <1>0, <4>1, ReadIsShown
      <4> QED
        BY <4>2 DEF EndedUnfilled, Over
    <3>2. CASE call.why = "refused" /\ r.kind = "none"
      <4>1. CASE venue[l].st = "none"
        <5>1. venue[l].refused /\ venue[l].cum = 0
          BY <1>0, <1>1, <3>2, <4>1, VenueFacts DEF CallTrue
        <5> QED
          BY <4>1, <5>1 DEF EndedUnfilled, Over
      <4>2. CASE venue[l].st # "none"
        BY <1>2, <1>3, <3>2, <4>2
      <4> QED
        BY <4>1, <4>2
    <3> QED
      BY <1>3, <3>1, <3>2 DEF Nothing
  <2>3. l \in blind' \/ EndedUnfilled(l)'
    BY <1>1, <2>1, <2>2 DEF EndedUnfilled, Over
  <2> QED
    BY <2>1, <2>3 DEF CallTrue
<1>4. CASE Usable(r) /\ call' = [call EXCEPT !.pc = "fill", !.got = r, !.why = ""]
  <2>1. call'.pc = "fill" /\ call'.link = l /\ call'.got = r /\ ~call'.unconfirmed
    BY <1>0, <1>1, <1>4 DEF Calls
  <2>2. r.kind = "row" /\ r.cum = venue[l].cum /\ (~r.resting => venue[l].st \in Ended)
    BY <1>0, <1>4, ReadIsShown DEF Usable
  <2>3. Shown(l, r)'
    BY <1>0, <1>1, <2>1, <2>2, VenueFacts DEF Shown
  <2> QED
    BY <2>1, <2>3 DEF CallTrue
<1>5. CASE Goto("doubt")
  BY <1>0, <1>1, <1>5, GotoTells, NothingClaimed
<1> QED
  BY <1>2, <1>3, <1>4, <1>5

LEMMA CancelReadTrue ==
    ASSUME BrokerTruth, CancelRead
    PROVE  CallTrue'
<1> DEFINE l == call.link
<1>0. /\ BrokerInv /\ CallTrue /\ l \in Links /\ call \in Calls
  BY CallFields
<1>1. call.pc = "read" /\ ~call.unconfirmed /\ UNCHANGED venue
  BY <1>0, CallFields DEF CancelRead, At, LocalBlind, Local
<1>2. PICK r \in Reads(l) :
          \/ /\ r.kind = "row"
             /\ call' = [call EXCEPT !.pc = IF r.resting THEN "fill" ELSE "confirm", !.got = r]
          \/ Return("unknown")
  BY DEF CancelRead
<1>3. CASE Return("unknown")
  BY <1>0, <1>3, ReturnTells, NothingClaimed
<1>4. CASE /\ r.kind = "row"
           /\ call' = [call EXCEPT !.pc = IF r.resting THEN "fill" ELSE "confirm", !.got = r]
  <2> DEFINE pc == IF r.resting THEN "fill" ELSE "confirm"
  <2>1. pc \in {"fill", "confirm"} /\ (pc = "confirm" => ~r.resting)
    OBVIOUS
  <2>2. call' = [call EXCEPT !.pc = pc, !.got = r]
    BY <1>4
  <2> HIDE DEF pc
  <2>3. call'.pc = pc /\ call'.link = l /\ call'.got = r /\ ~call'.unconfirmed
    BY <1>0, <1>1, <2>2 DEF Calls
  <2>4. r.kind = "row" /\ r.cum = venue[l].cum /\ (~r.resting => venue[l].st \in Ended)
    BY <1>0, <1>4, ReadIsShown
  <2>5. Shown(l, r)'
    BY <1>0, <1>1, <2>3, <2>4, VenueFacts DEF Shown
  <2> QED
    BY <2>1, <2>3, <2>5 DEF CallTrue
<1> QED
  BY <1>2, <1>3, <1>4

LEMMA FinishTrue ==
    ASSUME BrokerTruth, FinishNothing \/ FinishRest \/ FinishDoubt
    PROVE  CallTrue'
<1> DEFINE l == call.link
<1>0. /\ BrokerInv /\ CallTrue /\ l \in Links /\ call \in Calls
      /\ call.pc \notin {"fill", "return"} => ~call.unconfirmed
  BY CallFields
<1>1. CASE FinishNothing
  <2>1. call.pc = "nothing" /\ Return("none") /\ UNCHANGED <<venue, blind>>
    BY <1>1 DEF FinishNothing, At, LocalBlind, Local
  <2>2. /\ call'.pc = "return" /\ call'.link = l /\ call'.got.kind = "none" /\ ~call'.unconfirmed
    BY <1>0, <2>1, ReturnTells
  <2>3. l \in blind' \/ EndedUnfilled(l)'
    BY <1>0, <2>1, <2>2 DEF CallTrue, EndedUnfilled, Over
  <2> QED
    BY <2>2, <2>3 DEF CallTrue
<1>2. CASE FinishRest
  <2>1. /\ call.pc = "confirm" /\ UNCHANGED venue
        /\ call'.pc = "return" /\ call'.link = l /\ call'.got = call.got /\ ~call'.unconfirmed
    BY <1>0, <1>2, GotoTells DEF FinishRest, At, LocalBlind, Local
  <2>2. Shown(l, call.got) /\ ~call.got.resting /\ ~call.unconfirmed
    BY <1>0, <2>1 DEF CallTrue
  <2> QED
    BY <2>1, <2>2 DEF CallTrue, Shown
<1>3. CASE FinishDoubt
  BY <1>0, <1>3, ReturnTells, NothingClaimed DEF FinishDoubt
<1> QED
  BY <1>1, <1>2, <1>3

LEMMA FinishFillTrue ==
    ASSUME BrokerTruth, FinishFill
    PROVE  CallTrue'
<1> DEFINE l == call.link
           g == call.got
<1>0. /\ BrokerInv /\ CallTrue /\ l \in Links /\ call \in Calls /\ orders[l] \in Rows
      /\ g.cum \in Nat /\ call.qty \in Nat /\ orders[l].req \in Nat
  BY CallFields, RowFacts
<1>1. PICK pc \in {"confirm", "return"} :
          /\ Goto(pc)
          /\ pc = "confirm" => ~g.resting /\ ~call.unconfirmed
  BY DEF FinishFill
<1>2. /\ call.pc = "fill" /\ UNCHANGED venue
      /\ call'.pc = pc /\ call'.link = l /\ call'.got = g /\ call'.unconfirmed = call.unconfirmed
  BY <1>0, <1>1, GotoTells DEF FinishFill, At, LocalBlind, Local
<1>3. Shown(l, g) /\ Shown(l, g)'
  BY <1>0, <1>2 DEF CallTrue, Shown
<1>4. CASE pc = "confirm"
  BY <1>1, <1>2, <1>3, <1>4 DEF CallTrue
<1>5. CASE pc = "return"
  <2>1. ~g.resting => \/ venue[l].st \in Ended /\ venue[l].cum = g.cum
                      \/ orders'[l].status \in MaybeLive
    <3>1. CASE ~call.unconfirmed
      BY <1>3, <3>1 DEF Shown
    <3>2. CASE call.unconfirmed
      <4>1. /\ orders[l].status \in {"submitted", "acknowledged"}
            /\ g.cum < call.qty /\ call.qty <= orders[l].req
        BY <1>0, <1>2, <3>2 DEF CallTrue
      <4>2. CASE UNCHANGED orders
        BY <4>1, <4>2 DEF MaybeLive
      <4>3. CASE Apply(l, "fill_report", g.cum, TRUE)
        <5>1. orders'[l] = After(orders[l], "fill_report", g.cum, TRUE)
          BY <1>0, <4>3 DEF Apply, BrokerInv, LogInv, LogTypeOK
        <5>2. g.cum <= orders[l].req /\ g.cum # orders[l].req
          BY <1>0, <4>1
        <5> QED
          BY <1>0, <4>1, <5>1, <5>2, ShortFillStaysOpen
      <4> QED
        BY <4>2, <4>3 DEF FinishFill, LogEvent
    <3> QED
      BY <3>1, <3>2
  <2>2. call'.unconfirmed => call'.pc \in {"fill", "return"}
    BY <1>2, <1>5
  <2> QED
    BY <1>2, <1>3, <1>5, <2>1, <2>2 DEF CallTrue, Shown
<1> QED
  BY <1>4, <1>5

LEMMA RecoveryTrue ==
    ASSUME BrokerTruth, Recovery
    PROVE  CallTrue'
<1>0. /\ BrokerInv /\ CallTrue /\ call \in Calls
      /\ call.pc \notin {"fill", "return"} => ~call.unconfirmed
  BY CallFields
<1>1. CASE call.pc = "idle" /\ UNCHANGED call
  BY <1>0, <1>1, NothingClaimed
<1>2. CASE Restart \/ RecoverDone
  BY <1>0, <1>2 DEF Restart, RecoverDone, CallTrue, Sending, Shown, EndedUnfilled, Over
<1>3. CASE RecoverSettle
  BY <1>3, IdleTells, NothingClaimed DEF RecoverSettle
<1>4. ASSUME NEW l \in Links, RecoverRead(l), ~UNCHANGED call PROVE CallTrue'
  <2>1. PICK r \in Reads(l) :
            /\ r.kind = "row"
            /\ call' = [NewCall("recover", l, orders[l].req, "settle") EXCEPT !.got = r]
    BY <1>4 DEF RecoverRead
  <2> DEFINE n == NewCall("recover", l, orders[l].req, "settle")
  <2>2. call' = [n EXCEPT !.got = r]
    BY <2>1
  <2>3. /\ call'.pc = "settle" /\ call'.link = l /\ call'.got = r /\ ~call'.unconfirmed
    BY <2>2 DEF NewCall
  <2>4. r.cum = venue[l].cum /\ (~r.resting => venue[l].st \in Ended)
    BY <1>0, <2>1, ReadIsShown
  <2>5. UNCHANGED venue
    BY <1>4 DEF RecoverRead, RecoverSteady
  <2>6. Shown(l, r)'
    BY <1>0, <2>1, <2>3, <2>4, <2>5, VenueFacts DEF Shown
  <2> QED
    BY <2>3, <2>6 DEF CallTrue
<1>5. ASSUME NEW l \in Links, RecoverRead(l) \/ RecoverPending(l)
      PROVE  call.pc = "idle" /\ (RecoverPending(l) => UNCHANGED call)
  BY <1>5 DEF RecoverRead, RecoverPending
<1> QED
  BY <1>1, <1>2, <1>3, <1>4, <1>5 DEF Recovery

LEMMA CallStaysTrue ==
    ASSUME BrokerTruth, [Next]_vars
    PROVE  CallTrue'
<1>1. CASE UNCHANGED vars
  BY <1>1 DEF vars, BrokerTruth, CallTrue, Sending, Shown, EndedUnfilled, Over
<1>2. CASE Crash
  BY <1>2, IdleTells, NothingClaimed DEF Crash
<1> QED
  BY <1>1, <1>2, CallersTrue, BeforeAndSendTrue, AcknowledgeTrue, ReadBackTrue, FinishTrue,
     FinishFillTrue, CancelReadTrue, RecoveryTrue, OutsideTrue DEF Next, Procedure

-------------------------------------------------------------------------------
(***************************************************************************)
(* The theorems.                                                           *)
(***************************************************************************)

LEMMA InitTruth == Init => BrokerTruth
<1> SUFFICES ASSUME Init PROVE BrokerTruth
  OBVIOUS
<1>1. BrokerInv
  BY InitBroker
<1>2. ASSUME NEW l \in Links PROVE VenueTold(l) /\ RowTrue(l)
  <2>1. /\ venue[l].st = "none" /\ ~venue[l].refused /\ venue[l].dark = 0 /\ venue[l].cum = 0
        /\ net[l].back = {} /\ net[l].out = {}
        /\ orders[l].status = "absent" /\ orders[l].filled = 0
    BY DEF Init, VenueInit, LogInit, NoRow, Row
  <2>2. 0 <= Lag
    BY WindowAssumption
  <2> QED
    BY <2>1, <2>2 DEF VenueTold, RowTrue, Hidden, Terminal
<1>3. CallTrue
  BY IdleTells DEF Init, CallTrue
<1> QED
  BY <1>1, <1>2, <1>3 DEF BrokerTruth

LEMMA NextTruth == BrokerTruth /\ [Next]_vars => BrokerTruth'
<1> SUFFICES ASSUME BrokerTruth, [Next]_vars PROVE BrokerTruth'
  OBVIOUS
<1>1. BrokerInv'
  BY NextBroker DEF BrokerTruth
<1>2. \A l \in Links : VenueTold(l)'
  BY ToldKeeps
<1>3. \A l \in Links \ blind' : RowTrue(l)'
  BY RowStaysTrue
<1> QED
  BY <1>1, <1>2, <1>3, CallStaysTrue DEF BrokerTruth

\* The inductive invariant: at every step of every procedure, with the venue moving
\* between any two of them, what the log and the call in progress hold of an order
\* is backed by facts about the venue that nothing takes back.
THEOREM BrokerTruthInvariant == Spec => []BrokerTruth
<1> QED
  BY InitTruth, NextTruth, PTL DEF Spec

\* The log's last word is the venue's: an order it has closed is over at the venue,
\* can no longer appear there, and filled exactly what is recorded.
THEOREM LogIsTrue == Spec => []LogTellsTheTruth
<1>1. BrokerTruth => LogTellsTheTruth
  BY DEF BrokerTruth, RowTrue, Gone, Over, LogTellsTheTruth, Dead
<1> QED
  BY <1>1, BrokerTruthInvariant, PTL

\* The code's own writes, in whatever order they arrive, never contradict one
\* another: no order is ever held up as contradicted by them.
THEOREM NothingContradicted == Spec => []NoFalseContradiction
<1>1. BrokerTruth => NoFalseContradiction
  BY DEF BrokerTruth, RowTrue, NoFalseContradiction
<1> QED
  BY <1>1, BrokerTruthInvariant, PTL

\* What a caller is told stays true of the venue until it takes the answer: nothing
\* filled, never sent, or this much and no more, unless the order is on file as open.
THEOREM AnswersAreTrue == Spec => []AnswerIsTrue
<1>1. BrokerTruth => AnswerIsTrue
  <2> SUFFICES ASSUME BrokerTruth, call.pc = "return" PROVE AnswerIsTrue
    BY DEF AnswerIsTrue
  <2> DEFINE l == call.link
             g == call.got
  <2>0. BrokerInv /\ CallTrue /\ l \in Links
    BY CallFields
  <2>1. g.kind = "none" /\ l \notin blind => Dead(l) /\ venue[l].cum = 0
    BY <2>0 DEF CallTrue, EndedUnfilled, Over, Dead
  <2>2. orders[l].submits = 0 => ~AtTheVenue(l)
    BY <2>0 DEF BrokerInv, SentFirst, NothingHidden
  <2>3. orders[l].status \in MaybeLive => l \in UnresolvedOrders
    BY <2>0 DEF UnresolvedOrders, Unresolved
  <2>4. g.kind = "row" =>
            /\ g.cum <= venue[l].cum
            /\ ~g.resting => \/ Dead(l) /\ venue[l].cum = g.cum
                             \/ l \in UnresolvedOrders
    BY <2>0, <2>3 DEF CallTrue, Dead
  <2> QED
    BY <2>1, <2>2, <2>4 DEF AnswerIsTrue
<1> QED
  BY <1>1, BrokerTruthInvariant, PTL
===============================================================================
