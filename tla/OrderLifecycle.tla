---------------------------- MODULE OrderLifecycle ----------------------------
(***************************************************************************)
(* The life of one order, src/bot/order_lifecycle.py: which event may move *)
(* a recorded order where.  `Decide' is the pure function the store        *)
(* consults inside one transaction for every event; nothing here keeps     *)
(* state.                                                                  *)
(*                                                                         *)
(* Quantities are whole lots.  The code compares floats with a tolerance   *)
(* (_tol) that is far below one lot, so the comparisons here are exact.    *)
(* A quantity of NoQty is Python's None; any other negative number stands  *)
(* for the values the code calls unusable (negative, NaN, infinite).       *)
(***************************************************************************)
EXTENDS Integers

Terminal == {"filled", "cancelled", "rejected", "never_sent", "abandoned"}

\* A request left and the order may still be live: _SENT / _MAYBE_LIVE.
MaybeLive == {"submitted", "acknowledged", "partial", "cancel_requested",
              "timed_out", "unknown", "reconciliation_required"}

Unresolved == MaybeLive \cup {"pending", "contradicted"}

Statuses == Terminal \cup Unresolved

Kinds == {"submit_attempt", "ack", "fill_report", "reject", "timeout",
          "unknown_outcome", "cancel_request", "cancel_confirm",
          "reconcile_required", "never_sent", "abandon",
          "resolve_contradiction"}

\* Kinds that carry the cumulative filled quantity.
Quantified == {"fill_report", "cancel_confirm", "resolve_contradiction"}

NoQty == -1

Larger(a, b) == IF a >= b THEN a ELSE b

(***************************************************************************)
(* Definitions named Broken... are defects the code does not have, kept    *)
(* beside the definition each would replace to show which property would   *)
(* notice.  No specification uses them.                                    *)
(***************************************************************************)

(***************************************************************************)
(* A verdict: whether the record changes, to which status, and the         *)
(* cumulative fill the event establishes (the recorded one when it says    *)
(* nothing).                                                               *)
(***************************************************************************)
Refused(s, rec) == [applied |-> FALSE, status |-> s, filled |-> rec]

Moved(s, cum) == [applied |-> TRUE, status |-> s, filled |-> cum]

\* A quantity no report can carry: negative, NaN or infinite.
Unusable(k, cum) == k \in Quantified /\ cum < NoQty

\* Move to `target' when the state is one of `from', refuse otherwise.
MoveFrom(from, target, s, rec) ==
    IF s \in from THEN Moved(target, rec) ELSE Refused(s, rec)

BrokenOnContradicted(k, rec, cum) ==
    IF k = "ack" THEN Moved("acknowledged", rec) ELSE Refused("contradicted", rec)

OnContradicted(k, rec, cum) ==
    IF k = "fill_report" /\ cum > rec
    THEN Moved("contradicted", cum) ELSE Refused("contradicted", rec)

OnResolve(s, rec, req, cum) ==
    IF s # "contradicted" \/ cum = NoQty THEN Refused(s, rec)
    ELSE Moved(IF cum >= req THEN "filled" ELSE "cancelled", cum)

\* More fill than the record holds, on an order the record called finished.
BeyondTheRecord(s, k, rec, cum) ==
    /\ s \in Terminal
    /\ k \in {"fill_report", "cancel_confirm"}
    /\ cum > rec

OnFill(s, rec, req, cum) ==
    IF s \in Terminal THEN Refused(s, rec)
    ELSE IF s = "pending" THEN Moved("contradicted", Larger(cum, 0))
    ELSE IF cum < rec THEN Refused(s, rec)
    ELSE IF cum > req THEN Moved("contradicted", cum)
    ELSE IF cum <= 0 THEN Refused(s, rec)
    ELSE IF cum >= req THEN Moved("filled", cum)
    ELSE IF cum = rec /\ s = "partial" THEN Refused(s, rec)
    ELSE Moved(IF s = "cancel_requested" THEN s ELSE "partial", cum)

BrokenOnSubmit(s, rec) == MoveFrom({"pending", "timed_out"}, "submitted", s, rec)

\* A sent order is never sent again.
OnSubmit(s, rec) == MoveFrom({"pending"}, "submitted", s, rec)

OnReject(s, rec) ==
    IF rec > 0 THEN Moved("contradicted", rec)
    ELSE MoveFrom({"pending"} \cup (MaybeLive \ {"partial", "cancel_requested"}),
                  "rejected", s, rec)

OnUnknownOutcome(s, rec) ==
    IF s \in {"submitted", "timed_out"} THEN Moved("unknown", rec)
    ELSE MoveFrom({"acknowledged", "partial", "cancel_requested"},
                  "reconciliation_required", s, rec)

OnCancelConfirm(s, rec, req, said) ==
    LET cum == IF said = NoQty THEN rec ELSE said
    IN IF cum < rec \/ s \notin MaybeLive THEN Refused(s, rec)
       ELSE Moved(IF cum >= req THEN "filled" ELSE "cancelled", cum)

BrokenOnEndUnfilled(target, s, rec) == Moved(target, rec)

\* never_sent and abandon: refused once anything has filled.
OnEndUnfilled(target, s, rec) ==
    IF rec > 0 THEN Refused(s, rec) ELSE Moved(target, rec)

(***************************************************************************)
(* The verdict on event k against an order in status s that has recorded   *)
(* `rec' of the `req' asked for; `cum' is the quantity the event reports.  *)
(* The order of the branches is the order of the code's early returns.     *)
(***************************************************************************)
Decide(s, k, rec, req, cum) ==
    IF Unusable(k, cum) THEN Refused(s, rec)
    ELSE IF k = "resolve_contradiction" THEN OnResolve(s, rec, req, cum)
    ELSE IF s = "contradicted" THEN OnContradicted(k, rec, cum)
    ELSE IF BeyondTheRecord(s, k, rec, cum) THEN Moved("contradicted", cum)
    ELSE IF k = "fill_report" THEN OnFill(s, rec, req, cum)
    ELSE IF s \in Terminal THEN Refused(s, rec)
    ELSE IF k = "submit_attempt" THEN OnSubmit(s, rec)
    ELSE IF k = "ack"
         THEN MoveFrom({"submitted", "timed_out", "unknown",
                        "reconciliation_required"}, "acknowledged", s, rec)
    ELSE IF k = "reject" THEN OnReject(s, rec)
    ELSE IF k = "timeout" THEN MoveFrom({"submitted"}, "timed_out", s, rec)
    ELSE IF k = "unknown_outcome" THEN OnUnknownOutcome(s, rec)
    ELSE IF k = "reconcile_required"
         THEN MoveFrom(Unresolved \ {"reconciliation_required"},
                       "reconciliation_required", s, rec)
    ELSE IF k = "cancel_request"
         THEN MoveFrom(MaybeLive \ {"cancel_requested"}, "cancel_requested", s, rec)
    ELSE IF k = "cancel_confirm" THEN OnCancelConfirm(s, rec, req, cum)
    ELSE IF k = "never_sent" THEN OnEndUnfilled("never_sent", s, rec)
    ELSE OnEndUnfilled("abandoned", s, rec)
===============================================================================
