------------------------------- MODULE ClosePlan -------------------------------
(***************************************************************************)
(* The planner of a staged close, src/bot/close_plan.py: what is the next  *)
(* safe step for closing a short, given the durable log of attempts and    *)
(* one fresh look at the venue?  Pure; CloseExecutor acts on it.           *)
(*                                                                         *)
(* Quantities are whole lots, so floor_to_step is the identity and the     *)
(* dust tolerance is zero.  The log is a sequence: attempt n is log[n].    *)
(* Its execution ids are left out: an attempt records some exactly when it *)
(* records a fill.  The age of an attempt counts until it is resolved.     *)
(***************************************************************************)
EXTENDS Integers, Sequences

CONSTANTS
    MaxAttempts,    \* Policy.max_attempts
    MaxWaits,       \* Policy.max_waits
    MaxLagWaits,    \* Policy.max_lag_waits
    MaxSends,       \* Policy.max_sends
    MinQty,         \* Policy.min_qty, in lots
    Resend          \* Policy.resend_same_link_id

ASSUME PolicyAssumption ==
    /\ MaxAttempts \in Nat \ {0} /\ MaxWaits \in Nat \ {0} /\ MaxLagWaits \in Nat
    /\ MaxSends \in Nat \ {0} /\ MinQty \in Nat \ {0} /\ Resend \in BOOLEAN

Resolutions == {"FILLED", "PARTIAL", "CANCELLED", "REJECTED", "MOOT", "NEVER_SENT"}

AttemptStates == Resolutions \cup {"INTENT", "SENT"}

\* A new attempt asks for the whole short seen (floored to a lot).
Intent(short) ==
    [qty |-> short, state |-> "INTENT", filled |-> 0, sends |-> 1, before |-> short,
     age |-> 0]

(***************************************************************************)
(* What one look reads of an order: the lookup failed, the venue shows no  *)
(* such order, an order that has not ended (or whose status is not         *)
(* understood), or one that has, and how.                                  *)
(***************************************************************************)
Looked(kind, how, cum) == [kind |-> kind, how |-> how, cum |-> cum]

\* _terminal
Ending(how, qty, filled) ==
    IF how = "Rejected" THEN "REJECTED"
    ELSE IF how = "Filled" \/ filled >= qty THEN "FILLED"
    ELSE IF filled > 0 THEN "PARTIAL" ELSE "CANCELLED"

Unresolved(log) == {n \in DOMAIN log : log[n].state \notin Resolutions}

Read(log, obs, kind) == {n \in Unresolved(log) : obs.orders[n].kind = kind}

Higher(a, b) == IF a >= b THEN a ELSE b

\* The log with what the venue has decided.
WithEnded(log, obs) ==
    [n \in DOMAIN log |->
        IF n \in Read(log, obs, "ended")
        THEN LET filled == Higher(log[n].filled, obs.orders[n].cum)
             IN [log[n] EXCEPT !.filled = filled, !.age = 0,
                               !.state = Ending(obs.orders[n].how, log[n].qty, filled)]
        ELSE log[n]]

Marked(log, ns, state) ==
    [n \in DOMAIN log |-> IF n \in ns THEN [log[n] EXCEPT !.state = state, !.age = 0] ELSE log[n]]

\* A plan carries the log as its resolutions leave it.
Plan(act, why, log) == [act |-> act, why |-> why, qty |-> 0, n |-> 0, log |-> log]

Order(act, n, qty, log) == [act |-> act, why |-> "", qty |-> qty, n |-> n, log |-> log]

\* The position reads larger than the last attempt should have left it.
Lags(log, short) ==
    /\ Len(log) > 0
    /\ LET a == log[Len(log)]
       IN a.before > 0 /\ 2 * short > 2 * (a.before - a.filled) + MinQty

BrokenPlanRest(log, short, lag) ==
    IF \E n \in DOMAIN log : log[n].filled > 0 THEN Plan("NOOP_FLAT", "filled", log)
    ELSE Order("SEND", Len(log) + 1, short, log)

\* Everything earlier is resolved: what is left is what the venue holds now.
PlanRest(log, short, lag) ==
    IF short = 0 THEN Plan("NOOP_FLAT", "flat", log)
    ELSE IF lag < MaxLagWaits /\ Lags(log, short) THEN Plan("WAIT", "lag", log)
    ELSE IF Len(log) >= MaxAttempts THEN Plan("HALT", "exhausted", log)
    ELSE IF short < MinQty THEN Plan("HALT", "dust", log)
    ELSE Order("SEND", Len(log) + 1, short, log)

PlanResend(log, lost, short) ==
    LET n == CHOOSE m \in lost : \A k \in lost : k <= m
        qty == IF log[n].qty <= short THEN log[n].qty ELSE short
    IN IF log[n].sends >= MaxSends THEN Plan("HALT", "resends", log)
       ELSE IF qty < MinQty THEN Plan("HALT", "dust", log)
       ELSE Order("RESEND", n, qty, log)

\* Absent, but not proven so; an attempt that left a trace never is.
Unproven(log, obs, lost) == {n \in lost : n \notin obs.proven \/ log[n].filled > 0}

\* Attempts the venue does not show, with a short still to close.
PlanLost(log, obs, lost, short, lag) ==
    IF short = 0 THEN Plan("NOOP_FLAT", "flat", Marked(log, lost, "MOOT"))
    ELSE IF Resend THEN PlanResend(log, lost, short)
    ELSE IF Unproven(log, obs, lost) # {} THEN Plan("WAIT", "unproven", log)
    ELSE PlanRest(Marked(log, lost, "NEVER_SENT"), short, lag)

PlanStep(log, obs, lag) ==
    LET short == IF obs.net < 0 THEN -obs.net ELSE 0
        lost == Read(log, obs, "absent")
    IN IF ~obs.readable THEN Plan("WAIT", "unreadable", log)
       ELSE IF obs.net > 0 THEN Plan("HALT", "net_long", log)
       ELSE IF Read(log, obs, "failed") # {} THEN Plan("WAIT", "order_unreadable", log)
       ELSE IF Read(log, obs, "live") # {} THEN Plan("WAIT", "live", WithEnded(log, obs))
       ELSE IF lost # {} THEN PlanLost(WithEnded(log, obs), obs, lost, short, lag)
       ELSE PlanRest(WithEnded(log, obs), short, lag)

\* plan_close: waiting too long calls a person.
PlanClose(log, obs, waits, lag) ==
    LET p == PlanStep(log, obs, lag)
    IN IF p.act = "WAIT" /\ waits >= MaxWaits
       THEN Plan("HALT", "waited", p.log) ELSE p
===============================================================================
