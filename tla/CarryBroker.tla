------------------------------ MODULE CarryBroker ------------------------------
(***************************************************************************)
(* src/bot/carry_broker.py (_OrderTrail, place_market, place_post_only,    *)
(* cancel_order) and src/bot/order_recovery.py, running against the order  *)
(* log (OrderLog) and the venue (CarryVenue).                              *)
(*                                                                         *)
(* One process, one call at a time.  A call is a record that carries the   *)
(* local state of the procedure; every durable write, every request and    *)
(* every read is a step of its own, and between any two of them the venue  *)
(* may move and the process may die.  A restart runs the recovery pass     *)
(* over the orders that have no final state.                               *)
(*                                                                         *)
(* Writes BEFORE a request leaves are strict: if one fails the request is  *)
(* not sent.  Writes after it are best effort (_log_event): each may be    *)
(* lost.                                                                   *)
(***************************************************************************)
EXTENDS OrderLog, CarryVenue

ASSUME CoverAssumption == \A q \in Quantities : 0..q \subseteq Reports
ASSUME LinksAssumption == Links # {}

VARIABLES
    mode,   \* "down", "recovering", "trading" or "protect"
    call,   \* the broker procedure in progress
    todo,   \* the orders the recovery pass has still to settle
    blind   \* observer: post-only calls that took a duplicate-id answer and
            \* no row for a refusal; read by no action

vars == <<orders, venue, net, age, mode, call, todo, blind>>

-------------------------------------------------------------------------------
(***************************************************************************)
(* The call record: `acked' and `unconfirmed' are _OrderTrail.acked and    *)
(* .final_unconfirmed; `why' is what led to the read; `got' what the       *)
(* caller will be told.                                                    *)
(***************************************************************************)
Ops == {"market", "post_only", "cancel", "recover"}

Points == {"idle", "intent", "submit", "post", "wait", "ack", "read", "fill",
           "confirm", "nothing", "doubt", "settle", "return"}

Reasons == {"", "acked", "lost", "refused", "dup", "resume", "cancel", "recover"}

Results == [kind : {"pending", "refused", "none", "unknown", "row"}, cum : Nat,
            resting : BOOLEAN, rejected : BOOLEAN]

Calls == [op : Ops, link : Links, qty : Nat, pc : Points, tries : 0..Attempts,
          acked : BOOLEAN, why : Reasons, got : Results,
          unconfirmed : BOOLEAN]

Told(kind) == Reading(kind, 0, "none")

NewCall(op, l, q, pc) ==
    [op |-> op, link |-> l, qty |-> q, pc |-> pc, tries |-> 0,
     acked |-> FALSE, why |-> "", got |-> Told("pending"), unconfirmed |-> FALSE]

Idle == NewCall("market", CHOOSE l \in Links : TRUE, 0, "idle")

At(pc) == mode \in {"trading", "recovering"} /\ call.pc = pc

Goto(pc) == call' = [call EXCEPT !.pc = pc]

\* The call ends with `kind' for its caller.
Return(kind) ==
    call' = [NewCall(call.op, call.link, call.qty, "return") EXCEPT !.got = Told(kind)]

\* The request is over; its outcome is to be read back for reason `why'.
GoRead(why) == call' = [call EXCEPT !.pc = "read", !.why = why, !.tries = 0]

BrokenLogEvent(l, k, cum, keyed) ==
    \/ Apply(l, k, cum, keyed)
    \/ orders' = [orders EXCEPT ![l].status = IF k = "reject" THEN "rejected" ELSE @]

\* A best-effort write: the event is applied, or the write is lost.
LogEvent(l, k, cum, keyed) == Apply(l, k, cum, keyed) \/ UNCHANGED orders

Local == UNCHANGED <<venue, net, age, mode, todo>>

HeardIt == HangUp(call.link) /\ UNCHANGED <<orders, venue, age, mode, todo, blind>>

LocalBlind == Local /\ UNCHANGED blind

TypeOK ==
    /\ LogTypeOK
    /\ VenueTypeOK
    /\ mode \in {"down", "recovering", "trading", "protect"}
    /\ call \in Calls
    /\ todo \subseteq Links
    /\ blind \subseteq Links

Init ==
    /\ LogInit
    /\ VenueInit
    /\ mode = "trading"
    /\ call = Idle
    /\ todo = {}
    /\ blind = {}

-------------------------------------------------------------------------------
(***************************************************************************)
(* Callers.  The market path takes any id, one already on file included    *)
(* (a retry of the same call); the post-only path mints a fresh one.       *)
(***************************************************************************)
Begin(op, l, q, pc) ==
    /\ mode = "trading" /\ call.pc = "idle"
    /\ call' = NewCall(op, l, q, pc)
    /\ UNCHANGED orders
    /\ LocalBlind

PlaceMarket(l, q) == Begin("market", l, q, "intent")

PlacePostOnly(l, q) == ~Recorded(l) /\ Begin("post_only", l, q, "intent")

\* The cancel request is logged, then sent; what the venue does about it is
\* its own affair (End), so only the log moves here.
CancelOrder(l) ==
    /\ mode = "trading" /\ call.pc = "idle"
    /\ orders[l].submits > 0
    /\ LogEvent(l, "cancel_request", NoQty, FALSE)
    /\ call' = [NewCall("cancel", l, orders[l].req, "read") EXCEPT !.why = "cancel"]
    /\ LocalBlind

\* The caller takes the answer.
Taken ==
    /\ call.pc = "return"
    /\ call' = Idle
    /\ UNCHANGED orders
    /\ LocalBlind

-------------------------------------------------------------------------------
(***************************************************************************)
(* Before the request leaves: intent, then submit marker.                  *)
(***************************************************************************)
Resent(l) == orders[l].status \in {"acknowledged", "partial", "cancel_requested"}

IntentNew ==
    /\ At("intent")
    /\ RecordIntent(call.link, call.qty)
    /\ Goto("submit")
    /\ LocalBlind

\* The id is on file.  For a larger quantity it is another order: nothing is
\* sent and nothing is logged.  Recorded but not sent: send it now.  Anything
\* else: ask the venue, never send again.
IntentKnown ==
    /\ At("intent")
    /\ Recorded(call.link)
    /\ LET r == orders[call.link]
       IN \/ call.qty > r.req /\ Return("unknown")
          \/ call.qty <= r.req /\ r.status = "pending" /\ Goto("submit")
          \/ /\ call.qty <= r.req /\ r.status # "pending"
             /\ call' = [call EXCEPT !.pc = "read", !.why = "resume",
                                     !.acked = Resent(call.link)]
    /\ UNCHANGED orders
    /\ LocalBlind

BrokenSubmitMarker ==
    /\ At("submit")
    /\ LogEvent(call.link, "submit_attempt", NoQty, FALSE)
    /\ Goto("post")
    /\ LocalBlind

SubmitMarker ==
    /\ At("submit")
    /\ After(orders[call.link], "submit_attempt", NoQty, FALSE) # orders[call.link]
    /\ Apply(call.link, "submit_attempt", NoQty, FALSE)
    /\ Goto("post")
    /\ LocalBlind

\* The log cannot be written, or refuses the marker: CarryOrderRefused.
LogRefuses ==
    /\ At("intent") \/ At("submit")
    /\ Return("refused")
    /\ UNCHANGED orders
    /\ LocalBlind

-------------------------------------------------------------------------------
(***************************************************************************)
(* The transport, bybit_connection._request: up to Attempts copies of one  *)
(* request under one id.  A copy whose try got no usable answer may still  *)
(* be on its way.                                                          *)
(***************************************************************************)
BrokenSendCopy ==
    /\ At("post")
    /\ age[call.link] < LandBy
    /\ Goto("wait")
    /\ Post(call.link, call.tries + 1, call.qty)
    /\ UNCHANGED <<orders, venue, age, mode, todo, blind>>

SendCopy ==
    /\ At("post")
    /\ age[call.link] < LandBy
    /\ call' = [call EXCEPT !.pc = "wait", !.tries = @ + 1]
    /\ Post(call.link, call.tries + 1, call.qty)
    /\ UNCHANGED <<orders, venue, age, mode, todo, blind>>

TriesLeft(tries) == tries < Attempts

\* No usable answer: send the next copy, or give up (the retries are spent, or
\* the failure is one that is not retried).
NoAnswer ==
    /\ At("wait")
    /\ \/ TriesLeft(call.tries) /\ age[call.link] < LandBy /\ Goto("post")
       \/ GoRead("lost")
    /\ HeardIt

Heard(said) ==
    At("wait") /\ said \in net[call.link].back

HearAccepted ==
    /\ Heard("ok")
    /\ call' = [call EXCEPT !.pc = "ack", !.acked = TRUE, !.tries = 0]
    /\ HeardIt

\* The venue said no.  A market order ends there; a post-only order is read.
HearRefused ==
    /\ Heard("refused")
    /\ IF call.op = "market" THEN Goto("nothing") ELSE GoRead("refused")
    /\ HeardIt

BrokenHearDuplicate ==
    /\ Heard("duplicate")
    /\ Goto("nothing")
    /\ HeardIt

\* A duplicate id: the market path knows it means the first copy landed; the
\* post-only path counts it among the venue's refusals.
HearDuplicate ==
    /\ Heard("duplicate")
    /\ GoRead(IF call.op = "market" THEN "dup" ELSE "refused")
    /\ HeardIt

-------------------------------------------------------------------------------
(***************************************************************************)
(* After an accepted request.  The create response may claim a fill, which *)
(* the market path takes if it is sane; otherwise the order is read back   *)
(* (the polls of ORDER_READBACK_POLLS are reads that happen later).        *)
(***************************************************************************)
Acknowledge ==
    /\ At("ack")
    /\ LogEvent(call.link, "ack", NoQty, FALSE)
    /\ LET cum == venue[call.link].cum
           claim == Reading("row", cum, "filled")
       IN \/ GoRead("acked")
          \/ /\ call.op = "market" /\ cum > 0
             /\ call' = [call EXCEPT !.pc = "fill", !.got = claim,
                                     !.unconfirmed = cum < call.qty]
    /\ LocalBlind

BrokenNothing(r) ==
    \/ FinalUnfilled(r)
    \/ call.op = "post_only" /\ r.kind = "none"

\* What a read settles.  A market order needs a final record; a post-only one
\* may rest, and no row after the venue's refusal means it does not exist.
Nothing(r) ==
    \/ FinalUnfilled(r)
    \/ call.op = "post_only" /\ call.why = "refused" /\ r.kind = "none"

Usable(r) ==
    /\ r.kind = "row" /\ ~FinalUnfilled(r)
    /\ call.op = "market" => ~r.resting /\ r.cum <= call.qty

ReadBack ==
    /\ At("read") /\ call.op \in {"market", "post_only"}
    /\ \E r \in Reads(call.link) :
          /\ \/ Nothing(r) /\ Goto("nothing")
             \/ Usable(r) /\ call' = [call EXCEPT !.pc = "fill", !.got = r, !.why = ""]
             \/ ~Nothing(r) /\ ~Usable(r) /\ Goto("doubt")
          /\ blind' = IF r.kind = "none" /\ Nothing(r) /\ venue[call.link].st # "none"
                      THEN blind \cup {call.link} ELSE blind
    /\ UNCHANGED orders
    /\ Local

\* finish(None): the order is over with nothing filled.
FinishNothing ==
    /\ At("nothing")
    /\ IF call.acked THEN LogEvent(call.link, "cancel_confirm", 0, FALSE)
                     ELSE LogEvent(call.link, "reject", NoQty, FALSE)
    /\ Return("none")
    /\ LocalBlind

\* finish(result): the fill, then (final with less than asked) the rest's end.
FinishFill ==
    /\ At("fill")
    /\ IF call.got.cum > 0
       THEN LogEvent(call.link, "fill_report", call.got.cum, TRUE)
       ELSE UNCHANGED orders
    /\ Goto(IF /\ call.op # "cancel"
               /\ ~call.got.resting /\ call.got.cum < call.qty /\ ~call.unconfirmed
            THEN "confirm" ELSE "return")
    /\ LocalBlind

FinishRest ==
    /\ At("confirm")
    /\ LogEvent(call.link, "cancel_confirm", call.got.cum, FALSE)
    /\ Goto("return")
    /\ LocalBlind

\* unresolved(exc): a timeout only when nothing was acknowledged.
FinishDoubt ==
    /\ At("doubt")
    /\ \/ LogEvent(call.link, "unknown_outcome", NoQty, FALSE)
       \/ ~call.acked /\ LogEvent(call.link, "timeout", NoQty, FALSE)
    /\ Return("unknown")
    /\ LocalBlind

-------------------------------------------------------------------------------
\* cancel_order: the answer is the order's own record, never the cancel's.
CancelRead ==
    /\ At("read") /\ call.op = "cancel"
    /\ \E r \in Reads(call.link) :
          IF r.kind = "row"
          THEN /\ call' = [call EXCEPT !.pc = IF r.resting THEN "fill" ELSE "confirm",
                                       !.got = r]
               /\ UNCHANGED orders
          ELSE /\ LogEvent(call.link, "reconcile_required", NoQty, FALSE)
               /\ Return("unknown")
    /\ LocalBlind

-------------------------------------------------------------------------------
(***************************************************************************)
(* Death, restart, and resolve_unresolved_orders over the rows with no     *)
(* final state.  Its writes are not best effort: one that fails aborts the *)
(* start, which is a crash here.  (Nothing under src/ asks it to cancel    *)
(* resting orders: cancel_resting keeps its default, False.)               *)
(***************************************************************************)
Crash ==
    /\ mode # "down"
    /\ mode' = "down"
    /\ call' = Idle
    /\ todo' = {}
    /\ HangUp(call.link)
    /\ UNCHANGED <<orders, venue, age, blind>>

Restart ==
    /\ mode = "down"
    /\ mode' = "recovering"
    /\ todo' = UnresolvedOrders
    /\ UNCHANGED <<orders, venue, net, age, call, blind>>

BrokenSettled(l) ==
    todo' = IF orders'[l].status \in Unresolved THEN todo ELSE todo \ {l}

\* Each order is read once; one still unresolved stays for the next start.
Settled(l) == todo' = todo \ {l}

RecoverSteady == UNCHANGED <<venue, net, age, mode, blind>>

\* The submit marker is written before any request leaves, so a pending row
\* proves that none did.
RecoverPending(l) ==
    /\ mode = "recovering" /\ call.pc = "idle" /\ l \in todo
    /\ orders[l].status = "pending"
    /\ Apply(l, "never_sent", NoQty, FALSE)
    /\ Settled(l)
    /\ UNCHANGED call
    /\ RecoverSteady

BrokenAbsenceProved(l) ==
    /\ orders[l].status \in {"submitted", "timed_out", "unknown",
                             "reconciliation_required"}
    /\ orders[l].filled <= 0

\* The venue's silence proves absence only past the window, and only for an
\* order nobody acknowledged and nothing filled.
AbsenceProved(l) ==
    /\ orders[l].status \in {"submitted", "timed_out", "unknown",
                             "reconciliation_required"}
    /\ orders[l].filled <= 0
    /\ age[l] >= Window

RecoverRead(l) ==
    /\ mode = "recovering" /\ call.pc = "idle" /\ l \in todo
    /\ orders[l].status # "pending"
    /\ \E r \in Reads(l) :
          IF r.kind = "row"
          THEN /\ call' = [NewCall("recover", l, orders[l].req, "settle")
                              EXCEPT !.got = r]
               /\ IF r.cum > 0 THEN Apply(l, "fill_report", r.cum, TRUE)
                               ELSE UNCHANGED orders
               /\ UNCHANGED todo
          ELSE /\ Apply(l, IF r.kind = "none" /\ AbsenceProved(l)
                           THEN "never_sent" ELSE "reconcile_required", NoQty, FALSE)
               /\ Settled(l)
               /\ UNCHANGED call
    /\ RecoverSteady

\* After the fills: a resting order is acknowledged, a final one is closed.
RecoverSettle ==
    /\ At("settle")
    /\ LET l == call.link
           r == call.got
       IN /\ \/ r.resting /\ Apply(l, "ack", NoQty, FALSE)
             \/ /\ ~r.resting /\ r.cum > 0
                /\ IF r.cum < call.qty THEN Apply(l, "cancel_confirm", r.cum, FALSE)
                                      ELSE UNCHANGED orders
             \/ ~r.resting /\ r.cum = 0 /\ r.rejected /\ Apply(l, "reject", NoQty, FALSE)
             \/ /\ ~r.resting /\ r.cum = 0 /\ ~r.rejected
                /\ Apply(l, "cancel_confirm", 0, FALSE)
          /\ Settled(l)
    /\ call' = Idle
    /\ RecoverSteady

\* Whatever is still unresolved keeps the book from starting.
RecoverDone ==
    /\ mode = "recovering" /\ call.pc = "idle" /\ todo = {}
    /\ mode' = IF UnresolvedOrders = {} THEN "trading" ELSE "protect"
    /\ UNCHANGED <<orders, venue, net, age, call, todo, blind>>

-------------------------------------------------------------------------------
Procedure ==
    \/ IntentNew \/ IntentKnown \/ SubmitMarker \/ LogRefuses
    \/ SendCopy \/ NoAnswer \/ HearAccepted \/ HearRefused \/ HearDuplicate
    \/ Acknowledge \/ ReadBack
    \/ FinishNothing \/ FinishFill \/ FinishRest \/ FinishDoubt
    \/ CancelRead

Recovery ==
    \/ Restart \/ RecoverSettle \/ RecoverDone
    \/ \E l \in Links : RecoverPending(l) \/ RecoverRead(l)

\* The try whose answer the client waits for, 0 when it waits for none.
Awaited(l) == IF call.pc = "wait" /\ call.link = l THEN call.tries ELSE 0

\* Time is kept for the orders sent and not closed, and for copies on their way.
Aging == {l \in Links : orders[l].submits > 0
                           /\ (l \in UnresolvedOrders \/ net[l].out # {})}

\* The submit marker is written immediately before the request leaves: no time
\* passes between the two.
Outside ==
    /\ \/ \E l \in Links : VenueStep(l, Awaited(l))
       \/ call.pc # "post" /\ Tick(Aging)
    /\ UNCHANGED <<orders, mode, call, todo, blind>>

Callers ==
    \/ \E l \in Links, q \in Quantities :
           PlaceMarket(l, q) \/ PlacePostOnly(l, q)
    \/ \E l \in Links : CancelOrder(l)
    \/ Taken

Next == Callers \/ Procedure \/ Crash \/ Recovery \/ Outside

Spec == Init /\ [][Next]_vars

(***************************************************************************)
(* A live process keeps executing the procedure it is in: the broker and   *)
(* the recovery pass are plain synchronous code whose every request has a  *)
(* deadline.  Nothing is assumed of the venue, the clock, the callers, or  *)
(* of who restarts a dead process.                                         *)
(***************************************************************************)
RecoveryStep == Recovery /\ mode = "recovering"

BrokerFairness == WF_vars(Procedure) /\ WF_vars(RecoveryStep)

FairSpec == Spec /\ BrokerFairness

-------------------------------------------------------------------------------
(***************************************************************************)
(* Properties.                                                             *)
(***************************************************************************)

\* The broker and the recovery pass are writers the record's own specification
\* allows: every change to a row is one event the lifecycle has judged.
ImplementsLog == LogSpec

\* Durable before it leaves (carry_broker.py:451-456): a request on the wire,
\* an answer to one, or an order at the venue has its submit marker on file, so
\* that no crash can leave exposure the record does not know of.
AtTheVenue(l) ==
    net[l].out # {} \/ net[l].back # {} \/ venue[l].st # "none" \/ venue[l].refused

NothingHidden == \A l \in Links : AtTheVenue(l) => orders[l].submits = 1

\* The log's last word is the venue's: an order the log has closed is over at
\* the venue, can no longer appear there, and filled exactly what is recorded
\* (order_lifecycle.py:30-31, order_recovery.py:7-21).
LogTellsTheTruth ==
    \A l \in Links \ blind :
        orders[l].status \in Terminal =>
            /\ Dead(l) \/ orders[l].submits = 0
            /\ orders[l].filled = venue[l].cum

\* Without two sources of evidence that disagree the record never becomes
\* contradicted: no interleaving of the code's own writes contradicts itself.
NoFalseContradiction == \A l \in Links \ blind : orders[l].status # "contradicted"

\* The answer a caller acts on stays true of the venue: "nothing" means the order
\* is over with no fill (the caller crosses instead), "refused" that it was never
\* sent, and a fill that is not resting is the order's whole fill, unless the
\* order is still on file as unresolved, which blocks the next cycle.
AnswerIsTrue ==
    call.pc = "return" =>
        LET l == call.link
            g == call.got
        IN /\ g.kind = "none" /\ l \notin blind => Dead(l) /\ venue[l].cum = 0
           /\ g.kind = "refused" => (orders[l].submits = 0 => ~AtTheVenue(l))
           /\ g.kind = "row" =>
                 /\ g.cum <= venue[l].cum
                 /\ ~g.resting => \/ Dead(l) /\ venue[l].cum = g.cum
                                  \/ l \in UnresolvedOrders

\* Every call answers (or dies with its process), however the venue behaves: the
\* retries are bounded and each outcome leads to an answer.
EveryCallAnswers == call.pc # "idle" ~> call.pc \in {"idle", "return"}

\* A start never hangs on an order: the recovery pass ends in trading or in
\* protect mode (order_recovery.py:85-172 reads each order once).
EveryStartDecides == mode = "recovering" ~> mode # "recovering"
===============================================================================
