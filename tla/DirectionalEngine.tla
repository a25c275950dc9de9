------------------------ MODULE DirectionalEngine ------------------------
(* The directional trading engine on one symbol: an entry, its protective
   stop and take-profit leg, the observers that every tick runs, the close,
   the emergency close, the private stream's status writes, and start-up.

   One thread runs the engine, so between two venue calls nothing else touches
   the ledger; the venue moves between any two steps, and the process may die
   at each of them. A step is one venue call with the ledger writes up to the
   next call, split where a crash between two writes leaves a different ledger.

   `kind` chooses the product. On "linear" the venue states the position and
   the stop is a field of it; on "spot" a position is coin, the stop and the
   leg are orders, and the account may hold other coin (OtherCoin).

   Left out: the linear stop's order row, maker-first entry, dust, prices and
   fees; a lot is two units with at most one leg of one. Only the horizon exit
   closes, and nobody clears the kill switch.

   Bounds: MaxOrders[kind] orders, MaxFaults faults of FaultKinds: "crash" (the
   process dies or shuts down), "lost" (a reply lost), "unread" (a read, cancel
   or filter call that fails), "odd" (an order refused, a stop that vanishes).

   Definitions named Broken... are defects the code does not have, kept to show
   that the properties would notice them. *)
EXTENDS Integers, Sequences, FiniteSetsExt

CONSTANTS Kinds, MaxOrders, OtherCoin, FaultKinds, MaxFaults, Stream

ASSUME DirectionalBounds ==
    /\ Kinds \subseteq {"linear", "spot"} /\ Kinds # {}
    /\ MaxOrders \in [Kinds -> Nat]
    /\ OtherCoin \in Nat
    /\ FaultKinds \subseteq {"crash", "lost", "unread", "odd"}
    /\ MaxFaults \in Nat
    /\ Stream \in BOOLEAN

VARIABLES
    kind,      \* the product this engine trades
    orders,    \* the ledger's orders table, each row beside the venue's order
    coin,      \* units the venue holds: the position, or the whole coin balance
    posStop,   \* linear: the stop field of the venue's position
    book,      \* the position row
    trades,    \* the trades table
    killed,    \* the kill switch
    pc, job,   \* where the engine's thread is, and what it is about
    left,      \* faults that may still happen
    misnamed   \* not program state: entries whose row was given a leg of an earlier position

ledger == <<book, trades, killed>>
venue == <<coin, posStop>>
vars == <<kind, orders, coin, posStop, book, trades, killed, pc, job, left, misnamed>>

Lot == 2
NoRow == [qty |-> 0, stop |-> FALSE, stopId |-> 0, tps |-> {}, booked |-> {}, entry |-> 0, opened |-> 0]
NoJob == [how |-> "none", id |-> 0, back |-> "tick", settle |-> 0, answer |-> "none"]

Linear == kind = "linear"
Spot == kind = "spot"
Ids == DOMAIN orders
Of(purposes) == {i \in Ids : orders[i].purpose \in purposes}
Closes == Of({"close", "emergency_close"})
HasRow == book # NoRow
Least(a, b) == IF a < b THEN a ELSE b

(* persistence.py: unresolved_orders, and LOCAL_TERMINAL_ORDER_STATUS *)
Unresolved(i) == orders[i].row \in {"pending", "submitted", "unknown"}
Ended(i) == orders[i].at = "ended"
Executed(i) == Ended(i) /\ orders[i].done > 0

Spend(fault) == fault \in FaultKinds /\ left > 0 /\ left' = left - 1
Go(step) == pc' = step /\ UNCHANGED job
Becomes(how) == job' = [job EXCEPT !.how = how]

(* A tick resolves entries, observes exits, looks for naked positions and then
   decides; whatever a phase starts comes back to the next one. *)
After(phase) == CASE phase = "resolve" -> "observe" [] phase = "observe" -> "naked"
                  [] phase = "naked" -> "decide" [] OTHER -> "tick"
Phase(phase) == pc' = phase /\ job' = [NoJob EXCEPT !.back = After(phase)]
Leave == Phase(job.back)
Return == IF job.settle # 0 THEN Go("settled") ELSE Leave
Rows(S, status) == [i \in Ids |-> IF i \in S THEN [orders[i] EXCEPT !.row = status] ELSE orders[i]]
Row(i, status) == Rows({i}, status)

(***************************************************************************)
(* The venue                                                               *)
(***************************************************************************)
(* Coin that no resting limit sell reserves. *)
FreeCoin == coin - MapThenSumSet(LAMBDA i : orders[i].qty, {i \in Of({"tp"}) : orders[i].at = "live"})

At(i, where, done) == [orders EXCEPT ![i].at = where, ![i].done = done]

(* A request whose reply was lost reaches the venue late, or never does. *)
Arrives == \E i \in Ids : /\ orders[i].at = "flying"
                          /\ \E where \in {"live", "lost"} : orders' = At(i, where, 0)
                          /\ UNCHANGED <<kind, misnamed, venue, ledger, pc, job, left>>

(* A market entry executes in full, in part or not at all, and ends. *)
EntryExecutes == \E i \in Of({"entry"}), d \in 0 .. Lot :
    /\ orders[i].at = "live"
    /\ orders' = At(i, "ended", d) /\ coin' = coin + d
    /\ UNCHANGED <<kind, misnamed, posStop, ledger, pc, job, left>>

(* A sale sells at most what is there; a leg rests until its whole size sells
   or, on linear, until the position is gone. *)
SaleExecutes == \E i \in Closes \union Of({"tp"}), d \in 0 .. Lot :
    /\ orders[i].at = "live"
    /\ d <= Least(orders[i].qty, coin)
    /\ orders[i].purpose = "tp" => d = orders[i].qty \/ (Linear /\ coin = 0)
    /\ orders' = At(i, "ended", d) /\ coin' = coin - d
    /\ posStop' = (posStop /\ coin' > 0)
    /\ UNCHANGED <<kind, misnamed, ledger, pc, job, left>>

(* A triggered spot stop sells its whole size or, without free coin for it, is
   refused; a triggered position stop closes the position. *)
StopFires ==
    \/ \E i \in Of({"stop"}) :
         /\ orders[i].at = "live"
         /\ LET d == IF FreeCoin >= orders[i].qty THEN orders[i].qty ELSE 0
            IN  orders' = At(i, "ended", d) /\ coin' = coin - d
         /\ UNCHANGED <<kind, misnamed, posStop, ledger, pc, job, left>>
    \/ /\ posStop /\ coin > 0
       /\ coin' = 0 /\ posStop' = FALSE
       /\ UNCHANGED <<kind, misnamed, orders, ledger, pc, job, left>>

(* A stop cancelled behind the engine's back. *)
StopVanishes ==
    /\ Spend("odd")
    /\ \/ \E i \in Of({"stop"}) : orders[i].at = "live" /\ orders' = At(i, "ended", 0) /\ UNCHANGED posStop
       \/ posStop /\ posStop' = FALSE /\ UNCHANGED orders
    /\ UNCHANGED <<kind, misnamed, coin, ledger, pc, job>>

Venue == Arrives \/ EntryExecutes \/ SaleExecutes \/ StopFires \/ StopVanishes

-----------------------------------------------------------------------------
(* The engine: sending an order (bybit_connection.place_order, _submit)      *)

(* The intent is recorded before anything is sent. *)
Record(purpose, qty, how, back) ==
    /\ Len(orders) < MaxOrders[kind]
    /\ orders' = Append(orders, [purpose |-> purpose, qty |-> qty, row |-> "pending", at |-> "unsent", done |-> 0])
    /\ job' = [job EXCEPT !.id = Len(orders) + 1, !.how = how, !.back = back, !.answer = "none"]
    /\ pc' = "send"

(* Nothing is there for the sale: reduce-only without a position, coin that a
   leg reserves, a stop for a position that is gone. *)
MustRefuse ==
    IF job.id = 0 THEN coin = 0
    ELSE CASE orders[job.id].purpose = "entry" -> FALSE
           [] orders[job.id].purpose = "stop"  -> FALSE
           [] OTHER -> IF Linear THEN coin = 0 ELSE FreeCoin < orders[job.id].qty

Answers(answer) == pc' = "reply" /\ job' = [job EXCEPT !.answer = answer]

\* linear stops are a field of the position (job.id = 0); everything else is an order
Lands(where) == IF job.id = 0 THEN posStop' = (posStop \/ where = "live") /\ UNCHANGED orders
                              ELSE orders' = At(job.id, where, 0) /\ UNCHANGED posStop

Send ==
    /\ pc = "send"
    /\ \/ ~MustRefuse /\ Lands("live") /\ Answers("ok") /\ UNCHANGED left
       \/ \E where \in {"live", "flying", "lost"} :
            /\ where = "live" => ~MustRefuse
            /\ Spend("lost") /\ Lands(where) /\ Answers("unknown")
       \/ Lands("lost") /\ Answers("refused") /\ IF MustRefuse THEN UNCHANGED left ELSE Spend("odd")
    /\ UNCHANGED <<kind, misnamed, coin, ledger>>

Status == CASE job.answer = "ok" -> "submitted" [] job.answer = "unknown" -> "unknown" [] OTHER -> "rejected"

AfterReply == CASE job.how = "entry"   -> IF job.answer = "ok" THEN "poll" ELSE "leave"
                [] job.how = "enter"   -> IF job.answer = "ok" THEN "verify" ELSE "free"
                [] job.how = "protect" -> IF job.answer = "ok" THEN "verify" ELSE "free"
                [] job.how = "resize"  -> IF job.answer = "ok" THEN "swap" ELSE "return"
                [] job.how = "tp"      -> "leave"
                [] job.how = "close"   -> IF job.answer = "ok" THEN "poll" ELSE "leave"
                [] job.how = "flatten" -> IF job.answer = "ok" THEN "poll" ELSE "leave"

Continue(step) == CASE step = "leave"  -> Leave
                    [] step = "return" -> Return
                    [] step = "free"   -> pc' = "free" /\ Becomes("flatten")
                    [] OTHER           -> Go(step)

(* The outcome is written to the row; a leg that is or may be resting is named
   on the position, and an emergency close trips the kill switch. *)
Reply ==
    /\ pc = "reply"
    /\ orders' = IF job.id = 0 THEN orders ELSE Row(job.id, Status)
    /\ book' = IF job.how = "tp" /\ job.answer # "refused" THEN [book EXCEPT !.tps = @ \union {job.id}] ELSE book
    /\ killed' = (killed \/ job.how = "flatten")
    /\ Continue(AfterReply)
    /\ UNCHANGED <<kind, misnamed, venue, trades, left>>

(* _await_fill: a terminal order is recorded (an entry's row is not: it waits
   for its position); anything else is given up on after the time-out. *)
Poll ==
    /\ pc = "poll"
    /\ \/ /\ Executed(job.id)
          /\ orders' = IF job.how = "entry" THEN orders ELSE Row(job.id, "filled")
          /\ Go("fill") /\ UNCHANGED left
       \/ /\ Ended(job.id) /\ orders[job.id].done = 0
          /\ orders' = Row(job.id, "cancelled")
          /\ Leave /\ UNCHANGED left
       \/ /\ IF Ended(job.id) THEN Spend("unread") ELSE UNCHANGED left
          /\ Leave /\ UNCHANGED orders
    /\ UNCHANGED <<kind, misnamed, venue, ledger>>

-----------------------------------------------------------------------------
(* Booking                                                                   *)

Booked(key) == \E t \in trades : t.key = key

(* record_exit_fill, its transaction: the trade (once per key) and what is left
   of the position. Venue calls follow: all legs off, or a stop resized. *)
BookExit(i, qty, key, mark) ==
    LET rest == book.qty - qty
        keep == IF mark THEN book.booked \union {i} ELSE book.booked
    IN  /\ trades' = IF Booked(key) THEN trades ELSE trades \union {[key |-> key, qty |-> qty, entry |-> book.entry]}
        /\ book' = IF rest = 0 THEN NoRow ELSE [book EXCEPT !.qty = rest, !.booked = keep]
        /\ job' = [job EXCEPT !.how = IF rest = 0 THEN "booked" ELSE "resize", !.id = i]
        /\ pc' = IF rest = 0 THEN "cancel_all" ELSE IF book.stop THEN "resize" ELSE "return"

Returns == pc = "return" /\ Return /\ UNCHANGED <<kind, misnamed, orders, venue, ledger, left>>

(* _settle_pending_closes marks the close filled once its exit is booked. *)
Settled ==
    /\ pc = "settled"
    /\ orders' = Row(job.settle, "filled")
    /\ IF job.back = "naked" /\ HasRow THEN pc' = "see_legs" /\ job' = [NoJob EXCEPT !.back = job.back] ELSE Leave
    /\ UNCHANGED <<kind, misnamed, venue, ledger, left>>

(* A cancellation whose reply is lost: orders are gone and no row says so. *)
Unheard(S) == [i \in Ids |-> IF i \in S /\ orders[i].at = "live" THEN [orders[i] EXCEPT !.at = "ended"]
                             ELSE orders[i]]

(* _cancel_protective_orders: everything resting comes off, or nothing is known. *)
CancelAll ==
    /\ pc = "cancel_all"
    /\ \/ /\ orders' = [i \in Ids |->
                LET o == IF orders[i].at = "live" THEN [orders[i] EXCEPT !.at = "ended"] ELSE orders[i]
                IN  IF o.purpose \in {"stop", "tp"} /\ Unresolved(i) THEN [o EXCEPT !.row = "cancelled"] ELSE o]
          /\ UNCHANGED left
       \/ Spend("unread") /\ \E gone \in SUBSET Ids : orders' = Unheard(gone)
    /\ IF job.how = "close" THEN Go("book_close") ELSE Return
    /\ UNCHANGED <<kind, misnamed, venue, ledger>>

(* move_stop: the new stop first, then the old one is cancelled. *)
Resize ==
    /\ pc = "resize"
    /\ \/ Linear /\ pc' = "send" /\ job' = [job EXCEPT !.id = 0] /\ UNCHANGED <<orders, left>>
       \/ Spot /\ coin > 0 /\ Record("stop", Least(book.qty, coin), "resize", job.back) /\ UNCHANGED left
       \/ Spot /\ (IF coin = 0 THEN UNCHANGED left ELSE Spend("unread")) /\ Return /\ UNCHANGED orders
    /\ UNCHANGED <<kind, misnamed, venue, ledger>>

Cancelled(S) == [i \in Ids |-> IF i \notin S THEN orders[i]
                               ELSE [orders[i] EXCEPT !.row = "cancelled", !.at = IF @ = "live" THEN "ended" ELSE @]]

Swap ==
    /\ pc = "swap"
    /\ \/ orders' = Cancelled({book.stopId} \ {0}) /\ UNCHANGED left
       \/ Spot /\ Spend("unread") /\ \E gone \in SUBSET {book.stopId} : orders' = Unheard(gone)
    /\ Go("name")
    /\ UNCHANGED <<kind, misnamed, venue, ledger>>

(* What an executed order means for the book. *)
Position(i) == [NoRow EXCEPT !.qty = orders[i].done, !.entry = i, !.opened = Len(orders)]

FillOfEntry ==
    /\ job.how = "entry"
    /\ book' = Position(job.id) /\ Go("mark")
    /\ UNCHANGED <<orders, trades>>

Whole(i) == book' = NoRow
            /\ trades' = IF Booked(<<"exit", i>>) THEN trades
                         ELSE trades \union {[key |-> <<"exit", i>>, qty |-> book.qty, entry |-> book.entry]}

\* close_position: on linear only a full execution closes the row, the rest is
\* left to observe_exits; on spot a partial one is booked at once
FillOfClose ==
    /\ job.how = "close"
    /\ LET done == orders[job.id].done IN
       \/ done >= book.qty /\ Go("cancel_all") /\ UNCHANGED <<book, trades>>
       \/ done < book.qty /\ Linear /\ Leave /\ UNCHANGED <<book, trades>>
       \/ done < book.qty /\ Spot /\ BookExit(job.id, done, <<"exit", job.id>>, FALSE)
    /\ UNCHANGED orders

\* _emergency_close books what sold; only a full execution takes the row away
FillOfFlatten ==
    /\ job.how = "flatten"
    /\ LET done == orders[job.id].done IN
       \/ done >= book.qty /\ Whole(job.id) /\ pc' = "cancel_all" /\ job' = [job EXCEPT !.how = "booked"]
       \/ done < book.qty /\ BookExit(job.id, done, <<"exit", job.id>>, FALSE)
    /\ UNCHANGED orders

Fill ==
    /\ pc = "fill"
    /\ FillOfEntry \/ FillOfClose \/ FillOfFlatten
    /\ UNCHANGED <<kind, misnamed, venue, killed, left>>

\* a confirmed close: the legs came off, then trade and row move together
BookClose ==
    /\ pc = "book_close"
    /\ Whole(job.id) /\ Leave
    /\ UNCHANGED <<kind, misnamed, orders, venue, killed, left>>

\* an entry is only filled once the book has its position
Mark ==
    /\ pc = "mark"
    /\ orders' = Row(job.id, "filled")
    /\ \/ job.how = "entry" /\ pc' = "place" /\ Becomes("enter")
       \/ job.how = "adopt" /\ book.entry = job.id /\ ~book.stop
          /\ pc' = "find" /\ Becomes("protect")
       \/ job.how = "adopt" /\ ~(book.entry = job.id /\ ~book.stop) /\ Leave
       \/ job.how = "boot" /\ Go("boot")
    /\ UNCHANGED <<kind, misnamed, venue, ledger, left>>

-----------------------------------------------------------------------------
(* Protection: _protect, _protect_or_close_naked, _emergency_close           *)

\* a stop already resting on spot is taken over; a failed read leaves it for later
Find ==
    /\ pc = "find"
    /\ \/ \E i \in Of({"stop"}) : Spot /\ orders[i].at = "live"
            /\ book' = [book EXCEPT !.stop = TRUE] /\ pc' = "name" /\ job' = [job EXCEPT !.id = i]
            /\ UNCHANGED left
       \/ (Spot => \A i \in Of({"stop"}) : orders[i].at # "live")
          /\ Go("place") /\ UNCHANGED <<book, left>>
       \/ Spend("unread") /\ Leave /\ UNCHANGED book
    /\ UNCHANGED <<kind, misnamed, orders, venue, trades, killed>>

ToFlatten == pc' = "free" /\ Becomes("flatten")

Place ==
    /\ pc = "place"
    /\ \/ Linear /\ pc' = "send" /\ job' = [job EXCEPT !.id = 0] /\ UNCHANGED <<orders, left>>
       \/ Spot /\ coin > 0 /\ Record("stop", Least(book.qty, coin), job.how, job.back) /\ UNCHANGED left
       \/ Spot /\ (IF coin = 0 THEN UNCHANGED left ELSE Spend("unread")) /\ ToFlatten /\ UNCHANGED orders
    /\ UNCHANGED <<kind, misnamed, venue, ledger>>

Live(i) == IF i = 0 THEN posStop ELSE orders[i].at = "live"

Verify ==
    /\ pc = "verify"
    /\ \/ Live(job.id) /\ book' = [book EXCEPT !.stop = TRUE] /\ Go("name") /\ UNCHANGED left
       \/ (IF Live(job.id) THEN Spend("unread") ELSE UNCHANGED left) /\ ToFlatten /\ UNCHANGED book
    /\ UNCHANGED <<kind, misnamed, orders, venue, trades, killed>>

\* the stop is named; _record_stop_id, which only re-protection calls, also
\* recovers the legs of a row that names none, whoever they were placed for
Name ==
    /\ pc = "name"
    /\ LET resting == {i \in Of({"tp"}) : orders[i].row \in {"pending", "submitted"}}
           legs    == IF job.how = "protect" /\ book.tps = {} THEN resting ELSE book.tps IN
       /\ book' = [book EXCEPT !.stopId = job.id, !.tps = legs]
       /\ misnamed' = IF \E i \in legs : i < book.entry THEN misnamed \union {book.entry} ELSE misnamed
    /\ IF job.how = "enter" THEN Go("legs") ELSE Return
    /\ UNCHANGED <<kind, orders, venue, trades, killed, left>>

Legs ==
    /\ pc = "legs"
    /\ \/ book.qty = Lot /\ Record("tp", 1, "tp", job.back)
       \/ Leave /\ UNCHANGED orders
    /\ UNCHANGED <<kind, misnamed, venue, ledger, left>>

\* _cancel_take_profit_legs: a leg the venue does not find is called cancelled too
Free ==
    /\ pc = "free"
    /\ LET legs == IF Spot THEN {i \in Of({"tp"}) : Unresolved(i)} ELSE {} IN
       \/ orders' = Cancelled(legs) /\ UNCHANGED left
       \/ legs # {} /\ Spend("unread") /\ \E gone \in SUBSET legs : orders' = Unheard(gone)
    /\ Go(IF job.how = "protect" THEN "find" ELSE "sell")
    /\ UNCHANGED <<kind, misnamed, venue, ledger>>

\* the reduce-only market sale of the row's size, on spot of at most the balance
Sell ==
    /\ pc = "sell"
    /\ LET purpose == IF job.how = "close" THEN "close" ELSE "emergency_close"
           qty     == IF Linear THEN book.qty ELSE Least(book.qty, coin) IN
       \/ qty > 0 /\ Record(purpose, qty, job.how, job.back) /\ UNCHANGED <<killed, left>>
       \/ /\ IF qty = 0 THEN UNCHANGED left ELSE Spend("unread")
          /\ killed' = (killed \/ job.how = "flatten")
          /\ Leave /\ UNCHANGED orders
    /\ UNCHANGED <<kind, misnamed, venue, book, trades>>

-----------------------------------------------------------------------------
(* The tick                                                                  *)

\* Mutant: the stream's terminal status is applied to every row.
BrokenHeld(i) == FALSE

\* drain_and_apply: a terminal status of the stream, late or never applied; an
\* entry's is held until a position records it (update_order_status)
Held(i) == orders[i].purpose = "entry" /\ book.entry # i

Streamed == {i \in Ids : Ended(i) /\ Unresolved(i) /\ ~Held(i)}
StreamStatus(i) == IF orders[i].done = orders[i].qty THEN "filled" ELSE "cancelled"

Drain ==
    /\ pc = "tick"
    /\ \E seen \in SUBSET (IF Stream THEN Streamed ELSE {}) :
         orders' = [i \in Ids |-> IF i \in seen THEN [orders[i] EXCEPT !.row = StreamStatus(i)] ELSE orders[i]]
    /\ Phase("resolve")
    /\ UNCHANGED <<kind, misnamed, venue, ledger, left>>

\* _adopt_filled_spot_entry: the position first, the order's status after it
Adopt(i) ==
    /\ ~HasRow \/ book.entry = i
    /\ book' = IF HasRow THEN book ELSE Position(i)
    /\ pc' = "mark" /\ job' = [job EXCEPT !.how = "adopt", !.id = i]
    /\ UNCHANGED <<orders, left>>

\* what the venue has not heard of is called never sent after 120 s, by when it
\* has arrived or never will
ResolveOne(i) ==
    \/ orders[i].at \in {"unsent", "lost"} /\ orders' = Row(i, "never_sent") /\ Leave /\ UNCHANGED <<book, left>>
    \/ ~Ended(i) /\ Leave /\ UNCHANGED <<orders, book, left>>
    \/ Ended(i) /\ orders[i].done = 0 /\ orders' = Row(i, "cancelled") /\ Leave /\ UNCHANGED <<book, left>>
    \/ Executed(i) /\ Spot /\ Adopt(i)
    \/ Executed(i) /\ (Linear \/ (HasRow /\ book.entry # i)) /\ Leave /\ UNCHANGED <<orders, book, left>>
    \/ Spend("unread") /\ Leave /\ UNCHANGED <<orders, book>>

OpenEntries == {i \in Of({"entry"}) : Unresolved(i)}

Resolve ==
    /\ pc = "resolve"
    /\ \/ OpenEntries = {} /\ Leave /\ UNCHANGED <<orders, book, left>>
       \/ \E i \in OpenEntries : ResolveOne(i)
    /\ UNCHANGED <<kind, misnamed, venue, trades, killed>>

\* observe_exits on linear: what the venue's position lost has exited, whatever took it
ObserveLinear ==
    LET gone == book.qty - coin IN
    \/ gone <= 0 /\ Leave /\ UNCHANGED <<book, trades, left>>
    \/ gone > 0 /\ BookExit(0, gone, <<"position", book.opened, book.qty, gone>>, FALSE) /\ UNCHANGED left
    \/ Spend("unread") /\ Leave /\ UNCHANGED <<book, trades>>

Observe ==
    /\ pc = "observe"
    /\ \/ ~HasRow /\ Leave /\ UNCHANGED <<book, trades, left>>
       \/ HasRow /\ Linear /\ ObserveLinear
       \/ HasRow /\ Spot /\ Go("settle") /\ UNCHANGED <<book, trades, left>>
    /\ UNCHANGED <<kind, misnamed, orders, venue, killed>>

\* _settle_pending_closes, for a close about to be sent and for spot's observer
PendingCloses == {i \in Closes : Unresolved(i)}
Stuck == IF job.how = "close" THEN Leave ELSE Go("see_legs")

SettleOne(i) ==
    \/ /\ i <= book.opened                                  \* sent for an earlier position
       /\ orders' = Row(i, "stale") /\ Go("settle") /\ UNCHANGED <<book, trades, left>>
    \/ /\ i > book.opened /\ Executed(i)
       /\ LET q == Least(orders[i].done, book.qty) IN
          /\ trades' = IF Booked(<<"exit", i>>) THEN trades
                       ELSE trades \union {[key |-> <<"exit", i>>, qty |-> q, entry |-> book.entry]}
          /\ book' = IF book.qty = q THEN NoRow ELSE [book EXCEPT !.qty = @ - q]
          /\ job' = [job EXCEPT !.settle = i, !.how = IF book.qty = q THEN "booked" ELSE "resize"]
          /\ pc' = IF book.qty = q THEN "cancel_all" ELSE IF book.stop THEN "resize" ELSE "settled"
       /\ UNCHANGED <<orders, left>>
    \/ /\ i > book.opened /\ Ended(i) /\ orders[i].done = 0
       /\ orders' = Row(i, "cancelled") /\ Go("settle") /\ UNCHANGED <<book, trades, left>>
    \/ /\ i > book.opened /\ ~Ended(i) /\ Stuck /\ UNCHANGED <<orders, book, trades, left>>
    \/ /\ i > book.opened /\ Spend("unread") /\ Stuck /\ UNCHANGED <<orders, book, trades>>

Settle ==
    /\ pc = "settle"
    /\ \/ PendingCloses = {} /\ Go(IF job.how = "close" THEN "free" ELSE "see_legs")
          /\ UNCHANGED <<orders, book, trades, left>>
       \/ PendingCloses # {} /\ SettleOne(Min(PendingCloses))
    /\ UNCHANGED <<kind, misnamed, venue, killed>>

\* _observe_spot_exits: the legs before the stop, one booked exit a cycle
SeeLegs ==
    /\ pc = "see_legs"
    /\ \/ \E i \in book.tps \ book.booked :
            /\ Executed(i)
            /\ BookExit(i, Least(orders[i].done, book.qty), <<"spot", i>>, TRUE)
            /\ UNCHANGED left
       \/ /\ IF \E i \in book.tps \ book.booked : Executed(i) THEN Spend("unread") ELSE UNCHANGED left
          /\ Go("see_stop") /\ UNCHANGED <<book, trades>>
    /\ UNCHANGED <<kind, misnamed, orders, venue, killed>>

SeeStop ==
    /\ pc = "see_stop"
    /\ LET i == book.stopId
           named == i # 0 /\ i \notin book.booked IN
       \/ ~(named /\ Ended(i)) /\ Leave /\ UNCHANGED <<book, trades, left>>
       \/ named /\ Executed(i) /\ BookExit(i, Least(orders[i].done, book.qty), <<"spot", i>>, TRUE) /\ UNCHANGED left
       \/ named /\ Ended(i) /\ orders[i].done = 0 /\ Go("dead") /\ UNCHANGED <<book, trades, left>>
       \/ named /\ Ended(i) /\ Spend("unread") /\ Leave /\ UNCHANGED <<book, trades>>
    /\ UNCHANGED <<kind, misnamed, orders, venue, killed>>

\* _handle_dead_spot_stop: only coin that is there is protected again
Dead ==
    /\ pc = "dead"
    /\ \/ coin < book.qty /\ Leave /\ UNCHANGED left
       \/ coin >= book.qty /\ pc' = "free" /\ Becomes("protect") /\ UNCHANGED left
       \/ Spend("unread") /\ Leave
    /\ UNCHANGED <<kind, misnamed, orders, venue, ledger>>

\* Mutant: the row is believed about its stop.
BrokenNaked ==
    /\ pc = "naked"
    /\ LET held  == Linear /\ HasRow /\ coin > 0
           naked == held /\ ~book.stop IN
       \/ ~naked /\ Leave /\ UNCHANGED left
       \/ naked /\ pc' = "find" /\ Becomes("protect") /\ UNCHANGED left
       \/ held /\ Spend("unread") /\ Leave
       \/ held /\ Spend("unread") /\ pc' = "find" /\ Becomes("protect")
    /\ UNCHANGED <<kind, misnamed, orders, venue, ledger>>

\* check_naked_positions: linear only, asked of the venue; a position that cannot be
\* read is left for the next tick, a stop that cannot be verified is no stop
Naked ==
    /\ pc = "naked"
    /\ LET held  == Linear /\ HasRow /\ coin > 0
           naked == held /\ ~posStop IN
       \/ ~naked /\ Leave /\ UNCHANGED left
       \/ naked /\ pc' = "find" /\ Becomes("protect") /\ UNCHANGED left
       \/ held /\ Spend("unread") /\ Leave
       \/ held /\ Spend("unread") /\ pc' = "find" /\ Becomes("protect")
    /\ UNCHANGED <<kind, misnamed, orders, venue, ledger>>

\* Mutant: the gate reads the positions, not the entries still open.
BrokenMayEnter == ~killed /\ ~HasRow

\* the gates (risk_management.py:590) and the horizon close (main.py:2020)
MayEnter == ~killed /\ ~HasRow /\ OpenEntries = {}

Decide ==
    /\ pc = "decide"
    /\ \/ Leave /\ UNCHANGED orders
       \/ MayEnter /\ Record("entry", Lot, "entry", "tick")
       \/ ~killed /\ HasRow /\ pc' = "settle" /\ Becomes("close") /\ UNCHANGED orders
    /\ UNCHANGED <<kind, misnamed, venue, ledger, left>>

-----------------------------------------------------------------------------
(* Stopping and starting                                                     *)

Dies ==
    /\ pc # "stopped" /\ Spend("crash")
    /\ pc' = "stopped" /\ job' = NoJob
    /\ UNCHANGED <<kind, misnamed, orders, venue, ledger>>

\* shutdown cancels what is pending, stops excepted; an entry's row is left alone
ShutsDown ==
    /\ pc = "observe" /\ Spend("crash")
    /\ LET pending == {i \in Ids : orders[i].row \in {"pending", "submitted"} /\ orders[i].purpose # "stop"} IN
       orders' = [i \in Ids |-> IF i \notin pending THEN orders[i]
                                ELSE [orders[i] EXCEPT !.at = IF @ = "live" THEN "ended" ELSE @,
                                                       !.row = IF orders[i].purpose = "entry" THEN @ ELSE "cancelled"]]
    /\ pc' = "stopped" /\ job' = NoJob
    /\ UNCHANGED <<kind, misnamed, venue, ledger>>

\* Requests of the last run have arrived or never will by the time it is asked.
Start ==
    /\ pc = "stopped" /\ \A i \in Ids : orders[i].at # "flying"
    /\ pc' = "boot" /\ job' = [NoJob EXCEPT !.back = "boot"]
    /\ UNCHANGED <<kind, misnamed, orders, venue, ledger, left>>

Seen(i) == job' = [job EXCEPT !.id = i] /\ UNCHANGED pc
Refuse(i) == job' = [job EXCEPT !.id = i, !.answer = "refused"] /\ UNCHANGED pc

\* _settle_terminal_order: what executed is in the book, or left to be booked,
\* before its row says so
BootEnded(i) ==
    LET purpose == orders[i].purpose IN
    \/ i \in Closes /\ Executed(i) /\ HasRow /\ Seen(i) /\ UNCHANGED <<orders, book>>
    \/ /\ purpose = "entry" /\ Executed(i) /\ Spot /\ ~HasRow
       /\ book' = Position(i) /\ pc' = "mark" /\ job' = [job EXCEPT !.how = "boot", !.id = i]
       /\ UNCHANGED orders
    \/ purpose = "entry" /\ Executed(i) /\ Spot /\ HasRow /\ book.entry # i /\ Refuse(i) /\ UNCHANGED <<orders, book>>
    \/ /\ ~(i \in Closes /\ Executed(i) /\ HasRow)
       /\ ~(purpose = "entry" /\ Executed(i) /\ Spot /\ book.entry # i)
       /\ orders' = Row(i, StreamStatus(i)) /\ Seen(i) /\ UNCHANGED book

\* a resting entry has nobody to watch it: it is cancelled and read again
BootLive(i) ==
    \/ orders[i].purpose = "entry" /\ orders' = At(i, "ended", 0) /\ UNCHANGED <<pc, job, left>>
    \/ orders' = Row(i, "submitted") /\ Seen(i)
       /\ IF orders[i].purpose = "entry" THEN Spend("unread") ELSE UNCHANGED left

\* reconcile_on_startup, order by order; stop rows are read by nobody afterwards
Boot ==
    /\ pc = "boot"
    /\ \E i \in Ids :
         /\ i > job.id /\ Unresolved(i) /\ orders[i].purpose # "stop"
         /\ \A j \in Ids : j > job.id /\ Unresolved(j) /\ orders[j].purpose # "stop" => i <= j
         /\ \/ Spend("unread") /\ Refuse(i) /\ UNCHANGED <<orders, book>>
            \/ orders[i].at \in {"unsent", "lost"} /\ orders' = Row(i, "never_sent") /\ Seen(i) /\ UNCHANGED <<book, left>>
            \/ Ended(i) /\ BootEnded(i) /\ UNCHANGED left
            \/ orders[i].at = "live" /\ BootLive(i) /\ UNCHANGED book
    /\ UNCHANGED <<kind, misnamed, venue, trades, killed>>

\* Mutant: a position without a row does not stop the start.
BrokenBootEnds ==
    /\ pc = "boot"
    /\ \A i \in Ids : i > job.id /\ orders[i].purpose # "stop" => ~Unresolved(i)
    /\ LET naked == HasRow /\ ~book.stop /\ ~(Linear /\ coin = 0) IN
         /\ pc' = IF naked THEN "find" ELSE "ready"
         /\ job' = IF naked THEN [NoJob EXCEPT !.how = "protect", !.back = "ready"] ELSE NoJob
    /\ UNCHANGED <<kind, misnamed, orders, venue, ledger, left>>

\* reconcile: a naked row is protected, an orphan at the venue stops the start
BootEnds ==
    /\ pc = "boot"
    /\ \A i \in Ids : i > job.id /\ orders[i].purpose # "stop" => ~Unresolved(i)
    /\ \E orphan \in BOOLEAN :
         LET held    == Linear /\ coin > 0 /\ ~HasRow
             refused == job.answer = "refused" \/ orphan
             naked   == HasRow /\ ~book.stop /\ ~(Linear /\ coin = 0)
         IN  /\ IF orphan = held THEN UNCHANGED left ELSE orphan /\ Linear /\ Spend("unread")
             /\ pc' = IF naked THEN "find" ELSE IF refused THEN "stopped" ELSE "ready"
             /\ job' = IF naked THEN [NoJob EXCEPT !.how = "protect", !.back = IF refused THEN "stopped" ELSE "ready"]
                                ELSE NoJob
    /\ UNCHANGED <<kind, misnamed, orders, venue, ledger>>

\* a tripped kill switch waits for a human
Ready ==
    /\ pc = "ready"
    /\ Phase(IF killed THEN "stopped" ELSE "tick")
    /\ UNCHANGED <<kind, misnamed, orders, venue, ledger, left>>

-----------------------------------------------------------------------------
DirectionalInit ==
    /\ kind \in Kinds
    /\ orders = <<>>
    /\ coin = (IF kind = "spot" THEN OtherCoin ELSE 0) /\ posStop = FALSE
    /\ book = NoRow /\ trades = {} /\ killed = FALSE
    /\ pc = "tick" /\ job = NoJob
    /\ left = MaxFaults /\ misnamed = {}

Sends == Send \/ Reply \/ Poll \/ Fill \/ Mark \/ BookClose
Protects == Find \/ Place \/ Verify \/ Name \/ Legs \/ Free \/ Sell
Books == Returns \/ Settled \/ CancelAll \/ Resize \/ Swap
Ticks == Drain \/ Resolve \/ Observe \/ Settle \/ SeeLegs \/ SeeStop \/ Dead \/ Naked \/ Decide
Starts == Boot \/ BootEnds \/ Ready \/ Start
Engine == Sends \/ Protects \/ Books \/ Ticks \/ Starts

DirectionalNext == Venue \/ Engine \/ Dies \/ ShutsDown

DirectionalSpec == DirectionalInit /\ [][DirectionalNext]_vars

\* The engine's thread runs, and is started again; the venue settles what it has.
DirectionalFairSpec == DirectionalSpec /\ WF_vars(Engine) /\ WF_vars(Arrives)

-----------------------------------------------------------------------------
Down == pc \in {"stopped", "boot", "ready"}

\* A bought spot lot is never forgotten, whatever was lost, late or written by
\* the stream: it has a position or a trade, or its entry's row stays open and
\* so keeps blocking the symbol until the lot is adopted. (A row that names a
\* leg of an earlier position is the exception: what that leg sold is taken off
\* it a second time, and record_trade writes no second trade.)
EntriesAreKnown ==
    \A i \in Of({"entry"}) : Spot /\ Executed(i) =>
        \/ Unresolved(i) \/ book.entry = i
        \/ i \in misnamed \/ \E t \in trades : t.entry = i

\* The same with nothing excepted. _observe_spot_exits books each exit "once",
\* record_exit_fill says "it must be booked once, not twice": a lot that left
\* the book has left a trade.
LotsAreBooked ==
    \A i \in Of({"entry"}) : Spot /\ Executed(i) =>
        Unresolved(i) \/ book.entry = i \/ \E t \in trades : t.entry = i

OnItsWay(i) == orders[i].at \in {"flying", "live"}

\* Linear: the lot went before another one was bought.
GoneBefore(i, j) ==
    Linear /\ (coin = 0 \/ \E k \in Of({"entry"}) : i < k /\ k < j /\ Executed(k))

\* No entry is on its way to the venue while another one is, while the book
\* has a position, or while an earlier lot is neither booked out nor (where
\* the venue says so) gone.
OneEntryAtATime ==
    \A i, j \in Of({"entry"}) : i < j /\ OnItsWay(j) =>
        /\ ~OnItsWay(i) /\ ~HasRow
        /\ Executed(i) => i \in misnamed \/ (\E t \in trades : t.entry = i) \/ GoneBefore(i, j)

SoldByCloses == MapThenSumSet(LAMBDA i : orders[i].done, {i \in Closes : Booked(<<"exit", i>>)})

\* On linear, what the venue holds beyond the book is at most `excess`, unless
\* an executed entry is still to be resolved.
HeldBeyond(excess) ==
    Linear /\ ~Down => coin <= book.qty + excess \/ \E i \in Of({"entry"}) : Executed(i) /\ Unresolved(i)

\* A running engine's book covers what the venue holds, but for closes that
\* were booked from their own fill: no crash, lost reply, failed read or orphan
\* at start-up lets it trade beside a position it does not know.
NothingForgotten == HeldBeyond(SoldByCloses)

\* The same with nothing allowed for: each sale takes its quantity off the book
\* once. record_exit_fill: "it must be booked once, not twice".
HeldIsBooked == HeldBeyond(0)

\* A linear position that lost its stop, or never got one, gets one again, is
\* flattened, or trips the kill switch; an emergency close needs an order, so
\* the bound on orders ends the claim.
NakedNow == HasRow /\ coin > 0 /\ ~posStop
NakedIsDealtWith == (Linear /\ NakedNow) ~> (killed \/ ~NakedNow \/ Len(orders) = MaxOrders[kind])

\* _settle_pending_closes: "Never send a second close beside one whose outcome
\* is unknown"; an execution that no trade records is an outcome not known.
NoSecondClose ==
    \A i, j \in Closes : i < j /\ Executed(i) /\ ~Booked(<<"exit", i>>) => orders[j].at # "live"
=============================================================================
