------------------------------ MODULE CarryVenue ------------------------------
(***************************************************************************)
(* The venue and the network between it and the bot, as the carry code     *)
(* relies on them.  Nothing under src/ implements this: it is modelled     *)
(* from what bybit_connection._request, carry_broker and order_recovery    *)
(* expect of it.                                                           *)
(*                                                                         *)
(*   - a create request is sent in up to `Attempts' copies; each copy may  *)
(*     be lost, delayed or processed, and its answer may be lost;          *)
(*   - a copy is processed only while its signature is inside the receive  *)
(*     window: none is, LandBy ticks after the submit marker;              *)
(*   - the venue judges the copies of one request alike: once it refused   *)
(*     one it accepts no other, and once it accepted one it answers every  *)
(*     other with a duplicate-id code;                                     *)
(*   - an order just accepted can be missing from the order lists for up   *)
(*     to Lag ticks; after that its record is always found;                *)
(*   - a live order fills lot by lot and may end at any time, cancelled    *)
(*     (with or without fills) or rejected (without).                      *)
(***************************************************************************)
EXTENDS Integers, OrderIds

CONSTANTS
    Attempts,   \* copies of one create request: REQUEST_ATTEMPTS
    LandBy,     \* ticks after the submit marker in which a copy may land
    Lag,        \* ticks an accepted order may be missing from the lists
    Window      \* the absence window of order_recovery.absence_window_s

ASSUME AttemptsAssumption == Attempts \in Nat \ {0}
\* absence_window_s is the transport's worst case plus the receive window: the
\* silence of the venue is proof only when it outlasts both delays.
ASSUME WindowAssumption ==
    /\ LandBy \in Nat \ {0} /\ Lag \in Nat /\ Window \in Nat
    /\ LandBy + Lag <= Window

VARIABLES
    venue,      \* the venue's record of each order
    net,        \* copies and answers in flight, per order
    age         \* ticks since the order's submit marker, up to Window

venueVars == <<venue, net, age>>

-------------------------------------------------------------------------------
Ended == {"filled", "cancelled", "rejected"}

VenueRows == [st : {"none", "live"} \cup Ended, cum : Nat, qty : Nat,
              seen : BOOLEAN, dark : Nat, refused : BOOLEAN]

Answers == {"ok", "refused", "duplicate"}

Nets == [out : SUBSET (1..Attempts), back : SUBSET Answers, qty : Nat]

VenueTypeOK ==
    /\ venue \in [Links -> VenueRows]
    /\ net \in [Links -> Nets]
    /\ age \in [Links -> 0..Window]

VenueInit ==
    /\ venue = [l \in Links |-> [st |-> "none", cum |-> 0, qty |-> 0, seen |-> FALSE,
                                 dark |-> 0, refused |-> FALSE]]
    /\ net = [l \in Links |-> [out |-> {}, back |-> {}, qty |-> 0]]
    /\ age = [l \in Links |-> 0]

\* No copy of this request can become an order any more, and none is one.
Dead(l) ==
    \/ venue[l].st \in Ended
    \/ /\ venue[l].st = "none"
       /\ venue[l].refused \/ net[l].out = {} \/ age[l] >= LandBy

-------------------------------------------------------------------------------
\* The client puts copy i of the request on the wire.
Post(l, i, q) ==
    net' = [net EXCEPT ![l].out = @ \cup {i}, ![l].qty = q]

\* Copy i is answered; the answer is lost unless the client still waits for it.
Answer(l, i, said, awaited) ==
    net' = [net EXCEPT ![l].out = @ \ {i},
                       ![l].back = IF i = awaited THEN {said} ELSE @]

\* The client has its answer, or has stopped waiting for one.
HangUp(l) == net' = [net EXCEPT ![l].back = {}]

\* The venue processes copy i.
LandAccepted(l, i, awaited) ==
    /\ venue[l].st = "none" /\ ~venue[l].refused
    /\ \E seen \in BOOLEAN :
          venue' = [venue EXCEPT ![l].st = "live", ![l].qty = net[l].qty,
                                 ![l].seen = seen]
    /\ Answer(l, i, "ok", awaited)

LandRefused(l, i, awaited) ==
    /\ venue[l].st = "none"
    /\ venue' = [venue EXCEPT ![l].refused = TRUE]
    /\ Answer(l, i, "refused", awaited)

LandDuplicate(l, i, awaited) ==
    /\ venue[l].st # "none"
    /\ Answer(l, i, "duplicate", awaited)
    /\ UNCHANGED venue

Land(l, awaited) ==
    /\ age[l] < LandBy
    /\ \E i \in net[l].out :
          \/ LandAccepted(l, i, awaited)
          \/ LandRefused(l, i, awaited)
          \/ LandDuplicate(l, i, awaited)
    /\ UNCHANGED age

Fill(l) ==
    /\ venue[l].st = "live"
    /\ venue' = [venue EXCEPT
                    ![l].cum = @ + 1,
                    ![l].st = IF venue[l].cum + 1 = venue[l].qty THEN "filled" ELSE @]
    /\ UNCHANGED <<net, age>>

End(l) ==
    /\ venue[l].st = "live"
    /\ \E how \in {"cancelled", "rejected"} :
          /\ how = "rejected" => venue[l].cum = 0
          /\ venue' = [venue EXCEPT ![l].st = how]
    /\ UNCHANGED <<net, age>>

Show(l) ==
    /\ venue[l].st # "none" /\ ~venue[l].seen
    /\ venue' = [venue EXCEPT ![l].seen = TRUE, ![l].dark = 0]
    /\ UNCHANGED <<net, age>>

VenueStep(l, awaited) == Land(l, awaited) \/ Fill(l) \/ End(l) \/ Show(l)

(***************************************************************************)
(* One tick for the orders in `aging', those whose age can still matter.   *)
(* A copy that reaches the end of its receive window is gone.              *)
(***************************************************************************)
Hidden(l) == venue[l].st # "none" /\ ~venue[l].seen

Older(l, aging) == IF l \in aging /\ age[l] < Window THEN age[l] + 1 ELSE age[l]

Tick(aging) ==
    /\ \E l \in aging : age[l] < Window
    /\ \A l \in Links : Hidden(l) => venue[l].dark < Lag
    /\ age' = [l \in Links |-> Older(l, aging)]
    /\ net' = [l \in Links |->
                  IF Older(l, aging) < LandBy THEN net[l]
                                             ELSE [net[l] EXCEPT !.out = {}]]
    /\ venue' = [l \in Links |->
                    IF Hidden(l) THEN [venue[l] EXCEPT !.dark = @ + 1] ELSE venue[l]]

-------------------------------------------------------------------------------
(***************************************************************************)
(* What a read of one order can return (carry_broker._order_state): an     *)
(* error, no row, or the venue's row.  Realtime and history are asked one  *)
(* after the other and count as one read: an order that ends between them  *)
(* is found in the second.                                                 *)
(***************************************************************************)
Reading(kind, cum, st) ==
    [kind |-> kind, cum |-> cum, resting |-> st = "live", rejected |-> st = "rejected"]

ReadError == Reading("error", 0, "none")

ReadOrder(l) ==
    IF venue[l].st # "none" /\ venue[l].seen
    THEN Reading("row", venue[l].cum, venue[l].st)
    ELSE Reading("none", 0, "none")

Reads(l) == {ReadError, ReadOrder(l)}

\* "A fresh order that is already terminal with nothing filled": _rejected.
FinalUnfilled(r) == r.kind = "row" /\ ~r.resting /\ r.cum = 0
===============================================================================
