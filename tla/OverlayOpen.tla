----------------------------- MODULE OverlayOpen -----------------------------
(***************************************************************************)
(* The carry engine opening its hedge in OVERLAY mode, maker first:        *)
(* carry_engine._open_overlay, _rest_then_take, _rest, _take, _halt and    *)
(* _record, on top of the broker, the order log, the venue, crashes, the   *)
(* recovery pass and the cold-start comparison (plan_cold_start).          *)
(*                                                                         *)
(* The short is opened against inventory the client already holds, so the  *)
(* one thing that must never happen is that more is sold than was asked    *)
(* for: a resting order the book lost sight of plus the market order that  *)
(* replaces it.                                                            *)
(*                                                                         *)
(* Not modelled: pricing, sizing and the other entry gates (each can only  *)
(* refuse to start), and the buy-back of a fill larger than the inventory, *)
(* which an order no larger than the inventory cannot cause.  The size     *)
(* asked for is the constant Wanted, in lots; it never exceeds the         *)
(* inventory (carry_engine.py:1840).                                       *)
(***************************************************************************)
EXTENDS CarryBroker, FiniteSetsExt

CONSTANT Wanted

\* A size of zero stands aside (carry_engine.py:1845).
ASSUME WantedAssumption == Wanted \in Nat \ {0} /\ 1..Wanted \subseteq Quantities

\* What the orders come to is a sum over all of them.
ASSUME FiniteAssumption == IsFiniteSet(Links)

VARIABLES
    book,       \* the engine's state in memory
    leg,        \* the leg being opened: what was asked, what rested and filled
    held,       \* the short the engine holds, in memory
    ledger      \* the ledger on disk: book state and position

engineVars == <<book, leg, held, ledger>>

allVars == <<vars, engineVars>>

-------------------------------------------------------------------------------
Books == {"STARTING", "FLAT", "OPENING", "HEDGED", "HALTED"}

NoLeg == [pc |-> "none", want |-> 0, maker |-> 0, link |-> Idle.link]

EngineInit ==
    /\ Init
    /\ book = "FLAT"
    /\ leg = NoLeg
    /\ held = 0
    /\ ledger = [state |-> "FLAT", qty |-> 0]

\* The next minted id.
Fresh == CHOOSE l \in Links : ~Recorded(l)

CanMint == \E l \in Links : ~Recorded(l)

AtLeg(pc) == mode = "trading" /\ book = "OPENING" /\ leg.pc = pc

Answered(kinds) == call.pc = "return" /\ call.got.kind \in kinds

BrokerIdle == call' = Idle /\ UNCHANGED orders /\ LocalBlind

-------------------------------------------------------------------------------
\* A write of the ledger, or its loss.  _halt and _refused go on without it.
TryPersist(state, qty) ==
    ledger' = [state |-> state, qty |-> qty] \/ UNCHANGED ledger

\* carry_risk._unresolved_orders_block: nothing new while an order is open.
OpenOverlay ==
    /\ mode = "trading" /\ book = "FLAT" /\ call.pc = "idle"
    /\ UnresolvedOrders = {}
    /\ book' = "OPENING"
    /\ \E pc \in {"rest", "take"} : leg' = [NoLeg EXCEPT !.pc = pc, !.want = Wanted]
    /\ UNCHANGED <<vars, held, ledger>>

Rest ==
    /\ AtLeg("rest") /\ CanMint
    /\ PlacePostOnly(Fresh, leg.want)
    /\ leg' = [leg EXCEPT !.pc = "resting", !.link = Fresh]
    /\ UNCHANGED <<book, held, ledger>>

\* _halt from inside _rest: the leg is dropped, whatever rested or filled.
HaltResting ==
    /\ book' = "HALTED"
    /\ leg' = NoLeg
    /\ TryPersist("HALTED", 0)
    /\ UNCHANGED held

Rested ==
    /\ AtLeg("resting")
    /\ \/ Answered({"unknown", "refused"}) /\ HaltResting
       \/ /\ Answered({"none"})
          /\ leg' = [leg EXCEPT !.pc = "take"]
          /\ UNCHANGED <<book, held, ledger>>
       \/ /\ Answered({"row"})
          /\ leg' = [leg EXCEPT
                        !.maker = call.got.cum,
                        !.pc = IF call.got.cum >= leg.want \/ ~call.got.resting
                               THEN "take" ELSE "waiting"]
          /\ UNCHANGED <<book, held, ledger>>
    /\ BrokerIdle

Pull ==
    /\ AtLeg("waiting")
    /\ CancelOrder(leg.link)
    /\ leg' = [leg EXCEPT !.pc = "cancelling"]
    /\ UNCHANGED <<book, held, ledger>>

BrokenStillResting(g) == FALSE

\* The cancel did not take: the order can fill after this.
StillResting(g) == g.resting

BrokenMakerFill(known, said) == known

\* What the maker order filled: the larger of what was known and what the
\* cancelled order's record says (fills arrive between the two).
MakerFill(known, said) == Larger(known, said)

Pulled ==
    /\ AtLeg("cancelling")
    /\ \/ Answered({"unknown"}) /\ HaltResting
       \/ Answered({"row"}) /\ StillResting(call.got) /\ HaltResting
       \/ /\ Answered({"row"}) /\ ~StillResting(call.got)
          /\ leg' = [leg EXCEPT !.pc = "take", !.maker = MakerFill(@, call.got.cum)]
          /\ UNCHANGED <<book, held, ledger>>
    /\ BrokerIdle

Remainder == leg.want - leg.maker

Take ==
    /\ AtLeg("take") /\ CanMint /\ Remainder > 0
    /\ PlaceMarket(Fresh, Remainder)
    /\ leg' = [leg EXCEPT !.pc = "taking"]
    /\ UNCHANGED <<book, held, ledger>>

\* The leg is over with `filled' on it: nothing, a hedge, or a fill the book
\* holds while an order of unknown outcome has halted it.
Filled(filled) ==
    /\ leg' = NoLeg
    /\ held' = filled
    /\ IF filled = 0
       THEN book' = "FLAT" /\ TryPersist("FLAT", 0)
       ELSE \/ book' = "HEDGED" /\ ledger' = [state |-> "HEDGED", qty |-> filled]
            \/ book' = "HALTED" /\ UNCHANGED ledger

FilledAndHalted(filled) ==
    /\ leg' = NoLeg
    /\ held' = filled
    /\ book' = "HALTED"
    /\ TryPersist("HALTED", filled)

NothingLeft ==
    /\ AtLeg("take") /\ call.pc = "idle" /\ Remainder <= 0
    /\ Filled(leg.maker)
    /\ UNCHANGED vars

Took ==
    /\ AtLeg("taking")
    /\ \/ Answered({"unknown"}) /\ FilledAndHalted(leg.maker)
       \/ Answered({"refused", "none"}) /\ Filled(leg.maker)
       \/ Answered({"row"}) /\ Filled(leg.maker + call.got.cum)
    /\ BrokerIdle

Engine ==
    \/ OpenOverlay \/ Rest \/ Rested \/ Pull \/ Pulled \/ Take \/ NothingLeft \/ Took

-------------------------------------------------------------------------------
(***************************************************************************)
(* The life of the process.                                                *)
(***************************************************************************)
Die ==
    /\ Crash
    /\ book' = "STARTING"
    /\ leg' = NoLeg
    /\ held' = 0
    /\ UNCHANGED ledger

VenueShort == MapThenSumSet(LAMBDA l : venue[l].cum, Links)

OpenAtVenue == {l \in Links : venue[l].st = "live" /\ venue[l].seen}

BrokenColdStartAgrees == OpenAtVenue = {} /\ ledger.state # "HALTED"

\* plan_cold_start: every disagreement between ledger and venue is a halt.
ColdStartAgrees ==
    /\ OpenAtVenue = {}
    /\ ledger.state # "HALTED"
    /\ VenueShort = ledger.qty

ColdStart ==
    /\ mode = "trading" /\ book = "STARTING"
    /\ IF ColdStartAgrees
       THEN /\ book' = IF ledger.qty = 0 THEN "FLAT" ELSE "HEDGED"
            /\ held' = ledger.qty
            /\ UNCHANGED mode
       ELSE /\ book' = "HALTED"
            /\ mode' = "protect"
            /\ UNCHANGED held
    /\ UNCHANGED <<orders, venue, net, age, call, todo, blind, leg, ledger>>

EngineNext ==
    \/ Engine \/ Die \/ ColdStart
    \/ (Procedure \/ Recovery \/ Outside) /\ UNCHANGED engineVars

EngineSpec == EngineInit /\ [][EngineNext]_allVars

-------------------------------------------------------------------------------
(***************************************************************************)
(* Properties.                                                             *)
(***************************************************************************)

\* What an order can still come to: its fills once it is over, all that was sent
\* while it is not.
Potential(l) == IF Dead(l) THEN venue[l].cum ELSE net[l].qty

Exposure == MapThenSumSet(Potential, Links)

\* However the maker order, its cancel, the crossing order, lost answers and
\* restarts interleave, the account can never end up shorter than the inventory
\* (carry_engine.py:2007-2008, 3864-3878).
NeverOversold == blind = {} => Exposure <= Wanted

\* A book that may open starts from nothing: no order of an earlier leg is live,
\* can still land, or has filled (carry_risk.py:219-224, carry_engine.py:336-338).
FlatMeansFlat ==
    mode = "trading" /\ book = "FLAT" /\ blind = {} => Exposure = 0

\* A hedged book holds what the venue filled, unless an order it booked from a
\* claim is still on file as unresolved (carry_broker.py:912-918).
HedgeIsWhatFilled ==
    mode = "trading" /\ book = "HEDGED" /\ UnresolvedOrders = {} /\ blind = {} =>
        /\ Exposure = held
        /\ ledger = [state |-> "HEDGED", qty |-> held]
===============================================================================
