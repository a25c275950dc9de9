------------------------------- MODULE CarryPair -------------------------------
(***************************************************************************)
(* The carry engine's hedge from open to close, with one order at a time:  *)
(* the ACQUIRE pair (buy spot, short the perpetual, undo both) and the     *)
(* OVERLAY hedge of the client's own coin, closed by one order.  Who told  *)
(* the truth is the question: the venue's position list lags or fails,     *)
(* orders fill in part, are refused or answered by nothing, the ledger     *)
(* cannot be written, the process dies, and others trade the account.      *)
(*                                                                         *)
(* The broker is reduced to its answer (CarryBroker has its procedure) and *)
(* an order of unknown outcome may fill until it is settled.  Quantities   *)
(* are lots, and one lot of delta is out of the band.  Fees taken in coin  *)
(* are dust, except when their currency is unknown.  A read with its       *)
(* re-reads is one step; the list has caught up by the next tick.  Left    *)
(* out: the maker-first leg (OverlayOpen), the staged close (CloseExecutor)*)
(* and the gates before an open, the kill switch among them, which can     *)
(* only refuse it.  Bound: MaxTroubles faults and trades of others.        *)
(* Definitions named Broken... are defects the code does not have.         *)
(***************************************************************************)
EXTENDS Integers

CONSTANTS PairSize, MaxTroubles

ASSUME PairAssumption == PairSize \in Nat \ {0} /\ MaxTroubles \in Nat

VARIABLES
    style,      \* "ACQUIRE" or "OVERLAY"
    book, pair, \* the engine's state and position; both legs 0 is no position
    ledger,     \* the ledger on disk
    unwritten,  \* a halt could not be written and is retried
    verified,   \* book and venue agreed, and no order of ours since
    closed,     \* what others closed since then, by the venue's own records
    task,       \* where the engine's thread is
    short, was, \* the venue's short, and before its last change
    coin,       \* the coin in the wallet
    loose,      \* an order of unknown outcome that may still fill
    alien,      \* what others shorted
    troubles,   \* faults still to come
    doubt, guessed  \* observers: an outcome stayed unknown; a close sized by a
                    \* list that lagged was not confirmed.  No action reads them

pairVars == <<style, book, pair, ledger, unwritten, verified, closed, task, short, was,
              coin, loose, alien, troubles, doubt, guessed>>
engineMemory == <<book, pair, ledger, unwritten, task>>
market == <<short, was, coin, loose, alien>>
observers == <<doubt, guessed>>

-------------------------------------------------------------------------------
Acquire == style = "ACQUIRE"
Least(a, b) == IF a < b THEN a ELSE b
Most(a, b) == IF a > b THEN a ELSE b

Legs(spot, perp) == [spot |-> spot, perp |-> perp]
NoPair == Legs(0, 0)

Unread == -1        \* a read that failed
Unknown == -1       \* an order's outcome

NoOrder == [job |-> "none", qty |-> 0]

NoTask == [at |-> "idle", job |-> "none", qty |-> 0, got |-> 0, keep |-> 0,
           seen |-> FALSE, viewed |-> TRUE]

Step(at) == [task EXCEPT !.at = at]
Order(job, qty, keep) ==
    [task EXCEPT !.at = "order", !.job = job, !.qty = qty, !.got = 0, !.keep = keep]

Ready(b) == book = b /\ task = NoTask
Answered(job) == task.at = "answer" /\ task.job = job

Pay(n) == troubles >= n /\ troubles' = troubles - n

Onward(next) == task' = next /\ UNCHANGED <<book, pair, ledger, unwritten>>

-------------------------------------------------------------------------------
(* Writing the ledger.                                                     *)

\* _record: a write that fails halts the book, and that halt is not written.
WriteLedger(b, p, next, n) ==
    /\ pair' = p
    /\ \/ Pay(n) /\ book' = b /\ ledger' = [book |-> b, pair |-> p] /\ task' = next
       \/ Pay(n + 1) /\ book' = "HALTED" /\ task' = NoTask /\ UNCHANGED ledger
    /\ UNCHANGED unwritten

\* _halt: written at once, or on a later tick.
Halt(p, n) ==
    /\ book' = "HALTED" /\ pair' = p /\ task' = NoTask
    /\ \/ Pay(n) /\ ledger' = [book |-> "HALTED", pair |-> p] /\ UNCHANGED unwritten
       \/ Pay(n + 1) /\ unwritten' = TRUE /\ UNCHANGED ledger

\* _refused: nothing landed; a marker that cannot be taken down stays.
Refuse ==
    /\ book' = "FLAT" /\ pair' = NoPair /\ task' = NoTask
    /\ \/ Pay(0) /\ ledger' = [book |-> "FLAT", pair |-> NoPair]
       \/ Pay(1) /\ UNCHANGED ledger
    /\ UNCHANGED unwritten

RetryHalt ==
    /\ Ready("HALTED") /\ unwritten
    /\ ledger' = [book |-> "HALTED", pair |-> pair]
    /\ unwritten' = FALSE
    /\ UNCHANGED <<style, book, pair, verified, closed, task, market, troubles, observers>>

-------------------------------------------------------------------------------
(* The venue: reads of the position, and an order.                         *)

\* A list that lags shows the position before, or on the way to, its last change.
Lagging == (Least(was, short) .. Most(was, short)) \ {short}

ShortReads ==
    {[v |-> short, n |-> 0], [v |-> Unread, n |-> 1]} \cup {[v |-> x, n |-> 1] : x \in Lagging}

Covers == {"closePerp", "trimPerp", "buyPerp"}
Sales == {"sellSpot", "dumpSpot", "saveSpot"}

\* Covers are reduce-only, and coin that is not there cannot be sold.
Room(job) == IF job \in Covers THEN short ELSE IF job \in Sales THEN coin ELSE PairSize

Traded(job, d) ==
    /\ short' = CASE job = "sellPerp" -> short + d [] job \in Covers -> short - d
                  [] OTHER -> short
    /\ coin' = CASE job = "buySpot" -> coin + d [] job \in Sales -> coin - d
                 [] OTHER -> coin
    /\ was' = IF short' = short THEN was ELSE short
    /\ alien' = Least(alien, short')

Fills(d, n) ==
    /\ Pay(n) /\ Traded(task.job, d) /\ UNCHANGED <<loose, doubt>>
    /\ task' = [task EXCEPT !.at = "answer", !.got = d]

\* place_market: filled, filled in part, refused, or raised with the order out.
SendOrder ==
    /\ task.at = "order"
    /\ LET fits == task.qty <= Room(task.job)
       IN  \/ fits /\ Fills(task.qty, 0)
           \/ fits /\ \E d \in 0 .. task.qty - 1 : Fills(d, 1)
           \/ ~fits /\ Fills(0, 0)
           \/ /\ fits /\ Pay(1)
              /\ loose' = [job |-> task.job, qty |-> task.qty]
              /\ doubt' = TRUE
              /\ task' = [task EXCEPT !.at = "answer", !.got = Unknown]
              /\ UNCHANGED <<short, was, coin, alien>>
    /\ verified' = (verified /\ task.job \in Sales \cup {"buySpot"})
    /\ UNCHANGED <<style, book, pair, ledger, unwritten, closed, guessed>>

LooseEnds ==
    /\ loose # NoOrder
    /\ \E d \in 0 .. Least(loose.qty, Room(loose.job)) : Traded(loose.job, d)
    /\ loose' = NoOrder
    /\ UNCHANGED <<style, engineMemory, verified, closed, troubles, observers>>

-------------------------------------------------------------------------------
(* Opening.                                                                *)

BrokenOpeningMark == Onward(Order("buySpot", PairSize, 0)) /\ Pay(0)

\* The marker is on disk before the buy that leaves no trace in the position.
OpeningMark == WriteLedger("OPENING", NoPair, Order("buySpot", PairSize, 0), 0)

OpenPair ==
    /\ Ready("FLAT") /\ short = 0 /\ was' = short
    /\ \/ Acquire /\ OpeningMark
       \/ /\ ~Acquire /\ coin > 0 /\ Pay(0)
          /\ book' = "OPENING" /\ task' = Order("sellPerp", Least(PairSize, coin), 0)
          /\ UNCHANGED <<pair, ledger, unwritten>>
    /\ UNCHANGED <<style, verified, closed, short, coin, loose, alien, observers>>

\* check_venue_flat_while_flat.
Orphan ==
    /\ Ready("FLAT") /\ short # 0
    /\ Halt(NoPair, 0)
    /\ UNCHANGED <<style, verified, closed, market, observers>>

BoughtSpot ==
    /\ Answered("buySpot")
    /\ \/ task.got = Unknown /\ Halt(NoPair, 0)
       \/ task.got = 0 /\ Refuse
       \/ task.got > 0 /\ Halt(Legs(task.got, 0), 1)      \* SPOT_FEE_UNVERIFIABLE
       \/ task.got > 0 /\ Onward(Order("sellPerp", task.got, task.got)) /\ Pay(0)
    /\ UNCHANGED <<style, verified, closed, market, observers>>

StartUnwind(p) ==
    /\ book' = "UNWINDING" /\ pair' = p /\ Pay(0)
    /\ task' = [NoTask EXCEPT !.at = "unwind", !.seen = verified]
    /\ UNCHANGED <<ledger, unwritten>>

\* The second leg: none, unknown, smaller than the first, or a pair.
PairedUp ==
    LET spot == task.keep
    IN  \/ task.got = Unknown /\ Halt(Legs(spot, 0), 0)
        \/ /\ task.got = 0 /\ Pay(0)
           /\ book' = "UNWINDING" /\ task' = Order("dumpSpot", spot, spot)
           /\ UNCHANGED <<pair, ledger, unwritten>>
        \/ task.got \in 1 .. spot - 1 /\ StartUnwind(Legs(spot, task.got))
        \/ /\ task.got = spot
           /\ WriteLedger("HEDGED", Legs(spot, spot), [NoTask EXCEPT !.at = "confirm"], 0)

SoldPerp ==
    /\ Answered("sellPerp")
    /\ \/ Acquire /\ PairedUp
       \/ ~Acquire /\ task.got = Unknown /\ Halt(NoPair, 0)
       \/ ~Acquire /\ task.got = 0 /\ Refuse
       \/ ~Acquire /\ task.got > 0 /\ WriteLedger("HEDGED", Legs(task.got, task.got), NoTask, 0)
    /\ UNCHANGED <<style, verified, closed, market, observers>>

\* _confirm_venue_after_open.
ConfirmOpen ==
    /\ task.at = "confirm"
    /\ Onward(NoTask)
    /\ \/ Pay(0) /\ verified' = (short = pair.perp)
       \/ Pay(1) /\ verified' = FALSE
    /\ closed' = 0
    /\ UNCHANGED <<style, market, observers>>

\* What _emergency_unwind_spot could not sell is kept as a position.
DumpLeft(left) == Legs(left, 0)

\* _emergency_unwind_spot, once its sale is answered.
DumpedSpot ==
    /\ Answered("dumpSpot")
    /\ IF task.got = task.keep
       THEN WriteLedger("FLAT", NoPair, NoTask, 0)
       ELSE Halt(DumpLeft(task.keep - Most(task.got, 0)), 0)
    /\ UNCHANGED <<style, verified, closed, market, observers>>

-------------------------------------------------------------------------------
(* Closing (_unwind_impl).                                                 *)

SizeClose ==
    /\ task.at = "unwind"
    /\ \E r \in ShortReads :
        /\ Pay(r.n)
        /\ Onward(Order("closePerp", IF r.v > 0 THEN r.v ELSE pair.perp, 0))
    /\ UNCHANGED <<style, verified, closed, market, observers>>

ClosedPerp ==
    /\ Answered("closePerp")
    /\ \/ task.got = Unknown /\ Halt(pair, 0)
       \/ task.got = 0 /\ ~Acquire /\ Halt(pair, 0)
       \/ task.got = 0 /\ Acquire /\ Onward(Step("evidence")) /\ Pay(0)
       \/ task.got > 0 /\ Onward(Step("reread")) /\ Pay(0)
    /\ UNCHANGED <<style, verified, closed, market, observers>>

\* _short_left_after_close: a read can only add to what the fills leave.
ShortLeft(byFills, v) == Most(byFills, v)

OverlayClosed(r, byFills, left) ==
    \/ r.v = Unread /\ Halt(IF byFills > 0 THEN [pair EXCEPT !.perp = byFills] ELSE pair, r.n)
    \/ r.v # Unread /\ left > 0 /\ Halt(Legs(Least(left, pair.spot), left), r.n)
    \/ r.v # Unread /\ left = 0 /\ WriteLedger("FLAT", NoPair, NoTask, r.n)

BrokenSpotToSell(r, left) == pair.spot

\* In proportion to the short that closed.
SpotToSell(r, left) ==
    IF r.v = Unread THEN (pair.spot * task.got) \div task.qty
    ELSE (pair.spot * (pair.perp - Least(left, pair.perp))) \div pair.perp

AcquireClosed(r, left) ==
    LET sell == SpotToSell(r, left)
    IN  IF sell > 0
        THEN Onward(Order("sellSpot", sell, left)) /\ Pay(r.n)
        ELSE Halt(Legs(pair.spot, left), r.n)

RereadShort ==
    /\ task.at = "reread"
    /\ \E r \in ShortReads :
        LET byFills == task.qty - task.got
            left == ShortLeft(byFills, r.v)
        IN  /\ \/ Acquire /\ AcquireClosed(r, left)
               \/ ~Acquire /\ OverlayClosed(r, byFills, left)
            /\ guessed' = (guessed \/ (r.v = Unread /\ task.qty < pair.perp))
    /\ UNCHANGED <<style, verified, closed, market, doubt>>

SoldSpot ==
    /\ Answered("sellSpot")
    /\ LET left == Legs(pair.spot - Most(task.got, 0), task.keep)
       IN  IF left = NoPair THEN WriteLedger("FLAT", NoPair, NoTask, 0) ELSE Halt(left, 0)
    /\ UNCHANGED <<style, verified, closed, market, observers>>

\* _perp_confirmed_closed: flat now, and closes on record since the book matched.
ConfirmedClosed == task.seen /\ short = 0 /\ closed >= pair.perp

LookForClose ==
    /\ task.at = "evidence"
    /\ \/ ~ConfirmedClosed /\ Halt(pair, 0)
       \/ ConfirmedClosed /\ Halt(pair, 1)
       \/ /\ ConfirmedClosed /\ Pay(0)
          /\ book' = "UNWINDING" /\ task' = Order("saveSpot", Least(pair.spot, coin), 0)
          /\ UNCHANGED <<pair, ledger, unwritten>>
    /\ UNCHANGED <<style, verified, closed, market, observers>>

\* _spot_after_perp_closed, once its sale is answered.
SavedSpot ==
    /\ Answered("saveSpot")
    /\ Halt(Legs(pair.spot - Most(task.got, 0), 0), 0)
    /\ UNCHANGED <<style, verified, closed, market, observers>>

-------------------------------------------------------------------------------
(* A tick that holds a pair: margin, size, cover, drift, exit; without a   *)
(* market view, size and then margin.                                      *)

HeldTick(viewed) ==
    /\ Ready("HEDGED")
    /\ was' = short
    /\ Onward([NoTask EXCEPT !.at = IF viewed THEN "margin" ELSE "size", !.viewed = viewed])
    /\ UNCHANGED <<style, verified, closed, short, coin, loose, alien, troubles, observers>>

ViewedTick == HeldTick(TRUE)
BlindTick == HeldTick(FALSE)

\* Undefined when there is no short.
MarginUnread == IF short = 0 THEN 0 ELSE 1

CheckMargin ==
    /\ task.at = "margin"
    /\ \/ Onward(IF task.viewed THEN Step("size") ELSE NoTask) /\ Pay(0)
       \/ StartUnwind(pair)
       \/ ~Acquire /\ Halt(pair, MarginUnread)
       \/ Acquire /\ Onward([Step("evidence") EXCEPT !.seen = verified]) /\ Pay(MarginUnread)
    /\ UNCHANGED <<style, verified, closed, market, observers>>

AfterSize == IF ~task.viewed THEN "margin" ELSE IF Acquire THEN "decide" ELSE "cover"

BrokenSizeAgrees(v) == v <= pair.perp

SizeAgrees(v) == v = pair.perp

CheckSize ==
    /\ task.at = "size"
    /\ \E r \in ShortReads :
        \/ r.v = Unread /\ Halt(pair, r.n) /\ UNCHANGED <<verified, closed>>
        \/ /\ r.v # Unread /\ SizeAgrees(r.v)
           /\ Onward(Step(AfterSize)) /\ Pay(r.n)
           /\ verified' = TRUE /\ closed' = 0
        \/ /\ r.v # Unread /\ ~SizeAgrees(r.v)
           /\ IF Acquire /\ r.v = 0
              THEN Onward([Step("evidence") EXCEPT !.seen = verified]) /\ Pay(r.n)
              ELSE Halt(pair, r.n)
           /\ UNCHANGED <<verified, closed>>
    /\ UNCHANGED <<style, market, observers>>

\* _check_inventory_cover.
CheckCover ==
    /\ task.at = "cover"
    /\ \/ Halt(pair, 1)
       \/ coin >= pair.perp /\ Onward(Step("decide")) /\ Pay(0)
       \/ coin < pair.perp /\ Onward(Order("trimPerp", pair.perp - coin, coin)) /\ Pay(0)
    /\ UNCHANGED <<style, verified, closed, market, observers>>

TrimmedPerp ==
    /\ Answered("trimPerp")
    /\ IF task.got <= 0 THEN Halt(pair, 0) ELSE Onward(Step("trimmed")) /\ Pay(0)
    /\ UNCHANGED <<style, verified, closed, market, observers>>

\* A residue of one lot is left to the next tick.
ConfirmTrim ==
    /\ task.at = "trimmed"
    /\ \E r \in ShortReads :
        LET byFills == pair.perp - task.got
            left == ShortLeft(byFills, r.v)
        IN  \/ r.v = Unread /\ Halt(IF byFills > 0 THEN [pair EXCEPT !.perp = byFills]
                                    ELSE pair, r.n)
            \/ r.v # Unread /\ left = 0 /\ WriteLedger("FLAT", NoPair, NoTask, r.n)
            \/ r.v # Unread /\ left > task.keep + 1 /\ Halt(Legs(task.keep, left), r.n)
            \/ /\ r.v # Unread /\ left \in 1 .. task.keep + 1
               /\ WriteLedger("HEDGED", Legs(Least(left, task.keep), left), NoTask, r.n)
    /\ UNCHANGED <<style, verified, closed, market, observers>>

\* Drift is corrected on the perp; then hold, writing the print down, or exit.
Decision ==
    /\ task.at = "decide"
    /\ \/ /\ pair.perp > pair.spot
          /\ Onward(Order("buyPerp", pair.perp - pair.spot, 0)) /\ Pay(0)
       \/ pair.perp = pair.spot /\ WriteLedger("HEDGED", pair, NoTask, 0)
       \/ pair.perp = pair.spot /\ StartUnwind(pair)
    /\ UNCHANGED <<style, verified, closed, market, observers>>

Rebalanced ==
    /\ Answered("buyPerp")
    /\ IF task.got <= 0 THEN Halt(pair, 0)
       ELSE WriteLedger("HEDGED", [pair EXCEPT !.perp = @ - task.got], NoTask, 0)
    /\ UNCHANGED <<style, verified, closed, market, observers>>

-------------------------------------------------------------------------------
(* The process and the others.                                             *)

Dies ==
    /\ book \notin {"OFF", "REFUSED"} /\ Pay(1)
    /\ book' = "OFF" /\ pair' = NoPair /\ task' = NoTask
    /\ unwritten' = FALSE /\ verified' = FALSE
    /\ UNCHANGED <<style, ledger, closed, market, observers>>

\* plan_cold_start.
StartAgrees ==
    /\ ledger.book \in {"FLAT", "HEDGED"}
    /\ ledger.pair.perp = short
    /\ ledger.pair # NoPair => IF Acquire THEN coin = ledger.pair.spot
                               ELSE coin >= ledger.pair.spot

\* Two reads agree and recovery has settled every order, or nothing starts.
Starts ==
    /\ book = "OFF" /\ loose = NoOrder
    /\ IF StartAgrees
       THEN /\ pair' = ledger.pair
            /\ book' = IF pair' = NoPair THEN "FLAT" ELSE "HEDGED"
            /\ verified' = (pair' # NoPair)
       ELSE book' = "REFUSED" /\ UNCHANGED <<pair, verified>>
    /\ closed' = 0 /\ was' = short
    /\ UNCHANGED <<style, ledger, unwritten, task, short, coin, loose, alien, troubles, observers>>

\* Liquidation, auto-deleveraging or a person at the account.
OthersClose ==
    /\ Pay(1)
    /\ \E d \in 1 .. short :
        short' = short - d /\ closed' = closed + d /\ alien' = Least(alien, short - d)
    /\ was' = short
    /\ UNCHANGED <<style, engineMemory, verified, coin, loose, observers>>

OthersSell ==
    /\ Pay(1)
    /\ short' = short + 1 /\ was' = short /\ alien' = alien + 1
    /\ UNCHANGED <<style, engineMemory, verified, closed, coin, loose, observers>>

\* The overlay's coin is the client's.
ClientMoves ==
    /\ ~Acquire /\ Pay(1)
    /\ coin' \in {coin - 1, coin + 1} \cap Nat
    /\ UNCHANGED <<style, engineMemory, verified, closed, short, was, loose, alien, observers>>

-------------------------------------------------------------------------------
PairInit ==
    /\ style \in {"ACQUIRE", "OVERLAY"}
    /\ book = "FLAT" /\ pair = NoPair /\ ledger = [book |-> "FLAT", pair |-> NoPair]
    /\ unwritten = FALSE /\ verified = FALSE /\ closed = 0 /\ task = NoTask
    /\ short = 0 /\ was = 0 /\ coin = (IF Acquire THEN 0 ELSE PairSize)
    /\ loose = NoOrder /\ alien = 0 /\ troubles = MaxTroubles
    /\ doubt = FALSE /\ guessed = FALSE

PairThread ==
    \/ SendOrder \/ BoughtSpot \/ SoldPerp \/ ConfirmOpen \/ DumpedSpot
    \/ SizeClose \/ ClosedPerp \/ RereadShort \/ SoldSpot \/ LookForClose \/ SavedSpot
    \/ CheckMargin \/ CheckSize \/ CheckCover \/ TrimmedPerp \/ ConfirmTrim
    \/ Decision \/ Rebalanced

PairNext ==
    \/ PairThread \/ OpenPair \/ Orphan \/ ViewedTick \/ BlindTick \/ RetryHalt
    \/ Dies \/ Starts \/ LooseEnds \/ OthersClose \/ OthersSell \/ ClientMoves

PairSpec == PairInit /\ [][PairNext]_pairVars

\* Every call of the thread returns, and a held book's loop ticks, again and again
\* with a market view.
PairFairness == WF_pairVars(PairThread) /\ SF_pairVars(ViewedTick)

FairPairSpec == PairSpec /\ PairFairness

-------------------------------------------------------------------------------
(* Properties.                                                             *)

\* Spot is sold only in proportion to the short that closed: "a half-closed short
\* against a fully sold spot is a naked short" (carry_engine.py:2837-2838).
NoSpotSoldAhead == Acquire => short <= coin + alien

\* However the legs fill, are refused or lag, the engine's own short is never left
\* without its coin (carry_engine.py:2837-2861), unless a close was sized by a list
\* that lagged and could not be confirmed.
NeverNakedShort == ~guessed => NoSpotSoldAhead

\* A book at rest forgets nothing: what the venue holds of its own is in the
\* position of a FLAT book (nothing) or a halted one, and in the ledger once it
\* says the same (carry_engine.py:1924-1928, 2160-2163, 2877-2895).  An order that
\* stayed unknown is what only the order log can tell a halted book.
ExposureIsKnown ==
    book \in {"FLAT", "HALTED"} /\ ~guessed /\ (book = "HALTED" => ~doubt) =>
        /\ short <= pair.perp + alien
        /\ Acquire => coin <= pair.spot
        /\ ledger.book = book => ledger.pair = pair

HedgeBroken == book = "HEDGED" /\ (short # pair.perp \/ (~Acquire /\ coin < pair.perp))

\* A hedge that is no longer one is repaired or stopped on, whoever broke it and
\* whatever the list shows for a while (carry_engine.py:3032-3039).
BrokenHedgeIsSeen == HedgeBroken ~> ~HedgeBroken
===============================================================================
