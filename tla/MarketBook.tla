------------------------------ MODULE MarketBook ------------------------------
(***************************************************************************)
(* What one frame does to the market state of one product: the local order *)
(* book (md_book.LocalBook), the ticker (md_state._TickerState) and the    *)
(* connection flag (md_state.MarketState), as operators on a record.       *)
(*                                                                         *)
(* A level is a side and a price: its size matters to the code only when   *)
(* it is zero, which removes the level.  A ticker is reduced to whether it *)
(* stands on a snapshot; the module that keeps time keeps their ages.      *)
(* Definitions named Broken... are defects the code does not have.         *)
(***************************************************************************)
EXTENDS Naturals, FiniteSets

CONSTANTS
    Levels,         \* the levels a book can have: a side and a price
    MaxLevels       \* levels per side beyond which a book is corrupt

Sides == {"bid", "ask"}

ASSUME LevelsAssumption == Levels \subseteq Sides \X Nat /\ MaxLevels \in Nat

NoBook == [levels |-> {}, u |-> 0, seq |-> 0, synced |-> FALSE]

OfflineMarket == [connected |-> FALSE, book |-> NoBook, ticker |-> FALSE]

-------------------------------------------------------------------------------
(* Levels and changes.  A change names a level and whether it remains.     *)

Changed(levels, changes) ==
    {l \in levels : \A c \in changes : c.level # l}
        \cup {c.level : c \in {d \in changes : d.present}}

Crossed(levels) ==
    \E b, a \in levels : b[1] = "bid" /\ a[1] = "ask" /\ b[2] >= a[2]

Oversize(levels) ==
    \E s \in Sides : Cardinality({l \in levels : l[1] = s}) > MaxLevels

-------------------------------------------------------------------------------
(* LocalBook.  Each operator returns the book and the status the caller    *)
(* acts on.  A frame is [kind, u, seq, levels, changes, onTick].           *)

Result(book, status) == [book |-> book, status |-> status]

Invalidated(book) == [book EXCEPT !.synced = FALSE]

BrokenStaleSnapshot(book, ev) == FALSE

\* A snapshot not newer than a book already held, unless the venue restarted.
StaleSnapshot(book, ev) == book.synced /\ ev.u # 1 /\ ev.seq <= book.seq

ApplySnapshot(book, ev) ==
    IF StaleSnapshot(book, ev) /\ ev.seq = book.seq /\ ev.u = book.u
    THEN Result(book, "DUPLICATE")
    ELSE IF StaleSnapshot(book, ev) /\ ev.seq < book.seq
    THEN Result(book, "OUT_OF_ORDER")
    ELSE IF ~ev.onTick
    THEN Result(Invalidated(book), "OFF_TICK")
    ELSE Result([levels |-> ev.levels, u |-> ev.u, seq |-> ev.seq, synced |-> TRUE], "RESET")

\* What is wrong with the next delta in line, in the order the code looks.
Flaw(book, ev, levels) ==
    IF ev.seq <= book.seq THEN "OUT_OF_ORDER"
    ELSE IF ~ev.onTick THEN "OFF_TICK"
    ELSE IF Crossed(levels) THEN "CROSSED"
    ELSE IF Oversize(levels) THEN "OVERSIZE"
    ELSE "NONE"

\* The delta that continues the book by exactly one.
NextDelta(book, ev) ==
    LET levels == Changed(book.levels, ev.changes)
        flaw == Flaw(book, ev, levels)
    IN  IF flaw = "NONE"
        THEN Result([levels |-> levels, u |-> ev.u, seq |-> ev.seq, synced |-> TRUE], "APPLIED")
        ELSE Result(Invalidated(book), flaw)

ApplyDelta(book, ev) ==
    CASE ~book.synced -> Result(book, "NOT_SYNCED")
      [] book.synced /\ ev.u = book.u -> Result(book, "DUPLICATE")
      [] book.synced /\ ev.u < book.u -> Result(book, "OUT_OF_ORDER")
      [] book.synced /\ ev.u = book.u + 1 -> NextDelta(book, ev)
      [] OTHER -> Result(Invalidated(book), "GAP")

ApplyBook(book, ev) ==
    IF ev.kind = "snapshot" THEN ApplySnapshot(book, ev) ELSE ApplyDelta(book, ev)

\* Statuses after which the book carries the frame.
TakenStatuses == {"APPLIED", "RESET"}

\* Statuses that become an incident the connection's owner acts on.
Alarming == {"GAP", "OUT_OF_ORDER", "CROSSED", "OFF_TICK", "OVERSIZE"}

-------------------------------------------------------------------------------
(* MarketState, one product.                                               *)

Online(market) ==
    [connected |-> TRUE, book |-> Invalidated(market.book), ticker |-> FALSE]

Offline(market) ==
    [connected |-> FALSE, book |-> Invalidated(market.book), ticker |-> FALSE]

BookInvalidated(market) == [market EXCEPT !.book = Invalidated(@)]

BrokenAfterStoreGap(market) == BookInvalidated(market)

\* The marker of a hole in the durable log: nothing held is reproducible.
AfterStoreGap(market) == [market EXCEPT !.book = Invalidated(@), !.ticker = FALSE]

\* A delta with no snapshot under it is not a ticker.
TickerHeard(market, ev) ==
    [market EXCEPT !.ticker = @ \/ ev.kind = "tickerSnapshot"]

BookFrames == {"snapshot", "delta"}
TickerFrames == {"tickerSnapshot", "ticker"}

\* A frame of the book topic that cannot be parsed is one the book has missed.
Ingest(market, ev) ==
    CASE ev.kind \in BookFrames -> [market EXCEPT !.book = ApplyBook(@, ev).book]
      [] ev.kind = "garbled" -> BookInvalidated(market)
      [] ev.kind \in TickerFrames -> TickerHeard(market, ev)
      [] OTHER -> market

\* Whether the frame raises an incident that asks for a fresh snapshot.
Alarm(market, ev) ==
    \/ ev.kind \in BookFrames /\ ApplyBook(market.book, ev).status \in Alarming
    \/ ev.kind = "garbled" /\ market.book.synced
===============================================================================
