----------------------- MODULE DirectionalEngine_proofs -----------------------
(***************************************************************************)
(* The directional engine, for any number of orders, any amount of other   *)
(* coin and any number of faults of every kind.                            *)
(*                                                                         *)
(* The invariant has three parts.  BookFacts relates the ledger to the     *)
(* venue: only the last entry is open or has the position (LastEntry), a   *)
(* row's stop and legs are its own unless it is misnamed, a trade's key is *)
(* of an order sent for the trade's own lot (TradesFit, StopIsOwn), a lot  *)
(* off the book is in the trades, or gone (Known), and on linear the       *)
(* venue's position is within the row plus what the booked closes sold     *)
(* (Counted).  Control says what the thread's next step finds: an order    *)
(* recorded and of the right purpose, a row where it books, a close that   *)
(* executed where it settles one.  DirectionalTyped gives the values.      *)
(*                                                                         *)
(* BookFacts is stated of parameters (kind, orders, coin, row, trades,     *)
(* misnamed entries), so that a lemma about an effect - an order moves,    *)
(* executes, is recorded or booked - needs no step; the lemmas named ...   *)
(* Keeps after an action then only say which effect it has.  While the     *)
(* process is down or starting (x), a linear lot may be known to nobody:   *)
(* start-up finds it at the venue and does not start.                      *)
(***************************************************************************)
EXTENDS DirectionalEngine, SetSums_proofs, SequenceTheorems, TLAPS

Purposes == {"entry", "stop", "tp", "close", "emergency_close"}
RowStates == {"pending", "submitted", "unknown", "rejected", "filled", "cancelled", "never_sent", "stale"}
Places == {"unsent", "flying", "live", "ended", "lost"}
Ways == {"none", "entry", "enter", "protect", "resize", "tp", "close", "flatten", "booked", "adopt", "boot"}
Phases == {"tick", "resolve", "observe", "naked", "decide", "boot", "ready", "stopped"}
Points ==
    Phases \cup {"send", "reply", "poll", "fill", "mark", "place", "verify", "name", "legs", "find", "free",
                 "sell", "cancel_all", "book_close", "resize", "swap", "return", "settled", "settle",
                 "see_legs", "see_stop", "dead"}

OrderSet == [purpose : Purposes, qty : Nat, row : RowStates, at : Places, done : Nat]
BookSet == [qty : Nat, stop : BOOLEAN, stopId : Nat, tps : SUBSET Nat, booked : SUBSET Nat, entry : Nat, opened : Nat]
JobSet == [how : Ways, id : Nat, back : Phases, settle : Nat, answer : {"none", "ok", "unknown", "refused"}]

DirectionalTyped ==
    /\ kind \in {"linear", "spot"}
    /\ orders \in Seq(OrderSet)
    /\ coin \in Int /\ posStop \in BOOLEAN
    /\ book \in BookSet
    /\ killed \in BOOLEAN
    /\ pc \in Points /\ job \in JobSet
    /\ misnamed \subseteq Nat

EntriesOf(o) == {i \in DOMAIN o : o[i].purpose = "entry"}
ClosesOf(o) == {i \in DOMAIN o : o[i].purpose \in {"close", "emergency_close"}}
Unres(o, i) == o[i].row \in {"pending", "submitted", "unknown"}

\* What the venue says of an order.
OrderFits(k, r) ==
    /\ r.at # "ended" => r.done = 0
    /\ r.purpose = "entry" => r.done <= 2
    /\ r.purpose = "entry" /\ r.at \in {"flying", "live"} => r.row \in {"pending", "submitted", "unknown"}
    /\ k = "linear" => r.purpose # "stop"

OrdersFit(k, o) == \A i \in DOMAIN o : OrderFits(k, o[i])

\* Only the last entry can be open or have the position.
LastEntry(o, b) == \A i, j \in EntriesOf(o) : i < j => ~Unres(o, i) /\ b.entry # i

RowFits(o, b, mis) ==
    b # NoRow =>
        /\ b.entry \in EntriesOf(o) /\ o[b.entry].done > 0 /\ b.qty >= 1
        /\ b.entry <= b.opened /\ b.opened <= Len(o)
        /\ \A i \in b.tps : i \in DOMAIN o /\ (b.entry < i \/ b.entry \in mis)
        /\ b.stopId # 0 => b.stopId \in DOMAIN o /\ o[b.stopId].purpose = "stop"

TradeFits(o, t) ==
    /\ t.entry \in EntriesOf(o)
    /\ t.key[2] \in 0..Len(o)
    /\ \A e \in EntriesOf(o) : t.entry < e => t.key[2] < e
    /\ t.key[1] = "exit" => t.key[2] \in ClosesOf(o) /\ o[t.key[2]].done > 0
    /\ t.key[1] = "spot" => t.key[2] \in DOMAIN o /\ o[t.key[2]].at = "ended"

TradesFit(o, tr) == \A t \in tr : TradeFits(o, t)

StopIsOwn(b, tr) == b # NoRow => \A t \in tr : t.key = <<"spot", b.stopId>> => t.entry = b.entry

Traded(tr, i) == \E t \in tr : t.entry = i

\* Linear, start-up: the lot that reconcile found without a row.
Known(k, o, c, b, tr, mis, x) ==
    \A i \in EntriesOf(o) : o[i].done > 0 /\ ~Unres(o, i) /\ b.entry # i =>
        \/ i \in mis \/ Traded(tr, i)
        \/ /\ k = "linear"
           /\ \/ c = 0
              \/ \E j \in EntriesOf(o) : i < j /\ o[j].done > 0
              \/ x /\ b = NoRow /\ \A j \in EntriesOf(o) : j <= i

BookedExit(tr, i) == \E t \in tr : t.key = <<"exit", i>>
SoldIn(o, tr) == {i \in ClosesOf(o) : BookedExit(tr, i)}
SoldUpTo(o, tr, m) == {i \in ClosesOf(o) : i <= m /\ BookedExit(tr, i)}
DoneOf(o) == [i \in DOMAIN o |-> o[i].done]
Sold(o, tr) == SumOver(DoneOf(o), SoldIn(o, tr))
SoldBy(o, tr, m) == SumOver(DoneOf(o), SoldUpTo(o, tr, m))

CountedRow(o, c, b, tr) ==
    b # NoRow =>
        /\ c <= b.qty + Sold(o, tr)
        /\ c <= o[b.entry].done + SoldBy(o, tr, b.opened)
        /\ \A i \in ClosesOf(o) : b.opened < i => c + o[i].done <= o[b.entry].done + SoldBy(o, tr, b.opened)

CountedFlat(o, c, b, tr, x) ==
    b = NoRow =>
        /\ \A e \in EntriesOf(o) : Unres(o, e) => c <= o[e].done + Sold(o, tr)
        /\ (\A e \in EntriesOf(o) : ~Unres(o, e)) /\ ~x => c <= Sold(o, tr)

Counted(k, o, c, b, tr, x) ==
    k = "linear" => c \in Nat /\ CountedRow(o, c, b, tr) /\ CountedFlat(o, c, b, tr, x)

Facts(k, o, c, b, tr, mis, x) ==
    /\ OrdersFit(k, o) /\ LastEntry(o, b) /\ RowFits(o, b, mis) /\ TradesFit(o, tr) /\ StopIsOwn(b, tr)
    /\ Known(k, o, c, b, tr, mis, x) /\ Counted(k, o, c, b, tr, x)

Starting == pc \in {"stopped", "boot"}

BookFacts == Facts(kind, orders, coin, book, trades, misnamed, Starting)

-------------------------------------------------------------------------------
StopWays == {"enter", "protect", "resize"}

Placed == [entry |-> "entry", enter |-> "stop", protect |-> "stop", resize |-> "stop",
           tp |-> "tp", close |-> "close", flatten |-> "emergency_close"]

\* The point p of a job with an order of its own.
HasOrder(p, j) ==
    \/ p \in {"send", "reply", "poll", "fill", "verify", "swap", "book_close"}
    \/ p = "cancel_all" /\ j.how = "close"

JobWays(p, j) ==
    /\ p \in {"send", "reply"} => j.how \in DOMAIN Placed
    /\ p \in {"poll", "fill"} => j.how \in {"entry", "close", "flatten"}
    /\ p = "mark" => j.how \in {"entry", "adopt", "boot"}
    /\ p \in {"find", "place", "verify"} => j.how \in {"enter", "protect"}
    /\ p = "name" => j.how \in StopWays
    /\ p \in {"resize", "swap"} => j.how = "resize"
    /\ p = "free" => j.how \in {"protect", "close", "flatten"}
    /\ p = "sell" => j.how \in {"close", "flatten"}
    /\ p = "cancel_all" => j.how \in {"close", "booked"}
    /\ p = "book_close" => j.how = "close"
    /\ p = "reply" => j.answer # "none"

JobOrder(o, b, p, j) ==
    HasOrder(p, j) =>
        /\ j.id = 0 => j.how \in StopWays
        /\ j.id # 0 => j.id \in DOMAIN o /\ o[j.id].purpose = Placed[j.how]
        /\ j.how # "entry" => b # NoRow /\ (j.id # 0 => b.opened < j.id)
        /\ j.how = "entry" => b = NoRow /\ Unres(o, j.id)
        /\ p = "send" /\ j.id # 0 => o[j.id].at = "unsent"
        /\ p = "reply" /\ j.how = "entry" /\ j.answer = "refused" => o[j.id].at = "lost"
        /\ p = "fill" => o[j.id].done > 0
        /\ p \in {"cancel_all", "book_close"} => o[j.id].done >= b.qty

JobRow(o, b, tr, p, j) ==
    /\ p \in {"mark", "place", "name", "legs", "find", "free", "sell", "resize", "settle", "see_legs",
              "see_stop", "dead"} => b # NoRow
    /\ p = "mark" => b.entry = j.id
    /\ p = "name" => /\ j.id # 0 => j.id \in DOMAIN o /\ o[j.id].purpose = "stop"
                     /\ \A t \in tr : t.key = <<"spot", j.id>> => t.entry = b.entry
    /\ j.settle # 0 => j.settle \in ClosesOf(o)
    /\ p = "settled" => j.settle # 0

\* Only spot looks for its exits order by order.
Where(k, p, j) ==
    /\ p = "observe" => j.back = "naked"
    /\ p = "decide" => j.back = "tick"
    /\ k = "linear" => /\ p \notin {"see_legs", "see_stop", "dead"}
                       /\ p = "settle" => j.how = "close"
                       /\ p = "settle" \/ j.settle # 0 => j.back # "naked"

Controls(k, o, b, tr, p, j) == JobWays(p, j) /\ JobOrder(o, b, p, j) /\ JobRow(o, b, tr, p, j) /\ Where(k, p, j)

Control == Controls(kind, orders, book, trades, pc, job)

DirectionalInv == DirectionalTyped /\ BookFacts /\ Control

-------------------------------------------------------------------------------
(* What the booked closes sold.                                            *)

LEMMA OrdersAre ==
    ASSUME NEW o \in Seq(OrderSet)
    PROVE  /\ Len(o) \in Nat /\ DOMAIN o = 1..Len(o) /\ IsFiniteSet(DOMAIN o)
           /\ \A i \in DOMAIN o : o[i] \in OrderSet /\ i \in Nat /\ i >= 1
           /\ EntriesOf(o) \subseteq DOMAIN o /\ ClosesOf(o) \subseteq DOMAIN o
<1>1. Len(o) \in Nat /\ DOMAIN o = 1..Len(o)
  BY LenProperties
<1>2. IsFiniteSet(DOMAIN o)
  BY <1>1, FS_Interval
<1>3. \A i \in DOMAIN o : o[i] \in OrderSet /\ i \in Nat /\ i >= 1
  BY <1>1, ElementOfSeq
<1> QED
  BY <1>1, <1>2, <1>3 DEF EntriesOf, ClosesOf

LEMMA OneOrder ==
    ASSUME NEW o \in Seq(OrderSet), NEW i \in DOMAIN o
    PROVE  /\ o[i].purpose \in Purposes /\ o[i].qty \in Nat /\ o[i].row \in RowStates
           /\ o[i].at \in Places /\ o[i].done \in Nat /\ DoneOf(o)[i] = o[i].done
<1>1. o[i] \in OrderSet
  BY OrdersAre
<1> QED
  BY <1>1 DEF OrderSet, DoneOf

LEMMA SoldSets ==
    ASSUME NEW o \in Seq(OrderSet), NEW tr, NEW m
    PROVE  /\ SoldIn(o, tr) \subseteq DOMAIN o /\ IsFiniteSet(SoldIn(o, tr))
           /\ SoldUpTo(o, tr, m) \subseteq SoldIn(o, tr) /\ IsFiniteSet(SoldUpTo(o, tr, m))
           /\ \A i \in SoldIn(o, tr) : DoneOf(o)[i] \in Nat
           /\ Sold(o, tr) \in Nat /\ SoldBy(o, tr, m) \in Nat /\ SoldBy(o, tr, m) <= Sold(o, tr)
<1>1. SoldIn(o, tr) \subseteq DOMAIN o /\ SoldUpTo(o, tr, m) \subseteq SoldIn(o, tr)
  BY OrdersAre DEF SoldIn, SoldUpTo
<1>2. IsFiniteSet(SoldIn(o, tr)) /\ IsFiniteSet(SoldUpTo(o, tr, m))
  BY <1>1, OrdersAre, FS_Subset
<1>3. \A i \in SoldIn(o, tr) : DoneOf(o)[i] \in Nat
  BY <1>1, OneOrder
<1> QED
  BY <1>1, <1>2, <1>3, SumIsNat, SumGrows DEF Sold, SoldBy

\* Nothing of what was sold changes.
LEMMA SoldKept ==
    ASSUME NEW o \in Seq(OrderSet), NEW p \in Seq(OrderSet), NEW tr, NEW m,
           SoldIn(p, tr) = SoldIn(o, tr),
           \A i \in SoldIn(o, tr) : p[i].done = o[i].done
    PROVE  Sold(p, tr) = Sold(o, tr) /\ SoldBy(p, tr, m) = SoldBy(o, tr, m)
<1>1. SoldUpTo(p, tr, m) = SoldUpTo(o, tr, m) /\ SoldUpTo(o, tr, m) \subseteq SoldIn(o, tr)
  BY DEF SoldUpTo, SoldIn
<1>2. \A i \in SoldIn(o, tr) : DoneOf(p)[i] = DoneOf(o)[i]
  <2> SUFFICES ASSUME NEW i \in SoldIn(o, tr) PROVE DoneOf(p)[i] = DoneOf(o)[i]
    OBVIOUS
  <2>1. i \in DOMAIN o /\ i \in DOMAIN p
    BY SoldSets
  <2> QED
    BY <2>1, OneOrder
<1>3. IsFiniteSet(SoldIn(o, tr)) /\ IsFiniteSet(SoldUpTo(o, tr, m))
  BY SoldSets
<1>4. SumOver(DoneOf(p), SoldIn(o, tr)) = SumOver(DoneOf(o), SoldIn(o, tr))
  BY <1>2, <1>3, SumSame
<1>5. SumOver(DoneOf(p), SoldUpTo(o, tr, m)) = SumOver(DoneOf(o), SoldUpTo(o, tr, m))
  BY <1>1, <1>2, <1>3, SumSame
<1> QED
  BY <1>1, <1>4, <1>5 DEF Sold, SoldBy

\* More is booked.
LEMMA SoldGrows ==
    ASSUME NEW o \in Seq(OrderSet), NEW tr, NEW ts, tr \subseteq ts, NEW m
    PROVE  Sold(o, tr) <= Sold(o, ts) /\ SoldBy(o, tr, m) <= SoldBy(o, ts, m)
<1>1. SoldIn(o, tr) \subseteq SoldIn(o, ts) /\ SoldUpTo(o, tr, m) \subseteq SoldUpTo(o, ts, m)
  BY DEF SoldIn, SoldUpTo, BookedExit
<1>2. /\ IsFiniteSet(SoldIn(o, ts)) /\ IsFiniteSet(SoldUpTo(o, ts, m))
      /\ SoldUpTo(o, ts, m) \subseteq SoldIn(o, ts)
      /\ \A i \in SoldIn(o, ts) : DoneOf(o)[i] \in Nat
  BY SoldSets
<1> QED
  BY <1>1, <1>2, SumGrows DEF Sold, SoldBy

\* A close booked for the first time.
LEMMA SoldMore ==
    ASSUME NEW o \in Seq(OrderSet), NEW tr, NEW t, NEW i \in ClosesOf(o),
           t.key = <<"exit", i>>, ~BookedExit(tr, i)
    PROVE  Sold(o, tr) + o[i].done <= Sold(o, tr \cup {t})
<1> DEFINE ts == tr \cup {t}
<1>1. SoldIn(o, tr) \cup {i} \subseteq SoldIn(o, ts) /\ i \notin SoldIn(o, tr)
  BY DEF SoldIn, BookedExit
<1>2. /\ IsFiniteSet(SoldIn(o, ts)) /\ IsFiniteSet(SoldIn(o, tr))
      /\ \A j \in SoldIn(o, ts) : DoneOf(o)[j] \in Nat
  BY SoldSets
<1>3. DoneOf(o)[i] = o[i].done
  BY OrdersAre, OneOrder
<1> HIDE DEF ts
<1>4. SumOver(DoneOf(o), SoldIn(o, tr) \cup {i}) = DoneOf(o)[i] + SumOver(DoneOf(o), SoldIn(o, tr))
  BY <1>1, <1>2, SumWith
<1>5. SumOver(DoneOf(o), SoldIn(o, tr) \cup {i}) <= SumOver(DoneOf(o), SoldIn(o, ts))
  BY <1>1, <1>2, SumGrows
<1>6. o[i].done \in Nat /\ SumOver(DoneOf(o), SoldIn(o, tr)) \in Nat /\ SumOver(DoneOf(o), SoldIn(o, ts)) \in Nat
  BY OrdersAre, OneOrder, SoldSets DEF Sold
<1> QED
  BY <1>3, <1>4, <1>5, <1>6 DEF Sold, ts

\* A booked close is not among the earlier ones.
LEMMA SoldSince ==
    ASSUME NEW o \in Seq(OrderSet), NEW tr, NEW m \in Nat, NEW i \in SoldIn(o, tr), m < i
    PROVE  SoldBy(o, tr, m) + o[i].done <= Sold(o, tr)
<1>1. SoldUpTo(o, tr, m) \cup {i} \subseteq SoldIn(o, tr) /\ i \in DOMAIN o
  BY SoldSets
<1>2. i \notin SoldUpTo(o, tr, m)
  BY <1>1, OrdersAre DEF SoldUpTo
<1>3. /\ IsFiniteSet(SoldIn(o, tr)) /\ IsFiniteSet(SoldUpTo(o, tr, m))
      /\ \A j \in SoldIn(o, tr) : DoneOf(o)[j] \in Nat
  BY SoldSets
<1>4. SumOver(DoneOf(o), SoldUpTo(o, tr, m) \cup {i}) = DoneOf(o)[i] + SumOver(DoneOf(o), SoldUpTo(o, tr, m))
  BY <1>1, <1>2, <1>3, SumWith
<1>5. SumOver(DoneOf(o), SoldUpTo(o, tr, m) \cup {i}) <= SumOver(DoneOf(o), SoldIn(o, tr))
  BY <1>1, <1>3, SumGrows
<1>6. DoneOf(o)[i] = o[i].done /\ o[i].done \in Nat /\ SoldBy(o, tr, m) \in Nat /\ Sold(o, tr) \in Nat
  BY <1>1, OneOrder, SoldSets
<1> QED
  BY <1>4, <1>5, <1>6 DEF Sold, SoldBy

\* Every order there is is an earlier one.
LEMMA SoldByNow ==
    ASSUME NEW o \in Seq(OrderSet), NEW tr
    PROVE  SoldBy(o, tr, Len(o)) = Sold(o, tr)
<1>1. SoldUpTo(o, tr, Len(o)) = SoldIn(o, tr)
  BY OrdersAre DEF SoldUpTo, SoldIn
<1> QED
  BY <1>1 DEF Sold, SoldBy

-------------------------------------------------------------------------------
(* What each kind of change leaves true.                                   *)

Shape(k, o, c, b, mis) ==
    k \in {"linear", "spot"} /\ o \in Seq(OrderSet) /\ c \in Int /\ b \in BookSet /\ mis \subseteq Nat

LEMMA RowOrNone ==
    /\ NoRow \in BookSet /\ NoRow.entry = 0 /\ NoRow.qty = 0 /\ NoRow.tps = {} /\ NoRow.stopId = 0
    /\ \A b \in BookSet : b.entry # 0 => b # NoRow
  BY DEF NoRow, BookSet

LEMMA RowFields ==
    ASSUME NEW b \in BookSet
    PROVE  /\ b.qty \in Nat /\ b.stop \in BOOLEAN /\ b.stopId \in Nat /\ b.tps \subseteq Nat
           /\ b.booked \subseteq Nat /\ b.entry \in Nat /\ b.opened \in Nat
  BY DEF BookSet

\* An open entry, or the position's, is the last one.
LEMMA LastIsLast ==
    ASSUME NEW o \in Seq(OrderSet), NEW b \in BookSet, NEW mis, LastEntry(o, b), RowFits(o, b, mis)
    PROVE  /\ \A e, j \in EntriesOf(o) : Unres(o, e) => j <= e
           /\ b # NoRow => b.entry \in EntriesOf(o) /\ \A j \in EntriesOf(o) : j <= b.entry
           /\ b # NoRow => \A e \in EntriesOf(o) : Unres(o, e) => e = b.entry
           /\ b = NoRow => \A e \in EntriesOf(o) : b.entry # e
<1>1. \A e \in EntriesOf(o) : e \in Nat /\ e >= 1
  BY OrdersAre
<1>2. \A e, j \in EntriesOf(o) : Unres(o, e) => j <= e
  BY <1>1 DEF LastEntry
<1>3. b # NoRow => b.entry \in EntriesOf(o) /\ \A j \in EntriesOf(o) : j <= b.entry
  BY <1>1 DEF LastEntry, RowFits
<1>4. b # NoRow => \A e \in EntriesOf(o) : Unres(o, e) => e = b.entry
  BY <1>1, <1>2, <1>3
<1>5. b = NoRow => \A e \in EntriesOf(o) : b.entry # e
  BY <1>1, RowOrNone
<1> QED
  BY <1>2, <1>3, <1>4, <1>5

\* Rows and places of orders change, quantities do not; an entry is closed only
\* when nothing of it executed, or the book has it, or start-up finds it on
\* linear without a row.
Quiet(k, o, p, b, x) ==
    /\ p \in Seq(OrderSet) /\ Len(p) = Len(o)
    /\ \A i \in DOMAIN o : /\ p[i].purpose = o[i].purpose /\ p[i].done = o[i].done
                           /\ o[i].at = "ended" => p[i].at = "ended"
    /\ \A i \in EntriesOf(o) :
          /\ p[i].at \in {"flying", "live"} => Unres(p, i)
          /\ Unres(p, i) => Unres(o, i)
          /\ Unres(o, i) /\ ~Unres(p, i) => o[i].done = 0 \/ b.entry = i \/ (k = "linear" /\ x /\ b = NoRow)

LEMMA QuietKeeps ==
    ASSUME NEW k, NEW o, NEW c, NEW b, NEW tr, NEW mis, NEW x \in BOOLEAN, NEW p,
           Shape(k, o, c, b, mis), Facts(k, o, c, b, tr, mis, x), Quiet(k, o, p, b, x)
    PROVE  Facts(k, p, c, b, tr, mis, x)
<1>t. /\ o \in Seq(OrderSet) /\ p \in Seq(OrderSet) /\ b \in BookSet /\ c \in Int
  BY DEF Shape, Quiet
<1>d. DOMAIN p = DOMAIN o /\ Len(p) = Len(o) /\ DOMAIN o = 1..Len(o) /\ Len(o) \in Nat
  BY <1>t, OrdersAre DEF Quiet
<1>e. EntriesOf(p) = EntriesOf(o) /\ ClosesOf(p) = ClosesOf(o)
  BY <1>d DEF EntriesOf, ClosesOf, Quiet
<1>n. \A i \in DOMAIN o : i \in Nat /\ o[i].done \in Nat
  BY <1>t, OrdersAre, OneOrder
<1>s. /\ EntriesOf(o) \subseteq DOMAIN o /\ ClosesOf(o) \subseteq DOMAIN o
  BY <1>t, OrdersAre
<1>f. /\ OrdersFit(k, o) /\ LastEntry(o, b) /\ RowFits(o, b, mis) /\ TradesFit(o, tr) /\ StopIsOwn(b, tr)
      /\ Known(k, o, c, b, tr, mis, x) /\ Counted(k, o, c, b, tr, x)
  BY DEF Facts
<1>l. /\ \A e, j \in EntriesOf(o) : Unres(o, e) => j <= e
      /\ b # NoRow => \A e \in EntriesOf(o) : Unres(o, e) => e = b.entry
      /\ b = NoRow => \A e \in EntriesOf(o) : b.entry # e
  BY <1>t, <1>f, LastIsLast
<1>1. OrdersFit(k, p)
  <2> SUFFICES ASSUME NEW i \in DOMAIN o PROVE OrderFits(k, p[i])
    BY <1>d DEF OrdersFit
  <2>1. OrderFits(k, o[i]) /\ (p[i].purpose = "entry" => i \in EntriesOf(o))
    BY <1>f, <1>d DEF OrdersFit, EntriesOf, Quiet
  <2> QED
    BY <2>1, <1>n DEF OrderFits, Quiet, Unres
<1>2. LastEntry(p, b)
  BY <1>e, <1>f DEF LastEntry, Quiet
<1>3. RowFits(p, b, mis)
  BY <1>e, <1>f, <1>d, <1>s DEF RowFits, Quiet
<1>4. TradesFit(p, tr)
  BY <1>e, <1>f, <1>d, <1>s DEF TradesFit, TradeFits, Quiet
<1>5. Known(k, p, c, b, tr, mis, x)
  <2> SUFFICES ASSUME NEW i \in EntriesOf(o), p[i].done > 0, ~Unres(p, i), b.entry # i,
                      i \notin mis, ~Traded(tr, i)
               PROVE  /\ k = "linear"
                      /\ \/ c = 0
                         \/ \E j \in EntriesOf(o) : i < j /\ p[j].done > 0
                         \/ x /\ b = NoRow /\ \A j \in EntriesOf(o) : j <= i
    BY <1>e DEF Known
  <2>1. o[i].done > 0
    BY <1>s DEF Quiet
  <2>2. CASE ~Unres(o, i)
    BY <2>1, <2>2, <1>f, <1>s DEF Known, Quiet
  <2>3. CASE Unres(o, i)
    BY <2>1, <2>3, <1>l DEF Quiet
  <2> QED
    BY <2>2, <2>3
<1>6. \A m : Sold(p, tr) = Sold(o, tr) /\ SoldBy(p, tr, m) = SoldBy(o, tr, m)
  <2>1. SoldIn(p, tr) = SoldIn(o, tr) /\ \A i \in SoldIn(o, tr) : p[i].done = o[i].done
    BY <1>e, <1>s DEF SoldIn, Quiet
  <2> QED
    BY <2>1, <1>t, SoldKept
<1>7. k = "linear" => CountedRow(p, c, b, tr)
  BY <1>6, <1>f, <1>e, <1>s DEF Counted, CountedRow, Quiet, RowFits
<1>8. k = "linear" => CountedFlat(p, c, b, tr, x)
  <2> SUFFICES ASSUME k = "linear", b = NoRow
               PROVE  /\ \A e \in EntriesOf(o) : Unres(p, e) => c <= p[e].done + Sold(o, tr)
                      /\ (\A e \in EntriesOf(o) : ~Unres(p, e)) /\ ~x => c <= Sold(o, tr)
    BY <1>6, <1>e DEF CountedFlat
  <2>1. CountedFlat(o, c, b, tr, x)
    BY <1>f DEF Counted
  <2>2. \A e \in EntriesOf(o) : Unres(p, e) => c <= p[e].done + Sold(o, tr)
    BY <2>1, <1>s DEF CountedFlat, Quiet
  <2>3. ASSUME \A e \in EntriesOf(o) : ~Unres(p, e), ~x PROVE c <= Sold(o, tr)
    <3>1. CASE \A e \in EntriesOf(o) : ~Unres(o, e)
      BY <2>1, <2>3, <3>1 DEF CountedFlat
    <3>2. CASE \E e \in EntriesOf(o) : Unres(o, e)
      <4>1. PICK e \in EntriesOf(o) : Unres(o, e)
        BY <3>2
      <4>2. o[e].done = 0
        BY <2>3, <4>1, <1>l DEF Quiet
      <4>3. Sold(o, tr) \in Nat
        BY <1>t, SoldSets
      <4> QED
        BY <2>1, <4>1, <4>2, <4>3 DEF CountedFlat
    <3> QED
      BY <3>1, <3>2
  <2> QED
    BY <2>2, <2>3
<1> QED
  BY <1>1, <1>2, <1>3, <1>4, <1>5, <1>7, <1>8, <1>f DEF Facts, Counted

LEMMA Basics ==
    ASSUME NEW k, NEW o, NEW c, NEW b, NEW tr, NEW mis, NEW x \in BOOLEAN,
           Shape(k, o, c, b, mis), Facts(k, o, c, b, tr, mis, x)
    PROVE  /\ o \in Seq(OrderSet) /\ b \in BookSet /\ c \in Int
           /\ Len(o) \in Nat /\ DOMAIN o = 1..Len(o)
           /\ EntriesOf(o) \subseteq DOMAIN o /\ ClosesOf(o) \subseteq DOMAIN o
           /\ \A i \in DOMAIN o : i \in Nat /\ i >= 1 /\ o[i].done \in Nat
           /\ OrdersFit(k, o) /\ LastEntry(o, b) /\ RowFits(o, b, mis) /\ TradesFit(o, tr) /\ StopIsOwn(b, tr)
           /\ Known(k, o, c, b, tr, mis, x) /\ Counted(k, o, c, b, tr, x)
           /\ \A e, j \in EntriesOf(o) : Unres(o, e) => j <= e
           /\ b # NoRow => b.entry \in EntriesOf(o) /\ \A j \in EntriesOf(o) : j <= b.entry
           /\ b # NoRow => \A e \in EntriesOf(o) : Unres(o, e) => e = b.entry
           /\ b = NoRow => \A e \in EntriesOf(o) : b.entry # e
           /\ Sold(o, tr) \in Nat /\ \A m : SoldBy(o, tr, m) \in Nat /\ SoldBy(o, tr, m) <= Sold(o, tr)
<1>1. o \in Seq(OrderSet) /\ b \in BookSet /\ c \in Int
  BY DEF Shape
<1>2. /\ Len(o) \in Nat /\ DOMAIN o = 1..Len(o)
      /\ EntriesOf(o) \subseteq DOMAIN o /\ ClosesOf(o) \subseteq DOMAIN o
      /\ \A i \in DOMAIN o : i \in Nat /\ i >= 1
  BY <1>1, OrdersAre
<1>3. \A i \in DOMAIN o : o[i].done \in Nat
  BY <1>1, OneOrder
<1>4. /\ OrdersFit(k, o) /\ LastEntry(o, b) /\ RowFits(o, b, mis) /\ TradesFit(o, tr) /\ StopIsOwn(b, tr)
      /\ Known(k, o, c, b, tr, mis, x) /\ Counted(k, o, c, b, tr, x)
  BY DEF Facts
<1>5. /\ \A e, j \in EntriesOf(o) : Unres(o, e) => j <= e
      /\ b # NoRow => b.entry \in EntriesOf(o) /\ \A j \in EntriesOf(o) : j <= b.entry
      /\ b # NoRow => \A e \in EntriesOf(o) : Unres(o, e) => e = b.entry
      /\ b = NoRow => \A e \in EntriesOf(o) : b.entry # e
  BY <1>1, <1>4, LastIsLast
<1>6. Sold(o, tr) \in Nat /\ \A m : SoldBy(o, tr, m) \in Nat /\ SoldBy(o, tr, m) <= Sold(o, tr)
  BY <1>1, SoldSets
<1> QED
  BY <1>1, <1>2, <1>3, <1>4, <1>5, <1>6

\* One order ends, having executed d.
Ends(o, p, i, d) ==
    /\ p \in Seq(OrderSet) /\ Len(p) = Len(o) /\ i \in DOMAIN o /\ d \in Nat
    /\ \A j \in DOMAIN o : j # i => p[j] = o[j]
    /\ o[i].at = "live" /\ p[i].at = "ended" /\ p[i].done = d
    /\ p[i].purpose = o[i].purpose /\ p[i].row = o[i].row

LEMMA EndsKeeps ==
    ASSUME NEW k, NEW o, NEW c, NEW b, NEW tr, NEW mis, NEW x \in BOOLEAN, NEW p, NEW i, NEW d,
           Shape(k, o, c, b, mis), Facts(k, o, c, b, tr, mis, x), Ends(o, p, i, d),
           i \in EntriesOf(o) => d <= 2
    PROVE  /\ o[i].done = 0 /\ o[i].at = "live"
           /\ DOMAIN p = DOMAIN o /\ Len(p) = Len(o) /\ EntriesOf(p) = EntriesOf(o) /\ ClosesOf(p) = ClosesOf(o)
           /\ \A j \in DOMAIN o : Unres(p, j) <=> Unres(o, j)
           /\ \A j \in DOMAIN o : o[j].done > 0 => p[j].done = o[j].done /\ j # i
           /\ OrdersFit(k, p) /\ LastEntry(p, b) /\ RowFits(p, b, mis) /\ TradesFit(p, tr)
           /\ Sold(p, tr) = Sold(o, tr) /\ \A m : SoldBy(p, tr, m) = SoldBy(o, tr, m)
<1>b. /\ o \in Seq(OrderSet) /\ b \in BookSet
      /\ Len(o) \in Nat /\ DOMAIN o = 1..Len(o)
      /\ EntriesOf(o) \subseteq DOMAIN o /\ ClosesOf(o) \subseteq DOMAIN o
      /\ OrdersFit(k, o) /\ LastEntry(o, b) /\ RowFits(o, b, mis) /\ TradesFit(o, tr)
  BY Basics
<1>d. /\ DOMAIN p = DOMAIN o /\ Len(p) = Len(o) /\ p \in Seq(OrderSet)
      /\ i \in DOMAIN o /\ o[i].at = "live" /\ p[i].at = "ended" /\ p[i].done = d /\ d \in Nat
  BY <1>b, OrdersAre DEF Ends
<1>p. \A j \in DOMAIN o : p[j].purpose = o[j].purpose /\ p[j].row = o[j].row /\ (j # i => p[j] = o[j])
  BY DEF Ends
<1>e. EntriesOf(p) = EntriesOf(o) /\ ClosesOf(p) = ClosesOf(o)
  BY <1>d, <1>p DEF EntriesOf, ClosesOf
<1>u. \A j \in DOMAIN o : Unres(p, j) <=> Unres(o, j)
  BY <1>p DEF Unres
<1>f. OrderFits(k, o[i]) /\ \A j \in DOMAIN o : OrderFits(k, o[j])
  BY <1>b, <1>d DEF OrdersFit
<1>z. o[i].done = 0
  BY <1>f, <1>d DEF OrderFits
<1>n. \A j \in DOMAIN o : o[j].done > 0 => p[j].done = o[j].done /\ j # i
  BY <1>z, <1>p
<1>1. OrdersFit(k, p)
  <2> SUFFICES ASSUME NEW j \in DOMAIN o PROVE OrderFits(k, p[j])
    BY <1>d DEF OrdersFit
  <2>1. CASE j # i
    BY <2>1, <1>f, <1>p
  <2>2. CASE j = i
    <3>1. p[i].purpose = "entry" => d <= 2
      BY <1>p, <1>d DEF EntriesOf
    <3> QED
      BY <2>2, <3>1, <1>f, <1>p, <1>d DEF OrderFits
  <2> QED
    BY <2>1, <2>2
<1>2. LastEntry(p, b)
  BY <1>e, <1>u, <1>b DEF LastEntry
<1>3. RowFits(p, b, mis)
  BY <1>e, <1>d, <1>n, <1>p, <1>b DEF RowFits
<1>4. TradesFit(p, tr)
  <2> SUFFICES ASSUME NEW t \in tr PROVE TradeFits(p, t)
    BY DEF TradesFit
  <2>1. TradeFits(o, t)
    BY <1>b DEF TradesFit
  <2>2. t.key[1] = "spot" => t.key[2] \in DOMAIN o /\ p[t.key[2]].at = "ended"
    BY <2>1, <1>d, <1>p DEF TradeFits
  <2> QED
    BY <2>1, <2>2, <1>e, <1>d, <1>n, <1>b DEF TradeFits
<1>5. Sold(p, tr) = Sold(o, tr) /\ \A m : SoldBy(p, tr, m) = SoldBy(o, tr, m)
  <2>1. SoldIn(p, tr) = SoldIn(o, tr)
    BY <1>e DEF SoldIn
  <2>2. \A j \in SoldIn(o, tr) : p[j].done = o[j].done
    BY <1>b, <1>n DEF SoldIn, BookedExit, TradesFit, TradeFits
  <2> QED
    BY <2>1, <2>2, <1>b, <1>d, SoldKept
<1> QED
  BY <1>1, <1>2, <1>3, <1>4, <1>5, <1>d, <1>e, <1>u, <1>n, <1>z

LEMMA EntryKeeps ==
    ASSUME NEW k, NEW o, NEW c, NEW b, NEW tr, NEW mis, NEW x \in BOOLEAN, NEW p, NEW i, NEW d,
           Shape(k, o, c, b, mis), Facts(k, o, c, b, tr, mis, x), Ends(o, p, i, d),
           i \in EntriesOf(o), d <= 2
    PROVE  Facts(k, p, c + d, b, tr, mis, x)
<1>b. /\ o \in Seq(OrderSet) /\ b \in BookSet /\ c \in Int /\ d \in Nat /\ p[i].done = d
      /\ DOMAIN o = 1..Len(o) /\ EntriesOf(o) \subseteq DOMAIN o
      /\ \A j \in DOMAIN o : j \in Nat /\ o[j].done \in Nat
      /\ OrdersFit(k, o) /\ RowFits(o, b, mis)
      /\ Known(k, o, c, b, tr, mis, x) /\ Counted(k, o, c, b, tr, x) /\ StopIsOwn(b, tr)
      /\ \A e, j \in EntriesOf(o) : Unres(o, e) => j <= e
      /\ b # NoRow => \A e \in EntriesOf(o) : Unres(o, e) => e = b.entry
      /\ b = NoRow => \A e \in EntriesOf(o) : b.entry # e
      /\ Sold(o, tr) \in Nat
  BY Basics DEF Ends
<1>k. /\ o[i].done = 0 /\ o[i].at = "live" /\ EntriesOf(p) = EntriesOf(o)
      /\ \A j \in DOMAIN o : Unres(p, j) <=> Unres(o, j)
      /\ \A j \in DOMAIN o : o[j].done > 0 => p[j].done = o[j].done /\ j # i
      /\ OrdersFit(k, p) /\ LastEntry(p, b) /\ RowFits(p, b, mis) /\ TradesFit(p, tr)
      /\ Sold(p, tr) = Sold(o, tr)
  BY EndsKeeps
<1>u. Unres(o, i)
  BY <1>b, <1>k DEF OrdersFit, OrderFits, EntriesOf, Unres
<1>r. b = NoRow
  BY <1>u, <1>b, <1>k DEF RowFits
<1>1. Known(k, p, c + d, b, tr, mis, x)
  <2> SUFFICES ASSUME NEW j \in EntriesOf(o), p[j].done > 0, ~Unres(p, j), j \notin mis, ~Traded(tr, j)
               PROVE  k = "linear" /\ (c + d = 0 \/ \E e \in EntriesOf(o) : j < e /\ p[e].done > 0)
    BY <1>k DEF Known
  <2>1. j # i /\ ~Unres(o, j) /\ p[j] = o[j]
    BY <1>u, <1>k, <1>b DEF Ends
  <2>2. j <= i /\ j < i
    BY <2>1, <1>u, <1>b
  <2>3. /\ k = "linear"
        /\ c = 0 \/ (\E e \in EntriesOf(o) : j < e /\ o[e].done > 0) \/ \A e \in EntriesOf(o) : e <= j
    BY <2>1, <1>b, <1>r DEF Known
  <2>4. CASE c = 0
    <3>1. CASE d = 0
      BY <3>1, <2>3, <2>4
    <3>2. CASE d > 0
      BY <3>2, <2>2, <2>3, <1>b
    <3> QED
      BY <3>1, <3>2, <1>b
  <2>5. CASE \E e \in EntriesOf(o) : j < e /\ o[e].done > 0
    BY <2>5, <2>3, <1>k, <1>b
  <2>6. CASE \A e \in EntriesOf(o) : e <= j
    BY <2>6, <2>2, <1>b
  <2> QED
    BY <2>3, <2>4, <2>5, <2>6
<1>2. Counted(k, p, c + d, b, tr, x)
  <2> SUFFICES ASSUME k = "linear" PROVE c + d \in Nat /\ CountedFlat(p, c + d, b, tr, x)
    BY <1>r DEF Counted, CountedRow
  <2>1. c \in Nat /\ c <= Sold(o, tr)
    BY <1>b, <1>r, <1>u, <1>k DEF Counted, CountedFlat
  <2>2. \A e \in EntriesOf(o) : Unres(p, e) => e = i
    <3> SUFFICES ASSUME NEW e \in EntriesOf(o), Unres(o, e) PROVE e = i
      BY <1>k, <1>b
    <3>1. e <= i /\ i <= e
      BY <1>u, <1>b
    <3> QED
      BY <3>1, <1>b
  <2> QED
    BY <2>1, <2>2, <1>b, <1>k, <1>u DEF CountedFlat
<1> QED
  BY <1>1, <1>2, <1>k, <1>b DEF Facts

LEMMA SaleKeeps ==
    ASSUME NEW k, NEW o, NEW c, NEW b, NEW tr, NEW mis, NEW x \in BOOLEAN, NEW p, NEW i, NEW d,
           Shape(k, o, c, b, mis), Facts(k, o, c, b, tr, mis, x), Ends(o, p, i, d),
           i \notin EntriesOf(o), k = "linear" => c - d >= 0
    PROVE  Facts(k, p, c - d, b, tr, mis, x)
<1>b. /\ o \in Seq(OrderSet) /\ b \in BookSet /\ c \in Int /\ d \in Nat /\ p[i].done = d
      /\ DOMAIN o = 1..Len(o) /\ EntriesOf(o) \subseteq DOMAIN o /\ ClosesOf(o) \subseteq DOMAIN o
      /\ \A j \in DOMAIN o : j \in Nat /\ o[j].done \in Nat
      /\ Known(k, o, c, b, tr, mis, x) /\ Counted(k, o, c, b, tr, x) /\ StopIsOwn(b, tr) /\ RowFits(o, b, mis)
      /\ Sold(o, tr) \in Nat /\ \A m : SoldBy(o, tr, m) \in Nat
  BY Basics DEF Ends
<1>k. /\ o[i].done = 0 /\ EntriesOf(p) = EntriesOf(o) /\ ClosesOf(p) = ClosesOf(o)
      /\ \A j \in DOMAIN o : Unres(p, j) <=> Unres(o, j)
      /\ OrdersFit(k, p) /\ LastEntry(p, b) /\ RowFits(p, b, mis) /\ TradesFit(p, tr)
      /\ Sold(p, tr) = Sold(o, tr) /\ \A m : SoldBy(p, tr, m) = SoldBy(o, tr, m)
  BY EndsKeeps
<1>s. \A j \in DOMAIN o : j # i => p[j] = o[j]
  BY DEF Ends
<1>e. \A j \in EntriesOf(o) : p[j] = o[j] /\ j \in DOMAIN o
  BY <1>s, <1>b
<1>1. Known(k, p, c - d, b, tr, mis, x)
  <2>1. k = "linear" /\ c = 0 => c - d = 0
    BY <1>b
  <2> QED
    BY <2>1, <1>k, <1>e, <1>b DEF Known
<1>2. CASE k = "linear"
  <2>1. c \in Nat /\ c - d \in Nat /\ c - d <= c /\ CountedRow(o, c, b, tr) /\ CountedFlat(o, c, b, tr, x)
    BY <1>2, <1>b DEF Counted
  <2>2. CountedRow(p, c - d, b, tr)
    <3> SUFFICES ASSUME b # NoRow
                 PROVE  /\ c - d <= b.qty + Sold(o, tr)
                        /\ c - d <= o[b.entry].done + SoldBy(o, tr, b.opened)
                        /\ \A j \in ClosesOf(o) : b.opened < j =>
                              (c - d) + p[j].done <= o[b.entry].done + SoldBy(o, tr, b.opened)
      BY <1>k, <1>e DEF CountedRow, RowFits
    <3>1. /\ c <= b.qty + Sold(o, tr)
          /\ c <= o[b.entry].done + SoldBy(o, tr, b.opened)
          /\ \A j \in ClosesOf(o) : b.opened < j => c + o[j].done <= o[b.entry].done + SoldBy(o, tr, b.opened)
          /\ b.qty \in Nat /\ o[b.entry].done \in Nat
      BY <2>1, <1>b, RowFields DEF CountedRow, RowFits
    <3>2. ASSUME NEW j \in ClosesOf(o), b.opened < j
          PROVE  (c - d) + p[j].done <= o[b.entry].done + SoldBy(o, tr, b.opened)
      <4>1. CASE j = i
        BY <4>1, <3>1, <1>b, <2>1
      <4>2. CASE j # i
        <5>1. p[j].done = o[j].done /\ o[j].done \in Nat
          BY <4>2, <1>s, <1>b
        <5>2. c + o[j].done <= o[b.entry].done + SoldBy(o, tr, b.opened)
          BY <3>1, <3>2
        <5>3. c \in Int /\ d \in Nat
          BY <1>b
        <5> DEFINE n == o[j].done
                   top == o[b.entry].done + SoldBy(o, tr, b.opened)
        <5>4. n \in Nat /\ top \in Nat /\ c + n <= top
          BY <5>1, <5>2, <3>1, <1>b
        <5>5. (c - d) + n <= top
          <6> HIDE DEF n, top
          <6> QED
            BY <5>3, <5>4
        <5> QED
          BY <5>1, <5>5
      <4> QED
        BY <4>1, <4>2
    <3> QED
      BY <3>1, <3>2, <2>1, <1>b
  <2>3. CountedFlat(p, c - d, b, tr, x)
    BY <2>1, <1>k, <1>e, <1>b DEF CountedFlat
  <2> QED
    BY <2>1, <2>2, <2>3, <1>1, <1>k, <1>b DEF Facts, Counted
<1> QED
  BY <1>2, <1>1, <1>k, <1>b DEF Facts, Counted

\* A position that the venue closes by itself.
LEMMA GoneKeeps ==
    ASSUME NEW k, NEW o, NEW c, NEW b, NEW tr, NEW mis, NEW x \in BOOLEAN,
           Shape(k, o, c, b, mis), Facts(k, o, c, b, tr, mis, x), c > 0
    PROVE  Facts(k, o, 0, b, tr, mis, x)
<1>b. /\ c \in Int /\ b \in BookSet /\ EntriesOf(o) \subseteq DOMAIN o /\ ClosesOf(o) \subseteq DOMAIN o
      /\ \A j \in DOMAIN o : o[j].done \in Nat
      /\ Known(k, o, c, b, tr, mis, x) /\ Counted(k, o, c, b, tr, x) /\ RowFits(o, b, mis)
      /\ Sold(o, tr) \in Nat /\ \A m : SoldBy(o, tr, m) \in Nat
  BY Basics
<1>1. Known(k, o, 0, b, tr, mis, x)
  BY <1>b DEF Known
<1>2. ASSUME k = "linear" PROVE CountedRow(o, 0, b, tr)
  <2> SUFFICES ASSUME b # NoRow
               PROVE  /\ 0 <= b.qty + Sold(o, tr)
                      /\ 0 <= o[b.entry].done + SoldBy(o, tr, b.opened)
                      /\ \A j \in ClosesOf(o) : b.opened < j =>
                            0 + o[j].done <= o[b.entry].done + SoldBy(o, tr, b.opened)
    BY DEF CountedRow
  <2>1. \A j \in ClosesOf(o) : b.opened < j => c + o[j].done <= o[b.entry].done + SoldBy(o, tr, b.opened)
    BY <1>2, <1>b DEF Counted, CountedRow
  <2>2. b.qty \in Nat /\ o[b.entry].done \in Nat /\ \A j \in ClosesOf(o) : o[j].done \in Nat
    BY <1>b, RowFields DEF RowFits
  <2> QED
    BY <2>1, <2>2, <1>b
<1>3. ASSUME k = "linear" PROVE CountedFlat(o, 0, b, tr, x)
  BY <1>3, <1>b DEF Counted, CountedFlat
<1> QED
  BY <1>1, <1>2, <1>3 DEF Facts, Counted

\* An order is recorded: it is not sent yet.
Recorded(o, p, purpose) ==
    /\ p \in Seq(OrderSet) /\ Len(p) = Len(o) + 1
    /\ \A j \in DOMAIN o : p[j] = o[j]
    /\ LET r == p[Len(o) + 1]
       IN  r.purpose = purpose /\ r.row = "pending" /\ r.at = "unsent" /\ r.done = 0

LEMMA RecordedIs ==
    ASSUME NEW o \in Seq(OrderSet), NEW purpose \in Purposes, NEW qty \in Nat
    PROVE  Recorded(o, Append(o, [purpose |-> purpose, qty |-> qty, row |-> "pending", at |-> "unsent", done |-> 0]),
                    purpose)
<1> DEFINE r == [purpose |-> purpose, qty |-> qty, row |-> "pending", at |-> "unsent", done |-> 0]
<1>1. r \in OrderSet
  BY DEF OrderSet, RowStates, Places
<1>2. r.purpose = purpose /\ r.row = "pending" /\ r.at = "unsent" /\ r.done = 0
  OBVIOUS
<1> HIDE DEF r
<1>3. /\ Append(o, r) \in Seq(OrderSet) /\ Len(Append(o, r)) = Len(o) + 1
      /\ \A j \in 1..Len(o) : Append(o, r)[j] = o[j]
      /\ Append(o, r)[Len(o) + 1] = r
  BY <1>1, AppendProperties
<1>4. DOMAIN o = 1..Len(o)
  BY OrdersAre
<1>5. Recorded(o, Append(o, r), purpose)
  BY <1>2, <1>3, <1>4 DEF Recorded
<1> QED
  BY <1>5 DEF r

LEMMA RecordedKeeps ==
    ASSUME NEW k, NEW o, NEW c, NEW b, NEW tr, NEW mis, NEW x \in BOOLEAN, NEW p, NEW purpose,
           Shape(k, o, c, b, mis), Facts(k, o, c, b, tr, mis, x), Recorded(o, p, purpose),
           k = "linear" => purpose # "stop",
           purpose = "entry" => b = NoRow /\ ~x /\ \A e \in EntriesOf(o) : ~Unres(o, e)
    PROVE  Facts(k, p, c, b, tr, mis, x)
<1> DEFINE n == Len(o) + 1
<1>b. /\ o \in Seq(OrderSet) /\ b \in BookSet /\ c \in Int /\ Len(o) \in Nat
      /\ DOMAIN o = 1..Len(o) /\ EntriesOf(o) \subseteq DOMAIN o /\ ClosesOf(o) \subseteq DOMAIN o
      /\ \A j \in DOMAIN o : j \in Nat /\ j >= 1 /\ o[j].done \in Nat
      /\ OrdersFit(k, o) /\ LastEntry(o, b) /\ RowFits(o, b, mis) /\ TradesFit(o, tr) /\ StopIsOwn(b, tr)
      /\ Known(k, o, c, b, tr, mis, x) /\ Counted(k, o, c, b, tr, x)
      /\ Sold(o, tr) \in Nat /\ \A m : SoldBy(o, tr, m) \in Nat
  BY Basics
<1>p. /\ p \in Seq(OrderSet) /\ Len(p) = n /\ n \in Nat
      /\ p[n].purpose = purpose /\ p[n].row = "pending" /\ p[n].at = "unsent" /\ p[n].done = 0
      /\ \A j \in DOMAIN o : p[j] = o[j] /\ j < n
  BY <1>b DEF Recorded
<1>d. DOMAIN p = DOMAIN o \cup {n} /\ n \notin DOMAIN o
  <2>1. DOMAIN p = 1..n
    BY <1>p, OrdersAre
  <2> QED
    BY <2>1, <1>b
<1> HIDE DEF n
<1>e. /\ EntriesOf(p) = EntriesOf(o) \cup (IF purpose = "entry" THEN {n} ELSE {})
      /\ ClosesOf(p) = ClosesOf(o) \cup (IF purpose \in {"close", "emergency_close"} THEN {n} ELSE {})
  BY <1>p, <1>d DEF EntriesOf, ClosesOf
<1>u. (\A j \in DOMAIN o : Unres(p, j) <=> Unres(o, j)) /\ Unres(p, n)
  BY <1>p DEF Unres
<1>0. \A t \in tr : t.key[2] \in DOMAIN o \cup {0} /\ t.key[2] < n /\ t.entry \in DOMAIN o
  BY <1>b, <1>p DEF TradesFit, TradeFits
<1>1. OrdersFit(k, p)
  <2> SUFFICES ASSUME NEW j \in DOMAIN p PROVE OrderFits(k, p[j])
    BY DEF OrdersFit
  <2>1. CASE j \in DOMAIN o
    BY <2>1, <1>p, <1>b DEF OrdersFit
  <2>2. CASE j = n
    BY <2>2, <1>p DEF OrderFits
  <2> QED
    BY <2>1, <2>2, <1>d
<1>2. LastEntry(p, b)
  <2> SUFFICES ASSUME NEW i \in EntriesOf(p), NEW j \in EntriesOf(p), i < j
               PROVE  ~Unres(p, i) /\ b.entry # i
    BY DEF LastEntry
  <2>1. i \in EntriesOf(o) /\ i \in DOMAIN o
    BY <1>b, <1>p, <1>e
  <2>2. CASE j \in EntriesOf(o)
    BY <2>1, <2>2, <1>u, <1>b DEF LastEntry
  <2>3. CASE j = n /\ purpose = "entry"
    BY <2>1, <2>3, <1>u, <1>b, RowOrNone
  <2> QED
    BY <2>2, <2>3, <1>e
<1>3. RowFits(p, b, mis)
  BY <1>e, <1>d, <1>p, <1>b, RowFields DEF RowFits
<1>4. TradesFit(p, tr)
  <2> SUFFICES ASSUME NEW t \in tr PROVE TradeFits(p, t)
    BY DEF TradesFit
  <2>1. TradeFits(o, t)
    BY <1>b DEF TradesFit
  <2>2. t.entry \in EntriesOf(p) /\ t.key[2] \in 0..Len(p)
    BY <2>1, <1>e, <1>0, <1>p, <1>b DEF TradeFits
  <2>3. \A e \in EntriesOf(p) : t.entry < e => t.key[2] < e
    BY <2>1, <1>e, <1>0 DEF TradeFits
  <2>4. t.key[1] = "exit" => t.key[2] \in ClosesOf(p) /\ p[t.key[2]].done > 0
    BY <2>1, <1>e, <1>p, <1>b DEF TradeFits
  <2>5. t.key[1] = "spot" => t.key[2] \in DOMAIN p /\ p[t.key[2]].at = "ended"
    BY <2>1, <1>d, <1>p DEF TradeFits
  <2> QED
    BY <2>2, <2>3, <2>4, <2>5 DEF TradeFits
<1>5. Known(k, p, c, b, tr, mis, x)
  <2> SUFFICES ASSUME NEW i \in EntriesOf(p), p[i].done > 0, ~Unres(p, i), b.entry # i, i \notin mis, ~Traded(tr, i)
               PROVE  /\ k = "linear"
                      /\ \/ c = 0
                         \/ \E j \in EntriesOf(p) : i < j /\ p[j].done > 0
                         \/ x /\ b = NoRow /\ \A j \in EntriesOf(p) : j <= i
    BY DEF Known
  <2>1. i \in EntriesOf(o) /\ i \in DOMAIN o /\ o[i].done > 0 /\ ~Unres(o, i)
    BY <1>e, <1>u, <1>p, <1>b
  <2>2. /\ k = "linear"
        /\ \/ c = 0
           \/ \E j \in EntriesOf(o) : i < j /\ o[j].done > 0
           \/ x /\ b = NoRow /\ \A j \in EntriesOf(o) : j <= i
    BY <2>1, <1>b DEF Known
  <2>3. \A j \in EntriesOf(o) : p[j].done = o[j].done /\ j \in EntriesOf(p)
    BY <1>p, <1>b, <1>e
  <2>4. x => EntriesOf(p) = EntriesOf(o)
    BY <1>e
  <2> QED
    BY <2>2, <2>3, <2>4
<1>6. Sold(p, tr) = Sold(o, tr) /\ \A m : SoldBy(p, tr, m) = SoldBy(o, tr, m)
  <2>1. ~BookedExit(tr, n)
    BY <1>0, <1>p DEF BookedExit
  <2>2. SoldIn(p, tr) = SoldIn(o, tr)
    BY <2>1, <1>e DEF SoldIn
  <2>3. \A i \in SoldIn(o, tr) : p[i].done = o[i].done
    BY <1>b, <1>p DEF SoldIn
  <2> QED
    BY <2>2, <2>3, <1>b, <1>p, SoldKept
<1>7. ASSUME k = "linear" PROVE CountedRow(p, c, b, tr)
  <2> SUFFICES ASSUME b # NoRow
               PROVE  /\ c <= b.qty + Sold(o, tr)
                      /\ c <= o[b.entry].done + SoldBy(o, tr, b.opened)
                      /\ \A i \in ClosesOf(p) : b.opened < i => c + p[i].done <= o[b.entry].done + SoldBy(o, tr, b.opened)
    BY <1>6, <1>p, <1>b DEF CountedRow, RowFits
  <2>1. /\ c <= b.qty + Sold(o, tr)
        /\ c <= o[b.entry].done + SoldBy(o, tr, b.opened)
        /\ \A i \in ClosesOf(o) : b.opened < i => c + o[i].done <= o[b.entry].done + SoldBy(o, tr, b.opened)
    BY <1>7, <1>b DEF Counted, CountedRow
  <2>2. ASSUME NEW i \in ClosesOf(p), b.opened < i
        PROVE  c + p[i].done <= o[b.entry].done + SoldBy(o, tr, b.opened)
    <3>1. CASE i \in ClosesOf(o)
      BY <3>1, <2>1, <2>2, <1>p, <1>b
    <3>2. CASE i = n
      BY <3>2, <2>1, <1>p, <1>b
    <3> QED
      BY <3>1, <3>2, <1>e
  <2> QED
    BY <2>1, <2>2
<1>8. ASSUME k = "linear" PROVE CountedFlat(p, c, b, tr, x)
  <2> SUFFICES ASSUME b = NoRow
               PROVE  /\ \A e \in EntriesOf(p) : Unres(p, e) => c <= p[e].done + Sold(o, tr)
                      /\ (\A e \in EntriesOf(p) : ~Unres(p, e)) /\ ~x => c <= Sold(o, tr)
    BY <1>6 DEF CountedFlat
  <2>1. CountedFlat(o, c, b, tr, x)
    BY <1>8, <1>b DEF Counted
  <2>2. CASE purpose = "entry"
    <3>1. c <= Sold(o, tr) /\ \A e \in EntriesOf(o) : ~Unres(o, e)
      BY <2>1, <2>2 DEF CountedFlat
    <3>2. \A e \in EntriesOf(p) : Unres(p, e) => e = n
      BY <3>1, <2>2, <1>e, <1>u, <1>b
    <3>3. n \in EntriesOf(p)
      BY <1>e, <2>2
    <3> QED
      BY <3>1, <3>2, <3>3, <1>u, <1>p, <1>b
  <2>3. CASE purpose # "entry"
    BY <2>1, <2>3, <1>e, <1>u, <1>p, <1>b DEF CountedFlat
  <2> QED
    BY <2>2, <2>3
<1> QED
  BY <1>1, <1>2, <1>3, <1>4, <1>5, <1>7, <1>8, <1>b DEF Facts, Counted

\* The position of an entry that is still open in the ledger.
Opened(o, b, e) ==
    /\ b \in BookSet /\ b.qty = o[e].done /\ b.entry = e /\ b.opened = Len(o)
    /\ b.tps = {} /\ b.stopId = 0

LEMMA OpenedKeeps ==
    ASSUME NEW k, NEW o, NEW c, NEW b, NEW tr, NEW mis, NEW x \in BOOLEAN, NEW e \in EntriesOf(o), NEW b2,
           Shape(k, o, c, b, mis), Facts(k, o, c, b, tr, mis, x),
           b = NoRow, Unres(o, e), o[e].done > 0, Opened(o, b2, e)
    PROVE  b2 # NoRow /\ Facts(k, o, c, b2, tr, mis, FALSE)
<1>b. /\ o \in Seq(OrderSet) /\ c \in Int /\ Len(o) \in Nat
      /\ DOMAIN o = 1..Len(o) /\ EntriesOf(o) \subseteq DOMAIN o /\ ClosesOf(o) \subseteq DOMAIN o
      /\ \A j \in DOMAIN o : j \in Nat /\ j >= 1 /\ o[j].done \in Nat
      /\ OrdersFit(k, o) /\ LastEntry(o, b) /\ TradesFit(o, tr)
      /\ Known(k, o, c, b, tr, mis, x) /\ Counted(k, o, c, b, tr, x)
      /\ \A f, j \in EntriesOf(o) : Unres(o, f) => j <= f
      /\ \A f \in EntriesOf(o) : b.entry # f
      /\ Sold(o, tr) \in Nat
  BY Basics
<1>2. /\ b2.qty = o[e].done /\ b2.entry = e /\ b2.opened = Len(o) /\ b2.tps = {} /\ b2.stopId = 0 /\ b2 # NoRow
  BY <1>b, RowOrNone DEF Opened
<1>e. e \in DOMAIN o /\ e \in Nat /\ e >= 1 /\ e <= Len(o) /\ \A j \in EntriesOf(o) : j <= e
  BY <1>b
<1>3. LastEntry(o, b2)
  BY <1>b, <1>2, <1>e DEF LastEntry
<1>4. RowFits(o, b2, mis)
  BY <1>b, <1>2, <1>e DEF RowFits
<1>5. StopIsOwn(b2, tr)
  BY <1>b, <1>2 DEF StopIsOwn, TradesFit, TradeFits
<1>6. Known(k, o, c, b2, tr, mis, FALSE)
  <2> SUFFICES ASSUME NEW i \in EntriesOf(o), o[i].done > 0, ~Unres(o, i), i # e, i \notin mis, ~Traded(tr, i)
               PROVE  k = "linear" /\ (c = 0 \/ \E j \in EntriesOf(o) : i < j /\ o[j].done > 0)
    BY <1>2 DEF Known
  <2>1. /\ k = "linear"
        /\ c = 0 \/ (\E j \in EntriesOf(o) : i < j /\ o[j].done > 0) \/ (\A j \in EntriesOf(o) : j <= i)
    BY <1>b DEF Known
  <2>2. i <= e /\ i < e
    BY <1>e, <1>b
  <2> QED
    BY <2>1, <2>2, <1>b
<1>7. ASSUME k = "linear" PROVE CountedRow(o, c, b2, tr)
  <2>1. c <= o[e].done + Sold(o, tr)
    BY <1>7, <1>b DEF Counted, CountedFlat
  <2>2. SoldBy(o, tr, Len(o)) = Sold(o, tr)
    BY <1>b, SoldByNow
  <2>3. \A i \in ClosesOf(o) : ~(Len(o) < i)
    BY <1>b
  <2> QED
    BY <2>1, <2>2, <2>3, <1>2 DEF CountedRow
<1>8. CountedFlat(o, c, b2, tr, FALSE)
  BY <1>2 DEF CountedFlat
<1> QED
  BY <1>2, <1>3, <1>4, <1>5, <1>6, <1>7, <1>8, <1>b DEF Facts, Counted

KeyFits(o, key) ==
    /\ key[2] \in 0..Len(o)
    /\ key[1] = "exit" => key[2] \in ClosesOf(o) /\ o[key[2]].done > 0
    /\ key[1] = "spot" => key[2] \in DOMAIN o /\ o[key[2]].at = "ended"

\* Whoever booked this key booked it for this position, or for a misnamed one.
OwnKey(b, tr, mis, key) == \A t \in tr : t.key = key => t.entry = b.entry \/ b.entry \in mis

\* q of the position is booked under a key, once.
Books1(b, tr, b2, ts, key, q) ==
    /\ ts = IF \E t \in tr : t.key = key THEN tr ELSE tr \cup {[key |-> key, qty |-> q, entry |-> b.entry]}
    /\ q = b.qty => b2 = NoRow
    /\ q # b.qty => /\ b2 \in BookSet /\ b2.qty = b.qty - q /\ b2.entry = b.entry /\ b2.opened = b.opened
                    /\ b2.tps = b.tps /\ b2.stopId = b.stopId

LEMMA BookedIs ==
    ASSUME NEW b, NEW tr, NEW b2, NEW ts, NEW key, NEW q, Books1(b, tr, b2, ts, key, q)
    PROVE  /\ tr \subseteq ts
           /\ \A t \in ts : t \in tr \/ (t.key = key /\ t.entry = b.entry)
           /\ \E t \in ts : t.key = key
           /\ (\A t \in tr : t.key # key) => \E t : ts = tr \cup {t} /\ t.key = key /\ t.entry = b.entry
<1> DEFINE t == [key |-> key, qty |-> q, entry |-> b.entry]
<1>1. t.key = key /\ t.entry = b.entry
  OBVIOUS
<1>2. ts = IF \E s \in tr : s.key = key THEN tr ELSE tr \cup {t}
  BY DEF Books1
<1> HIDE DEF t
<1> QED
  BY <1>1, <1>2

LEMMA BookingKeeps ==
    ASSUME NEW k, NEW o, NEW c, NEW b, NEW tr, NEW mis,
           NEW b2, NEW ts, NEW key, NEW q \in Nat,
           Shape(k, o, c, b, mis), Facts(k, o, c, b, tr, mis, FALSE),
           b # NoRow, q <= b.qty, KeyFits(o, key), OwnKey(b, tr, mis, key), Books1(b, tr, b2, ts, key, q),
           k = "linear" => c <= (b.qty - q) + Sold(o, ts)
    PROVE  Facts(k, o, c, b2, ts, mis, FALSE)
<1>b. /\ o \in Seq(OrderSet) /\ b \in BookSet /\ c \in Int /\ Len(o) \in Nat
      /\ DOMAIN o = 1..Len(o) /\ EntriesOf(o) \subseteq DOMAIN o /\ ClosesOf(o) \subseteq DOMAIN o
      /\ \A j \in DOMAIN o : j \in Nat /\ j >= 1 /\ o[j].done \in Nat
      /\ OrdersFit(k, o) /\ LastEntry(o, b) /\ RowFits(o, b, mis) /\ TradesFit(o, tr) /\ StopIsOwn(b, tr)
      /\ Known(k, o, c, b, tr, mis, FALSE) /\ Counted(k, o, c, b, tr, FALSE)
      /\ Sold(o, tr) \in Nat /\ \A m : SoldBy(o, tr, m) \in Nat /\ SoldBy(o, tr, m) <= Sold(o, tr)
  BY Basics
<1>l. /\ b.entry \in EntriesOf(o) /\ \A j \in EntriesOf(o) : j <= b.entry
      /\ \A e \in EntriesOf(o) : Unres(o, e) => e = b.entry
  BY Basics
<1>t. /\ tr \subseteq ts
      /\ \A t \in ts : t \in tr \/ (t.key = key /\ t.entry = b.entry)
      /\ \E t \in ts : t.key = key
  BY BookedIs
<1>r. /\ b.qty \in Nat /\ b.qty >= 1
      /\ q = b.qty => b2 = NoRow
      /\ q # b.qty => /\ b2 \in BookSet /\ b2.qty = b.qty - q /\ b2.entry = b.entry /\ b2.opened = b.opened
                      /\ b2.tps = b.tps /\ b2.stopId = b.stopId
  BY <1>b, RowFields DEF Books1, RowFits
<1>0. /\ q # b.qty => b2 # NoRow
      /\ NoRow.entry = 0
  BY <1>r, <1>l, <1>b, RowOrNone
<1>2. LastEntry(o, b2)
  <2>1. CASE q = b.qty
    BY <2>1, <1>r, <1>0, <1>b DEF LastEntry
  <2>2. CASE q # b.qty
    BY <2>2, <1>r, <1>b DEF LastEntry
  <2> QED
    BY <2>1, <2>2
<1>3. RowFits(o, b2, mis)
  <2>1. CASE q = b.qty
    BY <2>1, <1>r DEF RowFits
  <2>2. CASE q # b.qty
    <3>1. b2.qty >= 1
      BY <2>2, <1>r
    <3> QED
      BY <2>2, <3>1, <1>r, <1>b DEF RowFits
  <2> QED
    BY <2>1, <2>2
<1>4. TradesFit(o, ts)
  <2> SUFFICES ASSUME NEW t \in ts PROVE TradeFits(o, t)
    BY DEF TradesFit
  <2>1. CASE t \in tr
    BY <2>1, <1>b DEF TradesFit
  <2>2. CASE t.key = key /\ t.entry = b.entry
    <3>1. \A e \in EntriesOf(o) : ~(b.entry < e)
      BY <1>l, <1>b
    <3> QED
      BY <2>2, <3>1, <1>l DEF TradeFits, KeyFits
  <2> QED
    BY <2>1, <2>2, <1>t
<1>5. StopIsOwn(b2, ts)
  <2>1. CASE q = b.qty
    BY <2>1, <1>r DEF StopIsOwn
  <2>2. CASE q # b.qty
    BY <2>2, <1>r, <1>t, <1>b DEF StopIsOwn
  <2> QED
    BY <2>1, <2>2
<1>6. Known(k, o, c, b2, ts, mis, FALSE)
  <2> SUFFICES ASSUME NEW i \in EntriesOf(o), o[i].done > 0, ~Unres(o, i), b2.entry # i, i \notin mis, ~Traded(ts, i)
               PROVE  k = "linear" /\ (c = 0 \/ \E j \in EntriesOf(o) : i < j /\ o[j].done > 0)
    BY DEF Known
  <2>1. ~Traded(tr, i)
    BY <1>t DEF Traded
  <2>2. CASE i # b.entry
    BY <2>1, <2>2, <1>b DEF Known
  <2>3. CASE i = b.entry
    BY <2>3, <1>t DEF Traded, OwnKey
  <2> QED
    BY <2>2, <2>3
<1>s. /\ Sold(o, tr) <= Sold(o, ts) /\ \A m : SoldBy(o, tr, m) <= SoldBy(o, ts, m)
      /\ Sold(o, ts) \in Nat /\ \A m : SoldBy(o, ts, m) \in Nat
  BY <1>t, <1>b, SoldGrows, SoldSets
<1>c. ASSUME k = "linear"
      PROVE  /\ c <= o[b.entry].done + SoldBy(o, tr, b.opened)
             /\ \A i \in ClosesOf(o) : b.opened < i => c + o[i].done <= o[b.entry].done + SoldBy(o, tr, b.opened)
             /\ o[b.entry].done \in Nat /\ \A i \in ClosesOf(o) : o[i].done \in Nat
  BY <1>c, <1>b, <1>l DEF Counted, CountedRow
<1>7. ASSUME k = "linear" PROVE CountedRow(o, c, b2, ts)
  <2> SUFFICES ASSUME q # b.qty
               PROVE  /\ c <= b2.qty + Sold(o, ts)
                      /\ c <= o[b.entry].done + SoldBy(o, ts, b.opened)
                      /\ \A i \in ClosesOf(o) : b.opened < i => c + o[i].done <= o[b.entry].done + SoldBy(o, ts, b.opened)
    BY <1>r DEF CountedRow
  <2>1. c <= b2.qty + Sold(o, ts)
    BY <1>7, <1>r
  <2>2. c <= o[b.entry].done + SoldBy(o, ts, b.opened)
    BY <1>7, <1>c, <1>s, <1>b
  <2>3. ASSUME NEW i \in ClosesOf(o), b.opened < i
        PROVE  c + o[i].done <= o[b.entry].done + SoldBy(o, ts, b.opened)
    BY <2>3, <1>7, <1>c, <1>s, <1>b
  <2> QED
    BY <2>1, <2>2, <2>3
<1>8. ASSUME k = "linear" PROVE CountedFlat(o, c, b2, ts, FALSE)
  <2> SUFFICES ASSUME q = b.qty
               PROVE  /\ \A e \in EntriesOf(o) : Unres(o, e) => c <= o[e].done + Sold(o, ts)
                      /\ c <= Sold(o, ts)
    BY <1>0 DEF CountedFlat
  <2>1. c <= Sold(o, ts)
    BY <1>8, <1>r, <1>s, <1>b
  <2> QED
    BY <2>1, <1>b, <1>s
<1> QED
  BY <1>2, <1>3, <1>4, <1>5, <1>6, <1>7, <1>8, <1>b DEF Facts, Counted

\* The exit of a close sent for this position.
LEMMA ExitIsCounted ==
    ASSUME NEW k, NEW o, NEW c, NEW b, NEW tr, NEW mis, NEW x \in BOOLEAN,
           NEW b2, NEW ts, NEW i \in ClosesOf(o), NEW q \in Nat,
           Shape(k, o, c, b, mis), Facts(k, o, c, b, tr, mis, x),
           b # NoRow, q <= b.qty, b.opened < i, o[i].done > 0, q <= o[i].done,
           Books1(b, tr, b2, ts, <<"exit", i>>, q)
    PROVE  /\ KeyFits(o, <<"exit", i>>) /\ OwnKey(b, tr, mis, <<"exit", i>>)
           /\ k = "linear" => c <= (b.qty - q) + Sold(o, ts)
<1>b. /\ o \in Seq(OrderSet) /\ b \in BookSet /\ c \in Int /\ Len(o) \in Nat
      /\ DOMAIN o = 1..Len(o) /\ EntriesOf(o) \subseteq DOMAIN o /\ ClosesOf(o) \subseteq DOMAIN o
      /\ \A j \in DOMAIN o : j \in Nat /\ j >= 1 /\ o[j].done \in Nat
      /\ OrdersFit(k, o) /\ RowFits(o, b, mis) /\ TradesFit(o, tr) /\ Counted(k, o, c, b, tr, x)
      /\ Sold(o, tr) \in Nat /\ \A m : SoldBy(o, tr, m) \in Nat
  BY Basics
<1>l. b.entry \in EntriesOf(o) /\ \A j \in EntriesOf(o) : j <= b.entry
  BY Basics
<1>r. b.qty \in Nat /\ b.opened \in Nat /\ b.entry <= b.opened /\ b.entry \in Nat /\ i \in DOMAIN o /\ o[i].done \in Nat
  BY <1>b, <1>l, RowFields DEF RowFits
<1>a. c \in Int /\ b.qty \in Nat /\ o[i].done \in Nat /\ o[i].done >= 1 /\ q \in Nat /\ q <= b.qty /\ q <= o[i].done
  BY <1>b, <1>r
<1>1. KeyFits(o, <<"exit", i>>)
  BY <1>b, <1>r DEF KeyFits
<1>2. OwnKey(b, tr, mis, <<"exit", i>>)
  <2> SUFFICES ASSUME NEW t \in tr, t.key = <<"exit", i>> PROVE t.entry = b.entry
    BY DEF OwnKey
  <2>1. t.key[2] = i /\ t.entry \in EntriesOf(o) /\ (t.entry < b.entry => t.key[2] < b.entry)
    BY <1>b, <1>l DEF TradesFit, TradeFits
  <2> QED
    BY <2>1, <1>l, <1>r, <1>b
<1>3. ASSUME k = "linear" PROVE c <= (b.qty - q) + Sold(o, ts)
  <2>1. /\ c <= b.qty + Sold(o, tr)
        /\ c + o[i].done <= o[b.entry].done + SoldBy(o, tr, b.opened)
    BY <1>3, <1>b DEF Counted, CountedRow
  <2>2. CASE BookedExit(tr, i)
    <3>1. ts = tr
      BY <2>2 DEF Books1, BookedExit
    <3>2. SoldBy(o, tr, b.opened) + o[i].done <= Sold(o, tr)
      BY <2>2, <1>b, <1>r, SoldSince DEF SoldIn
    <3>3. o[b.entry].done <= 2 /\ o[b.entry].done \in Nat
      BY <1>b, <1>l DEF OrdersFit, OrderFits, EntriesOf
    <3>4. SoldBy(o, tr, b.opened) \in Nat /\ Sold(o, tr) \in Nat
      BY <1>b
    <3>5. c <= Sold(o, tr)
      BY <2>1, <3>2, <3>3, <3>4, <1>a
    <3> QED
      BY <3>1, <3>4, <3>5, <1>a
  <2>3. CASE ~BookedExit(tr, i)
    <3>1. PICK t : ts = tr \cup {t} /\ t.key = <<"exit", i>>
      BY <2>3, BookedIs DEF BookedExit
    <3>2. Sold(o, tr) + o[i].done <= Sold(o, ts)
      BY <2>3, <3>1, <1>b, SoldMore
    <3>3. Sold(o, ts) \in Nat /\ Sold(o, tr) \in Nat
      BY <1>b, SoldSets
    <3> QED
      BY <2>1, <3>2, <3>3, <1>a
  <2> QED
    BY <2>2, <2>3
<1> QED
  BY <1>1, <1>2, <1>3

LEMMA ExitKeeps ==
    ASSUME NEW k, NEW o, NEW c, NEW b, NEW tr, NEW mis,
           NEW b2, NEW ts, NEW i \in ClosesOf(o), NEW q \in Nat,
           Shape(k, o, c, b, mis), Facts(k, o, c, b, tr, mis, FALSE),
           b # NoRow, q <= b.qty, b.opened < i, o[i].done > 0, q <= o[i].done,
           Books1(b, tr, b2, ts, <<"exit", i>>, q)
    PROVE  Facts(k, o, c, b2, ts, mis, FALSE)
<1>1. /\ KeyFits(o, <<"exit", i>>) /\ OwnKey(b, tr, mis, <<"exit", i>>)
      /\ k = "linear" => c <= (b.qty - q) + Sold(o, ts)
  BY ExitIsCounted
<1> QED
  BY <1>1, BookingKeeps

\* The exit the venue's position shows.
LEMMA PositionKeeps ==
    ASSUME NEW k, NEW o, NEW c, NEW b, NEW tr, NEW mis, NEW b2, NEW ts, NEW key,
           Shape(k, o, c, b, mis), Facts(k, o, c, b, tr, mis, FALSE),
           b # NoRow, c \in Nat, c < b.qty, key[1] = "position", key[2] = b.opened,
           Books1(b, tr, b2, ts, key, b.qty - c)
    PROVE  Facts(k, o, c, b2, ts, mis, FALSE)
<1>b. /\ o \in Seq(OrderSet) /\ b \in BookSet /\ Len(o) \in Nat /\ EntriesOf(o) \subseteq DOMAIN o
      /\ \A j \in DOMAIN o : j \in Nat
      /\ RowFits(o, b, mis) /\ TradesFit(o, tr)
  BY Basics
<1>l. b.entry \in EntriesOf(o) /\ \A j \in EntriesOf(o) : j <= b.entry
  BY Basics
<1>r. b.qty \in Nat /\ b.opened \in Nat /\ b.entry <= b.opened /\ b.opened <= Len(o) /\ b.entry \in Nat
  BY <1>b, <1>l, RowFields DEF RowFits
<1>1. KeyFits(o, key)
  BY <1>b, <1>r DEF KeyFits
<1>2. OwnKey(b, tr, mis, key)
  <2> SUFFICES ASSUME NEW t \in tr, t.key = key PROVE t.entry = b.entry
    BY DEF OwnKey
  <2>1. t.entry \in EntriesOf(o) /\ (t.entry < b.entry => t.key[2] < b.entry)
    BY <1>b, <1>l DEF TradesFit, TradeFits
  <2> QED
    BY <2>1, <1>l, <1>r, <1>b
<1>3. c <= (b.qty - (b.qty - c)) + Sold(o, ts)
  <2>1. Sold(o, ts) \in Nat
    BY <1>b, SoldSets
  <2> QED
    BY <2>1, <1>r
<1>4. b.qty - c \in Nat /\ b.qty - c <= b.qty
  BY <1>r
<1> QED
  BY <1>1, <1>2, <1>3, <1>4, BookingKeeps

\* On spot, the exit of an order that the row names.
LEMMA LegKeeps ==
    ASSUME NEW k, NEW o, NEW c, NEW b, NEW tr, NEW mis, NEW b2, NEW ts, NEW i \in DOMAIN o, NEW q \in Nat,
           Shape(k, o, c, b, mis), Facts(k, o, c, b, tr, mis, FALSE),
           k # "linear", b # NoRow, q <= b.qty, i \in b.tps \/ i = b.stopId, o[i].at = "ended",
           Books1(b, tr, b2, ts, <<"spot", i>>, q)
    PROVE  Facts(k, o, c, b2, ts, mis, FALSE)
<1>b. /\ o \in Seq(OrderSet) /\ b \in BookSet /\ Len(o) \in Nat /\ DOMAIN o = 1..Len(o) /\ EntriesOf(o) \subseteq DOMAIN o
      /\ \A j \in DOMAIN o : j \in Nat
      /\ RowFits(o, b, mis) /\ TradesFit(o, tr) /\ StopIsOwn(b, tr)
  BY Basics
<1>l. b.entry \in EntriesOf(o) /\ \A j \in EntriesOf(o) : j <= b.entry
  BY Basics
<1>1. KeyFits(o, <<"spot", i>>)
  BY <1>b DEF KeyFits
<1>2. OwnKey(b, tr, mis, <<"spot", i>>)
  <2> SUFFICES ASSUME NEW t \in tr, t.key = <<"spot", i>>, b.entry \notin mis PROVE t.entry = b.entry
    BY DEF OwnKey
  <2>1. t.key[2] = i /\ t.entry \in EntriesOf(o) /\ (t.entry < b.entry => t.key[2] < b.entry)
    BY <1>b, <1>l DEF TradesFit, TradeFits
  <2>2. CASE i = b.stopId
    BY <2>2 , <1>b DEF StopIsOwn
  <2>3. CASE i \in b.tps
    BY <2>1, <2>3, <1>l, <1>b DEF RowFits
  <2> QED
    BY <2>2, <2>3
<1> QED
  BY <1>1, <1>2, BookingKeeps

\* The row names other orders; nothing is booked.
LEMMA NamingKeeps ==
    ASSUME NEW k, NEW o, NEW c, NEW b, NEW tr, NEW mis, NEW b2, NEW mis2,
           Shape(k, o, c, b, mis), Facts(k, o, c, b, tr, mis, FALSE), b # NoRow, mis \subseteq mis2,
           b2 \in BookSet, b2.qty = b.qty, b2.entry = b.entry, b2.opened = b.opened,
           \A i \in b2.tps : i \in DOMAIN o /\ (b.entry < i \/ b.entry \in mis2),
           b2.stopId # 0 => b2.stopId \in DOMAIN o /\ o[b2.stopId].purpose = "stop",
           \A t \in tr : t.key = <<"spot", b2.stopId>> => t.entry = b.entry
    PROVE  Facts(k, o, c, b2, tr, mis2, FALSE) /\ b2 # NoRow
<1>b. /\ EntriesOf(o) \subseteq DOMAIN o /\ \A j \in DOMAIN o : j \in Nat /\ j >= 1
      /\ OrdersFit(k, o) /\ LastEntry(o, b) /\ RowFits(o, b, mis) /\ TradesFit(o, tr)
      /\ Known(k, o, c, b, tr, mis, FALSE) /\ Counted(k, o, c, b, tr, FALSE)
  BY Basics
<1>n. b2 # NoRow
  BY <1>b, RowOrNone DEF RowFits
<1>2. LastEntry(o, b2)
  BY <1>b DEF LastEntry
<1>3. RowFits(o, b2, mis2)
  BY <1>b DEF RowFits
<1>4. StopIsOwn(b2, tr)
  BY DEF StopIsOwn
<1>5. Known(k, o, c, b2, tr, mis2, FALSE)
  BY <1>b DEF Known
<1>6. Counted(k, o, c, b2, tr, FALSE)
  BY <1>b, <1>n DEF Counted, CountedRow, CountedFlat
<1> QED
  BY <1>2, <1>3, <1>4, <1>5, <1>6, <1>b, <1>n DEF Facts

\* Stopping asks for less; starting is over when nothing is held without a row.
LEMMA StartingKeeps ==
    ASSUME NEW k, NEW o, NEW c, NEW b, NEW tr, NEW mis, NEW x \in BOOLEAN, Facts(k, o, c, b, tr, mis, FALSE)
    PROVE  Facts(k, o, c, b, tr, mis, x)
<1>1. Known(k, o, c, b, tr, mis, x)
  BY DEF Facts, Known
<1>2. Counted(k, o, c, b, tr, x)
  BY DEF Facts, Counted, CountedFlat
<1> QED
  BY <1>1, <1>2 DEF Facts

LEMMA StartedKeeps ==
    ASSUME NEW k, NEW o, NEW c, NEW b, NEW tr, NEW mis, NEW x \in BOOLEAN,
           Shape(k, o, c, b, mis), Facts(k, o, c, b, tr, mis, x), b # NoRow \/ (k = "linear" => c = 0)
    PROVE  Facts(k, o, c, b, tr, mis, FALSE)
<1>1. Known(k, o, c, b, tr, mis, FALSE)
  BY DEF Facts, Known
<1>2. Counted(k, o, c, b, tr, FALSE)
  <2>1. Sold(o, tr) \in Nat
    BY Basics
  <2> QED
    BY <2>1 DEF Facts, Counted, CountedFlat
<1> QED
  BY <1>1, <1>2 DEF Facts

-------------------------------------------------------------------------------
(* Writes to the orders table, and moves of the venue, that sell nothing.  *)

LEMMA Remade ==
    ASSUME NEW o \in Seq(OrderSet), NEW p, p = [i \in DOMAIN o |-> p[i]], \A i \in DOMAIN o : p[i] \in OrderSet
    PROVE  p \in Seq(OrderSet) /\ Len(p) = Len(o) /\ DOMAIN p = DOMAIN o
<1>1. DOMAIN o = 1..Len(o) /\ Len(o) \in Nat
  BY OrdersAre
<1>2. p \in [1..Len(o) -> OrderSet] /\ DOMAIN p = 1..Len(o)
  BY <1>1
<1>4. p \in Seq(OrderSet)
  BY <1>1, <1>2, IsASeq
<1>5. Len(p) = Len(o)
  BY <1>1, <1>2, <1>4, LenProperties
<1> QED
  BY <1>1, <1>2, <1>4, <1>5

RowsOf(o, S, st) == [i \in DOMAIN o |-> IF i \in S THEN [o[i] EXCEPT !.row = st] ELSE o[i]]

CancelledOf(o, S) == [i \in DOMAIN o |-> IF i \notin S THEN o[i]
                                         ELSE [o[i] EXCEPT !.row = "cancelled", !.at = IF @ = "live" THEN "ended" ELSE @]]

AtOf(o, i, w, d) == [o EXCEPT ![i].at = w, ![i].done = d]

LEMMA RowsAre ==
    ASSUME NEW o \in Seq(OrderSet), NEW S, NEW st \in RowStates
    PROVE  LET p == RowsOf(o, S, st)
           IN  /\ p \in Seq(OrderSet) /\ Len(p) = Len(o) /\ DOMAIN p = DOMAIN o
               /\ \A i \in DOMAIN o : /\ p[i].purpose = o[i].purpose /\ p[i].qty = o[i].qty
                                      /\ p[i].at = o[i].at /\ p[i].done = o[i].done
                                      /\ p[i].row = IF i \in S THEN st ELSE o[i].row
<1> DEFINE p == RowsOf(o, S, st)
<1>1. p = [i \in DOMAIN o |-> p[i]]
  BY DEF RowsOf
<1>2. ASSUME NEW i \in DOMAIN o
      PROVE  /\ p[i] \in OrderSet
             /\ p[i].purpose = o[i].purpose /\ p[i].qty = o[i].qty
             /\ p[i].at = o[i].at /\ p[i].done = o[i].done
             /\ p[i].row = IF i \in S THEN st ELSE o[i].row
  <2>1. o[i] \in OrderSet /\ p[i] = IF i \in S THEN [o[i] EXCEPT !.row = st] ELSE o[i]
    BY OrdersAre DEF RowsOf
  <2> HIDE DEF p
  <2> QED
    BY <2>1 DEF OrderSet
<1> HIDE DEF p
<1>3. p \in Seq(OrderSet) /\ Len(p) = Len(o) /\ DOMAIN p = DOMAIN o
  BY <1>1, <1>2, Remade
<1> QED
  BY <1>2, <1>3 DEF p

LEMMA CancelledAre ==
    ASSUME NEW o \in Seq(OrderSet), NEW S
    PROVE  LET p == CancelledOf(o, S)
           IN  /\ p \in Seq(OrderSet) /\ Len(p) = Len(o) /\ DOMAIN p = DOMAIN o
               /\ \A i \in DOMAIN o : /\ p[i].purpose = o[i].purpose /\ p[i].done = o[i].done
                                      /\ i \notin S => p[i] = o[i]
                                      /\ o[i].at = "ended" => p[i].at = "ended"
                                      /\ p[i].at = o[i].at \/ p[i].at = "ended"
<1> DEFINE p == CancelledOf(o, S)
<1>1. p = [i \in DOMAIN o |-> p[i]]
  BY DEF CancelledOf
<1>2. ASSUME NEW i \in DOMAIN o
      PROVE  /\ p[i] \in OrderSet
             /\ p[i].purpose = o[i].purpose /\ p[i].done = o[i].done
             /\ i \notin S => p[i] = o[i]
             /\ o[i].at = "ended" => p[i].at = "ended"
             /\ p[i].at = o[i].at \/ p[i].at = "ended"
  <2>1. /\ o[i] \in OrderSet
        /\ p[i] = IF i \notin S THEN o[i]
                  ELSE [o[i] EXCEPT !.row = "cancelled", !.at = IF o[i].at = "live" THEN "ended" ELSE o[i].at]
    BY OrdersAre DEF CancelledOf
  <2> HIDE DEF p
  <2> QED
    BY <2>1 DEF OrderSet, RowStates, Places
<1> HIDE DEF p
<1>3. p \in Seq(OrderSet) /\ Len(p) = Len(o) /\ DOMAIN p = DOMAIN o
  BY <1>1, <1>2, Remade
<1> QED
  BY <1>2, <1>3 DEF p

LEMMA AtIs ==
    ASSUME NEW o \in Seq(OrderSet), NEW i \in DOMAIN o, NEW w \in Places, NEW d \in Nat
    PROVE  LET p == AtOf(o, i, w, d)
           IN  /\ p \in Seq(OrderSet) /\ Len(p) = Len(o) /\ DOMAIN p = DOMAIN o
               /\ \A j \in DOMAIN o : j # i => p[j] = o[j]
               /\ p[i].purpose = o[i].purpose /\ p[i].row = o[i].row /\ p[i].at = w /\ p[i].done = d
<1> DEFINE p == AtOf(o, i, w, d)
<1>0. DOMAIN p = DOMAIN o /\ p = [j \in DOMAIN o |-> p[j]]
  BY DEF AtOf
<1>1. \A j \in DOMAIN o : j # i => p[j] = o[j]
  BY DEF AtOf
<1>2. o[i] \in OrderSet /\ p[i] = [o[i] EXCEPT !.at = w, !.done = d] /\ \A j \in DOMAIN o : o[j] \in OrderSet
  BY OrdersAre DEF AtOf
<1> HIDE DEF p
<1>3. p[i] \in OrderSet /\ p[i].purpose = o[i].purpose /\ p[i].row = o[i].row /\ p[i].at = w /\ p[i].done = d
  BY <1>2 DEF OrderSet
<1>4. p \in Seq(OrderSet) /\ Len(p) = Len(o)
  BY <1>0, <1>1, <1>2, <1>3, Remade
<1> QED
  BY <1>0, <1>1, <1>3, <1>4 DEF p

\* Rows of orders that are not open entries, or of entries with nothing to lose.
LEMMA RowsAreQuiet ==
    ASSUME NEW k, NEW o \in Seq(OrderSet), NEW b, NEW x, NEW S, NEW st \in RowStates, OrdersFit(k, o),
           \A i \in S \cap EntriesOf(o) :
              IF st \in {"pending", "submitted", "unknown"} THEN Unres(o, i)
              ELSE /\ o[i].at \notin {"flying", "live"}
                   /\ Unres(o, i) => o[i].done = 0 \/ b.entry = i \/ (k = "linear" /\ x /\ b = NoRow)
    PROVE  Quiet(k, o, RowsOf(o, S, st), b, x)
<1> DEFINE p == RowsOf(o, S, st)
<1>1. /\ p \in Seq(OrderSet) /\ Len(p) = Len(o)
      /\ \A i \in DOMAIN o : /\ p[i].purpose = o[i].purpose
                             /\ p[i].at = o[i].at /\ p[i].done = o[i].done
                             /\ p[i].row = IF i \in S THEN st ELSE o[i].row
  BY RowsAre
<1> HIDE DEF p
<1>2. ASSUME NEW i \in EntriesOf(o)
      PROVE  /\ p[i].at \in {"flying", "live"} => Unres(p, i)
             /\ Unres(p, i) => Unres(o, i)
             /\ Unres(o, i) /\ ~Unres(p, i) => o[i].done = 0 \/ b.entry = i \/ (k = "linear" /\ x /\ b = NoRow)
  <2>1. i \in DOMAIN o /\ (o[i].at \in {"flying", "live"} => Unres(o, i))
    BY OrdersAre DEF OrdersFit, OrderFits, EntriesOf, Unres
  <2>2. CASE i \notin S
    BY <2>1, <2>2, <1>1 DEF Unres
  <2>3. CASE i \in S
    BY <2>1, <2>3, <1>1 DEF Unres
  <2> QED
    BY <2>2, <2>3
<1> QED
  BY <1>1, <1>2 DEF Quiet, p

\* A cancellation that leaves the entries alone.
LEMMA CancelIsQuiet ==
    ASSUME NEW k, NEW o \in Seq(OrderSet), NEW b, NEW x, NEW S, OrdersFit(k, o), S \cap EntriesOf(o) = {}
    PROVE  Quiet(k, o, CancelledOf(o, S), b, x)
<1> DEFINE p == CancelledOf(o, S)
<1>1. /\ p \in Seq(OrderSet) /\ Len(p) = Len(o)
      /\ \A i \in DOMAIN o : /\ p[i].purpose = o[i].purpose /\ p[i].done = o[i].done
                             /\ i \notin S => p[i] = o[i]
                             /\ o[i].at = "ended" => p[i].at = "ended"
  BY CancelledAre
<1> HIDE DEF p
<1>2. ASSUME NEW i \in EntriesOf(o)
      PROVE  p[i] = o[i] /\ (o[i].at \in {"flying", "live"} => Unres(o, i))
  BY <1>1, OrdersAre DEF OrdersFit, OrderFits, EntriesOf, Unres
<1> QED
  BY <1>1, <1>2 DEF Quiet, Unres, p

\* A request arrives, or an order ends, with nothing executed.
LEMMA MoveIsQuiet ==
    ASSUME NEW k, NEW o \in Seq(OrderSet), NEW b, NEW x, NEW i \in DOMAIN o, NEW w \in Places, OrdersFit(k, o),
           o[i].at # "ended", i \in EntriesOf(o) /\ w \in {"flying", "live"} => Unres(o, i)
    PROVE  Quiet(k, o, AtOf(o, i, w, 0), b, x)
<1> DEFINE p == AtOf(o, i, w, 0)
<1>1. /\ p \in Seq(OrderSet) /\ Len(p) = Len(o)
      /\ \A j \in DOMAIN o : j # i => p[j] = o[j]
      /\ p[i].purpose = o[i].purpose /\ p[i].row = o[i].row /\ p[i].at = w /\ p[i].done = 0
  BY AtIs
<1>2. o[i].done = 0
  BY DEF OrdersFit, OrderFits
<1> HIDE DEF p
<1>3. ASSUME NEW j \in EntriesOf(o)
      PROVE  (p[j].at \in {"flying", "live"} => Unres(p, j)) /\ (Unres(p, j) <=> Unres(o, j))
  <2>1. j \in DOMAIN o /\ (o[j].at \in {"flying", "live"} => Unres(o, j))
    BY OrdersAre DEF OrdersFit, OrderFits, EntriesOf, Unres
  <2>2. CASE j # i
    BY <2>1, <2>2, <1>1 DEF Unres
  <2>3. CASE j = i
    BY <2>1, <2>3, <1>1 DEF Unres
  <2> QED
    BY <2>2, <2>3
<1>4. \A j \in DOMAIN o : /\ p[j].purpose = o[j].purpose /\ p[j].done = o[j].done
                          /\ o[j].at = "ended" => p[j].at = "ended"
  BY <1>1, <1>2
<1> QED
  BY <1>1, <1>3, <1>4 DEF Quiet, p

-------------------------------------------------------------------------------
(* The steps: the invariant's parts, and where the thread goes.            *)

LEMMA InvGives ==
    ASSUME DirectionalInv
    PROVE  /\ kind \in {"linear", "spot"} /\ orders \in Seq(OrderSet) /\ coin \in Int /\ posStop \in BOOLEAN
           /\ book \in BookSet /\ killed \in BOOLEAN /\ pc \in Points /\ job \in JobSet /\ misnamed \subseteq Nat
           /\ Starting \in BOOLEAN /\ Shape(kind, orders, coin, book, misnamed)
           /\ Facts(kind, orders, coin, book, trades, misnamed, Starting)
           /\ pc \notin {"stopped", "boot"} => Facts(kind, orders, coin, book, trades, misnamed, FALSE)
           /\ Controls(kind, orders, book, trades, pc, job)
<1>1. Facts(kind, orders, coin, book, trades, misnamed, Starting) /\ Controls(kind, orders, book, trades, pc, job)
  BY DEF DirectionalInv, BookFacts, Control
<1>2. pc \notin {"stopped", "boot"} => Starting = FALSE
  BY DEF Starting
<1>3. Starting \in BOOLEAN
  BY DEF Starting
<1> QED
  BY <1>1, <1>2, <1>3 DEF DirectionalInv, DirectionalTyped, Shape

LEMMA InvFrom ==
    ASSUME DirectionalTyped', Facts(kind', orders', coin', book', trades', misnamed', FALSE),
           Controls(kind', orders', book', trades', pc', job')
    PROVE  DirectionalInv'
<1>1. Starting' \in BOOLEAN
  BY DEF Starting
<1>2. Facts(kind', orders', coin', book', trades', misnamed', Starting')
  BY <1>1, StartingKeeps
<1> QED
  BY <1>2 DEF DirectionalInv, BookFacts, Control

\* The venue's moves leave the thread where it is.
LEMMA VenueLeaves ==
    ASSUME NEW k, NEW o \in Seq(OrderSet), NEW p, NEW b \in BookSet, NEW mis, NEW tr, NEW pt, NEW j \in JobSet,
           OrdersFit(k, o), RowFits(o, b, mis), Controls(k, o, b, tr, pt, j), DOMAIN p = DOMAIN o,
           \A i \in DOMAIN o : /\ p[i].purpose = o[i].purpose /\ p[i].row = o[i].row
                               /\ o[i].at \notin {"flying", "live"} => p[i] = o[i]
    PROVE  Controls(k, p, b, tr, pt, j)
<1>1. ClosesOf(p) = ClosesOf(o)
  BY DEF ClosesOf
<1>2. \A i \in DOMAIN o : /\ o[i].done \in Nat
                          /\ o[i].done > 0 => p[i] = o[i]
                          /\ Unres(p, i) <=> Unres(o, i)
  BY OneOrder DEF OrdersFit, OrderFits, Unres
<1>3. b # NoRow => b.qty \in Nat /\ b.qty >= 1
  BY RowFields DEF RowFits
<1>4. JobOrder(p, b, pt, j)
  <2> SUFFICES ASSUME HasOrder(pt, j)
               PROVE  /\ j.id = 0 => j.how \in StopWays
                      /\ j.id # 0 => j.id \in DOMAIN p /\ p[j.id].purpose = Placed[j.how]
                      /\ j.how # "entry" => b # NoRow /\ (j.id # 0 => b.opened < j.id)
                      /\ j.how = "entry" => b = NoRow /\ Unres(p, j.id)
                      /\ pt = "send" /\ j.id # 0 => p[j.id].at = "unsent"
                      /\ pt = "reply" /\ j.how = "entry" /\ j.answer = "refused" => p[j.id].at = "lost"
                      /\ pt = "fill" => p[j.id].done > 0
                      /\ pt \in {"cancel_all", "book_close"} => p[j.id].done >= b.qty
    BY DEF JobOrder
  <2>1. /\ j.id = 0 => j.how \in StopWays
        /\ j.id # 0 => j.id \in DOMAIN o /\ o[j.id].purpose = Placed[j.how]
        /\ j.how # "entry" => b # NoRow /\ (j.id # 0 => b.opened < j.id)
        /\ j.how = "entry" => b = NoRow /\ Unres(o, j.id)
        /\ pt = "send" /\ j.id # 0 => o[j.id].at = "unsent"
        /\ pt = "reply" /\ j.how = "entry" /\ j.answer = "refused" => o[j.id].at = "lost"
        /\ pt = "fill" => o[j.id].done > 0
        /\ pt \in {"cancel_all", "book_close"} => o[j.id].done >= b.qty
    BY DEF Controls, JobOrder
  <2>2. pt \in {"poll", "fill", "cancel_all", "book_close"} \/ j.how = "entry" => j.id # 0
    <3>1. pt \in {"poll", "fill"} => j.how \in {"entry", "close", "flatten"}
      BY DEF Controls, JobWays
    <3>2. pt \in {"cancel_all", "book_close"} => j.how = "close"
      BY DEF Controls, JobWays, HasOrder
    <3> QED
      BY <2>1, <3>1, <3>2 DEF StopWays
  <2>3. pt \in {"cancel_all", "book_close"} => b # NoRow
    BY <2>1 DEF Controls, JobWays, HasOrder
  <2>4. pt \in {"cancel_all", "book_close"} => p[j.id].done >= b.qty
    BY <2>1, <2>2, <2>3, <1>2, <1>3
  <2> QED
    BY <2>1, <2>2, <2>4, <1>2
<1>5. JobRow(p, b, tr, pt, j)
  BY <1>1 DEF Controls, JobRow
<1> QED
  BY <1>4, <1>5 DEF Controls

LEMMA VenueMoves ==
    ASSUME DirectionalInv, UNCHANGED <<kind, book, trades, killed, pc, job, misnamed>>,
           coin' \in Int, posStop' \in BOOLEAN, orders' \in Seq(OrderSet), DOMAIN orders' = DOMAIN orders,
           \A i \in DOMAIN orders : /\ orders'[i].purpose = orders[i].purpose /\ orders'[i].row = orders[i].row
                                    /\ orders[i].at \notin {"flying", "live"} => orders'[i] = orders[i],
           Facts(kind, orders', coin', book, trades, misnamed, Starting)
    PROVE  DirectionalInv'
<1>1. /\ kind \in {"linear", "spot"} /\ orders \in Seq(OrderSet) /\ book \in BookSet /\ killed \in BOOLEAN
      /\ pc \in Points /\ job \in JobSet /\ misnamed \subseteq Nat
      /\ Facts(kind, orders, coin, book, trades, misnamed, Starting)
      /\ Controls(kind, orders, book, trades, pc, job)
  BY InvGives
<1>2. OrdersFit(kind, orders) /\ RowFits(orders, book, misnamed)
  BY <1>1 DEF Facts
<1>3. Controls(kind, orders', book, trades, pc, job)
  BY <1>1, <1>2, VenueLeaves
<1>4. DirectionalTyped'
  BY <1>1 DEF DirectionalTyped
<1>5. Starting' = Starting
  BY DEF Starting
<1>6. Facts(kind', orders', coin', book', trades', misnamed', Starting') /\ Controls(kind', orders', book', trades', pc', job')
  BY <1>3, <1>5
<1> QED
  BY <1>4, <1>6 DEF DirectionalInv, BookFacts, Control

LEMMA AtIsAt == ASSUME NEW i, NEW w, NEW d PROVE At(i, w, d) = AtOf(orders, i, w, d)
  BY DEF At, AtOf

LEMMA ArrivesKeeps == ASSUME DirectionalInv, Arrives PROVE DirectionalInv'
<1>1. PICK i \in DOMAIN orders, w \in {"live", "lost"} : orders[i].at = "flying" /\ orders' = AtOf(orders, i, w, 0)
  BY AtIsAt DEF Arrives, Ids
<1>2. UNCHANGED <<kind, book, trades, killed, pc, job, misnamed, coin, posStop>>
  BY DEF Arrives, venue, ledger
<1>3. /\ orders \in Seq(OrderSet) /\ coin \in Int /\ posStop \in BOOLEAN /\ Starting \in BOOLEAN
      /\ Shape(kind, orders, coin, book, misnamed)
      /\ Facts(kind, orders, coin, book, trades, misnamed, Starting) /\ OrdersFit(kind, orders)
  BY InvGives DEF Facts
<1>4. i \in EntriesOf(orders) => Unres(orders, i)
  BY <1>1, <1>3 DEF OrdersFit, OrderFits, EntriesOf, Unres
<1>5. Quiet(kind, orders, orders', book, Starting)
  BY <1>1, <1>3, <1>4, MoveIsQuiet DEF Places
<1>6. Facts(kind, orders', coin, book, trades, misnamed, Starting)
  BY <1>3, <1>5, QuietKeeps
<1>7. /\ orders' \in Seq(OrderSet) /\ DOMAIN orders' = DOMAIN orders
      /\ \A j \in DOMAIN orders : j # i => orders'[j] = orders[j]
      /\ orders'[i].purpose = orders[i].purpose /\ orders'[i].row = orders[i].row
  BY <1>1, <1>3, AtIs DEF Places
<1> QED
  BY <1>1, <1>2, <1>3, <1>6, <1>7, VenueMoves

LEMMA EntryExecutesKeeps == ASSUME DirectionalInv, EntryExecutes PROVE DirectionalInv'
<1>1. PICK i \in DOMAIN orders, d \in 0..2 :
         /\ i \in EntriesOf(orders) /\ orders[i].at = "live"
         /\ orders' = AtOf(orders, i, "ended", d) /\ coin' = coin + d
  BY AtIsAt DEF EntryExecutes, Of, Ids, EntriesOf, Lot
<1>2. UNCHANGED <<kind, book, trades, killed, pc, job, misnamed, posStop>>
  BY DEF EntryExecutes, ledger
<1>3. /\ orders \in Seq(OrderSet) /\ coin \in Int /\ posStop \in BOOLEAN /\ Starting \in BOOLEAN
      /\ Shape(kind, orders, coin, book, misnamed)
      /\ Facts(kind, orders, coin, book, trades, misnamed, Starting)
  BY InvGives
<1>4. d \in Nat /\ d <= 2
  OBVIOUS
<1>5. /\ orders' \in Seq(OrderSet) /\ Len(orders') = Len(orders) /\ DOMAIN orders' = DOMAIN orders
      /\ \A j \in DOMAIN orders : j # i => orders'[j] = orders[j]
      /\ orders'[i].purpose = orders[i].purpose /\ orders'[i].row = orders[i].row
      /\ orders'[i].at = "ended" /\ orders'[i].done = d
  BY <1>1, <1>3, <1>4, AtIs DEF Places
<1>6. Ends(orders, orders', i, d)
  BY <1>1, <1>4, <1>5 DEF Ends
<1>7. Facts(kind, orders', coin + d, book, trades, misnamed, Starting)
  BY <1>1, <1>3, <1>4, <1>6, EntryKeeps
<1>8. coin' \in Int
  BY <1>1, <1>3, <1>4
<1> QED
  BY <1>1, <1>2, <1>3, <1>5, <1>7, <1>8, VenueMoves

LEMMA SoldKeeps ==
    ASSUME DirectionalInv, NEW i \in DOMAIN orders, NEW d \in Nat,
           i \notin EntriesOf(orders), orders[i].at = "live",
           orders' = AtOf(orders, i, "ended", d), coin' = coin - d, kind = "linear" => coin - d >= 0,
           UNCHANGED <<kind, book, trades, killed, pc, job, misnamed>>, posStop' \in BOOLEAN
    PROVE  DirectionalInv'
<1>3. /\ orders \in Seq(OrderSet) /\ coin \in Int /\ Starting \in BOOLEAN
      /\ Shape(kind, orders, coin, book, misnamed)
      /\ Facts(kind, orders, coin, book, trades, misnamed, Starting)
  BY InvGives
<1>5. /\ orders' \in Seq(OrderSet) /\ Len(orders') = Len(orders) /\ DOMAIN orders' = DOMAIN orders
      /\ \A j \in DOMAIN orders : j # i => orders'[j] = orders[j]
      /\ orders'[i].purpose = orders[i].purpose /\ orders'[i].row = orders[i].row
      /\ orders'[i].at = "ended" /\ orders'[i].done = d
  <2>1. orders \in Seq(OrderSet) /\ "ended" \in Places
    BY <1>3 DEF Places
  <2>2. orders' = AtOf(orders, i, "ended", d)
    OBVIOUS
  <2> QED
    BY <2>1, <2>2, AtIs
<1>6. Ends(orders, orders', i, d)
  BY <1>5 DEF Ends
<1>7. Facts(kind, orders', coin - d, book, trades, misnamed, Starting)
  BY <1>3, <1>6, SaleKeeps
<1>8. coin' \in Int
  BY <1>3
<1> QED
  BY <1>3, <1>5, <1>7, <1>8, VenueMoves

LEMMA SaleExecutesKeeps == ASSUME DirectionalInv, SaleExecutes PROVE DirectionalInv'
<1>1. PICK i \in DOMAIN orders, d \in 0..2 :
         /\ orders[i].purpose \in {"close", "emergency_close", "tp"} /\ orders[i].at = "live"
         /\ d <= Least(orders[i].qty, coin)
         /\ orders' = AtOf(orders, i, "ended", d) /\ coin' = coin - d /\ posStop' = (posStop /\ coin' > 0)
  BY AtIsAt DEF SaleExecutes, Closes, Of, Ids, Lot
<1>2. UNCHANGED <<kind, book, trades, killed, pc, job, misnamed>>
  BY DEF SaleExecutes, ledger
<1>3. coin \in Int /\ orders \in Seq(OrderSet) /\ posStop \in BOOLEAN
  BY InvGives
<1>4. i \notin EntriesOf(orders)
  BY <1>1 DEF EntriesOf
<1>5. d \in Nat /\ coin - d >= 0
  BY <1>1, <1>3, OneOrder DEF Least
<1>6. posStop' \in BOOLEAN
  BY <1>1, <1>3
<1> QED
  BY <1>1, <1>2, <1>4, <1>5, <1>6, SoldKeeps

LEMMA StopFiresKeeps == ASSUME DirectionalInv, StopFires PROVE DirectionalInv'
<1>0. /\ orders \in Seq(OrderSet) /\ coin \in Int /\ posStop \in BOOLEAN /\ Starting \in BOOLEAN
      /\ Shape(kind, orders, coin, book, misnamed)
      /\ Facts(kind, orders, coin, book, trades, misnamed, Starting) /\ OrdersFit(kind, orders)
  BY InvGives DEF Facts
<1>1. ASSUME NEW i \in Of({"stop"}), orders[i].at = "live",
             LET d == IF FreeCoin >= orders[i].qty THEN orders[i].qty ELSE 0
             IN  orders' = At(i, "ended", d) /\ coin' = coin - d,
             UNCHANGED <<kind, misnamed, posStop, ledger, pc, job, left>>
      PROVE  DirectionalInv'
  <2>1. i \in DOMAIN orders /\ orders[i].purpose = "stop" /\ orders[i].qty \in Nat
    BY <1>0, <1>1, OneOrder DEF Of, Ids
  <2>2. PICK d \in Nat : orders' = AtOf(orders, i, "ended", d) /\ coin' = coin - d
    BY <1>1, <2>1, AtIsAt
  <2>3. i \notin EntriesOf(orders) /\ kind # "linear"
    BY <1>0, <2>1 DEF EntriesOf, OrdersFit, OrderFits
  <2>4. UNCHANGED <<kind, book, trades, killed, pc, job, misnamed>> /\ posStop' \in BOOLEAN
    BY <1>0, <1>1 DEF ledger
  <2> QED
    BY <1>1, <2>1, <2>2, <2>3, <2>4, SoldKeeps
<1>2. ASSUME coin > 0, coin' = 0, posStop' = FALSE, UNCHANGED <<kind, misnamed, orders, ledger, pc, job, left>>
      PROVE  DirectionalInv'
  <2>1. Facts(kind, orders, 0, book, trades, misnamed, Starting)
    BY <1>0, <1>2, GoneKeeps
  <2>2. orders' = orders
    BY <1>2
  <2>5. UNCHANGED <<kind, book, trades, killed, pc, job, misnamed>>
    BY <1>2 DEF ledger
  <2>6. /\ orders' \in Seq(OrderSet) /\ DOMAIN orders' = DOMAIN orders
        /\ \A i \in DOMAIN orders : /\ orders'[i].purpose = orders[i].purpose /\ orders'[i].row = orders[i].row
                                    /\ orders[i].at \notin {"flying", "live"} => orders'[i] = orders[i]
    BY <1>0, <2>2
  <2>3. Facts(kind, orders', coin', book, trades, misnamed, Starting)
    BY <1>2, <2>1, <2>2
  <2>4. coin' \in Int
    BY <1>2
  <2>7. posStop' \in BOOLEAN
    BY <1>2, Zenon
  <2> QED
    BY <2>3, <2>4, <2>5, <2>6, <2>7, VenueMoves
<1> QED
  BY <1>1, <1>2 DEF StopFires

LEMMA StopVanishesKeeps == ASSUME DirectionalInv, StopVanishes PROVE DirectionalInv'
<1>0. /\ orders \in Seq(OrderSet) /\ coin \in Int /\ posStop \in BOOLEAN /\ Starting \in BOOLEAN
      /\ Shape(kind, orders, coin, book, misnamed)
      /\ Facts(kind, orders, coin, book, trades, misnamed, Starting) /\ OrdersFit(kind, orders)
  BY InvGives DEF Facts
<1>u. UNCHANGED <<kind, book, trades, killed, pc, job, misnamed, coin>>
  BY DEF StopVanishes, ledger
<1>1. ASSUME NEW i \in Of({"stop"}), orders[i].at = "live", orders' = At(i, "ended", 0), UNCHANGED posStop
      PROVE  DirectionalInv'
  <2>1. i \in DOMAIN orders /\ i \notin EntriesOf(orders) /\ orders' = AtOf(orders, i, "ended", 0)
    BY <1>1, AtIsAt DEF Of, Ids, EntriesOf
  <2>2. Quiet(kind, orders, orders', book, Starting)
    BY <1>0, <1>1, <2>1, MoveIsQuiet DEF Places
  <2>3. Facts(kind, orders', coin, book, trades, misnamed, Starting)
    BY <1>0, <2>2, QuietKeeps
  <2>4. /\ orders' \in Seq(OrderSet) /\ DOMAIN orders' = DOMAIN orders
        /\ \A j \in DOMAIN orders : j # i => orders'[j] = orders[j]
        /\ orders'[i].purpose = orders[i].purpose /\ orders'[i].row = orders[i].row
    BY <1>0, <2>1, AtIs DEF Places
  <2> QED
    BY <1>0, <1>1, <1>u, <2>1, <2>3, <2>4, VenueMoves
<1>2. ASSUME posStop' = FALSE, UNCHANGED orders PROVE DirectionalInv'
  BY <1>0, <1>2, <1>u, VenueMoves
<1> QED
  BY <1>1, <1>2 DEF StopVanishes

\* A phase of the tick, or of the start: the thread has no order in hand.
LEMMA PhaseIs ==
    ASSUME NEW k, NEW o, NEW b, NEW tr, NEW p \in Phases, NEW j \in JobSet,
           p = "observe" => j.back = "naked", p = "decide" => j.back = "tick",
           j.settle # 0 => j.settle \in ClosesOf(o) /\ (k = "linear" => j.back # "naked")
    PROVE  Controls(k, o, b, tr, p, j)
<1>1. JobWays(p, j)
  BY DEF Phases, JobWays
<1>2. JobOrder(o, b, p, j)
  BY DEF Phases, JobOrder, HasOrder
<1>3. JobRow(o, b, tr, p, j)
  BY DEF Phases, JobRow
<1>4. Where(k, p, j)
  BY DEF Phases, Where
<1> QED
  BY <1>1, <1>2, <1>3, <1>4 DEF Controls

LEMMA PhaseSteps ==
    ASSUME NEW phase \in Phases, Phase(phase)
    PROVE  /\ pc' \in Points /\ job' \in JobSet
           /\ \A k, o, b, tr : Controls(k, o, b, tr, pc', job')
<1>0. After(phase) \in Phases
  BY DEF After, Phases
<1>1. /\ pc' = phase /\ job' \in JobSet /\ job'.settle = 0
      /\ job'.back = After(phase)
  BY <1>0 DEF Phase, NoJob, JobSet, Ways
<1>2. (phase = "observe" => After(phase) = "naked") /\ (phase = "decide" => After(phase) = "tick")
  BY DEF After
<1>3. \A k, o, b, tr : Controls(k, o, b, tr, pc', job')
  BY <1>1, <1>2, PhaseIs
<1> QED
  BY <1>1, <1>3 DEF Points

LEMMA LeaveSteps ==
    ASSUME job \in JobSet, Leave
    PROVE  /\ pc' \in Points /\ job' \in JobSet
           /\ \A k, o, b, tr : Controls(k, o, b, tr, pc', job')
<1>1. job.back \in Phases
  BY DEF JobSet
<1> QED
  BY <1>1, PhaseSteps DEF Leave

LEMMA ReturnSteps ==
    ASSUME job \in JobSet, Return, NEW k, NEW o, NEW b, NEW tr, NEW b2, NEW tr2, NEW o2, NEW p,
           Controls(k, o, b, tr, p, job), ClosesOf(o2) = ClosesOf(o)
    PROVE  pc' \in Points /\ job' \in JobSet /\ Controls(k, o2, b2, tr2, pc', job')
<1>1. CASE job.settle = 0
  BY <1>1, LeaveSteps DEF Return
<1>2. CASE job.settle # 0
  <2>1. pc' = "settled" /\ job' = job /\ pc' \in Points
    BY <1>2 DEF Return, Go, Points
  <2>2. job.settle \in ClosesOf(o2) /\ (k = "linear" => job.back # "naked")
    BY <1>2 DEF Controls, JobRow, Where
  <2>3. JobWays("settled", job)
    BY DEF JobWays
  <2>4. JobOrder(o2, b2, "settled", job)
    BY DEF JobOrder, HasOrder
  <2>5. JobRow(o2, b2, tr2, "settled", job)
    BY <1>2, <2>2 DEF JobRow
  <2>6. Where(k, "settled", job)
    BY <2>2 DEF Where
  <2> QED
    BY <2>1, <2>3, <2>4, <2>5, <2>6 DEF Controls
<1> QED
  BY <1>1, <1>2

LEMMA StepKeeps ==
    ASSUME DirectionalInv, kind' = kind, orders' \in Seq(OrderSet), coin' \in Int, posStop' \in BOOLEAN,
           book' \in BookSet, killed' \in BOOLEAN, misnamed' \subseteq Nat, pc' \in Points, job' \in JobSet,
           Facts(kind, orders', coin', book', trades', misnamed', FALSE),
           Controls(kind, orders', book', trades', pc', job')
    PROVE  DirectionalInv'
<1>1. kind \in {"linear", "spot"}
  BY InvGives
<1>2. DirectionalTyped'
  BY <1>1 DEF DirectionalTyped
<1> QED
  BY <1>2, InvFrom

LEMMA QuietStep ==
    ASSUME DirectionalInv, pc \notin {"stopped", "boot"}, Quiet(kind, orders, orders', book, FALSE),
           UNCHANGED <<kind, coin, book, trades, misnamed>>, posStop' \in BOOLEAN, killed' \in BOOLEAN,
           pc' \in Points, job' \in JobSet, Controls(kind, orders', book, trades, pc', job')
    PROVE  DirectionalInv'
<1>1. /\ coin \in Int /\ book \in BookSet /\ misnamed \subseteq Nat
      /\ Shape(kind, orders, coin, book, misnamed)
      /\ Facts(kind, orders, coin, book, trades, misnamed, FALSE)
  BY InvGives
<1>2. orders' \in Seq(OrderSet)
  BY DEF Quiet
<1>3. Facts(kind, orders', coin, book, trades, misnamed, FALSE)
  BY <1>1, QuietKeeps
<1> QED
  BY <1>1, <1>2, <1>3, StepKeeps

LEMMA StillIsQuiet ==
    ASSUME NEW k, NEW o \in Seq(OrderSet), NEW b, NEW x, OrdersFit(k, o)
    PROVE  Quiet(k, o, o, b, x)
<1>1. \A i \in EntriesOf(o) : i \in DOMAIN o /\ o[i].purpose = "entry" /\ OrderFits(k, o[i])
  BY DEF EntriesOf, OrdersFit
<1> QED
  BY <1>1 DEF Quiet, OrderFits, Unres

\* The purposes, and what executed, stay: so do the closes.
LEMMA QuietIs ==
    ASSUME NEW k, NEW o \in Seq(OrderSet), NEW p, NEW b, NEW x, Quiet(k, o, p, b, x)
    PROVE  /\ p \in Seq(OrderSet) /\ DOMAIN p = DOMAIN o /\ ClosesOf(p) = ClosesOf(o)
           /\ \A i \in DOMAIN o : p[i].purpose = o[i].purpose /\ p[i].done = o[i].done
<1>1. p \in Seq(OrderSet) /\ Len(p) = Len(o) /\ \A i \in DOMAIN o : p[i].purpose = o[i].purpose /\ p[i].done = o[i].done
  BY DEF Quiet
<1>2. DOMAIN p = DOMAIN o
  BY <1>1, OrdersAre
<1> QED
  BY <1>1, <1>2 DEF ClosesOf

\* A step that only moves the thread.
LEMMA ThreadStep ==
    ASSUME DirectionalInv, pc \notin {"stopped", "boot"},
           UNCHANGED <<kind, orders, coin, book, trades, misnamed>>, posStop' \in BOOLEAN, killed' \in BOOLEAN,
           pc' \in Points, job' \in JobSet, Controls(kind, orders, book, trades, pc', job')
    PROVE  DirectionalInv'
<1>1. orders \in Seq(OrderSet) /\ OrdersFit(kind, orders)
  BY InvGives DEF Facts
<1>2. Quiet(kind, orders, orders', book, FALSE)
  BY <1>1, StillIsQuiet
<1>3. Controls(kind, orders', book, trades, pc', job')
  OBVIOUS
<1> QED
  BY <1>2, <1>3, QuietStep

LEMMA Here ==
    ASSUME DirectionalInv, pc \notin {"stopped", "boot"}
    PROVE  /\ kind \in {"linear", "spot"} /\ orders \in Seq(OrderSet) /\ coin \in Int /\ posStop \in BOOLEAN
           /\ book \in BookSet /\ killed \in BOOLEAN /\ pc \in Points /\ job \in JobSet /\ misnamed \subseteq Nat
           /\ Shape(kind, orders, coin, book, misnamed)
           /\ Facts(kind, orders, coin, book, trades, misnamed, FALSE)
           /\ Controls(kind, orders, book, trades, pc, job)
           /\ JobWays(pc, job) /\ JobOrder(orders, book, pc, job) /\ JobRow(orders, book, trades, pc, job)
           /\ Where(kind, pc, job)
           /\ OrdersFit(kind, orders) /\ RowFits(orders, book, misnamed)
           /\ TradesFit(orders, trades) /\ StopIsOwn(book, trades)
           /\ Len(orders) \in Nat /\ DOMAIN orders = 1..Len(orders)
           /\ \A i \in DOMAIN orders : i \in Nat /\ i >= 1
<1>1. /\ kind \in {"linear", "spot"} /\ orders \in Seq(OrderSet) /\ coin \in Int /\ posStop \in BOOLEAN
      /\ book \in BookSet /\ killed \in BOOLEAN /\ pc \in Points /\ job \in JobSet /\ misnamed \subseteq Nat
      /\ Shape(kind, orders, coin, book, misnamed)
      /\ Facts(kind, orders, coin, book, trades, misnamed, FALSE)
      /\ Controls(kind, orders, book, trades, pc, job)
  BY InvGives
<1>2. /\ Len(orders) \in Nat /\ DOMAIN orders = 1..Len(orders)
      /\ \A i \in DOMAIN orders : i \in Nat /\ i >= 1
  BY <1>1, OrdersAre
<1> QED
  BY <1>1, <1>2 DEF Facts, Controls

LEMMA JobFields ==
    ASSUME NEW j \in JobSet
    PROVE  /\ j.how \in Ways /\ j.id \in Nat /\ j.back \in Phases /\ j.settle \in Nat
           /\ j.answer \in {"none", "ok", "unknown", "refused"}
  BY DEF JobSet

LEMMA WhereStays ==
    ASSUME NEW k, NEW p, NEW j, NEW q, NEW i, Where(k, p, j), i.back = j.back,
           i.settle = j.settle \/ p = "settle",
           q \notin {"observe", "decide", "see_legs", "see_stop", "dead", "settle"}
    PROVE  Where(k, q, i)
  BY DEF Where

LEMMA SendKeeps == ASSUME DirectionalInv, Send PROVE DirectionalInv'
<1>p. pc = "send" /\ UNCHANGED <<kind, misnamed, coin, book, trades, killed>>
  BY DEF Send, ledger
<1>h. /\ orders \in Seq(OrderSet) /\ posStop \in BOOLEAN /\ killed \in BOOLEAN /\ job \in JobSet
      /\ JobWays("send", job) /\ JobOrder(orders, book, "send", job) /\ JobRow(orders, book, trades, "send", job)
      /\ Where(kind, "send", job) /\ OrdersFit(kind, orders)
  BY <1>p, Here
<1>j. /\ job.id = 0 => job.how \in StopWays
      /\ job.id # 0 => job.id \in DOMAIN orders /\ orders[job.id].purpose = Placed[job.how] /\ orders[job.id].at = "unsent"
      /\ job.how # "entry" => book # NoRow /\ (job.id # 0 => book.opened < job.id)
      /\ job.how = "entry" => book = NoRow /\ Unres(orders, job.id)
      /\ job.how \in DOMAIN Placed
  BY <1>h DEF JobOrder, JobWays, HasOrder
<1>1. PICK where \in {"live", "flying", "lost"}, answer \in {"ok", "unknown", "refused"} :
         Lands(where) /\ Answers(answer) /\ (answer = "refused" => where = "lost")
  BY DEF Send
<1>2. /\ pc' = "reply" /\ job' \in JobSet
      /\ job'.id = job.id /\ job'.how = job.how /\ job'.back = job.back /\ job'.settle = job.settle
      /\ job'.answer = answer
  BY <1>h, <1>1 DEF Answers, JobSet
<1>e. job.id # 0 /\ job.id \in EntriesOf(orders) => job.how = "entry"
  BY <1>j DEF EntriesOf, Placed
<1>3. /\ Quiet(kind, orders, orders', book, FALSE) /\ DOMAIN orders' = DOMAIN orders
      /\ job.id = 0 => orders' = orders
      /\ job.id # 0 => /\ orders'[job.id].purpose = orders[job.id].purpose
                       /\ orders'[job.id].row = orders[job.id].row /\ orders'[job.id].at = where
  <2>1. CASE job.id = 0
    <3>1. orders' = orders
      BY <1>1, <2>1 DEF Lands
    <3> QED
      BY <2>1, <3>1, <1>h, StillIsQuiet
  <2>2. CASE job.id # 0
    <3>1. orders' = AtOf(orders, job.id, where, 0)
      BY <1>1, <2>2, AtIsAt DEF Lands
    <3>2. job.id \in DOMAIN orders /\ orders[job.id].at # "ended" /\ where \in Places
      BY <2>2, <1>j DEF Places
    <3>3. job.id \in EntriesOf(orders) => Unres(orders, job.id)
      BY <2>2, <1>e, <1>j
    <3>4. Quiet(kind, orders, orders', book, FALSE)
      BY <3>1, <3>2, <3>3, <1>h, MoveIsQuiet
    <3>5. /\ DOMAIN orders' = DOMAIN orders /\ orders'[job.id].purpose = orders[job.id].purpose
          /\ orders'[job.id].row = orders[job.id].row /\ orders'[job.id].at = where
      BY <3>1, <3>2, <1>h, AtIs
    <3> QED
      BY <2>2, <3>4, <3>5
  <2> QED
    BY <2>1, <2>2
<1>4. posStop' \in BOOLEAN
  <2>1. CASE job.id = 0
    BY <1>1, <2>1, Zenon DEF Lands
  <2>2. CASE job.id # 0
    BY <1>1, <1>h, <2>2 DEF Lands
  <2> QED
    BY <2>1, <2>2
<1>5. JobWays("reply", job')
  BY <1>2, <1>j DEF JobWays
<1>6. JobOrder(orders', book, "reply", job')
  BY <1>1, <1>2, <1>3, <1>j DEF JobOrder, Unres, StopWays
<1>7. JobRow(orders', book, trades, "reply", job')
  <2>1. ClosesOf(orders') = ClosesOf(orders)
    BY <1>3, <1>h, QuietIs
  <2> QED
    BY <2>1, <1>2, <1>h DEF JobRow
<1>8. Where(kind, "reply", job')
  BY <1>2, <1>h, WhereStays
<1>9. Controls(kind, orders', book, trades, pc', job') /\ pc' \in Points
  BY <1>2, <1>5, <1>6, <1>7, <1>8 DEF Controls, Points
<1> QED
  BY <1>p, <1>h, <1>2, <1>3, <1>4, <1>9, QuietStep

LEMMA ReplySteps ==
    ASSUME pc = "reply", job \in JobSet, job.how \in DOMAIN Placed, Continue(AfterReply)
    PROVE  \/ Leave /\ (job.how = "tp" \/ job.answer # "ok")
           \/ Return /\ job.how = "resize"
           \/ pc' = "free" /\ job' = [job EXCEPT !.how = "flatten"] /\ job.how \in {"enter", "protect"}
           \/ pc' = "poll" /\ job' = job /\ job.how \in {"entry", "close", "flatten"} /\ job.answer = "ok"
           \/ pc' = "verify" /\ job' = job /\ job.how \in {"enter", "protect"}
           \/ pc' = "swap" /\ job' = job /\ job.how = "resize"
<1>0. job.how \in {"entry", "enter", "protect", "resize", "tp", "close", "flatten"}
  BY DEF Placed
<1>1. /\ Continue("leave") => Leave
      /\ Continue("return") => Return
      /\ Continue("free") => pc' = "free" /\ job' = [job EXCEPT !.how = "flatten"]
      /\ Continue("poll") => pc' = "poll" /\ job' = job
      /\ Continue("verify") => pc' = "verify" /\ job' = job
      /\ Continue("swap") => pc' = "swap" /\ job' = job
  BY DEF Continue, Go, Becomes
<1>2. CASE job.how = "entry"
  <2>1. AfterReply = IF job.answer = "ok" THEN "poll" ELSE "leave"
    BY <1>2 DEF AfterReply
  <2> QED
    BY <1>1, <1>2, <2>1
<1>3. CASE job.how \in {"enter", "protect"}
  <2>1. AfterReply = IF job.answer = "ok" THEN "verify" ELSE "free"
    BY <1>3 DEF AfterReply
  <2> QED
    BY <1>1, <1>3, <2>1
<1>4. CASE job.how = "resize"
  <2>1. AfterReply = IF job.answer = "ok" THEN "swap" ELSE "return"
    BY <1>4 DEF AfterReply
  <2> QED
    BY <1>1, <1>4, <2>1
<1>5. CASE job.how = "tp"
  <2>1. AfterReply = "leave"
    BY <1>5 DEF AfterReply
  <2> QED
    BY <1>1, <1>5, <2>1
<1>6. CASE job.how \in {"close", "flatten"}
  <2>1. AfterReply = IF job.answer = "ok" THEN "poll" ELSE "leave"
    BY <1>6 DEF AfterReply
  <2> QED
    BY <1>1, <1>6, <2>1
<1> QED
  BY <1>0, <1>2, <1>3, <1>4, <1>5, <1>6

LEMMA RowOfOne ==
    ASSUME NEW i, NEW st PROVE Row(i, st) = RowsOf(orders, {i}, st)
  BY DEF Rows, Row, RowsOf, Ids

LEMMA ReplyKeeps == ASSUME DirectionalInv, Reply PROVE DirectionalInv'
<1>p. pc = "reply" /\ UNCHANGED <<kind, misnamed, coin, posStop, trades>>
  BY DEF Reply, venue
<1>r. /\ orders' = IF job.id = 0 THEN orders ELSE Row(job.id, Status)
      /\ book' = IF job.how = "tp" /\ job.answer # "refused" THEN [book EXCEPT !.tps = @ \union {job.id}] ELSE book
      /\ killed' = (killed \/ job.how = "flatten")
      /\ Continue(AfterReply)
  BY DEF Reply
<1>h. /\ orders \in Seq(OrderSet) /\ coin \in Int /\ posStop \in BOOLEAN /\ killed \in BOOLEAN /\ job \in JobSet
      /\ book \in BookSet /\ misnamed \subseteq Nat /\ kind \in {"linear", "spot"}
      /\ JobWays("reply", job) /\ JobOrder(orders, book, "reply", job) /\ JobRow(orders, book, trades, "reply", job)
      /\ Where(kind, "reply", job) /\ OrdersFit(kind, orders) /\ RowFits(orders, book, misnamed)
      /\ Facts(kind, orders, coin, book, trades, misnamed, FALSE) /\ Shape(kind, orders, coin, book, misnamed)
      /\ StopIsOwn(book, trades) /\ Controls(kind, orders, book, trades, "reply", job)
      /\ \A i \in DOMAIN orders : i \in Nat /\ i >= 1
  BY <1>p, Here
<1>j. /\ job.id = 0 => job.how \in StopWays
      /\ job.id # 0 => job.id \in DOMAIN orders /\ orders[job.id].purpose = Placed[job.how]
      /\ job.how # "entry" => book # NoRow /\ (job.id # 0 => book.opened < job.id)
      /\ job.how = "entry" => book = NoRow /\ Unres(orders, job.id)
      /\ job.how = "entry" /\ job.answer = "refused" => orders[job.id].at = "lost"
      /\ job.how \in DOMAIN Placed /\ job.answer \in {"ok", "unknown", "refused"}
  BY <1>h, JobFields DEF JobOrder, JobWays, HasOrder
<1>s. /\ Status \in {"submitted", "unknown", "rejected"}
      /\ Status = "rejected" => job.answer = "refused"
      /\ Status \in RowStates
  BY <1>j DEF Status, RowStates
<1>e. job.id # 0 /\ job.id \in EntriesOf(orders) => job.how = "entry"
  BY <1>j DEF EntriesOf, Placed
<1>1. Quiet(kind, orders, orders', book, FALSE)
  <2>1. CASE job.id = 0
    BY <2>1, <1>r, <1>h, StillIsQuiet
  <2>2. CASE job.id # 0
    <3>1. orders' = RowsOf(orders, {job.id}, Status)
      BY <2>2, <1>r, RowOfOne
    <3>2. job.id \in EntriesOf(orders) =>
             /\ Unres(orders, job.id)
             /\ Status = "rejected" => orders[job.id].at = "lost" /\ orders[job.id].done = 0
      <4>1. job.id \in EntriesOf(orders) /\ Status = "rejected" => orders[job.id].at = "lost"
        BY <2>2, <1>e, <1>j, <1>s
      <4>2. orders[job.id].at = "lost" => orders[job.id].done = 0
        BY <2>2, <1>j, <1>h DEF OrdersFit, OrderFits
      <4> QED
        BY <4>1, <4>2, <2>2, <1>e, <1>j
    <3>3. \A i \in {job.id} \cap EntriesOf(orders) :
             IF Status \in {"pending", "submitted", "unknown"} THEN Unres(orders, i)
             ELSE /\ orders[i].at \notin {"flying", "live"}
                  /\ Unres(orders, i) => orders[i].done = 0 \/ book.entry = i \/ (kind = "linear" /\ FALSE /\ book = NoRow)
      BY <3>2, <1>s
    <3> QED
      BY <3>1, <3>3, <1>h, <1>s, RowsAreQuiet
  <2> QED
    BY <2>1, <2>2
<1>2. /\ orders' \in Seq(OrderSet) /\ DOMAIN orders' = DOMAIN orders /\ ClosesOf(orders') = ClosesOf(orders)
      /\ \A i \in DOMAIN orders : orders'[i].purpose = orders[i].purpose
  BY <1>1, <1>h, QuietIs
<1>3. Facts(kind, orders', coin, book, trades, misnamed, FALSE)
  BY <1>1, <1>h, QuietKeeps
<1>4. Facts(kind, orders', coin, book', trades, misnamed, FALSE) /\ book' \in BookSet
  <2>1. CASE job.how = "tp" /\ job.answer # "refused"
    <3> DEFINE b2 == [book EXCEPT !.tps = book.tps \cup {job.id}]
    <3>1. /\ b2 \in BookSet /\ b2.qty = book.qty /\ b2.entry = book.entry /\ b2.opened = book.opened
          /\ b2.stopId = book.stopId /\ b2.tps = book.tps \cup {job.id}
      BY <1>h, JobFields, RowFields DEF BookSet
    <3>2. book' = b2
      BY <1>r, <2>1
    <3> HIDE DEF b2
    <3>3. job.id # 0 /\ job.id \in DOMAIN orders /\ book # NoRow /\ book.opened < job.id
      BY <2>1, <1>j DEF StopWays
    <3>4. book.entry < job.id
      BY <3>3, <1>h, RowFields DEF RowFits, EntriesOf
    <3>5. \A i \in b2.tps : i \in DOMAIN orders' /\ (book.entry < i \/ book.entry \in misnamed)
      BY <3>1, <3>3, <3>4, <1>2, <1>h DEF RowFits
    <3>6. b2.stopId # 0 => b2.stopId \in DOMAIN orders' /\ orders'[b2.stopId].purpose = "stop"
      BY <3>1, <3>3, <1>2, <1>h DEF RowFits
    <3>7. \A t \in trades : t.key = <<"spot", b2.stopId>> => t.entry = book.entry
      BY <3>1, <3>3, <1>h DEF StopIsOwn
    <3>8. Shape(kind, orders', coin, book, misnamed)
      BY <1>h, <1>2 DEF Shape
    <3> QED
      BY <3>1, <3>2, <3>3, <3>5, <3>6, <3>7, <3>8, <1>3, NamingKeeps
  <2>2. CASE ~(job.how = "tp" /\ job.answer # "refused")
    BY <2>2, <1>r, <1>3, <1>h
  <2> QED
    BY <2>1, <2>2
<1>5. pc' \in Points /\ job' \in JobSet /\ Controls(kind, orders', book', trades, pc', job')
  <2>1. CASE Leave
    BY <2>1, <1>h, LeaveSteps
  <2>2. CASE Return
    BY <2>2, <1>h, <1>2, ReturnSteps
  <2>3. CASE pc' = "free" /\ job' = [job EXCEPT !.how = "flatten"] /\ job.how \in {"enter", "protect"}
    <3>1. job' \in JobSet /\ job'.how = "flatten" /\ job'.settle = job.settle /\ job'.back = job.back
      BY <2>3, <1>h DEF JobSet, Ways
    <3>2. book' = book /\ book # NoRow
      BY <2>3, <1>r, <1>j
    <3>3. JobWays("free", job') /\ JobOrder(orders', book', "free", job')
      BY <3>1 DEF JobWays, JobOrder, HasOrder
    <3>4. JobRow(orders', book', trades, "free", job')
      BY <3>1, <3>2, <1>2, <1>h DEF JobRow
    <3>5. Where(kind, "free", job')
      BY <3>1, <1>h, WhereStays
    <3> QED
      BY <2>3, <3>1, <3>3, <3>4, <3>5 DEF Controls, Points
  <2>4. CASE \/ pc' = "poll" /\ job' = job /\ job.how \in {"entry", "close", "flatten"} /\ job.answer = "ok"
             \/ pc' = "verify" /\ job' = job /\ job.how \in {"enter", "protect"}
             \/ pc' = "swap" /\ job' = job /\ job.how = "resize"
    <3>1. job.how # "tp" /\ book' = book
      BY <2>4, <1>r
    <3>2. JobWays(pc', job') /\ pc' \in {"poll", "verify", "swap"}
      BY <2>4 DEF JobWays, StopWays
    <3>3. job.how = "entry" => Unres(orders', job.id)
      <4>1. SUFFICES ASSUME job.how = "entry" PROVE Unres(orders', job.id)
        OBVIOUS
      <4>2. job.id # 0 /\ Status = "submitted" /\ job.id \in DOMAIN orders
        BY <2>4, <4>1, <1>j DEF StopWays, Status
      <4>3. orders' = RowsOf(orders, {job.id}, Status)
        BY <4>2, <1>r, RowOfOne
      <4>4. orders'[job.id].row = Status
        BY <4>2, <4>3, <1>h, <1>s, RowsAre
      <4> QED
        BY <4>2, <4>4 DEF Unres
    <3>4. JobOrder(orders', book', pc', job')
      BY <2>4, <3>1, <3>3, <3>2, <1>2, <1>j DEF JobOrder
    <3>5. JobRow(orders', book', trades, pc', job')
      BY <2>4, <3>2, <1>2, <1>h DEF JobRow
    <3>6. Where(kind, pc', job')
      BY <2>4, <3>2, <1>h, WhereStays
    <3> QED
      BY <2>4, <3>2, <3>4, <3>5, <3>6, <1>h DEF Controls, Points
  <2> QED
    BY <1>p, <1>h, <1>r, <1>j, <2>1, <2>2, <2>3, <2>4, ReplySteps
<1>6. killed' \in BOOLEAN
  BY <1>h, <1>r
<1> QED
  BY <1>p, <1>h, <1>2, <1>4, <1>5, <1>6, StepKeeps

LEMMA PollKeeps == ASSUME DirectionalInv, Poll PROVE DirectionalInv'
<1>p. pc = "poll" /\ UNCHANGED <<kind, misnamed, coin, posStop, book, trades, killed>>
  BY DEF Poll, venue, ledger
<1>h. /\ orders \in Seq(OrderSet) /\ posStop \in BOOLEAN /\ killed \in BOOLEAN /\ job \in JobSet
      /\ JobWays("poll", job) /\ JobOrder(orders, book, "poll", job) /\ JobRow(orders, book, trades, "poll", job)
      /\ Where(kind, "poll", job) /\ OrdersFit(kind, orders)
  BY <1>p, Here
<1>w. job.how \in {"entry", "close", "flatten"}
  BY <1>h DEF JobWays
<1>j. /\ job.id # 0 /\ job.id \in DOMAIN orders /\ orders[job.id].purpose = Placed[job.how]
      /\ job.how # "entry" => book # NoRow /\ book.opened < job.id
      /\ job.how = "entry" => book = NoRow /\ Unres(orders, job.id)
  BY <1>h, <1>w DEF JobOrder, HasOrder, StopWays
<1>e. job.id \in EntriesOf(orders) => job.how = "entry"
  BY <1>j, <1>w DEF EntriesOf, Placed
<1>1. ASSUME Executed(job.id), orders' = IF job.how = "entry" THEN orders ELSE Row(job.id, "filled"), Go("fill")
      PROVE  DirectionalInv'
  <2>1. /\ Quiet(kind, orders, orders', book, FALSE)
        /\ job.how = "entry" => orders' = orders
    <3>1. CASE job.how = "entry"
      BY <3>1, <1>1, <1>h, StillIsQuiet
    <3>2. CASE job.how # "entry"
      <4>1. orders' = RowsOf(orders, {job.id}, "filled") /\ "filled" \in RowStates
        BY <3>2, <1>1, RowOfOne DEF RowStates
      <4>2. {job.id} \cap EntriesOf(orders) = {}
        BY <3>2, <1>e
      <4> QED
        BY <3>2, <4>1, <4>2, <1>h, RowsAreQuiet
    <3> QED
      BY <3>1, <3>2
  <2>2. /\ DOMAIN orders' = DOMAIN orders /\ ClosesOf(orders') = ClosesOf(orders)
        /\ \A i \in DOMAIN orders : orders'[i].purpose = orders[i].purpose /\ orders'[i].done = orders[i].done
    BY <2>1, <1>h, QuietIs
  <2>3. pc' = "fill" /\ job' = job /\ pc' \in Points
    BY <1>1 DEF Go, Points
  <2>4. orders'[job.id].done > 0
    BY <1>1, <1>j, <2>2 DEF Executed
  <2>5. JobWays("fill", job) /\ Where(kind, "fill", job)
    BY <1>h, <1>w, WhereStays DEF JobWays
  <2>6. JobOrder(orders', book, "fill", job)
    BY <1>j, <2>1, <2>2, <2>4 DEF JobOrder
  <2>7. JobRow(orders', book, trades, "fill", job)
    BY <1>h, <2>2 DEF JobRow
  <2>8. Controls(kind, orders', book, trades, pc', job')
    BY <2>3, <2>5, <2>6, <2>7 DEF Controls
  <2> QED
    BY <1>p, <1>h, <2>1, <2>3, <2>8, QuietStep
<1>2. ASSUME Ended(job.id), orders[job.id].done = 0, orders' = Row(job.id, "cancelled"), Leave
      PROVE  DirectionalInv'
  <2>1. orders' = RowsOf(orders, {job.id}, "cancelled") /\ "cancelled" \in RowStates
    BY <1>2, RowOfOne DEF RowStates
  <2>2. orders[job.id].at \notin {"flying", "live"}
    BY <1>2 DEF Ended
  <2>3. Quiet(kind, orders, orders', book, FALSE)
    BY <2>1, <2>2, <1>2, <1>h, RowsAreQuiet
  <2>4. pc' \in Points /\ job' \in JobSet /\ Controls(kind, orders', book, trades, pc', job')
    BY <1>2, <1>h, LeaveSteps
  <2> QED
    BY <1>p, <1>h, <2>3, <2>4, QuietStep
<1>3. ASSUME Leave, UNCHANGED orders PROVE DirectionalInv'
  <2>1. pc' \in Points /\ job' \in JobSet /\ Controls(kind, orders, book, trades, pc', job')
    BY <1>3, <1>h, LeaveSteps
  <2> QED
    BY <1>3, <1>p, <1>h, <2>1, ThreadStep
<1> QED
  BY <1>1, <1>2, <1>3 DEF Poll

LEMMA PositionIs ==
    ASSUME orders \in Seq(OrderSet), NEW i \in DOMAIN orders
    PROVE  Position(i) \in BookSet /\ Opened(orders, Position(i), i)
<1>1. orders[i].done \in Nat /\ Len(orders) \in Nat /\ i \in Nat
  BY OneOrder, OrdersAre
<1>2. Position(i) \in BookSet
  BY <1>1 DEF Position, NoRow, BookSet
<1>3. /\ Position(i).qty = orders[i].done /\ Position(i).entry = i /\ Position(i).opened = Len(orders)
      /\ Position(i).tps = {} /\ Position(i).stopId = 0
  BY DEF Position, NoRow
<1> QED
  BY <1>2, <1>3 DEF Opened

LEMMA BookExitSteps ==
    ASSUME DirectionalInv, pc \notin {"stopped", "boot"}, book # NoRow,
           NEW i \in Nat, NEW q \in Nat, q <= book.qty, NEW key, NEW mark \in BOOLEAN, BookExit(i, q, key, mark)
    PROVE  /\ Books1(book, trades, book', trades', key, q) /\ book' \in BookSet
           /\ pc' \in Points /\ job' \in JobSet
           /\ Controls(kind, orders, book', trades', pc', job')
<1>h. /\ book \in BookSet /\ job \in JobSet /\ JobRow(orders, book, trades, pc, job) /\ Where(kind, pc, job)
  BY Here
<1>f. /\ book.qty \in Nat /\ book.booked \subseteq Nat
  BY <1>h, RowFields
<1>1. trades' = IF \E t \in trades : t.key = key THEN trades
                ELSE trades \cup {[key |-> key, qty |-> q, entry |-> book.entry]}
  BY DEF BookExit, Booked
<1>2. CASE q = book.qty
  <2>1. book.qty - q = 0
    BY <1>2, <1>f
  <2>2. book' = NoRow /\ pc' = "cancel_all" /\ job' = [job EXCEPT !.how = "booked", !.id = i]
    BY <2>1 DEF BookExit
  <2>3. Books1(book, trades, book', trades', key, q)
    BY <1>1, <1>2, <2>2 DEF Books1
  <2>4. job' \in JobSet /\ job'.how = "booked" /\ job'.settle = job.settle /\ job'.back = job.back
    BY <1>h, <2>2 DEF JobSet, Ways
  <2>5. JobWays("cancel_all", job') /\ JobOrder(orders, book', "cancel_all", job')
    BY <2>4 DEF JobWays, JobOrder, HasOrder
  <2>6. JobRow(orders, book', trades', "cancel_all", job')
    BY <2>4, <1>h DEF JobRow
  <2>7. Where(kind, "cancel_all", job')
    BY <2>4, <1>h, WhereStays
  <2> QED
    BY <2>2, <2>3, <2>4, <2>5, <2>6, <2>7, RowOrNone DEF Controls, Points
<1>3. CASE q # book.qty
  <2>1. book.qty - q # 0 /\ book.qty - q \in Nat
    BY <1>3, <1>f
  <2> DEFINE keep == IF mark THEN book.booked \union {i} ELSE book.booked
  <2>2. /\ book' = [book EXCEPT !.qty = book.qty - q, !.booked = keep]
        /\ job' = [job EXCEPT !.how = "resize", !.id = i]
        /\ pc' = IF book.stop THEN "resize" ELSE "return"
    BY <2>1 DEF BookExit
  <2>3. keep \subseteq Nat
    BY <1>f
  <2> HIDE DEF keep
  <2>4. /\ book' \in BookSet /\ book'.qty = book.qty - q /\ book'.entry = book.entry /\ book'.opened = book.opened
        /\ book'.tps = book.tps /\ book'.stopId = book.stopId
    BY <1>h, <2>1, <2>2, <2>3 DEF BookSet
  <2>5. Books1(book, trades, book', trades', key, q)
    BY <1>1, <1>3, <2>4 DEF Books1
  <2>6. job' \in JobSet /\ job'.how = "resize" /\ job'.settle = job.settle /\ job'.back = job.back
    BY <1>h, <2>2 DEF JobSet, Ways
  <2>7. pc' \in {"resize", "return"} /\ pc' \in Points
    BY <2>2 DEF Points
  <2>8. JobWays(pc', job') /\ JobOrder(orders, book', pc', job')
    BY <2>6, <2>7 DEF JobWays, JobOrder, HasOrder
  <2>9. book' # NoRow
    <3>1. book.entry # 0
      BY Here DEF RowFits, EntriesOf
    <3> QED
      BY <3>1, <2>4, RowOrNone
  <2>10. JobRow(orders, book', trades', pc', job')
    BY <2>6, <2>7, <2>9, <1>h DEF JobRow
  <2>11. Where(kind, pc', job')
    BY <2>6, <2>7, <1>h, WhereStays
  <2> QED
    BY <1>3, <2>4, <2>5, <2>6, <2>7, <2>8, <2>9, <2>10, <2>11 DEF Controls
<1> QED
  BY <1>2, <1>3

\* A step that books an exit.
LEMMA BookingStep ==
    ASSUME DirectionalInv, pc \notin {"stopped", "boot"}, book # NoRow,
           NEW i \in Nat, NEW q \in Nat, q <= book.qty, NEW key, NEW mark \in BOOLEAN, BookExit(i, q, key, mark),
           UNCHANGED <<kind, misnamed, orders, coin, posStop, killed>>,
           Books1(book, trades, book', trades', key, q) => Facts(kind, orders, coin, book', trades', misnamed, FALSE)
    PROVE  DirectionalInv'
<1>1. /\ Books1(book, trades, book', trades', key, q) /\ book' \in BookSet
      /\ pc' \in Points /\ job' \in JobSet
      /\ Controls(kind, orders, book', trades', pc', job')
  BY BookExitSteps
<1>2. /\ orders \in Seq(OrderSet) /\ coin \in Int /\ posStop \in BOOLEAN /\ killed \in BOOLEAN /\ misnamed \subseteq Nat
  BY Here
<1>3. Facts(kind, orders', coin', book', trades', misnamed', FALSE) /\ Controls(kind, orders', book', trades', pc', job')
  BY <1>1
<1> QED
  BY <1>1, <1>2, <1>3, StepKeeps

LEMMA WholeIs ==
    ASSUME NEW i, Whole(i)
    PROVE  Books1(book, trades, book', trades', <<"exit", i>>, book.qty) /\ book' = NoRow
  BY DEF Whole, Books1, Booked

LEMMA FillKeeps == ASSUME DirectionalInv, Fill PROVE DirectionalInv'
<1>p. pc = "fill" /\ UNCHANGED <<kind, misnamed, coin, posStop, killed>>
  BY DEF Fill, venue
<1>h. /\ orders \in Seq(OrderSet) /\ coin \in Int /\ posStop \in BOOLEAN /\ killed \in BOOLEAN /\ job \in JobSet
      /\ book \in BookSet /\ misnamed \subseteq Nat /\ kind \in {"linear", "spot"}
      /\ JobWays("fill", job) /\ JobOrder(orders, book, "fill", job) /\ JobRow(orders, book, trades, "fill", job)
      /\ Where(kind, "fill", job) /\ RowFits(orders, book, misnamed)
      /\ Facts(kind, orders, coin, book, trades, misnamed, FALSE) /\ Shape(kind, orders, coin, book, misnamed)
  BY <1>p, Here
<1>w. job.how \in {"entry", "close", "flatten"}
  BY <1>h DEF JobWays
<1>j. /\ job.id # 0 /\ job.id \in DOMAIN orders /\ orders[job.id].purpose = Placed[job.how]
      /\ job.how # "entry" => book # NoRow /\ book.opened < job.id
      /\ job.how = "entry" => book = NoRow /\ Unres(orders, job.id)
      /\ orders[job.id].done > 0 /\ orders[job.id].done \in Nat /\ job.id \in Nat
  BY <1>h, <1>w, OneOrder, JobFields DEF JobOrder, HasOrder, StopWays
<1>c. /\ job.how = "entry" => job.id \in EntriesOf(orders)
      /\ job.how # "entry" => job.id \in ClosesOf(orders)
  BY <1>j, <1>w DEF Placed, EntriesOf, ClosesOf
<1>q. book.qty \in Nat /\ (book # NoRow => book.qty >= 1)
  BY <1>h, RowFields DEF RowFits
\* what a close sold, or as much of it as the row had
<1>x. ASSUME NEW q \in Nat, q <= book.qty, q <= orders[job.id].done, job.how # "entry",
             Books1(book, trades, book', trades', <<"exit", job.id>>, q)
      PROVE  Facts(kind, orders, coin, book', trades', misnamed, FALSE)
  BY <1>x, <1>h, <1>j, <1>c, ExitKeeps
<1>e. ASSUME FillOfEntry PROVE DirectionalInv'
  <2>1. /\ job.how = "entry" /\ book' = Position(job.id) /\ pc' = "mark" /\ job' = job /\ orders' = orders
        /\ trades' = trades
    BY <1>e DEF FillOfEntry, Go
  <2>2. book' \in BookSet /\ Opened(orders, book', job.id)
    BY <2>1, <1>h, <1>j, PositionIs
  <2>3. book' # NoRow /\ Facts(kind, orders, coin, book', trades, misnamed, FALSE)
    BY <2>1, <2>2, <1>h, <1>j, <1>c, OpenedKeeps
  <2>4. JobWays("mark", job) /\ JobOrder(orders, book', "mark", job) /\ Where(kind, "mark", job)
    BY <2>1, <1>h, WhereStays DEF JobWays, JobOrder, HasOrder
  <2>5. JobRow(orders, book', trades, "mark", job)
    BY <2>1, <2>2, <2>3, <1>h DEF JobRow, Opened
  <2>6. Controls(kind, orders', book', trades', pc', job') /\ pc' \in Points /\ job' \in JobSet
    BY <2>1, <2>4, <2>5, <1>h DEF Controls, Points
  <2>7. Facts(kind, orders', coin', book', trades', misnamed', FALSE)
    BY <2>1, <2>3, <1>p
  <2> QED
    BY <1>p, <1>h, <2>1, <2>2, <2>6, <2>7, StepKeeps
<1>l. ASSUME FillOfClose PROVE DirectionalInv'
  <2>0. job.how = "close" /\ orders' = orders
    BY <1>l DEF FillOfClose
  <2>1. CASE orders[job.id].done >= book.qty /\ Go("cancel_all") /\ UNCHANGED <<book, trades>>
    <3>1. pc' = "cancel_all" /\ job' = job /\ pc' \in Points
      BY <2>1 DEF Go, Points
    <3>2. JobWays("cancel_all", job) /\ Where(kind, "cancel_all", job) /\ JobRow(orders, book, trades, "cancel_all", job)
      BY <2>0, <1>h, WhereStays DEF JobWays, JobRow
    <3>3. JobOrder(orders, book, "cancel_all", job)
      BY <2>0, <2>1, <1>j DEF JobOrder
    <3>4. Controls(kind, orders, book, trades, pc', job')
      BY <3>1, <3>2, <3>3 DEF Controls
    <3> QED
      BY <1>p, <1>h, <2>0, <2>1, <3>1, <3>4, ThreadStep
  <2>2. CASE Leave /\ UNCHANGED <<book, trades>>
    <3>1. pc' \in Points /\ job' \in JobSet /\ Controls(kind, orders, book, trades, pc', job')
      BY <2>2, <1>h, LeaveSteps
    <3> QED
      BY <1>p, <1>h, <2>0, <2>2, <3>1, ThreadStep
  <2>3. CASE orders[job.id].done < book.qty /\ BookExit(job.id, orders[job.id].done, <<"exit", job.id>>, FALSE)
    <3>1. orders[job.id].done <= book.qty /\ orders[job.id].done <= orders[job.id].done
      BY <2>3, <1>j, <1>q
    <3>2. Books1(book, trades, book', trades', <<"exit", job.id>>, orders[job.id].done) =>
             Facts(kind, orders, coin, book', trades', misnamed, FALSE)
      <4>1. job.how # "entry" /\ orders[job.id].done \in Nat
        BY <2>0, <1>j
      <4> QED
        BY <3>1, <4>1, <1>x
    <3> QED
      BY <2>0, <2>3, <3>1, <3>2, <1>j, <1>p, BookingStep
  <2> QED
    BY <1>l, <2>1, <2>2, <2>3 DEF FillOfClose
<1>f. ASSUME FillOfFlatten PROVE DirectionalInv'
  <2>0. job.how = "flatten" /\ orders' = orders
    BY <1>f DEF FillOfFlatten
  <2>1. CASE orders[job.id].done >= book.qty /\ Whole(job.id) /\ pc' = "cancel_all" /\ job' = [job EXCEPT !.how = "booked"]
    <3>1. Books1(book, trades, book', trades', <<"exit", job.id>>, book.qty) /\ book' = NoRow
      BY <2>1, WholeIs
    <3>2. book.qty <= book.qty /\ book.qty <= orders[job.id].done
      BY <2>1, <1>q, <1>j
    <3>3. Facts(kind, orders, coin, book', trades', misnamed, FALSE)
      BY <2>0, <3>1, <3>2, <1>q, <1>x
    <3>4. job' \in JobSet /\ job'.how = "booked" /\ job'.settle = job.settle /\ job'.back = job.back /\ pc' \in Points
      BY <1>h, <2>1 DEF JobSet, Ways, Points
    <3>5. JobWays("cancel_all", job') /\ JobOrder(orders, book', "cancel_all", job') /\ JobRow(orders, book', trades', "cancel_all", job')
      BY <3>4, <1>h DEF JobWays, JobOrder, HasOrder, JobRow
    <3>6. Where(kind, "cancel_all", job')
      BY <3>4, <1>h, WhereStays
    <3>7. Controls(kind, orders', book', trades', pc', job') /\ Facts(kind, orders', coin', book', trades', misnamed', FALSE)
      BY <2>0, <2>1, <3>3, <3>5, <3>6, <1>p DEF Controls
    <3> QED
      BY <1>p, <1>h, <2>0, <3>1, <3>4, <3>7, StepKeeps, RowOrNone
  <2>2. CASE orders[job.id].done < book.qty /\ BookExit(job.id, orders[job.id].done, <<"exit", job.id>>, FALSE)
    <3>1. orders[job.id].done <= book.qty /\ orders[job.id].done <= orders[job.id].done
      BY <2>2, <1>j, <1>q
    <3>2. Books1(book, trades, book', trades', <<"exit", job.id>>, orders[job.id].done) =>
             Facts(kind, orders, coin, book', trades', misnamed, FALSE)
      <4>1. job.how # "entry" /\ orders[job.id].done \in Nat
        BY <2>0, <1>j
      <4> QED
        BY <3>1, <4>1, <1>x
    <3> QED
      BY <2>0, <2>2, <3>1, <3>2, <1>j, <1>p, BookingStep
  <2> QED
    BY <1>f, <2>1, <2>2 DEF FillOfFlatten
<1> QED
  BY <1>e, <1>l, <1>f DEF Fill

LEMMA BookCloseKeeps == ASSUME DirectionalInv, BookClose PROVE DirectionalInv'
<1>p. pc = "book_close" /\ UNCHANGED <<kind, misnamed, orders, coin, posStop, killed>> /\ Whole(job.id) /\ Leave
  BY DEF BookClose, venue
<1>h. /\ orders \in Seq(OrderSet) /\ coin \in Int /\ posStop \in BOOLEAN /\ killed \in BOOLEAN /\ job \in JobSet
      /\ book \in BookSet /\ misnamed \subseteq Nat
      /\ JobWays("book_close", job) /\ JobOrder(orders, book, "book_close", job) /\ RowFits(orders, book, misnamed)
      /\ Facts(kind, orders, coin, book, trades, misnamed, FALSE) /\ Shape(kind, orders, coin, book, misnamed)
  BY <1>p, Here
<1>w. job.how = "close"
  BY <1>h DEF JobWays
<1>j. /\ job.id # 0 /\ job.id \in DOMAIN orders /\ orders[job.id].purpose = "close"
      /\ book # NoRow /\ book.opened < job.id /\ orders[job.id].done >= book.qty /\ orders[job.id].done \in Nat
  BY <1>h, <1>w, OneOrder DEF JobOrder, HasOrder, StopWays, Placed
<1>q. book.qty \in Nat /\ book.qty >= 1 /\ job.id \in ClosesOf(orders)
  BY <1>h, <1>j, RowFields DEF RowFits, ClosesOf
<1>1. Books1(book, trades, book', trades', <<"exit", job.id>>, book.qty) /\ book' = NoRow
  BY <1>p, WholeIs
<1>2. book.qty <= book.qty /\ book.qty <= orders[job.id].done /\ orders[job.id].done > 0
  BY <1>j, <1>q
<1>3. Facts(kind, orders, coin, book', trades', misnamed, FALSE)
  BY <1>1, <1>2, <1>h, <1>j, <1>q, ExitKeeps
<1>4. pc' \in Points /\ job' \in JobSet /\ Controls(kind, orders, book', trades', pc', job')
  BY <1>p, <1>h, LeaveSteps
<1>5. Controls(kind, orders', book', trades', pc', job') /\ Facts(kind, orders', coin', book', trades', misnamed', FALSE)
  BY <1>p, <1>3, <1>4
<1> QED
  BY <1>p, <1>h, <1>1, <1>4, <1>5, StepKeeps, RowOrNone

LEMMA RecordStep ==
    ASSUME DirectionalInv, pc \notin {"stopped", "boot"},
           NEW how \in DOMAIN Placed, NEW qty \in Nat, NEW back \in Phases, back = job.back \/ back = "tick",
           Record(Placed[how], qty, how, back),
           how # "entry" => book # NoRow,
           how = "entry" => book = NoRow /\ \A e \in EntriesOf(orders) : ~Unres(orders, e),
           kind = "linear" => how \notin StopWays,
           UNCHANGED <<kind, misnamed, coin, posStop, book, trades>>, killed' \in BOOLEAN
    PROVE  DirectionalInv'
<1>h. /\ orders \in Seq(OrderSet) /\ coin \in Int /\ posStop \in BOOLEAN /\ job \in JobSet
      /\ book \in BookSet /\ misnamed \subseteq Nat /\ Len(orders) \in Nat /\ DOMAIN orders = 1..Len(orders)
      /\ JobRow(orders, book, trades, pc, job) /\ Where(kind, pc, job) /\ RowFits(orders, book, misnamed)
      /\ Facts(kind, orders, coin, book, trades, misnamed, FALSE) /\ Shape(kind, orders, coin, book, misnamed)
  BY Here
<1>w. /\ how \in {"entry", "enter", "protect", "resize", "tp", "close", "flatten"}
      /\ Placed[how] \in Purposes
      /\ Placed[how] = "entry" <=> how = "entry"
      /\ Placed[how] = "stop" <=> how \in StopWays
  BY DEF Placed, Purposes, StopWays
<1>1. Recorded(orders, orders', Placed[how])
  <2>1. orders' = Append(orders, [purpose |-> Placed[how], qty |-> qty, row |-> "pending", at |-> "unsent", done |-> 0])
    BY DEF Record
  <2> QED
    BY <2>1, <1>h, <1>w, RecordedIs
<1>2. Facts(kind, orders', coin, book, trades, misnamed, FALSE)
  BY <1>1, <1>h, <1>w, RecordedKeeps
<1> DEFINE n == Len(orders) + 1
<1>3. /\ orders' \in Seq(OrderSet) /\ DOMAIN orders' = 1..n /\ n \in Nat /\ n # 0 /\ n \in DOMAIN orders'
      /\ orders'[n].purpose = Placed[how] /\ orders'[n].row = "pending" /\ orders'[n].at = "unsent"
      /\ \A j \in DOMAIN orders : orders'[j] = orders[j] /\ j \in DOMAIN orders'
  BY <1>1, <1>h, OrdersAre DEF Recorded
<1>4. pc' = "send" /\ job' = [job EXCEPT !.id = n, !.how = how, !.back = back, !.answer = "none"]
  BY DEF Record
<1> HIDE DEF n
<1>5. /\ job' \in JobSet /\ job'.id = n /\ job'.how = how /\ job'.back = back /\ job'.settle = job.settle
  BY <1>h, <1>w, <1>3, <1>4 DEF JobSet, Ways
<1>6. book # NoRow => book.opened < n
  BY <1>h, <1>3, RowFields DEF RowFits, n
<1>7. JobWays("send", job')
  BY <1>5 DEF JobWays
<1>8. JobOrder(orders', book, "send", job')
  BY <1>3, <1>5, <1>6 DEF JobOrder, Unres
<1>9. JobRow(orders', book, trades, "send", job')
  BY <1>3, <1>5, <1>h DEF JobRow, ClosesOf
<1>10. Where(kind, "send", job')
  BY <1>5, <1>h DEF Where
<1>11. Controls(kind, orders', book, trades, pc', job') /\ pc' \in Points
  BY <1>4, <1>7, <1>8, <1>9, <1>10 DEF Controls, Points
<1>12. Facts(kind, orders', coin', book', trades', misnamed', FALSE) /\ Controls(kind, orders', book', trades', pc', job')
  BY <1>2, <1>11
<1> QED
  BY <1>h, <1>3, <1>5, <1>11, <1>12, StepKeeps

LEMMA MarkKeeps == ASSUME DirectionalInv, Mark PROVE DirectionalInv'
<1>p. /\ pc = "mark" /\ UNCHANGED <<kind, misnamed, coin, posStop, book, trades, killed>>
      /\ orders' = RowsOf(orders, {job.id}, "filled")
  BY RowOfOne DEF Mark, venue, ledger
<1>h. /\ orders \in Seq(OrderSet) /\ posStop \in BOOLEAN /\ killed \in BOOLEAN /\ job \in JobSet
      /\ JobWays("mark", job) /\ JobRow(orders, book, trades, "mark", job)
      /\ Where(kind, "mark", job) /\ OrdersFit(kind, orders) /\ RowFits(orders, book, misnamed)
  BY <1>p, Here
<1>b. book # NoRow /\ book.entry = job.id
  BY <1>h DEF JobRow
<1>1. Quiet(kind, orders, orders', book, FALSE)
  <2>1. orders[job.id].at \notin {"flying", "live"}
    BY <1>h, <1>b DEF RowFits, EntriesOf, OrdersFit, OrderFits
  <2>2. "filled" \in RowStates
    BY DEF RowStates
  <2> QED
    BY <2>1, <2>2, <1>p, <1>h, <1>b, RowsAreQuiet
<1>2. ClosesOf(orders') = ClosesOf(orders)
  BY <1>1, <1>h, QuietIs
<1>3. ASSUME NEW way \in {"enter", "protect"}, NEW next \in {"place", "find"}, pc' = next, Becomes(way)
      PROVE  pc' \in Points /\ job' \in JobSet /\ Controls(kind, orders', book, trades, pc', job')
  <2>1. job' \in JobSet /\ job'.how = way /\ job'.settle = job.settle /\ job'.back = job.back
    BY <1>3, <1>h DEF Becomes, JobSet, Ways
  <2>2. JobWays(next, job') /\ JobOrder(orders', book, next, job')
    BY <2>1 DEF JobWays, JobOrder, HasOrder
  <2>3. JobRow(orders', book, trades, next, job')
    BY <2>1, <1>b, <1>2, <1>h DEF JobRow
  <2>4. Where(kind, next, job')
    BY <2>1, <1>h, WhereStays
  <2> QED
    BY <1>3, <2>1, <2>2, <2>3, <2>4 DEF Controls, Points
<1>4. ASSUME Leave
      PROVE  pc' \in Points /\ job' \in JobSet /\ Controls(kind, orders', book, trades, pc', job')
  BY <1>4, <1>h, LeaveSteps
<1>5. ASSUME Go("boot")
      PROVE  pc' \in Points /\ job' \in JobSet /\ Controls(kind, orders', book, trades, pc', job')
  <2>1. pc' = "boot" /\ job' = job /\ "boot" \in Phases /\ pc' \in Points
    BY <1>5 DEF Go, Phases, Points
  <2>2. job.settle # 0 => job.settle \in ClosesOf(orders') /\ (kind = "linear" => job.back # "naked")
    BY <1>2, <1>h DEF JobRow, Where
  <2>3. Controls(kind, orders', book, trades, "boot", job)
    BY <2>1, <2>2, <1>h, PhaseIs
  <2> QED
    BY <2>1, <2>3, <1>h
<1>6. pc' \in Points /\ job' \in JobSet /\ Controls(kind, orders', book, trades, pc', job')
  BY <1>3, <1>4, <1>5 DEF Mark
<1> QED
  BY <1>p, <1>h, <1>1, <1>6, QuietStep

LEMMA ReturnsKeeps == ASSUME DirectionalInv, Returns PROVE DirectionalInv'
<1>p. pc = "return" /\ Return /\ UNCHANGED <<kind, misnamed, orders, coin, posStop, book, trades, killed>>
  BY DEF Returns, venue, ledger
<1>h. posStop \in BOOLEAN /\ killed \in BOOLEAN /\ job \in JobSet /\ Controls(kind, orders, book, trades, pc, job)
  BY <1>p, Here
<1>1. pc' \in Points /\ job' \in JobSet /\ Controls(kind, orders, book, trades, pc', job')
  BY <1>p, <1>h, ReturnSteps
<1> QED
  BY <1>p, <1>h, <1>1, ThreadStep

LEMMA SettledKeeps == ASSUME DirectionalInv, Settled PROVE DirectionalInv'
<1>p. /\ pc = "settled" /\ UNCHANGED <<kind, misnamed, coin, posStop, book, trades, killed>>
      /\ orders' = RowsOf(orders, {job.settle}, "filled")
      /\ IF job.back = "naked" /\ HasRow THEN pc' = "see_legs" /\ job' = [NoJob EXCEPT !.back = job.back] ELSE Leave
  BY RowOfOne DEF Settled, venue, ledger
<1>h. /\ orders \in Seq(OrderSet) /\ posStop \in BOOLEAN /\ killed \in BOOLEAN /\ job \in JobSet
      /\ JobRow(orders, book, trades, "settled", job)
      /\ Where(kind, "settled", job) /\ OrdersFit(kind, orders)
  BY <1>p, Here
<1>1. Quiet(kind, orders, orders', book, FALSE)
  <2>1. {job.settle} \cap EntriesOf(orders) = {} /\ "filled" \in RowStates
    BY <1>h DEF JobRow, ClosesOf, EntriesOf, RowStates
  <2> QED
    BY <2>1, <1>p, <1>h, RowsAreQuiet
<1>2. ASSUME job.back = "naked", HasRow, pc' = "see_legs", job' = [NoJob EXCEPT !.back = job.back]
      PROVE  pc' \in Points /\ job' \in JobSet /\ Controls(kind, orders', book, trades, pc', job')
  <2>1. /\ job' \in JobSet /\ job'.how = "none" /\ job'.settle = 0 /\ job'.back = "naked" /\ book # NoRow
    BY <1>2 DEF NoJob, JobSet, Ways, Phases, HasRow
  <2>2. kind # "linear"
    BY <1>2, <1>h DEF JobRow, Where
  <2>3. JobWays("see_legs", job') /\ JobOrder(orders', book, "see_legs", job') /\ JobRow(orders', book, trades, "see_legs", job')
    BY <2>1 DEF JobWays, JobOrder, HasOrder, JobRow
  <2>4. Where(kind, "see_legs", job')
    BY <2>1, <2>2 DEF Where
  <2> QED
    BY <1>2, <2>1, <2>3, <2>4 DEF Controls, Points
<1>3. ASSUME Leave PROVE pc' \in Points /\ job' \in JobSet /\ Controls(kind, orders', book, trades, pc', job')
  BY <1>3, <1>h, LeaveSteps
<1>4. pc' \in Points /\ job' \in JobSet /\ Controls(kind, orders', book, trades, pc', job')
  BY <1>p, <1>2, <1>3
<1> QED
  BY <1>p, <1>h, <1>1, <1>4, QuietStep

\* Orders end, and rows of others than entries are written.
LEMMA SweepIsQuiet ==
    ASSUME NEW k, NEW o \in Seq(OrderSet), NEW p, NEW b, NEW x, OrdersFit(k, o), p = [i \in DOMAIN o |-> p[i]],
           \A i \in DOMAIN o : /\ p[i] \in OrderSet /\ p[i].purpose = o[i].purpose /\ p[i].done = o[i].done
                               /\ p[i].at = o[i].at \/ p[i].at = "ended"
                               /\ o[i].purpose = "entry" => p[i].row = o[i].row
    PROVE  Quiet(k, o, p, b, x)
<1>1. p \in Seq(OrderSet) /\ Len(p) = Len(o)
  BY Remade
<1>2. ASSUME NEW i \in EntriesOf(o)
      PROVE  (p[i].at \in {"flying", "live"} => Unres(p, i)) /\ (Unres(p, i) <=> Unres(o, i))
  BY DEF EntriesOf, OrdersFit, OrderFits, Unres
<1>3. \A i \in DOMAIN o : /\ p[i].purpose = o[i].purpose /\ p[i].done = o[i].done
                          /\ o[i].at = "ended" => p[i].at = "ended"
  OBVIOUS
<1> QED
  BY <1>1, <1>2, <1>3 DEF Quiet

UnheardOf(o, S) == [i \in DOMAIN o |-> IF i \in S /\ o[i].at = "live" THEN [o[i] EXCEPT !.at = "ended"]
                                       ELSE o[i]]

LEMMA UnheardIs == ASSUME NEW S PROVE Unheard(S) = UnheardOf(orders, S)
  BY DEF Unheard, UnheardOf, Ids

\* A cancellation whose reply was lost.
LEMMA UnheardIsQuiet ==
    ASSUME NEW k, NEW o \in Seq(OrderSet), NEW b, NEW x, NEW S, OrdersFit(k, o)
    PROVE  Quiet(k, o, UnheardOf(o, S), b, x)
<1> DEFINE p == UnheardOf(o, S)
<1>1. p = [i \in DOMAIN o |-> p[i]]
  BY DEF UnheardOf
<1>2. ASSUME NEW i \in DOMAIN o
      PROVE  /\ p[i] \in OrderSet /\ p[i].purpose = o[i].purpose /\ p[i].done = o[i].done
             /\ p[i].at = o[i].at \/ p[i].at = "ended"
             /\ o[i].purpose = "entry" => p[i].row = o[i].row
  <2>1. /\ o[i] \in OrderSet
        /\ p[i] = IF i \in S /\ o[i].at = "live" THEN [o[i] EXCEPT !.at = "ended"] ELSE o[i]
    BY OrdersAre DEF UnheardOf
  <2> HIDE DEF p
  <2> QED
    BY <2>1 DEF OrderSet, Places
<1> HIDE DEF p
<1>3. Quiet(k, o, p, b, x)
  BY <1>1, <1>2, SweepIsQuiet
<1> QED
  BY <1>3 DEF p

LEMMA CancelAllKeeps == ASSUME DirectionalInv, CancelAll PROVE DirectionalInv'
<1>p. /\ pc = "cancel_all" /\ UNCHANGED <<kind, misnamed, coin, posStop, book, trades, killed>>
      /\ IF job.how = "close" THEN Go("book_close") ELSE Return
  BY DEF CancelAll, venue, ledger
<1>h. /\ orders \in Seq(OrderSet) /\ posStop \in BOOLEAN /\ killed \in BOOLEAN /\ job \in JobSet
      /\ JobWays("cancel_all", job) /\ JobOrder(orders, book, "cancel_all", job) /\ JobRow(orders, book, trades, "cancel_all", job)
      /\ Where(kind, "cancel_all", job) /\ OrdersFit(kind, orders)
      /\ Controls(kind, orders, book, trades, pc, job)
  BY <1>p, Here
<1>1. Quiet(kind, orders, orders', book, FALSE)
  <2>1. ASSUME NEW gone, orders' = Unheard(gone) PROVE Quiet(kind, orders, orders', book, FALSE)
    BY <2>1, <1>h, UnheardIs, UnheardIsQuiet
  <2>2. CASE orders' = [i \in Ids |->
                LET o == IF orders[i].at = "live" THEN [orders[i] EXCEPT !.at = "ended"] ELSE orders[i]
                IN  IF o.purpose \in {"stop", "tp"} /\ Unresolved(i) THEN [o EXCEPT !.row = "cancelled"] ELSE o]
    <3>1. orders' = [i \in DOMAIN orders |-> orders'[i]]
      BY <2>2 DEF Ids
    <3>2. ASSUME NEW i \in DOMAIN orders
          PROVE  /\ orders'[i] \in OrderSet /\ orders'[i].purpose = orders[i].purpose /\ orders'[i].done = orders[i].done
                 /\ orders'[i].at = orders[i].at \/ orders'[i].at = "ended"
                 /\ orders[i].purpose = "entry" => orders'[i].row = orders[i].row
      <4> DEFINE o == IF orders[i].at = "live" THEN [orders[i] EXCEPT !.at = "ended"] ELSE orders[i]
      <4>1. orders'[i] = IF o.purpose \in {"stop", "tp"} /\ Unresolved(i) THEN [o EXCEPT !.row = "cancelled"] ELSE o
        BY <2>2 DEF Ids
      <4>2. orders[i] \in OrderSet
        BY <1>h, OrdersAre
      <4>3. /\ o \in OrderSet /\ o.purpose = orders[i].purpose /\ o.done = orders[i].done /\ o.row = orders[i].row
            /\ o.at = orders[i].at \/ o.at = "ended"
        BY <4>2 DEF OrderSet, Places
      <4> HIDE DEF o
      <4> QED
        BY <4>1, <4>3 DEF OrderSet, RowStates
    <3> QED
      BY <3>1, <3>2, <1>h, SweepIsQuiet
  <2> QED
    BY <2>1, <2>2 DEF CancelAll
<1>2. /\ DOMAIN orders' = DOMAIN orders /\ ClosesOf(orders') = ClosesOf(orders)
      /\ \A i \in DOMAIN orders : orders'[i].purpose = orders[i].purpose /\ orders'[i].done = orders[i].done
  BY <1>1, <1>h, QuietIs
<1>3. pc' \in Points /\ job' \in JobSet /\ Controls(kind, orders', book, trades, pc', job')
  <2>1. CASE job.how = "close"
    <3>1. pc' = "book_close" /\ job' = job /\ pc' \in Points
      BY <2>1, <1>p DEF Go, Points
    <3>2. /\ job.id # 0 /\ job.id \in DOMAIN orders /\ orders[job.id].purpose = Placed[job.how]
          /\ book # NoRow /\ book.opened < job.id /\ orders[job.id].done >= book.qty
      BY <2>1, <1>h DEF JobOrder, HasOrder, StopWays
    <3>3. JobOrder(orders', book, "book_close", job)
      BY <2>1, <3>2, <1>2 DEF JobOrder
    <3>4. JobWays("book_close", job) /\ JobRow(orders', book, trades, "book_close", job) /\ Where(kind, "book_close", job)
      BY <2>1, <1>2, <1>h, WhereStays DEF JobWays, JobRow
    <3> QED
      BY <3>1, <3>3, <3>4, <1>h DEF Controls
  <2>2. CASE job.how # "close"
    BY <2>2, <1>p, <1>h, <1>2, ReturnSteps
  <2> QED
    BY <2>1, <2>2
<1> QED
  BY <1>p, <1>h, <1>1, <1>3, QuietStep

\* A linear stop is asked of the position: there is no order of its own.
LEMMA PositionStopSteps ==
    ASSUME DirectionalInv, pc \in {"resize", "place"}, pc' = "send", job' = [job EXCEPT !.id = 0]
    PROVE  pc' \in Points /\ job' \in JobSet /\ Controls(kind, orders, book, trades, pc', job')
<1>h. /\ job \in JobSet /\ JobWays(pc, job) /\ JobRow(orders, book, trades, pc, job) /\ Where(kind, pc, job)
  BY Here
<1>1. job' \in JobSet /\ job'.id = 0 /\ job'.how = job.how /\ job'.settle = job.settle /\ job'.back = job.back
  BY <1>h DEF JobSet
<1>2. job.how \in StopWays /\ book # NoRow
  BY <1>h DEF JobWays, JobRow, StopWays
<1>3. JobWays("send", job')
  BY <1>1, <1>2 DEF JobWays, StopWays, Placed
<1>4. JobOrder(orders, book, "send", job')
  BY <1>1, <1>2 DEF JobOrder, StopWays
<1>5. JobRow(orders, book, trades, "send", job')
  BY <1>1, <1>h DEF JobRow
<1>6. Where(kind, "send", job')
  BY <1>1, <1>h, WhereStays
<1> QED
  BY <1>1, <1>3, <1>4, <1>5, <1>6 DEF Controls, Points

LEMMA ResizeKeeps == ASSUME DirectionalInv, Resize PROVE DirectionalInv'
<1>p. pc = "resize" /\ UNCHANGED <<kind, misnamed, coin, posStop, book, trades, killed>>
  BY DEF Resize, venue, ledger
<1>h. /\ posStop \in BOOLEAN /\ killed \in BOOLEAN /\ job \in JobSet /\ coin \in Int /\ book \in BookSet
      /\ JobWays("resize", job) /\ JobRow(orders, book, trades, "resize", job)
      /\ Controls(kind, orders, book, trades, pc, job)
  BY <1>p, Here
<1>b. book # NoRow /\ job.how = "resize" /\ job.back \in Phases
  BY <1>h, JobFields DEF JobRow, JobWays
<1>1. ASSUME pc' = "send", job' = [job EXCEPT !.id = 0], UNCHANGED orders PROVE DirectionalInv'
  <2>1. pc' \in Points /\ job' \in JobSet /\ Controls(kind, orders, book, trades, pc', job')
    BY <1>1, <1>p, PositionStopSteps
  <2> QED
    BY <1>1, <1>p, <1>h, <2>1, ThreadStep
<1>2. ASSUME Spot, coin > 0, Record("stop", Least(book.qty, coin), "resize", job.back) PROVE DirectionalInv'
  <2>1. Least(book.qty, coin) \in Nat
    BY <1>2, <1>h, RowFields DEF Least
  <2>2. "resize" \in DOMAIN Placed /\ Placed["resize"] = "stop" /\ kind # "linear"
    BY <1>2 DEF Placed, Spot
  <2>3. Record(Placed["resize"], Least(book.qty, coin), "resize", job.back)
    BY <1>2, <2>2
  <2> QED
    BY <1>p, <1>h, <1>b, <2>1, <2>2, <2>3, RecordStep
<1>3. ASSUME Return, UNCHANGED orders PROVE DirectionalInv'
  <2>1. pc' \in Points /\ job' \in JobSet /\ Controls(kind, orders, book, trades, pc', job')
    BY <1>3, <1>h, ReturnSteps
  <2> QED
    BY <1>3, <1>p, <1>h, <2>1, ThreadStep
<1> QED
  BY <1>1, <1>2, <1>3 DEF Resize

LEMMA CancelledIs == ASSUME NEW S PROVE Cancelled(S) = CancelledOf(orders, S)
  BY DEF Cancelled, CancelledOf, Ids

\* Nothing is booked yet under an order placed for this position.
LEMMA OwnOrder ==
    ASSUME DirectionalInv, pc \notin {"stopped", "boot"}, book # NoRow, NEW i, i # 0 => book.opened < i
    PROVE  \A t \in trades : t.key = <<"spot", i>> => t.entry = book.entry
<1>h. /\ orders \in Seq(OrderSet) /\ book \in BookSet
      /\ RowFits(orders, book, misnamed) /\ TradesFit(orders, trades) /\ LastEntry(orders, book)
      /\ \A j \in DOMAIN orders : j \in Nat /\ j >= 1
  BY Here DEF Facts
<1> SUFFICES ASSUME NEW t \in trades, t.key = <<"spot", i>> PROVE t.entry = book.entry
  OBVIOUS
<1>1. TradeFits(orders, t) /\ t.key[1] = "spot" /\ t.key[2] = i
  BY <1>h DEF TradesFit
<1>2. i \in DOMAIN orders /\ i # 0
  BY <1>1, <1>h DEF TradeFits
<1>3. book.entry \in EntriesOf(orders) /\ book.entry <= book.opened /\ book.opened \in Nat
  BY <1>h, RowFields DEF RowFits
<1>4. \A e \in EntriesOf(orders) : e <= book.entry /\ e \in Nat
  BY <1>h, LastIsLast DEF EntriesOf
<1> QED
  BY <1>1, <1>2, <1>3, <1>4, <1>h DEF TradeFits

LEMMA SwapKeeps == ASSUME DirectionalInv, Swap PROVE DirectionalInv'
<1>p. /\ pc = "swap" /\ UNCHANGED <<kind, misnamed, coin, posStop, book, trades, killed>>
      /\ pc' = "name" /\ job' = job /\ pc' \in Points
      /\ orders' = CancelledOf(orders, {book.stopId} \ {0}) \/ \E gone : orders' = UnheardOf(orders, gone)
  BY CancelledIs, UnheardIs DEF Swap, venue, ledger, Go, Points
<1>h. /\ orders \in Seq(OrderSet) /\ posStop \in BOOLEAN /\ killed \in BOOLEAN /\ job \in JobSet /\ book \in BookSet
      /\ JobWays("swap", job) /\ JobOrder(orders, book, "swap", job) /\ JobRow(orders, book, trades, "swap", job)
      /\ Where(kind, "swap", job) /\ OrdersFit(kind, orders) /\ RowFits(orders, book, misnamed)
      /\ \A i \in DOMAIN orders : i \in Nat /\ i >= 1
  BY <1>p, Here
<1>j. /\ job.how = "resize" /\ book # NoRow
      /\ job.id # 0 => job.id \in DOMAIN orders /\ orders[job.id].purpose = "stop" /\ book.opened < job.id
  BY <1>h DEF JobWays, JobOrder, HasOrder, Placed
<1>1. Quiet(kind, orders, orders', book, FALSE)
  <2>1. ({book.stopId} \ {0}) \cap EntriesOf(orders) = {}
    BY <1>h, <1>j DEF RowFits, EntriesOf
  <2> QED
    BY <2>1, <1>p, <1>h, CancelIsQuiet, UnheardIsQuiet
<1>2. /\ DOMAIN orders' = DOMAIN orders /\ ClosesOf(orders') = ClosesOf(orders)
      /\ \A i \in DOMAIN orders : orders'[i].purpose = orders[i].purpose
  BY <1>1, <1>h, QuietIs
<1>3. \A t \in trades : t.key = <<"spot", job.id>> => t.entry = book.entry
  BY <1>p, <1>j, OwnOrder
<1>4. JobWays("name", job) /\ JobOrder(orders', book, "name", job)
  BY <1>j DEF JobWays, JobOrder, HasOrder, StopWays
<1>5. JobRow(orders', book, trades, "name", job)
  BY <1>j, <1>2, <1>3, <1>h DEF JobRow
<1>6. Where(kind, "name", job)
  BY <1>h, WhereStays
<1>7. Controls(kind, orders', book, trades, pc', job')
  BY <1>p, <1>4, <1>5, <1>6 DEF Controls
<1> QED
  BY <1>p, <1>h, <1>1, <1>7, QuietStep

\* A step that writes the row without booking, and moves the thread.
LEMMA NamingStep ==
    ASSUME DirectionalInv, pc \notin {"stopped", "boot"}, book # NoRow,
           UNCHANGED <<kind, orders, coin, posStop, trades, killed>>,
           misnamed \subseteq misnamed', misnamed' \subseteq Nat,
           book' \in BookSet, book'.qty = book.qty, book'.entry = book.entry, book'.opened = book.opened,
           \A i \in book'.tps : i \in DOMAIN orders /\ (book.entry < i \/ book.entry \in misnamed'),
           book'.stopId # 0 => book'.stopId \in DOMAIN orders /\ orders[book'.stopId].purpose = "stop",
           \A t \in trades : t.key = <<"spot", book'.stopId>> => t.entry = book.entry,
           pc' \in Points, job' \in JobSet,
           book' # NoRow => Controls(kind, orders, book', trades, pc', job')
    PROVE  DirectionalInv'
<1>h. /\ orders \in Seq(OrderSet) /\ coin \in Int /\ posStop \in BOOLEAN /\ killed \in BOOLEAN
      /\ Shape(kind, orders, coin, book, misnamed)
      /\ Facts(kind, orders, coin, book, trades, misnamed, FALSE)
  BY Here
<1>1. Facts(kind, orders, coin, book', trades, misnamed', FALSE) /\ book' # NoRow
  BY <1>h, NamingKeeps
<1>2. Facts(kind, orders', coin', book', trades', misnamed', FALSE) /\ Controls(kind, orders', book', trades', pc', job')
  BY <1>1
<1> QED
  BY <1>h, <1>2, StepKeeps

\* The row is told that a stop rests.
LEMMA StopSet ==
    ASSUME NEW b \in BookSet
    PROVE  LET c == [b EXCEPT !.stop = TRUE]
           IN  /\ c \in BookSet /\ c.qty = b.qty /\ c.entry = b.entry /\ c.opened = b.opened
               /\ c.tps = b.tps /\ c.stopId = b.stopId
  BY DEF BookSet

LEMMA StopSetStep ==
    ASSUME DirectionalInv, pc \notin {"stopped", "boot"}, book # NoRow, book' = [book EXCEPT !.stop = TRUE],
           UNCHANGED <<kind, orders, coin, posStop, trades, killed, misnamed>>,
           pc' \in Points, job' \in JobSet,
           book' # NoRow => Controls(kind, orders, book', trades, pc', job')
    PROVE  DirectionalInv'
<1>h. /\ book \in BookSet /\ misnamed \subseteq Nat /\ RowFits(orders, book, misnamed) /\ StopIsOwn(book, trades)
  BY Here
<1>1. /\ book' \in BookSet /\ book'.qty = book.qty /\ book'.entry = book.entry /\ book'.opened = book.opened
      /\ book'.tps = book.tps /\ book'.stopId = book.stopId
  BY <1>h, StopSet
<1>2. /\ \A i \in book'.tps : i \in DOMAIN orders /\ (book.entry < i \/ book.entry \in misnamed')
      /\ book'.stopId # 0 => book'.stopId \in DOMAIN orders /\ orders[book'.stopId].purpose = "stop"
      /\ \A t \in trades : t.key = <<"spot", book'.stopId>> => t.entry = book.entry
  BY <1>h, <1>1 DEF RowFits, StopIsOwn
<1>3. misnamed \subseteq misnamed' /\ misnamed' \subseteq Nat
  BY <1>h
<1> QED
  BY <1>1, <1>2, <1>3, NamingStep

\* The thread goes on to a point that only needs a position.
LEMMA GoOnSteps ==
    ASSUME DirectionalInv, pc \notin {"stopped", "boot"}, book # NoRow,
           NEW p \in {"place", "find", "legs", "free", "sell"}, NEW way \in Ways,
           pc' = p, job' = [job EXCEPT !.how = way], JobWays(p, [job EXCEPT !.how = way])
    PROVE  /\ pc' \in Points /\ job' \in JobSet
           /\ \A o, b : ClosesOf(o) = ClosesOf(orders) /\ b # NoRow => Controls(kind, o, b, trades, pc', job')
<1>h. /\ job \in JobSet /\ JobRow(orders, book, trades, pc, job) /\ Where(kind, pc, job)
  BY Here
<1>1. job' \in JobSet /\ job'.how = way /\ job'.settle = job.settle /\ job'.back = job.back
  BY <1>h DEF JobSet
<1>2. JobWays(p, job') /\ \A o, b : JobOrder(o, b, p, job')
  BY DEF JobOrder, HasOrder
<1>3. \A o, b : ClosesOf(o) = ClosesOf(orders) /\ b # NoRow => JobRow(o, b, trades, p, job')
  BY <1>1, <1>h DEF JobRow
<1>4. Where(kind, p, job')
  BY <1>1, <1>h, WhereStays
<1> QED
  BY <1>1, <1>2, <1>3, <1>4 DEF Controls, Points

\* Nothing changes but the way and the point.
LEMMA GoOnStep ==
    ASSUME DirectionalInv, pc \notin {"stopped", "boot"}, book # NoRow,
           NEW p \in {"place", "find", "legs", "free", "sell"}, NEW way \in Ways,
           pc' = p, job' = [job EXCEPT !.how = way], JobWays(p, [job EXCEPT !.how = way]),
           UNCHANGED <<kind, orders, coin, posStop, book, trades, killed, misnamed>>
    PROVE  DirectionalInv'
<1>1. posStop \in BOOLEAN /\ killed \in BOOLEAN
  BY Here
<1>2. pc' \in Points /\ job' \in JobSet /\ Controls(kind, orders, book, trades, pc', job')
  BY GoOnSteps
<1> QED
  BY <1>1, <1>2, ThreadStep

LEMMA LeaveStep ==
    ASSUME DirectionalInv, pc \notin {"stopped", "boot"}, Leave,
           UNCHANGED <<kind, orders, coin, posStop, book, trades, misnamed>>, killed' \in BOOLEAN
    PROVE  DirectionalInv'
<1>1. posStop \in BOOLEAN /\ job \in JobSet
  BY Here
<1>2. pc' \in Points /\ job' \in JobSet /\ Controls(kind, orders, book, trades, pc', job')
  BY <1>1, LeaveSteps
<1> QED
  BY <1>1, <1>2, ThreadStep

LEMMA FindKeeps == ASSUME DirectionalInv, Find PROVE DirectionalInv'
<1>p. pc = "find" /\ UNCHANGED <<kind, misnamed, orders, coin, posStop, trades, killed>>
  BY DEF Find, venue
<1>h. /\ orders \in Seq(OrderSet) /\ job \in JobSet /\ book \in BookSet /\ killed \in BOOLEAN
      /\ JobWays("find", job) /\ JobRow(orders, book, trades, "find", job)
      /\ Where(kind, "find", job) /\ TradesFit(orders, trades)
      /\ \A i \in DOMAIN orders : i \in Nat /\ i >= 1
  BY <1>p, Here
<1>b. book # NoRow /\ job.how \in {"enter", "protect"}
  BY <1>h DEF JobRow, JobWays
<1>1. ASSUME NEW i \in Of({"stop"}), orders[i].at = "live", book' = [book EXCEPT !.stop = TRUE],
             pc' = "name", job' = [job EXCEPT !.id = i]
      PROVE  DirectionalInv'
  <2>1. i \in DOMAIN orders /\ i \in Nat /\ orders[i].purpose = "stop"
    BY <1>h DEF Of, Ids
  <2>2. job' \in JobSet /\ job'.id = i /\ job'.how = job.how /\ job'.settle = job.settle /\ job'.back = job.back
    BY <1>h, <1>1, <2>1 DEF JobSet
  <2>3. \A t \in trades : t.key # <<"spot", i>>
    BY <1>h, <1>1 DEF TradesFit, TradeFits
  <2>4. JobWays("name", job') /\ JobOrder(orders, book', "name", job')
    BY <1>b, <2>2 DEF JobWays, JobOrder, HasOrder, StopWays
  <2>5. book' # NoRow => JobRow(orders, book', trades, "name", job')
    BY <2>1, <2>2, <2>3, <1>h DEF JobRow
  <2>6. Where(kind, "name", job')
    BY <2>2, <1>h, WhereStays
  <2>7. pc' \in Points /\ (book' # NoRow => Controls(kind, orders, book', trades, pc', job'))
    BY <1>1, <2>4, <2>5, <2>6 DEF Controls, Points
  <2> QED
    BY <1>p, <1>b, <1>1, <2>2, <2>7, StopSetStep
<1>2. ASSUME Go("place"), UNCHANGED book PROVE DirectionalInv'
  <2>1. job' = [job EXCEPT !.how = job.how] /\ job.how \in Ways /\ [job EXCEPT !.how = job.how] = job /\ pc' = "place"
    BY <1>2, <1>h, <1>b DEF Go, JobSet
  <2>2. JobWays("place", job)
    BY <1>b DEF JobWays
  <2> QED
    BY <1>2, <1>p, <1>b, <2>1, <2>2, GoOnStep
<1>3. ASSUME Leave, UNCHANGED book PROVE DirectionalInv'
  BY <1>3, <1>p, <1>h, LeaveStep
<1> QED
  BY <1>1, <1>2, <1>3 DEF Find

LEMMA ToFlattenStep ==
    ASSUME DirectionalInv, pc \notin {"stopped", "boot"}, book # NoRow, ToFlatten,
           UNCHANGED <<kind, orders, coin, posStop, book, trades, killed, misnamed>>
    PROVE  DirectionalInv'
<1>1. pc' = "free" /\ job' = [job EXCEPT !.how = "flatten"] /\ "flatten" \in Ways
  BY DEF ToFlatten, Becomes, Ways
<1>2. [job EXCEPT !.how = "flatten"].how = "flatten"
  BY Here DEF JobSet
<1>3. JobWays("free", [job EXCEPT !.how = "flatten"])
  BY <1>2 DEF JobWays
<1> QED
  BY <1>1, <1>3, GoOnStep

LEMMA PlaceKeeps == ASSUME DirectionalInv, Place PROVE DirectionalInv'
<1>p. pc = "place" /\ UNCHANGED <<kind, misnamed, coin, posStop, book, trades, killed>>
  BY DEF Place, venue, ledger
<1>h. /\ posStop \in BOOLEAN /\ killed \in BOOLEAN /\ job \in JobSet /\ coin \in Int /\ book \in BookSet
      /\ JobWays("place", job) /\ JobRow(orders, book, trades, "place", job)
  BY <1>p, Here
<1>b. book # NoRow /\ job.how \in {"enter", "protect"} /\ job.back \in Phases
  BY <1>h, JobFields DEF JobRow, JobWays
<1>1. ASSUME pc' = "send", job' = [job EXCEPT !.id = 0], UNCHANGED orders PROVE DirectionalInv'
  <2>1. pc' \in Points /\ job' \in JobSet /\ Controls(kind, orders, book, trades, pc', job')
    BY <1>1, <1>p, PositionStopSteps
  <2> QED
    BY <1>1, <1>p, <1>h, <2>1, ThreadStep
<1>2. ASSUME Spot, coin > 0, Record("stop", Least(book.qty, coin), job.how, job.back) PROVE DirectionalInv'
  <2>1. Least(book.qty, coin) \in Nat
    BY <1>2, <1>h, RowFields DEF Least
  <2>2. job.how \in DOMAIN Placed /\ Placed[job.how] = "stop" /\ kind # "linear" /\ job.how # "entry"
    BY <1>2, <1>b DEF Placed, Spot
  <2>3. Record(Placed[job.how], Least(book.qty, coin), job.how, job.back)
    BY <1>2, <2>2
  <2> QED
    BY <1>p, <1>h, <1>b, <2>1, <2>2, <2>3, RecordStep
<1>3. ASSUME ToFlatten, UNCHANGED orders PROVE DirectionalInv'
  BY <1>3, <1>p, <1>b, ToFlattenStep
<1> QED
  BY <1>1, <1>2, <1>3 DEF Place

LEMMA VerifyKeeps == ASSUME DirectionalInv, Verify PROVE DirectionalInv'
<1>p. pc = "verify" /\ UNCHANGED <<kind, misnamed, orders, coin, posStop, trades, killed>>
  BY DEF Verify, venue
<1>h. /\ job \in JobSet /\ book \in BookSet
      /\ JobWays("verify", job) /\ JobOrder(orders, book, "verify", job) /\ JobRow(orders, book, trades, "verify", job)
      /\ Where(kind, "verify", job)
  BY <1>p, Here
<1>j. /\ job.how \in {"enter", "protect"} /\ book # NoRow
      /\ job.id # 0 => job.id \in DOMAIN orders /\ orders[job.id].purpose = "stop" /\ book.opened < job.id
  BY <1>h DEF JobWays, JobOrder, HasOrder, Placed
<1>1. ASSUME book' = [book EXCEPT !.stop = TRUE], Go("name") PROVE DirectionalInv'
  <2>1. pc' = "name" /\ job' = job /\ pc' \in Points
    BY <1>1 DEF Go, Points
  <2>2. book'.entry = book.entry
    BY <1>1, <1>h, StopSet
  <2>3. \A t \in trades : t.key = <<"spot", job.id>> => t.entry = book.entry
    BY <1>p, <1>j, OwnOrder
  <2>4. JobWays("name", job) /\ JobOrder(orders, book', "name", job)
    BY <1>j DEF JobWays, JobOrder, HasOrder, StopWays
  <2>5. book' # NoRow => JobRow(orders, book', trades, "name", job)
    BY <1>j, <2>2, <2>3, <1>h DEF JobRow
  <2>6. Where(kind, "name", job)
    BY <1>h, WhereStays
  <2>7. book' # NoRow => Controls(kind, orders, book', trades, pc', job')
    BY <2>1, <2>4, <2>5, <2>6 DEF Controls
  <2> QED
    BY <1>p, <1>h, <1>j, <1>1, <2>1, <2>7, StopSetStep
<1>2. ASSUME ToFlatten, UNCHANGED book PROVE DirectionalInv'
  BY <1>2, <1>p, <1>j, ToFlattenStep
<1> QED
  BY <1>1, <1>2 DEF Verify

LEMMA NameKeeps == ASSUME DirectionalInv, Name PROVE DirectionalInv'
<1> DEFINE resting == {i \in Of({"tp"}) : orders[i].row \in {"pending", "submitted"}}
           legs == IF job.how = "protect" /\ book.tps = {} THEN resting ELSE book.tps
<1>p. /\ pc = "name" /\ UNCHANGED <<kind, orders, coin, posStop, trades, killed>>
      /\ book' = [book EXCEPT !.stopId = job.id, !.tps = legs]
      /\ misnamed' = IF \E i \in legs : i < book.entry THEN misnamed \cup {book.entry} ELSE misnamed
      /\ IF job.how = "enter" THEN Go("legs") ELSE Return
  BY DEF Name, venue
<1>h. /\ job \in JobSet /\ book \in BookSet /\ misnamed \subseteq Nat
      /\ JobWays("name", job) /\ JobRow(orders, book, trades, "name", job)
      /\ Controls(kind, orders, book, trades, pc, job)
      /\ RowFits(orders, book, misnamed)
      /\ \A i \in DOMAIN orders : i \in Nat /\ i >= 1
  BY <1>p, Here
<1>b. /\ book # NoRow /\ book.entry \in EntriesOf(orders) /\ book.entry \in Nat
      /\ job.id # 0 => job.id \in DOMAIN orders /\ orders[job.id].purpose = "stop"
      /\ \A t \in trades : t.key = <<"spot", job.id>> => t.entry = book.entry
  BY <1>h, RowFields DEF JobRow, RowFits
<1>m. misnamed \subseteq misnamed' /\ misnamed' \subseteq Nat
  BY <1>p, <1>h, <1>b
<1>1. \A i \in legs : i \in DOMAIN orders /\ (book.entry < i \/ book.entry \in misnamed')
  <2> SUFFICES ASSUME NEW i \in legs PROVE i \in DOMAIN orders /\ (book.entry < i \/ book.entry \in misnamed')
    OBVIOUS
  <2>1. CASE i \in book.tps
    BY <2>1, <1>h, <1>b, <1>m DEF RowFits
  <2>2. CASE i \in resting
    <3>1. i \in DOMAIN orders /\ i # book.entry /\ i \in Nat
      BY <2>2, <1>h, <1>b DEF Of, Ids, EntriesOf
    <3>2. i < book.entry => book.entry \in misnamed'
      BY <1>p
    <3> HIDE DEF legs, resting
    <3> QED
      BY <3>1, <3>2, <1>b
  <2> QED
    BY <2>1, <2>2
<1>2. legs \subseteq Nat
  BY <1>1, <1>h
<1> HIDE DEF legs
<1>3. /\ book' \in BookSet /\ book'.qty = book.qty /\ book'.entry = book.entry /\ book'.opened = book.opened
      /\ book'.tps = legs /\ book'.stopId = job.id
  BY <1>p, <1>h, <1>2, JobFields DEF BookSet
<1>4. CASE job.how = "enter"
  <2>1. job' = [job EXCEPT !.how = job.how] /\ job.how \in Ways /\ pc' = "legs"
    BY <1>4, <1>p, <1>h DEF Go, JobSet
  <2>2. JobWays("legs", [job EXCEPT !.how = job.how])
    BY DEF JobWays
  <2>3. pc' \in Points /\ job' \in JobSet /\ (book' # NoRow => Controls(kind, orders, book', trades, pc', job'))
    BY <1>p, <1>b, <2>1, <2>2, GoOnSteps
  <2> QED
    BY <1>p, <1>b, <1>m, <1>1, <1>3, <2>3, NamingStep
<1>5. CASE job.how # "enter"
  <2>1. pc' \in Points /\ job' \in JobSet /\ Controls(kind, orders, book', trades, pc', job')
    BY <1>5, <1>p, <1>h, ReturnSteps
  <2> QED
    BY <1>p, <1>b, <1>m, <1>1, <1>3, <2>1, NamingStep
<1> QED
  BY <1>4, <1>5

LEMMA LegsKeeps == ASSUME DirectionalInv, Legs PROVE DirectionalInv'
<1>p. pc = "legs" /\ UNCHANGED <<kind, misnamed, coin, posStop, book, trades, killed>>
  BY DEF Legs, venue, ledger
<1>h. killed \in BOOLEAN /\ job \in JobSet /\ JobRow(orders, book, trades, "legs", job)
  BY <1>p, Here
<1>b. book # NoRow /\ job.back \in Phases
  BY <1>h, JobFields DEF JobRow
<1>1. ASSUME Record("tp", 1, "tp", job.back) PROVE DirectionalInv'
  <2>1. "tp" \in DOMAIN Placed /\ Placed["tp"] = "tp" /\ "tp" \notin StopWays
    BY DEF Placed, StopWays
  <2>2. Record(Placed["tp"], 1, "tp", job.back)
    BY <1>1, <2>1
  <2> QED
    BY <1>p, <1>h, <1>b, <2>1, <2>2, RecordStep
<1>2. ASSUME Leave, UNCHANGED orders PROVE DirectionalInv'
  BY <1>2, <1>p, <1>h, LeaveStep
<1> QED
  BY <1>1, <1>2 DEF Legs

LEMMA FreeKeeps == ASSUME DirectionalInv, Free PROVE DirectionalInv'
<1> DEFINE legs == IF Spot THEN {i \in Of({"tp"}) : Unresolved(i)} ELSE {}
<1>p. /\ pc = "free" /\ UNCHANGED <<kind, misnamed, coin, posStop, book, trades, killed>>
      /\ orders' = CancelledOf(orders, legs) \/ \E gone : orders' = UnheardOf(orders, gone)
      /\ pc' = (IF job.how = "protect" THEN "find" ELSE "sell") /\ job' = job
  BY CancelledIs, UnheardIs DEF Free, venue, ledger, Go
<1>h. /\ orders \in Seq(OrderSet) /\ posStop \in BOOLEAN /\ killed \in BOOLEAN /\ job \in JobSet /\ OrdersFit(kind, orders)
      /\ JobWays("free", job) /\ JobRow(orders, book, trades, "free", job)
  BY <1>p, Here
<1>b. book # NoRow /\ job.how \in {"protect", "close", "flatten"}
  BY <1>h DEF JobRow, JobWays
<1>1. legs \cap EntriesOf(orders) = {}
  BY DEF Of, Ids, EntriesOf
<1> HIDE DEF legs
<1>2. Quiet(kind, orders, orders', book, FALSE)
  BY <1>1, <1>p, <1>h, CancelIsQuiet, UnheardIsQuiet
<1>3. ClosesOf(orders') = ClosesOf(orders)
  BY <1>2, <1>h, QuietIs
<1>4. job' = [job EXCEPT !.how = job.how] /\ job.how \in Ways /\ [job EXCEPT !.how = job.how] = job
  BY <1>p, <1>h DEF JobSet
<1>5. pc' \in {"find", "sell"} /\ JobWays(pc', job)
  BY <1>p, <1>b DEF JobWays
<1>6. pc' \in Points /\ job' \in JobSet /\ Controls(kind, orders', book, trades, pc', job')
  BY <1>p, <1>b, <1>3, <1>4, <1>5, GoOnSteps
<1> QED
  BY <1>p, <1>h, <1>2, <1>6, QuietStep

LEMMA SellKeeps == ASSUME DirectionalInv, Sell PROVE DirectionalInv'
<1> DEFINE purpose == IF job.how = "close" THEN "close" ELSE "emergency_close"
           qty == IF Linear THEN book.qty ELSE Least(book.qty, coin)
<1>p. pc = "sell" /\ UNCHANGED <<kind, misnamed, coin, posStop, book, trades>>
  BY DEF Sell, venue
<1>h. /\ killed \in BOOLEAN /\ job \in JobSet /\ coin \in Int /\ book \in BookSet
      /\ JobWays("sell", job) /\ JobRow(orders, book, trades, "sell", job)
  BY <1>p, Here
<1>b. book # NoRow /\ job.how \in {"close", "flatten"} /\ job.back \in Phases
  BY <1>h, JobFields DEF JobRow, JobWays
<1>1. ASSUME qty > 0, Record(purpose, qty, job.how, job.back), UNCHANGED killed PROVE DirectionalInv'
  <2>1. qty \in Nat
    BY <1>1, <1>h, RowFields DEF Least
  <2>2. job.how \in DOMAIN Placed /\ Placed[job.how] = purpose /\ job.how \notin StopWays /\ job.how # "entry"
    BY <1>b DEF Placed, StopWays
  <2> HIDE DEF purpose, qty
  <2>3. Record(Placed[job.how], qty, job.how, job.back)
    BY <1>1, <2>2
  <2> QED
    BY <1>p, <1>1, <1>h, <1>b, <2>1, <2>2, <2>3, RecordStep
<1>2. ASSUME killed' = (killed \/ job.how = "flatten"), Leave, UNCHANGED orders PROVE DirectionalInv'
  <2>1. killed' \in BOOLEAN
    BY <1>2, <1>h
  <2> QED
    BY <1>2, <1>p, <1>h, <2>1, LeaveStep
<1> QED
  BY <1>1, <1>2 DEF Sell

\* The stream's terminal statuses: an entry's is held until the book has it.
LEMMA DrainKeeps == ASSUME DirectionalInv, Drain PROVE DirectionalInv'
<1>p. pc = "tick" /\ Phase("resolve") /\ UNCHANGED <<kind, misnamed, coin, posStop, book, trades, killed>>
  BY DEF Drain, venue, ledger
<1>h. /\ orders \in Seq(OrderSet) /\ posStop \in BOOLEAN /\ killed \in BOOLEAN /\ OrdersFit(kind, orders)
  BY <1>p, Here
<1>1. PICK seen \in SUBSET (IF Stream THEN Streamed ELSE {}) :
         orders' = [i \in Ids |-> IF i \in seen THEN [orders[i] EXCEPT !.row = StreamStatus(i)] ELSE orders[i]]
  BY DEF Drain
<1>2. \A i \in seen : i \in DOMAIN orders /\ orders[i].at = "ended" /\ ~Held(i)
  BY DEF Streamed, Ended, Ids
<1>3. ASSUME NEW i \in DOMAIN orders
      PROVE  /\ orders'[i] \in OrderSet /\ orders'[i].purpose = orders[i].purpose
             /\ orders'[i].at = orders[i].at /\ orders'[i].done = orders[i].done
             /\ i \notin seen => orders'[i] = orders[i]
  <2>1. orders[i] \in OrderSet /\ StreamStatus(i) \in RowStates
    BY <1>h, OrdersAre DEF StreamStatus, RowStates
  <2>2. orders'[i] = IF i \in seen THEN [orders[i] EXCEPT !.row = StreamStatus(i)] ELSE orders[i]
    BY <1>1 DEF Ids
  <2> HIDE DEF StreamStatus
  <2> QED
    BY <2>1, <2>2 DEF OrderSet
<1>4. orders' = [i \in DOMAIN orders |-> orders'[i]]
  <2>1. DOMAIN orders' = DOMAIN orders
    BY <1>1 DEF Ids
  <2> QED
    BY <1>1, <2>1 DEF Ids
<1>5. orders' \in Seq(OrderSet) /\ Len(orders') = Len(orders)
  BY <1>h, <1>3, <1>4, Remade
<1>6. ASSUME NEW i \in EntriesOf(orders)
      PROVE  /\ orders'[i].at \in {"flying", "live"} => Unres(orders', i)
             /\ Unres(orders', i) => Unres(orders, i)
             /\ Unres(orders, i) /\ ~Unres(orders', i) => orders[i].done = 0 \/ book.entry = i
  <2>1. i \in DOMAIN orders /\ orders[i].purpose = "entry" /\ OrderFits(kind, orders[i])
    BY <1>h DEF EntriesOf, OrdersFit
  <2>2. CASE i \in seen
    <3>1. book.entry = i /\ orders[i].at = "ended" /\ orders'[i].at = "ended"
      BY <2>1, <2>2, <1>2, <1>3 DEF Held
    <3>2. Unres(orders, i)
      BY <2>2, <1>1 DEF Streamed, Unresolved, Unres
    <3> QED
      BY <3>1, <3>2
  <2>3. CASE i \notin seen
    <3>1. orders'[i] = orders[i]
      BY <2>1, <2>3, <1>3
    <3> QED
      BY <2>1, <3>1 DEF OrderFits, Unres
  <2> QED
    BY <2>2, <2>3
<1>7. Quiet(kind, orders, orders', book, FALSE)
  BY <1>3, <1>5, <1>6 DEF Quiet
<1>8. pc' \in Points /\ job' \in JobSet /\ Controls(kind, orders', book, trades, pc', job')
  <2>1. "resolve" \in Phases
    BY DEF Phases
  <2> QED
    BY <2>1, <1>p, PhaseSteps
<1> QED
  BY <1>p, <1>h, <1>7, <1>8, QuietStep

LEMMA AdoptKeeps ==
    ASSUME DirectionalInv, pc = "resolve", NEW i \in OpenEntries, Executed(i), Adopt(i),
           UNCHANGED <<kind, misnamed, coin, posStop, trades, killed>>
    PROVE  DirectionalInv'
<1>h. /\ orders \in Seq(OrderSet) /\ posStop \in BOOLEAN /\ killed \in BOOLEAN /\ job \in JobSet
      /\ coin \in Int /\ misnamed \subseteq Nat /\ book \in BookSet
      /\ JobRow(orders, book, trades, "resolve", job) /\ Where(kind, "resolve", job)
      /\ Facts(kind, orders, coin, book, trades, misnamed, FALSE) /\ Shape(kind, orders, coin, book, misnamed)
      /\ \A j \in DOMAIN orders : j \in Nat /\ j >= 1
  BY Here
<1>1. i \in EntriesOf(orders) /\ i \in DOMAIN orders /\ Unres(orders, i) /\ orders[i].done > 0
  BY DEF OpenEntries, Of, Ids, EntriesOf, Unresolved, Unres, Executed
<1>2. /\ ~HasRow \/ book.entry = i
      /\ book' = IF HasRow THEN book ELSE Position(i)
      /\ pc' = "mark" /\ job' = [job EXCEPT !.how = "adopt", !.id = i] /\ orders' = orders
  BY DEF Adopt
<1>3. /\ book' # NoRow /\ book'.entry = i /\ book' \in BookSet
      /\ Facts(kind, orders, coin, book', trades, misnamed, FALSE)
  <2>1. CASE HasRow
    BY <2>1, <1>2, <1>h DEF HasRow
  <2>2. CASE ~HasRow
    <3>1. book' = Position(i) /\ book = NoRow
      BY <2>2, <1>2 DEF HasRow
    <3>2. Position(i) \in BookSet /\ Opened(orders, Position(i), i)
      BY <1>h, <1>1, PositionIs
    <3>3. Position(i) # NoRow /\ Facts(kind, orders, coin, Position(i), trades, misnamed, FALSE)
      BY <3>1, <3>2, <1>1, <1>h, OpenedKeeps
    <3> QED
      BY <3>1, <3>2, <3>3 DEF Opened
  <2> QED
    BY <2>1, <2>2
<1>4. /\ job' \in JobSet /\ job'.how = "adopt" /\ job'.id = i /\ job'.settle = job.settle /\ job'.back = job.back
  BY <1>2, <1>1, <1>h DEF JobSet, Ways
<1>5. JobWays("mark", job') /\ JobOrder(orders, book', "mark", job')
  BY <1>4 DEF JobWays, JobOrder, HasOrder
<1>6. JobRow(orders, book', trades, "mark", job')
  BY <1>3, <1>4, <1>h DEF JobRow
<1>7. Where(kind, "mark", job')
  BY <1>4, <1>h, WhereStays
<1>8. Controls(kind, orders', book', trades', pc', job') /\ pc' \in Points
  BY <1>2, <1>5, <1>6, <1>7 DEF Controls, Points
<1>9. Facts(kind, orders', coin', book', trades', misnamed', FALSE)
  BY <1>2, <1>3
<1> QED
  BY <1>h, <1>2, <1>3, <1>4, <1>8, <1>9, StepKeeps

LEMMA ResolveKeeps == ASSUME DirectionalInv, Resolve PROVE DirectionalInv'
<1>p. pc = "resolve" /\ UNCHANGED <<kind, misnamed, coin, posStop, trades, killed>>
  BY DEF Resolve, venue
<1>h. /\ orders \in Seq(OrderSet) /\ posStop \in BOOLEAN /\ killed \in BOOLEAN /\ job \in JobSet /\ OrdersFit(kind, orders)
  BY <1>p, Here
<1>1. ASSUME Leave, UNCHANGED <<orders, book>> PROVE DirectionalInv'
  BY <1>1, <1>p, <1>h, LeaveStep
<1>2. ASSUME NEW i \in OpenEntries, NEW st \in {"never_sent", "cancelled"}, orders' = Row(i, st),
             orders[i].at \notin {"flying", "live"}, orders[i].done = 0, Leave, UNCHANGED book
      PROVE  DirectionalInv'
  <2>1. orders' = RowsOf(orders, {i}, st) /\ st \in RowStates
    BY <1>2, RowOfOne DEF RowStates
  <2>2. Quiet(kind, orders, orders', book, FALSE)
    BY <2>1, <1>2, <1>h, RowsAreQuiet
  <2>3. pc' \in Points /\ job' \in JobSet /\ Controls(kind, orders', book, trades, pc', job')
    BY <1>2, <1>h, LeaveSteps
  <2> QED
    BY <1>p, <1>2, <1>h, <2>2, <2>3, QuietStep
<1>3. ASSUME NEW i \in OpenEntries, ResolveOne(i) PROVE DirectionalInv'
  <2>1. orders[i].at \in {"unsent", "lost"} => orders[i].done = 0
    BY <1>h DEF OpenEntries, Of, Ids, OrdersFit, OrderFits
  <2>2. CASE orders[i].at \in {"unsent", "lost"} /\ orders' = Row(i, "never_sent") /\ Leave /\ UNCHANGED book
    BY <2>1, <2>2, <1>2
  <2>3. CASE Ended(i) /\ orders[i].done = 0 /\ orders' = Row(i, "cancelled") /\ Leave /\ UNCHANGED book
    BY <2>3, <1>2 DEF Ended
  <2>4. CASE Executed(i) /\ Adopt(i)
    BY <2>4, <1>p, AdoptKeeps
  <2>5. CASE Leave /\ UNCHANGED <<orders, book>>
    BY <2>5, <1>1
  <2> QED
    BY <1>3, <2>2, <2>3, <2>4, <2>5 DEF ResolveOne
<1> QED
  BY <1>1, <1>3 DEF Resolve

\* The thread looks for what has exited, or goes on looking.
LEMMA LookSteps ==
    ASSUME DirectionalInv, pc \notin {"stopped", "boot"}, book # NoRow,
           NEW p \in {"settle", "see_legs", "see_stop", "dead"}, pc' = p, job' = job,
           (p = "settle" /\ pc = "settle") \/ kind # "linear"
    PROVE  /\ pc' \in Points /\ job' \in JobSet
           /\ \A o : ClosesOf(o) = ClosesOf(orders) => Controls(kind, o, book, trades, pc', job')
<1>h. job \in JobSet /\ JobRow(orders, book, trades, pc, job) /\ Where(kind, pc, job)
  BY Here
<1>1. JobWays(p, job) /\ \A o : JobOrder(o, book, p, job)
  BY DEF JobWays, JobOrder, HasOrder
<1>2. \A o : ClosesOf(o) = ClosesOf(orders) => JobRow(o, book, trades, p, job)
  BY <1>h DEF JobRow
<1>3. Where(kind, p, job)
  BY <1>h DEF Where
<1> QED
  BY <1>h, <1>1, <1>2, <1>3 DEF Controls, Points

LEMMA LookStep ==
    ASSUME DirectionalInv, pc \notin {"stopped", "boot"}, book # NoRow,
           NEW p \in {"settle", "see_legs", "see_stop", "dead"}, Go(p),
           (p = "settle" /\ pc = "settle") \/ kind # "linear",
           UNCHANGED <<kind, orders, coin, posStop, book, trades, killed, misnamed>>
    PROVE  DirectionalInv'
<1>1. posStop \in BOOLEAN /\ killed \in BOOLEAN
  BY Here
<1>2. pc' = p /\ job' = job
  BY DEF Go
<1>3. pc' \in Points /\ job' \in JobSet /\ Controls(kind, orders, book, trades, pc', job')
  BY <1>2, LookSteps
<1> QED
  BY <1>1, <1>3, ThreadStep

LEMMA ObserveKeeps == ASSUME DirectionalInv, Observe PROVE DirectionalInv'
<1>p. pc = "observe" /\ UNCHANGED <<kind, misnamed, orders, coin, posStop, killed>>
  BY DEF Observe, venue
<1>h. /\ killed \in BOOLEAN /\ coin \in Int /\ book \in BookSet
      /\ Facts(kind, orders, coin, book, trades, misnamed, FALSE) /\ Shape(kind, orders, coin, book, misnamed)
  BY <1>p, Here
<1>1. ASSUME Leave, UNCHANGED <<book, trades>> PROVE DirectionalInv'
  BY <1>1, <1>p, <1>h, LeaveStep
<1>2. ASSUME HasRow, Spot, Go("settle"), UNCHANGED <<book, trades>> PROVE DirectionalInv'
  <2>1. book # NoRow /\ kind # "linear"
    BY <1>2 DEF HasRow, Spot
  <2> QED
    BY <1>2, <1>p, <2>1, LookStep
<1>3. ASSUME HasRow, Linear, book.qty - coin > 0,
             BookExit(0, book.qty - coin, <<"position", book.opened, book.qty, book.qty - coin>>, FALSE)
      PROVE  DirectionalInv'
  <2>1. book # NoRow /\ kind = "linear"
    BY <1>3 DEF HasRow, Linear
  <2>2. coin \in Nat
    BY <1>h, <2>1 DEF Facts, Counted
  <2>3. book.qty \in Nat
    BY <1>h, RowFields
  <2> DEFINE q == book.qty - coin
             key == <<"position", book.opened, book.qty, q>>
  <2>4. q \in Nat /\ q <= book.qty /\ coin < book.qty
    BY <1>3, <2>2, <2>3
  <2>5. key[1] = "position" /\ key[2] = book.opened
    OBVIOUS
  <2>6. BookExit(0, q, key, FALSE)
    BY <1>3
  <2> HIDE DEF key
  <2>7. Books1(book, trades, book', trades', key, book.qty - coin)
        => Facts(kind, orders, coin, book', trades', misnamed, FALSE)
    BY <1>h, <2>1, <2>2, <2>4, <2>5, PositionKeeps
  <2> QED
    BY <1>p, <2>1, <2>4, <2>6, <2>7, BookingStep
<1> QED
  BY <1>1, <1>2, <1>3 DEF Observe, ObserveLinear

LEMMA SettleStale ==
    ASSUME DirectionalInv, pc = "settle", NEW i \in ClosesOf(orders), NEW st \in {"stale", "cancelled"},
           orders' = Row(i, st), Go("settle"),
           UNCHANGED <<kind, misnamed, coin, posStop, book, trades, killed>>
    PROVE  DirectionalInv'
<1>h. /\ orders \in Seq(OrderSet) /\ posStop \in BOOLEAN /\ killed \in BOOLEAN /\ OrdersFit(kind, orders)
      /\ JobRow(orders, book, trades, "settle", job)
  BY Here
<1>1. orders' = RowsOf(orders, {i}, st) /\ st \in RowStates /\ {i} \cap EntriesOf(orders) = {}
  BY RowOfOne DEF RowStates, ClosesOf, EntriesOf
<1>2. Quiet(kind, orders, orders', book, FALSE)
  <2>1. \A j \in {i} \cap EntriesOf(orders) : FALSE
    BY <1>1
  <2>2. Quiet(kind, orders, RowsOf(orders, {i}, st), book, FALSE)
    BY <1>1, <1>h, <2>1, RowsAreQuiet
  <2> QED
    BY <1>1, <2>2
<1>3. ClosesOf(orders') = ClosesOf(orders)
  BY <1>2, <1>h, QuietIs
<1>4. book # NoRow /\ pc' = "settle" /\ job' = job
  BY <1>h DEF JobRow, Go
<1>5. pc' \in Points /\ job' \in JobSet /\ Controls(kind, orders', book, trades, pc', job')
  BY <1>3, <1>4, LookSteps
<1> QED
  BY <1>h, <1>2, <1>5, QuietStep

LEMMA ExitFacts ==
    ASSUME DirectionalInv, pc \notin {"stopped", "boot"}, book # NoRow, NEW i \in ClosesOf(orders), i > book.opened,
           NEW q \in Nat, q <= book.qty, q <= orders[i].done, orders[i].done > 0,
           Books1(book, trades, book', trades', <<"exit", i>>, q)
    PROVE  Facts(kind, orders, coin, book', trades', misnamed, FALSE)
<1>1. /\ Shape(kind, orders, coin, book, misnamed)
      /\ Facts(kind, orders, coin, book, trades, misnamed, FALSE)
      /\ book \in BookSet /\ \A j \in DOMAIN orders : j \in Nat
  BY Here
<1>2. book.opened < i
  BY <1>1, RowFields DEF ClosesOf
<1> QED
  BY <1>1, <1>2, ExitKeeps

LEMMA SettleExecuted ==
    ASSUME DirectionalInv, pc = "settle", NEW i \in ClosesOf(orders), i > book.opened, Executed(i),
           NEW q, q = Least(orders[i].done, book.qty),
           trades' = IF Booked(<<"exit", i>>) THEN trades
                     ELSE trades \union {[key |-> <<"exit", i>>, qty |-> q, entry |-> book.entry]},
           book' = IF book.qty = q THEN NoRow ELSE [book EXCEPT !.qty = @ - q],
           job' = [job EXCEPT !.settle = i, !.how = IF book.qty = q THEN "booked" ELSE "resize"],
           pc' = IF book.qty = q THEN "cancel_all" ELSE IF book.stop THEN "resize" ELSE "settled",
           UNCHANGED <<kind, misnamed, orders, coin, posStop, killed>>
    PROVE  DirectionalInv'
<1>h. /\ orders \in Seq(OrderSet) /\ posStop \in BOOLEAN /\ killed \in BOOLEAN /\ job \in JobSet
      /\ coin \in Int /\ misnamed \subseteq Nat /\ book \in BookSet
      /\ JobRow(orders, book, trades, "settle", job) /\ Where(kind, "settle", job) /\ RowFits(orders, book, misnamed)
      /\ Facts(kind, orders, coin, book, trades, misnamed, FALSE) /\ Shape(kind, orders, coin, book, misnamed)
      /\ \A j \in DOMAIN orders : j \in Nat /\ j >= 1
  BY Here
<1>b. book # NoRow /\ book.qty \in Nat /\ book.opened \in Nat /\ book.stop \in BOOLEAN
  BY <1>h, RowFields DEF JobRow
<1>1. i \in DOMAIN orders /\ i \in Nat /\ i # 0 /\ orders[i].done \in Nat /\ orders[i].done > 0
  BY <1>h, OneOrder DEF ClosesOf, Executed
<1>2. q \in Nat /\ q <= book.qty /\ q <= orders[i].done
  BY <1>b, <1>1 DEF Least
<1>3. book.qty # q => /\ book' \in BookSet /\ book'.qty = book.qty - q /\ book'.entry = book.entry
                      /\ book'.opened = book.opened /\ book'.tps = book.tps /\ book'.stopId = book.stopId
  <2>1. SUFFICES ASSUME book.qty # q
                 PROVE  /\ book' \in BookSet /\ book'.qty = book.qty - q /\ book'.entry = book.entry
                        /\ book'.opened = book.opened /\ book'.tps = book.tps /\ book'.stopId = book.stopId
    OBVIOUS
  <2>2. book.qty - q \in Nat
    BY <1>b, <1>2
  <2>3. book' = [book EXCEPT !.qty = book.qty - q]
    BY <2>1
  <2> QED
    BY <1>h, <2>2, <2>3 DEF BookSet
<1>4. Books1(book, trades, book', trades', <<"exit", i>>, q)
  BY <1>3 DEF Books1, Booked
<1>5. Facts(kind, orders, coin, book', trades', misnamed, FALSE)
  BY <1>b, <1>1, <1>2, <1>4, ExitFacts
<1>6. /\ job' \in JobSet /\ job'.settle = i /\ job'.back = job.back
      /\ job'.how = IF book.qty = q THEN "booked" ELSE "resize"
  BY <1>h, <1>1 DEF JobSet, Ways
<1>7. /\ book.qty = q => pc' = "cancel_all" /\ book' = NoRow
      /\ book.qty # q => pc' \in {"resize", "settled"}
      /\ pc' \in {"cancel_all", "resize", "settled"}
  OBVIOUS
<1>8. book.qty # q => book' # NoRow
  <2>1. book.entry # 0
    BY <1>h, <1>b DEF RowFits, EntriesOf
  <2> QED
    BY <2>1, <1>3, RowOrNone
<1>9. JobWays(pc', job') /\ JobOrder(orders, book', pc', job')
  BY <1>6, <1>7 DEF JobWays, JobOrder, HasOrder
<1>10. JobRow(orders, book', trades', pc', job')
  BY <1>1, <1>6, <1>7, <1>8 DEF JobRow
<1>11. Where(kind, pc', job')
  BY <1>6, <1>7, <1>h, WhereStays DEF Where
<1>12. pc' \in Points /\ Controls(kind, orders', book', trades', pc', job')
  BY <1>7, <1>9, <1>10, <1>11 DEF Controls, Points
<1>13. Facts(kind, orders', coin', book', trades', misnamed', FALSE) /\ book' \in BookSet
  BY <1>3, <1>5, RowOrNone
<1> QED
  BY <1>h, <1>6, <1>12, <1>13, StepKeeps

LEMMA SettleKeeps == ASSUME DirectionalInv, Settle PROVE DirectionalInv'
<1>p. pc = "settle" /\ UNCHANGED <<kind, misnamed, coin, posStop, killed>>
  BY DEF Settle, venue
<1>h. /\ orders \in Seq(OrderSet) /\ killed \in BOOLEAN /\ job \in JobSet
      /\ JobRow(orders, book, trades, "settle", job) /\ Where(kind, "settle", job)
      /\ \A j \in DOMAIN orders : j \in Nat /\ j >= 1
  BY <1>p, Here
<1>b. book # NoRow
  BY <1>h DEF JobRow
<1>1. ASSUME Go("see_legs"), job.how # "close", UNCHANGED <<orders, book, trades>> PROVE DirectionalInv'
  <2>1. kind # "linear"
    BY <1>1, <1>h DEF Where
  <2> QED
    BY <1>1, <1>p, <1>b, <2>1, LookStep
<1>2. ASSUME Go("free"), job.how = "close", UNCHANGED <<orders, book, trades>> PROVE DirectionalInv'
  <2>1. job' = [job EXCEPT !.how = job.how] /\ job.how \in Ways /\ [job EXCEPT !.how = job.how] = job /\ pc' = "free"
    BY <1>2, <1>h DEF Go, JobSet
  <2>2. JobWays("free", job)
    BY <1>2 DEF JobWays
  <2> QED
    BY <1>2, <1>p, <1>b, <2>1, <2>2, GoOnStep
<1>3. ASSUME Stuck, UNCHANGED <<orders, book, trades>> PROVE DirectionalInv'
  <2>1. CASE job.how = "close"
    <3>1. Leave
      BY <1>3, <2>1 DEF Stuck
    <3> QED
      BY <3>1, <1>3, <1>p, <1>h, LeaveStep
  <2>2. CASE job.how # "close"
    BY <2>2, <1>3, <1>1 DEF Stuck
  <2> QED
    BY <2>1, <2>2
<1>4. ASSUME NEW i \in PendingCloses, SettleOne(i) PROVE DirectionalInv'
  <2>1. i \in ClosesOf(orders)
    BY DEF PendingCloses, Closes, Of, Ids, ClosesOf
  <2>2. CASE orders' = Row(i, "stale") /\ Go("settle") /\ UNCHANGED <<book, trades>>
    BY <2>1, <2>2, <1>p, SettleStale
  <2>3. CASE orders' = Row(i, "cancelled") /\ Go("settle") /\ UNCHANGED <<book, trades>>
    BY <2>1, <2>3, <1>p, SettleStale
  <2>4. CASE Stuck /\ UNCHANGED <<orders, book, trades>>
    BY <2>4, <1>3
  <2>5. CASE i > book.opened /\ Executed(i) /\ ~ (Stuck /\ UNCHANGED <<orders, book, trades>>)
             /\ ~(orders' = Row(i, "cancelled") /\ Go("settle") /\ UNCHANGED <<book, trades>>)
             /\ ~(orders' = Row(i, "stale") /\ Go("settle") /\ UNCHANGED <<book, trades>>)
    <3> DEFINE q == Least(orders[i].done, book.qty)
    <3>1. /\ trades' = IF Booked(<<"exit", i>>) THEN trades
                       ELSE trades \union {[key |-> <<"exit", i>>, qty |-> q, entry |-> book.entry]}
          /\ book' = IF book.qty = q THEN NoRow ELSE [book EXCEPT !.qty = @ - q]
          /\ job' = [job EXCEPT !.settle = i, !.how = IF book.qty = q THEN "booked" ELSE "resize"]
          /\ pc' = IF book.qty = q THEN "cancel_all" ELSE IF book.stop THEN "resize" ELSE "settled"
          /\ orders' = orders
      BY <1>4, <2>5 DEF SettleOne
    <3>2. q = Least(orders[i].done, book.qty)
      OBVIOUS
    <3> HIDE DEF q
    <3> QED
      BY <1>p, <2>1, <2>5, <3>1, <3>2, SettleExecuted
  <2> QED
    BY <1>4, <2>2, <2>3, <2>4, <2>5 DEF SettleOne
<1>5. PendingCloses # {} => Min(PendingCloses) \in PendingCloses
  <2>1. PendingCloses \subseteq Nat
    BY <1>h DEF PendingCloses, Closes, Of, Ids
  <2> QED
    BY <2>1, LeastOf
<1>6. CASE PendingCloses = {}
  <2>1. Go(IF job.how = "close" THEN "free" ELSE "see_legs") /\ UNCHANGED <<orders, book, trades>>
    BY <1>6 DEF Settle
  <2> QED
    BY <2>1, <1>1, <1>2
<1>7. CASE PendingCloses # {}
  BY <1>7, <1>5, <1>4 DEF Settle
<1> QED
  BY <1>6, <1>7

LEMMA LegFacts ==
    ASSUME DirectionalInv, pc \in {"see_legs", "see_stop"}, NEW i, i \in book.tps \/ (i # 0 /\ i = book.stopId),
           orders[i].at = "ended", NEW q \in Nat, q <= book.qty,
           Books1(book, trades, book', trades', <<"spot", i>>, q)
    PROVE  Facts(kind, orders, coin, book', trades', misnamed, FALSE)
<1>1. /\ Shape(kind, orders, coin, book, misnamed)
      /\ Facts(kind, orders, coin, book, trades, misnamed, FALSE)
      /\ JobRow(orders, book, trades, pc, job) /\ Where(kind, pc, job) /\ RowFits(orders, book, misnamed)
  BY Here
<1>2. book # NoRow /\ kind # "linear"
  BY <1>1 DEF JobRow, Where
<1>3. i \in DOMAIN orders
  BY <1>1, <1>2 DEF RowFits
<1> QED
  BY <1>1, <1>2, <1>3, LegKeeps

\* An exit that spot's observer found is booked.
LEMMA LegStep ==
    ASSUME DirectionalInv, pc \in {"see_legs", "see_stop"}, NEW i, i \in book.tps \/ (i # 0 /\ i = book.stopId),
           Executed(i), BookExit(i, Least(orders[i].done, book.qty), <<"spot", i>>, TRUE),
           UNCHANGED <<kind, misnamed, orders, coin, posStop, killed>>
    PROVE  DirectionalInv'
<1>h. /\ orders \in Seq(OrderSet) /\ book \in BookSet
      /\ JobRow(orders, book, trades, pc, job) /\ RowFits(orders, book, misnamed)
      /\ \A j \in DOMAIN orders : j \in Nat /\ j >= 1
  BY Here
<1>b. book # NoRow /\ book.qty \in Nat
  BY <1>h, RowFields DEF JobRow
<1>1. i \in DOMAIN orders /\ i \in Nat
  BY <1>h, <1>b DEF RowFits
<1> DEFINE q == Least(orders[i].done, book.qty)
           key == <<"spot", i>>
<1>2. q \in Nat /\ q <= book.qty
  <2>1. orders[i].done \in Nat
    BY <1>h, <1>1, OneOrder
  <2> QED
    BY <2>1, <1>b DEF Least
<1>3. Books1(book, trades, book', trades', key, q) => Facts(kind, orders, coin, book', trades', misnamed, FALSE)
  BY <1>2, LegFacts DEF Executed, Ended
<1>4. BookExit(i, q, key, TRUE)
  OBVIOUS
<1> HIDE DEF q, key
<1> QED
  BY <1>b, <1>1, <1>2, <1>3, <1>4, BookingStep

LEMMA SeeLegsKeeps == ASSUME DirectionalInv, SeeLegs PROVE DirectionalInv'
<1>p. pc = "see_legs" /\ UNCHANGED <<kind, misnamed, orders, coin, posStop, killed>>
  BY DEF SeeLegs, venue
<1>h. JobRow(orders, book, trades, "see_legs", job) /\ Where(kind, "see_legs", job)
  BY <1>p, Here
<1>1. ASSUME NEW i \in book.tps \ book.booked, Executed(i),
             BookExit(i, Least(orders[i].done, book.qty), <<"spot", i>>, TRUE)
      PROVE  DirectionalInv'
  BY <1>p, <1>1, LegStep
<1>2. ASSUME Go("see_stop"), UNCHANGED <<book, trades>> PROVE DirectionalInv'
  <2>1. book # NoRow /\ kind # "linear"
    BY <1>h DEF JobRow, Where
  <2> QED
    BY <1>p, <1>2, <2>1, LookStep
<1> QED
  BY <1>1, <1>2 DEF SeeLegs

LEMMA SeeStopKeeps == ASSUME DirectionalInv, SeeStop PROVE DirectionalInv'
<1>p. pc = "see_stop" /\ UNCHANGED <<kind, misnamed, orders, coin, posStop, killed>>
  BY DEF SeeStop, venue
<1>h. killed \in BOOLEAN /\ JobRow(orders, book, trades, "see_stop", job) /\ Where(kind, "see_stop", job)
  BY <1>p, Here
<1>1. ASSUME Leave, UNCHANGED <<book, trades>> PROVE DirectionalInv'
  BY <1>1, <1>p, <1>h, LeaveStep
<1>2. ASSUME Go("dead"), UNCHANGED <<book, trades>> PROVE DirectionalInv'
  <2>1. book # NoRow /\ kind # "linear"
    BY <1>h DEF JobRow, Where
  <2> QED
    BY <1>p, <1>2, <2>1, LookStep
<1>3. ASSUME book.stopId # 0, Executed(book.stopId),
             BookExit(book.stopId, Least(orders[book.stopId].done, book.qty), <<"spot", book.stopId>>, TRUE)
      PROVE  DirectionalInv'
  <2> DEFINE i == book.stopId
  <2>1. i # 0 /\ i = book.stopId /\ Executed(i) /\ BookExit(i, Least(orders[i].done, book.qty), <<"spot", i>>, TRUE)
    BY <1>3
  <2> HIDE DEF i
  <2> QED
    BY <1>p, <2>1, LegStep
<1> QED
  BY <1>1, <1>2, <1>3 DEF SeeStop

LEMMA ToProtectStep ==
    ASSUME DirectionalInv, pc \notin {"stopped", "boot"}, book # NoRow, NEW p \in {"free", "find"}, pc' = p,
           Becomes("protect"), UNCHANGED <<kind, orders, coin, posStop, book, trades, killed, misnamed>>
    PROVE  DirectionalInv'
<1>1. job' = [job EXCEPT !.how = "protect"] /\ "protect" \in Ways
  BY DEF Becomes, Ways
<1>2. [job EXCEPT !.how = "protect"].how = "protect"
  BY Here DEF JobSet
<1>3. JobWays(p, [job EXCEPT !.how = "protect"])
  BY <1>2 DEF JobWays
<1> QED
  BY <1>1, <1>3, GoOnStep

LEMMA DeadKeeps == ASSUME DirectionalInv, Dead PROVE DirectionalInv'
<1>p. pc = "dead" /\ UNCHANGED <<kind, misnamed, orders, coin, posStop, book, trades, killed>>
  BY DEF Dead, venue, ledger
<1>h. killed \in BOOLEAN /\ JobRow(orders, book, trades, "dead", job)
  BY <1>p, Here
<1>1. ASSUME Leave PROVE DirectionalInv'
  BY <1>1, <1>p, <1>h, LeaveStep
<1>2. ASSUME pc' = "free", Becomes("protect") PROVE DirectionalInv'
  BY <1>2, <1>p, <1>h, ToProtectStep DEF JobRow
<1> QED
  BY <1>1, <1>2 DEF Dead

LEMMA NakedKeeps == ASSUME DirectionalInv, Naked PROVE DirectionalInv'
<1>p. pc = "naked" /\ UNCHANGED <<kind, misnamed, orders, coin, posStop, book, trades, killed>>
  BY DEF Naked, venue, ledger
<1>h. killed \in BOOLEAN
  BY <1>p, Here
<1>1. ASSUME Leave PROVE DirectionalInv'
  BY <1>1, <1>p, <1>h, LeaveStep
<1>2. ASSUME HasRow, pc' = "find", Becomes("protect") PROVE DirectionalInv'
  BY <1>2, <1>p, ToProtectStep DEF HasRow
<1> QED
  BY <1>1, <1>2 DEF Naked

LEMMA DecideKeeps == ASSUME DirectionalInv, Decide PROVE DirectionalInv'
<1>p. pc = "decide" /\ UNCHANGED <<kind, misnamed, coin, posStop, book, trades, killed>>
  BY DEF Decide, venue, ledger
<1>h. killed \in BOOLEAN /\ job \in JobSet /\ posStop \in BOOLEAN
      /\ JobRow(orders, book, trades, "decide", job) /\ Where(kind, "decide", job)
  BY <1>p, Here
<1>1. ASSUME Leave, UNCHANGED orders PROVE DirectionalInv'
  BY <1>1, <1>p, <1>h, LeaveStep
<1>2. ASSUME MayEnter, Record("entry", Lot, "entry", "tick") PROVE DirectionalInv'
  <2>1. /\ "entry" \in DOMAIN Placed /\ Placed["entry"] = "entry" /\ "entry" \notin StopWays
        /\ Lot \in Nat /\ "tick" \in Phases
    BY DEF Placed, StopWays, Lot, Phases
  <2>2. book = NoRow /\ \A e \in EntriesOf(orders) : ~Unres(orders, e)
    BY <1>2 DEF MayEnter, HasRow, OpenEntries, Of, Ids, EntriesOf, Unresolved, Unres
  <2>3. Record(Placed["entry"], Lot, "entry", "tick")
    BY <1>2, <2>1
  <2> QED
    BY <1>p, <1>h, <2>1, <2>2, <2>3, RecordStep
<1>3. ASSUME HasRow, pc' = "settle", Becomes("close"), UNCHANGED orders PROVE DirectionalInv'
  <2>1. job' \in JobSet /\ job'.how = "close" /\ job'.settle = job.settle /\ job'.back = "tick"
    BY <1>3, <1>h DEF Becomes, JobSet, Ways, Where
  <2>2. JobWays("settle", job') /\ JobOrder(orders, book, "settle", job')
    BY DEF JobWays, JobOrder, HasOrder
  <2>3. JobRow(orders, book, trades, "settle", job')
    BY <2>1, <1>3, <1>h DEF JobRow, HasRow
  <2>4. Where(kind, "settle", job')
    BY <2>1 DEF Where
  <2>5. pc' \in Points /\ Controls(kind, orders, book, trades, pc', job')
    BY <1>3, <2>2, <2>3, <2>4 DEF Controls, Points
  <2> QED
    BY <1>p, <1>h, <1>3, <2>1, <2>5, ThreadStep
<1> QED
  BY <1>1, <1>2, <1>3 DEF Decide

\* The process is down, or starting: what is not TRUE of a running engine only
\* is TRUE then as well.
LEMMA DownFacts ==
    ASSUME DirectionalInv
    PROVE  Facts(kind, orders, coin, book, trades, misnamed, TRUE)
<1>1. Starting \in BOOLEAN /\ Facts(kind, orders, coin, book, trades, misnamed, Starting)
  BY InvGives
<1>2. CASE Starting = TRUE
  BY <1>1, <1>2
<1>3. CASE Starting = FALSE
  BY <1>1, <1>3, StartingKeeps
<1> QED
  BY <1>1, <1>2, <1>3

LEMMA DownStep ==
    ASSUME DirectionalInv, pc' \in {"stopped", "boot"}, Quiet(kind, orders, orders', book, TRUE),
           UNCHANGED <<kind, coin, posStop, book, trades, killed, misnamed>>,
           job' \in JobSet, job'.settle = 0 \/ (job'.settle = job.settle /\ job'.back = job.back)
    PROVE  DirectionalInv'
<1>h. /\ kind \in {"linear", "spot"} /\ orders \in Seq(OrderSet) /\ coin \in Int /\ posStop \in BOOLEAN
      /\ book \in BookSet /\ killed \in BOOLEAN /\ misnamed \subseteq Nat
      /\ Shape(kind, orders, coin, book, misnamed) /\ Controls(kind, orders, book, trades, pc, job)
  BY InvGives
<1>1. Facts(kind, orders', coin, book, trades, misnamed, TRUE)
  BY <1>h, DownFacts, QuietKeeps
<1>2. orders' \in Seq(OrderSet) /\ ClosesOf(orders') = ClosesOf(orders)
  BY <1>h, QuietIs
<1>3. pc' \in Phases /\ pc' \in Points /\ pc' # "observe" /\ pc' # "decide"
  BY DEF Phases, Points
<1>4. job'.settle # 0 => job'.settle \in ClosesOf(orders') /\ (kind = "linear" => job'.back # "naked")
  BY <1>h, <1>2 DEF Controls, JobRow, Where
<1>5. Controls(kind, orders', book, trades, pc', job')
  BY <1>3, <1>4, PhaseIs
<1>6. DirectionalTyped'
  BY <1>h, <1>2, <1>3 DEF DirectionalTyped
<1>7. Starting' = TRUE
  BY DEF Starting
<1>8. Facts(kind', orders', coin', book', trades', misnamed', Starting')
  BY <1>1, <1>7
<1> QED
  BY <1>5, <1>6, <1>8 DEF DirectionalInv, BookFacts, Control

LEMMA NoJobIs == NoJob \in JobSet /\ NoJob.settle = 0
  BY DEF NoJob, JobSet, Ways, Phases

LEMMA DownStillStep ==
    ASSUME DirectionalInv, pc' \in {"stopped", "boot"},
           UNCHANGED <<kind, orders, coin, posStop, book, trades, killed, misnamed>>,
           job' \in JobSet, job'.settle = 0 \/ (job'.settle = job.settle /\ job'.back = job.back)
    PROVE  DirectionalInv'
<1>1. orders \in Seq(OrderSet) /\ OrdersFit(kind, orders)
  BY InvGives DEF Facts
<1>2. Quiet(kind, orders, orders', book, TRUE)
  BY <1>1, StillIsQuiet
<1> QED
  BY <1>2, DownStep

LEMMA DiesKeeps == ASSUME DirectionalInv, Dies PROVE DirectionalInv'
  BY NoJobIs, DownStillStep DEF Dies, venue, ledger

LEMMA StartKeeps == ASSUME DirectionalInv, Start PROVE DirectionalInv'
<1>1. job' \in JobSet /\ job'.settle = 0
  BY DEF Start, NoJob, JobSet, Ways, Phases
<1> QED
  BY <1>1, DownStillStep DEF Start, venue, ledger

LEMMA ReadyKeeps == ASSUME DirectionalInv, Ready PROVE DirectionalInv'
<1>1. pc = "ready" /\ UNCHANGED <<kind, misnamed, orders, coin, posStop, book, trades, killed>>
  BY DEF Ready, venue, ledger
<1>2. killed \in BOOLEAN /\ posStop \in BOOLEAN
  BY <1>1, Here
<1>3. pc' \in Points /\ job' \in JobSet /\ Controls(kind, orders, book, trades, pc', job')
  <2> DEFINE phase == IF killed THEN "stopped" ELSE "tick"
  <2>1. phase \in Phases /\ Phase(phase)
    BY DEF Ready, Phases
  <2> HIDE DEF phase
  <2> QED
    BY <2>1, PhaseSteps
<1> QED
  BY <1>1, <1>2, <1>3, ThreadStep

\* The shutdown ends orders, and writes no entry's row.
LEMMA ShutsDownKeeps == ASSUME DirectionalInv, ShutsDown PROVE DirectionalInv'
<1> DEFINE pending == {i \in Ids : orders[i].row \in {"pending", "submitted"} /\ orders[i].purpose # "stop"}
<1>1. /\ pc' = "stopped" /\ job' = NoJob /\ UNCHANGED <<kind, misnamed, coin, posStop, book, trades, killed>>
      /\ orders' = [i \in DOMAIN orders |-> IF i \notin pending THEN orders[i]
                        ELSE [orders[i] EXCEPT !.at = IF @ = "live" THEN "ended" ELSE @,
                                               !.row = IF orders[i].purpose = "entry" THEN @ ELSE "cancelled"]]
  BY DEF ShutsDown, venue, ledger, Ids
<1> HIDE DEF pending
<1>h. orders \in Seq(OrderSet) /\ OrdersFit(kind, orders)
  BY InvGives DEF Facts
<1>2. ASSUME NEW i \in DOMAIN orders
      PROVE  /\ orders'[i] \in OrderSet /\ orders'[i].purpose = orders[i].purpose /\ orders'[i].done = orders[i].done
             /\ orders'[i].at = orders[i].at \/ orders'[i].at = "ended"
             /\ orders[i].purpose = "entry" => orders'[i].row = orders[i].row
  <2> DEFINE at == IF orders[i].at = "live" THEN "ended" ELSE orders[i].at
             row == IF orders[i].purpose = "entry" THEN orders[i].row ELSE "cancelled"
  <2>1. orders[i] \in OrderSet
    BY <1>h, OrdersAre
  <2>2. at \in Places /\ row \in RowStates /\ (at = orders[i].at \/ at = "ended")
        /\ (orders[i].purpose = "entry" => row = orders[i].row)
    BY <1>h, OneOrder DEF Places, RowStates
  <2>3. orders'[i] = IF i \notin pending THEN orders[i] ELSE [orders[i] EXCEPT !.at = at, !.row = row]
    BY <1>1
  <2> HIDE DEF at, row
  <2> QED
    BY <2>1, <2>2, <2>3 DEF OrderSet
<1>3. orders' = [i \in DOMAIN orders |-> orders'[i]]
  <2>1. DOMAIN orders' = DOMAIN orders
    BY <1>1
  <2> QED
    BY <1>1, <2>1
<1>4. Quiet(kind, orders, orders', book, TRUE)
  BY <1>h, <1>2, <1>3, SweepIsQuiet
<1> QED
  BY <1>1, <1>4, NoJobIs, DownStep

LEMMA BootOne ==
    ASSUME DirectionalInv, pc = "boot", NEW i \in DOMAIN orders, Seen(i) \/ Refuse(i)
    PROVE  /\ pc' = "boot" /\ job' \in JobSet /\ job'.settle = job.settle /\ job'.back = job.back
<1>1. job \in JobSet /\ i \in Nat
  BY InvGives, OrdersAre
<1> QED
  BY <1>1 DEF Seen, Refuse, JobSet

LEMMA BootRow ==
    ASSUME DirectionalInv, pc = "boot", NEW i \in DOMAIN orders, Seen(i), NEW st \in RowStates, orders' = Row(i, st),
           UNCHANGED <<kind, coin, posStop, book, trades, killed, misnamed>>,
           i \in EntriesOf(orders) =>
              IF st \in {"pending", "submitted", "unknown"} THEN Unres(orders, i)
              ELSE /\ orders[i].at \notin {"flying", "live"}
                   /\ Unres(orders, i) => orders[i].done = 0 \/ book.entry = i \/ (kind = "linear" /\ book = NoRow)
    PROVE  DirectionalInv'
<1>1. orders \in Seq(OrderSet) /\ OrdersFit(kind, orders)
  BY InvGives DEF Facts
<1>2. orders' = RowsOf(orders, {i}, st)
  BY RowOfOne
<1>3. \A j \in {i} \cap EntriesOf(orders) :
         IF st \in {"pending", "submitted", "unknown"} THEN Unres(orders, j)
         ELSE /\ orders[j].at \notin {"flying", "live"}
              /\ Unres(orders, j) => orders[j].done = 0 \/ book.entry = j \/ (kind = "linear" /\ TRUE /\ book = NoRow)
  OBVIOUS
<1>4. Quiet(kind, orders, RowsOf(orders, {i}, st), book, TRUE)
  BY <1>1, <1>3, RowsAreQuiet
<1>5. Quiet(kind, orders, orders', book, TRUE)
  BY <1>2, <1>4
<1> QED
  BY <1>5, BootOne, DownStep

\* A lot without a row is taken up while the engine starts.
LEMMA BootAdopts ==
    ASSUME DirectionalInv, pc = "boot", NEW i \in DOMAIN orders, Unresolved(i), orders[i].purpose = "entry", Executed(i),
           ~HasRow, book' = Position(i), pc' = "mark", job' = [job EXCEPT !.how = "boot", !.id = i],
           UNCHANGED <<kind, misnamed, orders, coin, posStop, trades, killed>>
    PROVE  DirectionalInv'
<1>h. /\ orders \in Seq(OrderSet) /\ posStop \in BOOLEAN /\ killed \in BOOLEAN /\ job \in JobSet
      /\ coin \in Int /\ misnamed \subseteq Nat /\ book \in BookSet
      /\ Shape(kind, orders, coin, book, misnamed) /\ Controls(kind, orders, book, trades, pc, job)
  BY InvGives
<1>c. JobRow(orders, book, trades, "boot", job) /\ Where(kind, "boot", job)
  BY <1>h DEF Controls
<1>1. i \in EntriesOf(orders) /\ i \in Nat /\ Unres(orders, i) /\ orders[i].done > 0 /\ book = NoRow
  BY <1>h, OrdersAre DEF EntriesOf, Unresolved, Unres, Executed, HasRow
<1>2. Position(i) \in BookSet /\ Opened(orders, Position(i), i)
  BY <1>h, PositionIs
<1>3. Position(i) # NoRow /\ Facts(kind, orders, coin, Position(i), trades, misnamed, FALSE)
  <2>1. Facts(kind, orders, coin, book, trades, misnamed, TRUE) /\ TRUE \in BOOLEAN
    BY DownFacts
  <2> DEFINE b == Position(i)
  <2>2. b \in BookSet /\ Opened(orders, b, i)
    BY <1>2
  <2> HIDE DEF b
  <2>3. b # NoRow /\ Facts(kind, orders, coin, b, trades, misnamed, FALSE)
    BY <1>h, <1>1, <2>1, <2>2, OpenedKeeps
  <2> QED
    BY <2>3 DEF b
<1>4. Position(i).entry = i
  BY <1>2 DEF Opened
<1>5. /\ job' \in JobSet /\ job'.how = "boot" /\ job'.id = i /\ job'.settle = job.settle /\ job'.back = job.back
  BY <1>h, <1>1 DEF JobSet, Ways
<1>6. JobWays("mark", job') /\ JobOrder(orders, book', "mark", job')
  BY <1>5 DEF JobWays, JobOrder, HasOrder
<1>7. JobRow(orders, book', trades, "mark", job')
  BY <1>3, <1>4, <1>5, <1>c DEF JobRow
<1>8. Where(kind, "mark", job')
  BY <1>5, <1>c DEF Where
<1>9. pc' \in Points /\ Controls(kind, orders', book', trades', pc', job')
  BY <1>6, <1>7, <1>8 DEF Controls, Points
<1>10. Facts(kind, orders', coin', book', trades', misnamed', FALSE) /\ book' \in BookSet
  BY <1>2, <1>3
<1> QED
  BY <1>h, <1>5, <1>9, <1>10, StepKeeps

LEMMA BootKeeps == ASSUME DirectionalInv, Boot PROVE DirectionalInv'
<1>p. pc = "boot" /\ UNCHANGED <<kind, misnamed, coin, posStop, trades, killed>>
  BY DEF Boot, venue
<1>h. /\ orders \in Seq(OrderSet) /\ kind \in {"linear", "spot"} /\ job \in JobSet /\ OrdersFit(kind, orders)
  BY InvGives DEF Facts
<1>l. book # NoRow => \A e \in EntriesOf(orders) : Unres(orders, e) => e = book.entry
  BY InvGives, Basics
<1>1. PICK i \in Ids :
         /\ Unresolved(i)
         /\ \/ Spend("unread") /\ Refuse(i) /\ UNCHANGED <<orders, book>>
            \/ orders[i].at \in {"unsent", "lost"} /\ orders' = Row(i, "never_sent") /\ Seen(i) /\ UNCHANGED <<book, left>>
            \/ Ended(i) /\ BootEnded(i) /\ UNCHANGED left
            \/ orders[i].at = "live" /\ BootLive(i) /\ UNCHANGED book
  BY DEF Boot
<1>2. i \in DOMAIN orders /\ (i \in EntriesOf(orders) <=> orders[i].purpose = "entry") /\ Unres(orders, i)
  BY <1>1 DEF Ids, EntriesOf, Unresolved, Unres
<1>3. \A st \in {"never_sent", "filled", "cancelled", "submitted"} : st \in RowStates
  BY DEF RowStates
<1>4. ASSUME Seen(i) \/ Refuse(i), UNCHANGED <<orders, book>> PROVE DirectionalInv'
  <2>1. pc' = "boot" /\ job' \in JobSet /\ job'.settle = job.settle /\ job'.back = job.back
    BY <1>4, <1>p, <1>2, BootOne
  <2> QED
    BY <1>4, <1>p, <2>1, DownStillStep
<1>5. ASSUME orders[i].at \in {"unsent", "lost"}, orders' = Row(i, "never_sent"), Seen(i), UNCHANGED book
      PROVE  DirectionalInv'
  <2>1. orders[i].done = 0 /\ orders[i].at \notin {"flying", "live"}
    BY <1>5, <1>h, <1>2 DEF OrdersFit, OrderFits
  <2> QED
    BY <1>5, <1>p, <1>2, <1>3, <2>1, BootRow
<1>6. ASSUME Ended(i), BootEnded(i) PROVE DirectionalInv'
  <2>1. CASE (Seen(i) \/ Refuse(i)) /\ UNCHANGED <<orders, book>>
    BY <2>1, <1>4
  <2>2. CASE /\ orders[i].purpose = "entry" /\ Executed(i) /\ ~HasRow
             /\ book' = Position(i) /\ pc' = "mark" /\ job' = [job EXCEPT !.how = "boot", !.id = i] /\ UNCHANGED orders
    BY <2>2, <1>p, <1>1, <1>2, BootAdopts
  <2>3. CASE /\ ~(orders[i].purpose = "entry" /\ Executed(i) /\ Spot /\ book.entry # i)
             /\ orders' = Row(i, StreamStatus(i)) /\ Seen(i) /\ UNCHANGED book
    <3>1. orders[i].at \notin {"flying", "live"} /\ orders[i].done \in Nat
      BY <1>6, <1>h, <1>2, OneOrder DEF Ended
    <3>2. orders[i].purpose = "entry" => orders[i].done = 0 \/ book.entry = i \/ (kind = "linear" /\ book = NoRow)
      BY <2>3, <1>6, <1>h, <1>l, <1>2, <3>1 DEF Executed, Spot
    <3>3. StreamStatus(i) \in {"filled", "cancelled"}
      BY DEF StreamStatus
    <3> QED
      BY <2>3, <1>p, <1>2, <1>3, <3>1, <3>2, <3>3, BootRow
  <2> QED
    BY <1>6, <2>1, <2>2, <2>3 DEF BootEnded
<1>7. ASSUME orders[i].at = "live", BootLive(i), UNCHANGED book PROVE DirectionalInv'
  <2>1. CASE orders' = At(i, "ended", 0) /\ UNCHANGED <<pc, job>>
    <3>1. orders' = AtOf(orders, i, "ended", 0) /\ "ended" \in Places
      BY <2>1, AtIsAt DEF Places
    <3>2. Quiet(kind, orders, AtOf(orders, i, "ended", 0), book, TRUE)
      BY <3>1, <1>7, <1>h, <1>2, MoveIsQuiet
    <3> QED
      BY <2>1, <1>7, <1>p, <1>h, <3>1, <3>2, DownStep
  <2>2. CASE orders' = Row(i, "submitted") /\ Seen(i)
    BY <2>2, <1>7, <1>p, <1>2, <1>3, BootRow
  <2> QED
    BY <1>7, <2>1, <2>2 DEF BootLive
<1> QED
  BY <1>1, <1>4, <1>5, <1>6, <1>7

\* Whoever finds a position without a row does not start.
LEMMA BootEndsKeeps == ASSUME DirectionalInv, BootEnds PROVE DirectionalInv'
<1>p. pc = "boot" /\ UNCHANGED <<kind, misnamed, orders, coin, posStop, book, trades, killed>>
  BY DEF BootEnds, venue, ledger
<1>h. /\ orders \in Seq(OrderSet) /\ posStop \in BOOLEAN /\ killed \in BOOLEAN /\ coin \in Int /\ book \in BookSet
      /\ misnamed \subseteq Nat /\ Shape(kind, orders, coin, book, misnamed)
      /\ Facts(kind, orders, coin, book, trades, misnamed, TRUE)
  BY InvGives, DownFacts
<1>1. PICK orphan \in BOOLEAN :
         LET held    == Linear /\ coin > 0 /\ ~HasRow
             refused == job.answer = "refused" \/ orphan
             naked   == HasRow /\ ~book.stop /\ ~(Linear /\ coin = 0)
         IN  /\ IF orphan = held THEN UNCHANGED left ELSE orphan /\ Linear /\ Spend("unread")
             /\ pc' = IF naked THEN "find" ELSE IF refused THEN "stopped" ELSE "ready"
             /\ job' = IF naked THEN [NoJob EXCEPT !.how = "protect", !.back = IF refused THEN "stopped" ELSE "ready"]
                                ELSE NoJob
  BY DEF BootEnds
<1>2. ASSUME pc' = "stopped", job' = NoJob PROVE DirectionalInv'
  BY <1>2, <1>p, NoJobIs, DownStillStep
<1>3. ASSUME Facts(kind, orders, coin, book, trades, misnamed, FALSE), pc' \in Points, job' \in JobSet,
             Controls(kind, orders, book, trades, pc', job')
      PROVE  DirectionalInv'
  <2>1. Facts(kind, orders', coin', book', trades', misnamed', FALSE) /\ Controls(kind, orders', book', trades', pc', job')
    BY <1>3, <1>p
  <2> QED
    BY <1>3, <1>p, <1>h, <2>1, StepKeeps
<1>4. ASSUME HasRow, pc' = "find", NEW back \in {"stopped", "ready"}, job' = [NoJob EXCEPT !.how = "protect", !.back = back]
      PROVE  DirectionalInv'
  <2>1. book # NoRow
    BY <1>4 DEF HasRow
  <2>2. Facts(kind, orders, coin, book, trades, misnamed, FALSE)
    BY <1>h, <2>1, StartedKeeps
  <2>3. job' \in JobSet /\ job'.how = "protect" /\ job'.settle = 0
    BY <1>4 DEF NoJob, JobSet, Ways, Phases
  <2>4. JobWays("find", job') /\ JobOrder(orders, book, "find", job')
    BY <2>3 DEF JobWays, JobOrder, HasOrder
  <2>5. JobRow(orders, book, trades, "find", job') /\ Where(kind, "find", job')
    BY <2>1, <2>3 DEF JobRow, Where
  <2>6. pc' \in Points /\ Controls(kind, orders, book, trades, pc', job')
    BY <1>4, <2>4, <2>5 DEF Controls, Points
  <2> QED
    BY <2>2, <2>3, <2>6, <1>3
<1>5. ASSUME pc' = "ready", job' = NoJob, ~(Linear /\ coin > 0 /\ ~HasRow) PROVE DirectionalInv'
  <2>1. book # NoRow \/ (kind = "linear" => coin = 0)
    <3>1. kind = "linear" => coin \in Nat
      BY <1>h DEF Facts, Counted
    <3>2. kind = "linear" /\ book = NoRow => ~(coin > 0)
      BY <1>5 DEF Linear, HasRow
    <3> QED
      BY <3>1, <3>2
  <2>2. Facts(kind, orders, coin, book, trades, misnamed, FALSE)
    BY <1>h, <2>1, StartedKeeps
  <2>3. pc' \in Phases /\ pc' \in Points /\ job' \in JobSet /\ job'.settle = 0 /\ pc' = "ready"
    BY <1>5, NoJobIs DEF Phases, Points
  <2>4. Controls(kind, orders, book, trades, pc', job')
    BY <2>3, PhaseIs
  <2> QED
    BY <2>2, <2>3, <2>4, <1>3
<1>6. CASE HasRow /\ ~book.stop /\ ~(Linear /\ coin = 0)
  <2> DEFINE back == IF job.answer = "refused" \/ orphan THEN "stopped" ELSE "ready"
  <2>1. pc' = "find" /\ job' = [NoJob EXCEPT !.how = "protect", !.back = back]
    BY <1>1, <1>6
  <2>2. back \in {"stopped", "ready"}
    OBVIOUS
  <2> HIDE DEF back
  <2> QED
    BY <1>6, <2>1, <2>2, <1>4
<1>7. CASE ~(HasRow /\ ~book.stop /\ ~(Linear /\ coin = 0))
  <2>1. /\ job' = NoJob
        /\ job.answer = "refused" \/ orphan => pc' = "stopped"
        /\ ~(job.answer = "refused" \/ orphan) => pc' = "ready"
    BY <1>1, <1>7
  <2>2. CASE job.answer = "refused" \/ orphan
    BY <2>1, <2>2, <1>2
  <2>3. CASE ~(job.answer = "refused" \/ orphan)
    <3>1. ~(Linear /\ coin > 0 /\ ~HasRow)
      BY <1>1, <2>3
    <3> QED
      BY <2>1, <2>3, <3>1, <1>5
  <2> QED
    BY <2>2, <2>3
<1> QED
  BY <1>6, <1>7

-------------------------------------------------------------------------------
(* The specification.                                                      *)

LEMMA DirectionalInitHolds == DirectionalInit => DirectionalInv
<1> SUFFICES ASSUME DirectionalInit PROVE DirectionalInv
  OBVIOUS
<1>1. /\ kind \in Kinds /\ orders = <<>> /\ coin = (IF kind = "spot" THEN OtherCoin ELSE 0) /\ posStop = FALSE
      /\ book = NoRow /\ trades = {} /\ killed = FALSE /\ pc = "tick" /\ job = NoJob /\ misnamed = {}
  BY DEF DirectionalInit
<1>2. kind \in {"linear", "spot"} /\ coin \in Int /\ (kind = "linear" => coin = 0)
  BY <1>1, DirectionalBounds
<1>3. orders \in Seq(OrderSet) /\ DOMAIN orders = {}
  BY <1>1
<1>4. EntriesOf(orders) = {} /\ ClosesOf(orders) = {}
  BY <1>3 DEF EntriesOf, ClosesOf
<1>5. DirectionalTyped
  BY <1>1, <1>2, <1>3, RowOrNone, NoJobIs DEF DirectionalTyped, Points, Phases
<1>6. Facts(kind, orders, coin, book, trades, misnamed, Starting)
  <2>1. Sold(orders, trades) \in Nat
    BY <1>3, SoldSets
  <2>2. Counted(kind, orders, coin, book, trades, Starting)
    <3>1. kind = "linear" => coin = 0 /\ coin \in Nat /\ coin <= Sold(orders, trades)
      BY <1>2, <2>1
    <3> QED
      BY <3>1, <1>1, <1>4 DEF Counted, CountedRow, CountedFlat
  <2>3. OrdersFit(kind, orders) /\ LastEntry(orders, book) /\ Known(kind, orders, coin, book, trades, misnamed, Starting)
    BY <1>3, <1>4 DEF OrdersFit, LastEntry, Known
  <2>4. RowFits(orders, book, misnamed) /\ TradesFit(orders, trades) /\ StopIsOwn(book, trades)
    BY <1>1 DEF RowFits, TradesFit, StopIsOwn
  <2> QED
    BY <2>2, <2>3, <2>4 DEF Facts
<1>7. Controls(kind, orders, book, trades, pc, job)
  <2>1. pc \in Phases /\ pc = "tick" /\ job \in JobSet /\ job.settle = 0
    BY <1>1, NoJobIs DEF Phases
  <2> QED
    BY <2>1, PhaseIs
<1> QED
  BY <1>5, <1>6, <1>7 DEF DirectionalInv, BookFacts, Control

LEMMA EngineKeeps == ASSUME DirectionalInv, Engine PROVE DirectionalInv'
<1>1. CASE Sends
  BY <1>1, SendKeeps, ReplyKeeps, PollKeeps, FillKeeps, MarkKeeps, BookCloseKeeps DEF Sends
<1>2. CASE Protects
  BY <1>2, FindKeeps, PlaceKeeps, VerifyKeeps, NameKeeps, LegsKeeps, FreeKeeps, SellKeeps DEF Protects
<1>3. CASE Books
  BY <1>3, ReturnsKeeps, SettledKeeps, CancelAllKeeps, ResizeKeeps, SwapKeeps DEF Books
<1>4. CASE Ticks
  BY <1>4, DrainKeeps, ResolveKeeps, ObserveKeeps, SettleKeeps, SeeLegsKeeps, SeeStopKeeps, DeadKeeps, NakedKeeps,
     DecideKeeps DEF Ticks
<1>5. CASE Starts
  BY <1>5, BootKeeps, BootEndsKeeps, ReadyKeeps, StartKeeps DEF Starts
<1> QED
  BY <1>1, <1>2, <1>3, <1>4, <1>5 DEF Engine

LEMMA DirectionalStep == DirectionalInv /\ [DirectionalNext]_vars => DirectionalInv'
<1> SUFFICES ASSUME DirectionalInv, [DirectionalNext]_vars PROVE DirectionalInv'
  OBVIOUS
<1>1. CASE Venue
  BY <1>1, ArrivesKeeps, EntryExecutesKeeps, SaleExecutesKeeps, StopFiresKeeps, StopVanishesKeeps DEF Venue
<1>2. CASE Engine
  BY <1>2, EngineKeeps
<1>3. CASE Dies \/ ShutsDown
  BY <1>3, DiesKeeps, ShutsDownKeeps
<1>4. CASE UNCHANGED vars
  BY <1>4 DEF vars, ledger, venue, DirectionalInv, DirectionalTyped, BookFacts, Starting, Control
<1> QED
  BY <1>1, <1>2, <1>3, <1>4 DEF DirectionalNext

\* The order names of the model and of the invariant.
LEMMA NamesAre ==
    ASSUME DirectionalInv
    PROVE  /\ Of({"entry"}) = EntriesOf(orders) /\ Closes = ClosesOf(orders)
           /\ \A i \in DOMAIN orders : Unresolved(i) <=> Unres(orders, i)
           /\ \A i \in DOMAIN orders : Executed(i) <=> orders[i].done > 0
<1>1. orders \in Seq(OrderSet) /\ OrdersFit(kind, orders)
  BY InvGives DEF Facts
<1>2. \A i \in DOMAIN orders : Executed(i) <=> orders[i].done > 0
  BY <1>1 DEF OrdersFit, OrderFits, Executed, Ended
<1> QED
  BY <1>2 DEF Of, Ids, Closes, EntriesOf, ClosesOf, Unresolved, Unres

LEMMA SoldIsSold ==
    ASSUME DirectionalInv
    PROVE  SoldByCloses = Sold(orders, trades)
<1> DEFINE S == {i \in Closes : Booked(<<"exit", i>>)}
<1>1. S = SoldIn(orders, trades) /\ S \subseteq DOMAIN orders
  BY NamesAre DEF SoldIn, BookedExit, Booked, Closes, Of, Ids
<1> HIDE DEF S
<1> DEFINE P(f) == f = [s \in SUBSET S |-> IF s = {} THEN 0
                                       ELSE orders[CHOOSE x \in s : TRUE].done + f[s \ {CHOOSE x \in s : TRUE}]]
           Q(f) == AddsUp(DoneOf(orders), S, f)
<1>2. SoldByCloses = (CHOOSE f : P(f))[S]
  BY DEF SoldByCloses, MapThenSumSet, MapThenFoldSet, S
<1>3. Sold(orders, trades) = (CHOOSE f : Q(f))[S]
  BY <1>1, SumIsAdder DEF Sold, Adder
<1>4. ASSUME NEW f PROVE P(f) <=> Q(f)
  <2>1. \A s \in SUBSET S : s # {} => DoneOf(orders)[Chosen(s)] = orders[Chosen(s)].done
    BY <1>1, ChosenIsIn DEF DoneOf
  <2> QED
    BY <2>1 DEF AddsUp, Chosen
<1>5. (CHOOSE f : P(f)) = (CHOOSE f : Q(f))
  <2> HIDE DEF P, Q
  <2> QED
    BY <1>4
<1> QED
  BY <1>2, <1>3, <1>5

\* What the thread does next always has its row, its order and its place in the
\* book, and the ledger's parts fit each other and the venue's
\* (trading_engine.py:2919-3062, 3115-3139; persistence.py:1392-1447, 2421-2515).
THEOREM DirectionalInvariant == DirectionalSpec => []DirectionalInv
<1>1. DirectionalInit => DirectionalInv
  BY DirectionalInitHolds
<1>2. DirectionalInv /\ [DirectionalNext]_vars => DirectionalInv'
  BY DirectionalStep
<1> QED
  BY <1>1, <1>2, PTL DEF DirectionalSpec

\* For any number of orders and faults a spot lot that was bought is on the book,
\* in the trades, or its entry's row is still open (trading_engine.py:1913-1971,
\* bybit_connection.py:2343-2470); the one exception is a lot whose row was given an earlier position's leg.
THEOREM BoughtIsKnown == DirectionalSpec => []EntriesAreKnown
<1>1. ASSUME DirectionalInv PROVE EntriesAreKnown
  <2>1. Known(kind, orders, coin, book, trades, misnamed, Starting)
    BY <1>1, InvGives DEF Facts
  <2> SUFFICES ASSUME NEW i \in Of({"entry"}), Spot, Executed(i)
               PROVE  Unresolved(i) \/ book.entry = i \/ i \in misnamed \/ \E t \in trades : t.entry = i
    BY DEF EntriesAreKnown
  <2>2. i \in EntriesOf(orders) /\ i \in DOMAIN orders /\ orders[i].done > 0 /\ (Unresolved(i) <=> Unres(orders, i))
    BY <1>1, NamesAre DEF Of, Ids
  <2>3. kind # "linear"
    BY DEF Spot
  <2> QED
    BY <2>1, <2>2, <2>3 DEF Known, Traded
<1> QED
  BY <1>1, DirectionalInvariant, PTL

\* However replies are lost and the process restarts, a second entry is not at the
\* venue beside a first, beside a position, or before an earlier lot is accounted for
\* (risk_management.py:590-609, trading_engine.py:1869-1971).
THEOREM EntriesTakeTurns == DirectionalSpec => []OneEntryAtATime
<1>1. ASSUME DirectionalInv PROVE OneEntryAtATime
  <2>1. /\ Known(kind, orders, coin, book, trades, misnamed, Starting) /\ OrdersFit(kind, orders)
        /\ RowFits(orders, book, misnamed) /\ orders \in Seq(OrderSet)
        /\ \A e, m \in EntriesOf(orders) : Unres(orders, e) => m <= e
        /\ book # NoRow => \A e \in EntriesOf(orders) : Unres(orders, e) => e = book.entry
        /\ book = NoRow => \A e \in EntriesOf(orders) : book.entry # e
        /\ \A e \in EntriesOf(orders) : e \in DOMAIN orders /\ e \in Nat
    BY <1>1, InvGives, Basics
  <2> SUFFICES ASSUME NEW i \in Of({"entry"}), NEW j \in Of({"entry"}), i < j, OnItsWay(j)
               PROVE  /\ ~OnItsWay(i) /\ ~HasRow
                      /\ Executed(i) => i \in misnamed \/ (\E t \in trades : t.entry = i) \/ GoneBefore(i, j)
    BY DEF OneEntryAtATime
  <2>2. /\ i \in EntriesOf(orders) /\ j \in EntriesOf(orders) /\ i \in DOMAIN orders /\ j \in DOMAIN orders
        /\ i \in Nat /\ j \in Nat /\ orders[i].purpose = "entry" /\ orders[j].purpose = "entry"
    BY <1>1, <2>1, NamesAre DEF EntriesOf
  <2>3. ASSUME NEW e \in EntriesOf(orders), OnItsWay(e) PROVE Unres(orders, e) /\ orders[e].done = 0
    BY <2>1, <2>3 DEF EntriesOf, OrdersFit, OrderFits, OnItsWay, Unres
  <2>4. Unres(orders, j) /\ orders[j].done = 0
    BY <2>2, <2>3
  <2>5. ~Unres(orders, i)
    <3>1. ASSUME Unres(orders, i) PROVE FALSE
      <4>1. j <= i
        BY <2>1, <2>2, <3>1
      <4> QED
        BY <4>1, <2>2
    <3> QED
      BY <3>1
  <2>6. ~HasRow
    <3>1. ASSUME book # NoRow PROVE FALSE
      <4>1. j = book.entry /\ orders[book.entry].done > 0
        BY <2>1, <2>2, <2>4, <3>1 DEF RowFits
      <4> QED
        BY <4>1, <2>4
    <3> QED
      BY <3>1 DEF HasRow
  <2>7. ASSUME Executed(i) PROVE i \in misnamed \/ (\E t \in trades : t.entry = i) \/ GoneBefore(i, j)
    <3>1. orders[i].done > 0 /\ book.entry # i
      BY <2>7, <2>1, <2>2, <2>6 DEF Executed, HasRow
    <3>2. \/ i \in misnamed \/ (\E t \in trades : t.entry = i)
          \/ /\ kind = "linear"
             /\ \/ coin = 0
                \/ \E k \in EntriesOf(orders) : i < k /\ orders[k].done > 0
                \/ \A k \in EntriesOf(orders) : k <= i
      BY <2>1, <2>2, <2>5, <3>1 DEF Known, Traded
    <3>3. ~ \A k \in EntriesOf(orders) : k <= i
      <4>1. ~(j <= i)
        BY <2>2
      <4> QED
        BY <4>1, <2>2
    <3>4. ASSUME NEW k \in EntriesOf(orders), i < k, orders[k].done > 0
          PROVE  k \in Of({"entry"}) /\ k < j /\ Executed(k)
      <4>1. k \in Nat /\ k <= j /\ k # j
        BY <2>1, <2>2, <2>4, <3>4
      <4> QED
        BY <4>1, <2>1, <2>2, <3>4, <1>1, NamesAre
    <3>5. kind = "linear" <=> Linear
      BY DEF Linear
    <3> QED
      BY <3>2, <3>3, <3>4, <3>5 DEF GoneBefore
  <2> QED
    BY <2>2, <2>3, <2>5, <2>6, <2>7
<1> QED
  BY <1>1, DirectionalInvariant, PTL

\* A running engine's book covers the venue's position but for the closes booked
\* from their own fill, whatever was lost, failed or found at start-up
\* (trading_engine.py:1973-2094, 3222-3263).
THEOREM BookCoversVenue == DirectionalSpec => []NothingForgotten
<1>1. ASSUME DirectionalInv PROVE NothingForgotten
  <2> SUFFICES ASSUME Linear, ~Down, ~ \E i \in Of({"entry"}) : Executed(i) /\ Unresolved(i)
               PROVE  coin <= book.qty + SoldByCloses
    BY DEF NothingForgotten, HeldBeyond
  <2>1. pc \notin {"stopped", "boot"} /\ kind = "linear"
    BY DEF Down, Linear
  <2>2. Counted(kind, orders, coin, book, trades, FALSE) /\ orders \in Seq(OrderSet) /\ coin \in Int
    BY <1>1, <2>1, InvGives DEF Facts
  <2> DEFINE sold == Sold(orders, trades)
  <2>3. SoldByCloses = sold /\ sold \in Nat
    BY <1>1, <2>2, SoldIsSold, SoldSets
  <2>4. CASE book # NoRow
    <3>1. coin <= book.qty + sold
      BY <2>1, <2>2, <2>4 DEF Counted, CountedRow
    <3> QED
      BY <3>1, <2>3
  <2>5. CASE book = NoRow
    <3>1. ASSUME NEW e \in EntriesOf(orders), Unres(orders, e) PROVE coin <= sold
      <4>1. e \in DOMAIN orders /\ orders[e].done \in Nat
        BY <2>2, OrdersAre, OneOrder
      <4>2. ~(orders[e].done > 0)
        BY <4>1, <3>1, <1>1, NamesAre
      <4>3. coin <= orders[e].done + sold
        BY <2>1, <2>2, <2>5, <3>1 DEF Counted, CountedFlat
      <4>4. orders[e].done = 0
        BY <4>1, <4>2
      <4> QED
        BY <4>3, <4>4, <2>2, <2>3
    <3>2. (\A e \in EntriesOf(orders) : ~Unres(orders, e)) => coin <= sold
      BY <2>1, <2>2, <2>5 DEF Counted, CountedFlat
    <3>3. coin <= sold
      BY <3>1, <3>2
    <3>4. book.qty = 0
      BY <2>5, RowOrNone
    <3> HIDE DEF sold
    <3> QED
      BY <3>3, <3>4, <2>2, <2>3
  <2> QED
    BY <2>4, <2>5
<1> QED
  BY <1>1, DirectionalInvariant, PTL
===============================================================================
