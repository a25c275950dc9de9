------------------------- MODULE CarryCapital_proofs -------------------------
(***************************************************************************)
(* Proofs about CarryCapital, for any cycles, strategies, amounts, lives   *)
(* and bounds: an entry that may still fill has a live hold, a held pair   *)
(* keeps its hold, the dollars promised are there, and the table, the tick *)
(* and the timer implement CapitalPromise.                                 *)
(*                                                                         *)
(* None of them is inductive alone.  What carries them is what an open     *)
(* transaction may hold (CarryStaged, OtherStaged): rows decided on        *)
(* committed rows that nobody else can have changed since, because the     *)
(* lock admits one writer and orders are written behind the same lock.     *)
(* The sums are handled by the lemmas of SetSums_proofs.                   *)
(***************************************************************************)
EXTENDS CarryCapital, SetSums_proofs

\* One type invariant, by the kinds of row and of place.
Rows == [state: {"none", "RESERVED", "COMMITTED", "EXPIRED", "RELEASED"},
         expires: Nat, link: {0, 1}]
Readings == [value: {v \in Int : v <= Wealth}, at: Int]
CarryPlaces ==
    [pc: {"idle", "sync", "flat", "decide", "reserve", "enter", "opening", "closing"},
     cycle: Carry \cup {None}, reading: Readings]
OtherPlaces ==
    [pc: {"idle", "reserve", "bind", "send", "release"},
     cycle: Others \cup {None}, reading: Readings]
OrderRows == [sent: Nat, open: BOOLEAN, filled: BOOLEAN]

CapitalTypeOK ==
    /\ holds \in [Intents -> Rows]
    /\ tx = [w \in Writers |-> tx[w]]
    /\ tx["carry"] \in [open: BOOLEAN, rows: [Intents -> Rows], then: CarryPlaces]
    /\ tx["other"] \in [open: BOOLEAN, rows: [Intents -> Rows], then: OtherPlaces]
    /\ engine \in CarryPlaces /\ other \in OtherPlaces
    /\ position \in Carry \cup {None}
    /\ orders \in [Intents -> OrderRows]
    /\ now \in Nat /\ faults \in Nat /\ ticksInTime \in BOOLEAN

-------------------------------------------------------------------------------
(* What a transaction may do to the committed rows h.                      *)

\* An overdue hold with no order in flight is swept.
Lapses(h, r, i) ==
    /\ h[i].state = "RESERVED" /\ h[i].expires <= now /\ ~orders[i].open
    /\ r[i].state = "EXPIRED"

AllButLapsed(h, r, k) == \A i \in Intents \ {k} : r[i] = h[i] \/ Lapses(h, r, i)
AllBut(h, r, k) == \A i \in Intents \ {k} : r[i] = h[i]

\* The four things a transaction can do: sweep, and grant, bind or free k.
Sweeps(h, r) == \A i \in Intents : r[i] = h[i] \/ Lapses(h, r, i)

Adds(h, r, k) ==
    /\ h[k].state = "none" /\ r[k].state = "RESERVED"
    /\ AllButLapsed(h, r, k)
    /\ Dollars(Live(r)) + Buffer <= Wealth

Binds(h, r, k) ==
    /\ h[k].state = "RESERVED" /\ r[k].state = "COMMITTED"
    /\ AllBut(h, r, k)

Frees(h, r, k) ==
    /\ k \in Live(h) /\ ~orders[k].open /\ r[k].state = "RELEASED"
    /\ AllBut(h, r, k)

\* What the engine's open transaction holds, and where it leads.
CarryStaged ==
    LET r == tx["carry"].rows
        then == tx["carry"].then
    IN  tx["carry"].open =>
        /\ \/ /\ engine.pc \in {"sync", "flat", "reserve"}
              /\ Sweeps(holds, r)
              /\ then.pc \in {"idle", "flat", "sync"} /\ then.cycle = None
           \/ /\ engine.pc = "sync"
              /\ \E k \in Carry : Binds(holds, r, k)
              /\ then.pc = "sync" /\ then.cycle = None
           \/ /\ engine.pc = "flat" /\ position = None
              /\ \E k \in Carry : Frees(holds, r, k)
              /\ then.pc = "flat" /\ then.cycle = None
           \/ /\ engine.pc = "reserve" /\ Adds(holds, r, engine.cycle)
              /\ then.pc = "enter" /\ then.cycle = engine.cycle
              /\ now < r[engine.cycle].expires

\* The same of the other strategy.
OtherStaged ==
    LET r == tx["other"].rows
        then == tx["other"].then
        k == other.cycle
    IN  tx["other"].open =>
        /\ k \in Others
        /\ \/ /\ other.pc \in {"reserve", "bind", "release"}
              /\ Sweeps(holds, r)
              /\ then.pc = "idle" \/ (other.pc = "release" /\ then = other)
           \/ /\ other.pc = "reserve" /\ Adds(holds, r, k)
              /\ then.pc = "bind" /\ then.cycle = k
           \/ /\ other.pc = "bind" /\ Binds(holds, r, k)
              /\ then.pc = "send" /\ then.cycle = k
           \/ /\ other.pc = "release" /\ Frees(holds, r, k) /\ ~orders[k].filled
              /\ then.pc = "idle"

\* One transaction at a time.
OneWriter ==
    /\ ~(tx["carry"].open /\ tx["other"].open)
    /\ \A w \in Writers : ~tx[w].open => tx[w] = NoTx

-------------------------------------------------------------------------------
\* What the engine may rely on where it is: between the hold and the order the
\* hold is reserved and has time left; while it opens there is no pair.
EngineKnows ==
    /\ engine.pc \in {"idle", "sync", "flat", "decide"} => engine.cycle = None
    /\ engine.pc \in {"reserve", "enter", "opening", "closing"} => engine.cycle \in Carry
    /\ engine.pc \in {"reserve", "enter", "opening"} => position = None
    /\ engine.pc = "reserve" => holds[engine.cycle].state = "none"
    /\ engine.pc = "enter" =>
        /\ holds[engine.cycle].state = "RESERVED" /\ now < holds[engine.cycle].expires
        /\ orders[engine.cycle].sent = 0
    /\ engine.pc = "opening" => orders[engine.cycle].sent > 0
    /\ engine.pc = "opening" /\ ticksInTime => engine.cycle \in Live(holds)
    /\ engine.pc = "closing" => position = engine.cycle

\* The other strategy has bound whatever it sends, and keeps it bound while the
\* order is open or its fill is held.
OtherKnows ==
    /\ other.pc # "idle" => other.cycle \in Others
    /\ other.pc = "reserve" => holds[other.cycle].state = "none"
    /\ other.pc = "bind" => holds[other.cycle].state # "COMMITTED"
    /\ other.pc \in {"send", "release"} => holds[other.cycle].state = "COMMITTED"
    /\ \A j \in Others : orders[j].open \/ orders[j].filled => holds[j].state = "COMMITTED"

\* Orders have a row in the table behind them, and a second order of a cycle
\* is a close of the pair.
OrdersKnown ==
    /\ \A i \in Intents : orders[i].sent > 0 => holds[i].state # "none"
    /\ \A i \in Intents : orders[i].open \/ orders[i].filled => orders[i].sent > 0
    /\ \A i \in Carry : orders[i].open /\ orders[i].sent > 1 => position = i
    /\ position # None => orders[position].sent > 0

\* A loop that keeps up never leaves a hold with an order overdue.
BoundInTime ==
    ticksInTime => \A i \in Carry :
        orders[i].sent > 0 /\ holds[i].state = "RESERVED" => now < holds[i].expires

\* The live holds fit together, and never beyond what the account is worth.
PromisesFit == Live(holds) = {} \/ Dollars(Live(holds)) + Buffer <= Wealth

CapitalInv ==
    /\ CapitalTypeOK /\ OneWriter /\ CarryStaged /\ OtherStaged
    /\ EngineKnows /\ OtherKnows /\ OrdersKnown /\ BoundInTime
    /\ OrdersAreCovered /\ HeldPairIsCovered /\ PromisesFit

-------------------------------------------------------------------------------
(* Dollars.                                                                *)

\* Dollars is a sum over a set.
LEMMA DollarsAreSums == ASSUME NEW S PROVE Dollars(S) = SumOver(Amount, S)
BY DEF Dollars, SumOver

\* Dollars of a set of intents: a natural number, that grows with the set.
LEMMA DollarsFacts ==
    ASSUME NEW S, S \subseteq Intents
    PROVE  /\ IsFiniteSet(S)
           /\ Dollars(S) \in Nat
           /\ \A T \in SUBSET S : Dollars(T) <= Dollars(S)
           /\ \A i \in Intents : i \notin S => Dollars(S \cup {i}) = Amount[i] + Dollars(S)
<1>1. IsFiniteSet(S) /\ \A i \in Intents : Amount[i] \in Nat
  BY HoldAssumptions, FS_Subset
<1>2. Dollars(S) \in Nat
  <2>1. \A i \in S : Amount[i] \in Nat
    BY <1>1
  <2>2. SumOver(Amount, S) \in Nat
    BY <1>1, <2>1, SumIsNat
  <2> QED BY <2>2, DollarsAreSums
<1>3. ASSUME NEW T \in SUBSET S PROVE Dollars(T) <= Dollars(S)
  <2>1. \A i \in S : Amount[i] \in Nat
    BY <1>1
  <2>2. SumOver(Amount, T) <= SumOver(Amount, S)
    BY <1>1, <2>1, SumGrows
  <2> QED BY <2>2, DollarsAreSums
<1>4. ASSUME NEW i \in Intents, i \notin S PROVE Dollars(S \cup {i}) = Amount[i] + Dollars(S)
  <2>1. \A j \in S \cup {i} : Amount[j] \in Nat
    BY <1>1
  <2>2. SumOver(Amount, S \cup {i}) = Amount[i] + SumOver(Amount, S)
    BY <1>1, <1>4, <2>1, SumWith
  <2> QED BY <2>2, DollarsAreSums
<1> QED BY <1>1, <1>2, <1>3, <1>4

\* Dollars of two disjoint sets.
LEMMA DollarsOfParts ==
    ASSUME NEW S, NEW T, S \subseteq Intents, T \subseteq Intents, S \cap T = {}
    PROVE  Dollars(S \cup T) = Dollars(S) + Dollars(T)
<1>1. IsFiniteSet(S) /\ IsFiniteSet(T) /\ \A i \in S \cup T : Amount[i] \in Nat
  BY HoldAssumptions, FS_Subset
<1>2. SumOver(Amount, S \cup T) = SumOver(Amount, S) + SumOver(Amount, T)
  BY <1>1, SumOfParts
<1> QED BY <1>2, DollarsAreSums

-------------------------------------------------------------------------------
(* The table's operations, on the committed rows.                          *)

\* _expire_locked sweeps, and does nothing else.
LEMMA SweptRows ==
    ASSUME CapitalTypeOK
    PROVE  /\ Expired(holds, Open, now) \in [Intents -> Rows]
           /\ Sweeps(holds, Expired(holds, Open, now))
BY DEF CapitalTypeOK, Rows, Expired, Overdue, LinkedUnresolved, Sweeps, Lapses, Open

\* reserve sweeps, and grants a hold only if it fits beside the live ones.
LEMMA ReservedRows ==
    ASSUME CapitalTypeOK, NEW i \in Intents, holds[i].state = "none", NEW reading \in Readings
    PROVE  LET r == Reserved(holds, i, reading, Open, now)
           IN  /\ r \in [Intents -> Rows]
               /\ i \notin Live(r) => Sweeps(holds, r)
               /\ i \in Live(r) => Adds(holds, r, i) /\ now < r[i].expires
<1> DEFINE r == Reserved(holds, i, reading, Open, now)
           kept == Expired(holds, Open, now)
<1>1. kept \in [Intents -> Rows] /\ Sweeps(holds, kept) /\ kept[i] = holds[i]
  BY SweptRows DEF Sweeps, Lapses
<1>2. CASE r = holds
  BY <1>2 DEF Sweeps, Live, CapitalTypeOK
<1>3. CASE r = kept
  BY <1>1, <1>3 DEF Live
<1>4. CASE r = Inserted(kept, i, now) /\ Free(kept, reading) >= Amount[i]
  <2>1. Ttl \in Nat \ {0} /\ now \in Nat /\ Buffer \in Nat /\ Wealth \in Nat /\ Amount[i] \in Nat
    BY HoldAssumptions, CarryAssumptions DEF CapitalTypeOK
  <2>2. /\ r \in [Intents -> Rows] /\ r[i].state = "RESERVED" /\ now < r[i].expires
        /\ \A j \in Intents \ {i} : r[j] = kept[j]
    <3> DEFINE new == [state |-> "RESERVED", expires |-> now + Ttl, link |-> NoLink]
    <3>1. r = [kept EXCEPT ![i] = new]
      BY <1>4 DEF Inserted
    <3>2. new \in Rows /\ new.state = "RESERVED" /\ now < new.expires
      BY <2>1 DEF Rows, NoLink
    <3> HIDE DEF kept, r, new
    <3> QED BY <1>1, <3>1, <3>2
  <2>3. AllButLapsed(holds, r, i)
    <3> HIDE DEF kept, r
    <3> QED BY <1>1, <2>2 DEF Sweeps, AllButLapsed, Lapses
  <2>4. Live(r) = Live(kept) \cup {i} /\ i \notin Live(kept)
    <3>1. \A j \in Intents \ {i} : r[j] = kept[j]
      BY <2>2
    <3>2. r[i].state = "RESERVED" /\ kept[i].state = "none"
      BY <1>1, <2>2
    <3> HIDE DEF kept, r
    <3> QED BY <3>1, <3>2 DEF Live
  <2>5. Dollars(Live(r)) = Amount[i] + Dollars(Live(kept)) /\ Dollars(Live(kept)) \in Nat
    <3>1. Live(kept) \subseteq Intents
      BY DEF Live
    <3> HIDE DEF kept, r
    <3> QED BY <2>4, <3>1, DollarsFacts
  <2>6. reading.value \in Int /\ reading.value <= Wealth
    BY DEF Readings
  <2>7. Dollars(Live(r)) + Buffer <= Wealth
    <3>1. reading.value - Dollars(Live(kept)) - Buffer >= Amount[i]
      BY <1>4 DEF Free
    <3> HIDE DEF kept, r
    <3> QED BY <3>1, <2>1, <2>5, <2>6
  <2>8. Adds(holds, r, i)
    BY <2>2, <2>3, <2>7 DEF Adds
  <2> QED BY <2>2, <2>4, <2>8
<1>5. Free(kept, reading) \in Int /\ Amount[i] \in Nat
  <2>1. Live(kept) \subseteq Intents
    BY DEF Live
  <2>2. Dollars(Live(kept)) \in Nat
    BY <2>1, DollarsFacts
  <2> QED BY <2>2, HoldAssumptions DEF Free, Readings
<1> QED BY <1>2, <1>3, <1>4, <1>5 DEF Reserved

\* commit binds a reserved hold, and changes nothing otherwise.
LEMMA BoundRows ==
    ASSUME CapitalTypeOK, NEW i \in Intents
    PROVE  LET r == Bound(holds, i, 1)
           IN  /\ r \in [Intents -> Rows]
               /\ holds[i].state = "RESERVED" => Binds(holds, r, i)
               /\ holds[i].state # "RESERVED" => r = holds
<1> DEFINE new == [state |-> "COMMITTED", expires |-> holds[i].expires, link |-> 1]
           r == Bound(holds, i, 1)
<1>1. holds \in [Intents -> Rows] /\ new \in Rows
  BY DEF CapitalTypeOK, Rows
<1>2. CASE holds[i].state = "RESERVED"
  <2>1. r = [holds EXCEPT ![i] = new]
    <3>1. [[holds[i] EXCEPT !.state = "COMMITTED"] EXCEPT !.link = 1] = new
      <4> DEFINE h == holds[i]
      <4>1. h = [state |-> h.state, expires |-> h.expires, link |-> h.link]
        BY <1>1 DEF Rows
      <4>2. [h EXCEPT !.state = "COMMITTED"]
              = [state |-> "COMMITTED", expires |-> h.expires, link |-> h.link]
        <5> HIDE DEF h
        <5> QED BY <4>1
      <4>3. [[h EXCEPT !.state = "COMMITTED"] EXCEPT !.link = 1]
              = [state |-> "COMMITTED", expires |-> h.expires, link |-> 1]
        <5> DEFINE m == [h EXCEPT !.state = "COMMITTED"]
                   e == h.expires
        <5>1. m = [state |-> "COMMITTED", expires |-> e, link |-> h.link]
          BY <4>2
        <5> HIDE DEF m
        <5>2. [m EXCEPT !.link = 1] = [state |-> "COMMITTED", expires |-> e, link |-> 1]
          BY <5>1
        <5> QED BY <5>2 DEF m
      <4> QED BY <4>3
    <3>2. r = [holds EXCEPT ![i] = [[holds[i] EXCEPT !.state = "COMMITTED"] EXCEPT !.link = 1]]
      BY <1>1, <1>2 DEF Bound
    <3> QED BY <3>1, <3>2
  <2>2. new.state = "COMMITTED"
    OBVIOUS
  <2> HIDE DEF new, r
  <2>3. r \in [Intents -> Rows] /\ r[i] = new /\ \A j \in Intents \ {i} : r[j] = holds[j]
    BY <1>1, <2>1
  <2> QED BY <1>2, <2>2, <2>3 DEF Binds, AllBut, r
<1>3. CASE holds[i].state # "RESERVED"
  BY <1>1, <1>3 DEF Bound
<1> QED BY <1>2, <1>3

\* release frees a live hold without an order, and changes nothing otherwise.
LEMMA ReleasedRows ==
    ASSUME CapitalTypeOK, NEW i \in Intents
    PROVE  LET r == Released(holds, i, Open)
           IN  /\ r \in [Intents -> Rows]
               /\ i \in Live(holds) /\ ~orders[i].open => Frees(holds, r, i)
               /\ ~(i \in Live(holds) /\ ~orders[i].open) => r = holds
<1> DEFINE new == [state |-> "RELEASED", expires |-> holds[i].expires, link |-> holds[i].link]
           r == Released(holds, i, Open)
<1>1. holds \in [Intents -> Rows] /\ new \in Rows
  BY DEF CapitalTypeOK, Rows
<1>2. i \in Open <=> orders[i].open
  BY DEF Open
<1>3. CASE i \in Live(holds) /\ ~orders[i].open
  <2>1. r = [holds EXCEPT ![i] = new]
    <3>1. [holds[i] EXCEPT !.state = "RELEASED"] = new
      BY <1>1 DEF Rows
    <3>2. r = [holds EXCEPT ![i] = [holds[i] EXCEPT !.state = "RELEASED"]]
      BY <1>1, <1>2, <1>3 DEF Released, LinkedUnresolved
    <3> QED BY <3>1, <3>2
  <2>2. new.state = "RELEASED"
    OBVIOUS
  <2> HIDE DEF new, r
  <2>3. r \in [Intents -> Rows] /\ r[i] = new /\ \A j \in Intents \ {i} : r[j] = holds[j]
    BY <1>1, <2>1
  <2> QED BY <1>3, <2>2, <2>3 DEF Frees, AllBut, r
<1>4. CASE ~(i \in Live(holds) /\ ~orders[i].open)
  BY <1>1, <1>2, <1>4 DEF Released, LinkedUnresolved
<1> QED BY <1>3, <1>4

\* Min finds a cycle where there is one.
LEMMA LeastOfCarry ==
    ASSUME NEW S, S \subseteq Carry, S # {}
    PROVE  Min(S) \in S
BY LeastOf, HoldAssumptions

\* The places of the two loops have their types.
LEMMA PlacesExist ==
    /\ Idle \in CarryPlaces /\ Idle \in OtherPlaces
    /\ NoTx \in [open: BOOLEAN, rows: [Intents -> Rows], then: CarryPlaces]
    /\ NoTx \in [open: BOOLEAN, rows: [Intents -> Rows], then: OtherPlaces]
    /\ ~NoTx.open
    /\ \A pc \in {"idle", "sync", "flat", "decide", "reserve", "enter", "opening", "closing"} :
         \A c \in Carry \cup {None} : At(pc, c) \in CarryPlaces
    /\ \A pc \in {"idle", "reserve", "bind", "send", "release"} :
         \A c \in Others \cup {None} : At(pc, c) \in OtherPlaces
<1>1. NoReading \in Readings
  <2>1. Wealth \in Nat /\ MaxAge \in Nat
    BY HoldAssumptions, CarryAssumptions
  <2>2. -MaxAge - 1 \in Int
    BY <2>1
  <2>3. 0 \in {v \in Int : v <= Wealth}
    BY <2>1
  <2> QED BY <2>2, <2>3 DEF NoReading, Readings
<1>2. Idle \in CarryPlaces /\ Idle \in OtherPlaces
  BY <1>1 DEF Idle, CarryPlaces, OtherPlaces
<1>3. [i \in Intents |-> NoRow] \in [Intents -> Rows]
  BY DEF NoRow, Rows, NoLink
<1> QED BY <1>1, <1>2, <1>3 DEF At, NoTx, CarryPlaces, OtherPlaces

-------------------------------------------------------------------------------
(* Steps that leave the rows alone.                                        *)

\* The engine moves with no transaction of its own left open.
LEMMA EngineMoves ==
    ASSUME CapitalInv, UNCHANGED <<holds, other, orders, now, ticksInTime>>,
           tx' = [w \in Writers |-> tx'[w]], tx'["carry"] = NoTx, tx'["other"] = tx["other"],
           engine' \in CarryPlaces, position' \in Carry \cup {None}, faults' \in Nat,
           EngineKnows', OrdersKnown', HeldPairIsCovered'
    PROVE  CapitalInv'
<1> USE DEF CapitalInv
<1>1. CapitalTypeOK'
  BY PlacesExist DEF CapitalTypeOK
<1>2. OneWriter'
  BY PlacesExist DEF OneWriter, Writers
<1>3. CarryStaged'
  BY PlacesExist DEF CarryStaged
<1>4. OtherStaged'
  BY DEF OtherStaged, Sweeps, Adds, Binds, Frees, AllBut, AllButLapsed, Lapses
<1>5. OtherKnows' /\ BoundInTime' /\ OrdersAreCovered' /\ PromisesFit'
  BY DEF OtherKnows, BoundInTime, OrdersAreCovered, PromisesFit, Spending, Open, Live
<1> QED BY <1>1, <1>2, <1>3, <1>4, <1>5

\* A transaction is staged.
LEMMA CarryStages ==
    ASSUME CapitalInv, NEW rows \in [Intents -> Rows], NEW then \in CarryPlaces,
           Stage("carry", rows, then),
           UNCHANGED <<holds, engine, other, position, orders, now, faults, ticksInTime>>,
           CarryStaged'
    PROVE  CapitalInv'
<1> USE DEF CapitalInv
<1>0. /\ ~tx["other"].open /\ tx' = [w \in Writers |-> tx'[w]] /\ tx'["other"] = tx["other"]
      /\ tx'["carry"] = [open |-> TRUE, rows |-> rows, then |-> then]
  BY DEF Stage, Locked, Writers, CapitalTypeOK
<1>1. CapitalTypeOK'
  BY <1>0 DEF CapitalTypeOK
<1>2. OneWriter'
  BY <1>0 DEF OneWriter, Writers
<1>3. OtherStaged'
  BY <1>0 DEF OtherStaged
<1>4. /\ EngineKnows' /\ OtherKnows' /\ OrdersKnown' /\ BoundInTime' /\ OrdersAreCovered'
      /\ HeldPairIsCovered' /\ PromisesFit'
  BY DEF EngineKnows, OtherKnows, OrdersKnown, BoundInTime, OrdersAreCovered,
         HeldPairIsCovered, PromisesFit, Spending, Open, Live
<1> QED BY <1>1, <1>2, <1>3, <1>4

\* The same for the other strategy.
LEMMA OtherStages ==
    ASSUME CapitalInv, NEW rows \in [Intents -> Rows], NEW then \in OtherPlaces,
           Stage("other", rows, then),
           UNCHANGED <<holds, engine, other, position, orders, now, faults, ticksInTime>>,
           OtherStaged'
    PROVE  CapitalInv'
<1> USE DEF CapitalInv
<1>0. /\ ~tx["carry"].open /\ tx' = [w \in Writers |-> tx'[w]] /\ tx'["carry"] = tx["carry"]
      /\ tx'["other"] = [open |-> TRUE, rows |-> rows, then |-> then]
  BY DEF Stage, Locked, Writers, CapitalTypeOK
<1>1. CapitalTypeOK'
  BY <1>0 DEF CapitalTypeOK
<1>2. OneWriter'
  BY <1>0 DEF OneWriter, Writers
<1>3. CarryStaged'
  BY <1>0 DEF CarryStaged
<1>4. /\ EngineKnows' /\ OtherKnows' /\ OrdersKnown' /\ BoundInTime' /\ OrdersAreCovered'
      /\ HeldPairIsCovered' /\ PromisesFit'
  BY DEF EngineKnows, OtherKnows, OrdersKnown, BoundInTime, OrdersAreCovered,
         HeldPairIsCovered, PromisesFit, Spending, Open, Live
<1> QED BY <1>1, <1>2, <1>3, <1>4

\* The engine's steps outside the table and the order log.
LEMMA EngineSteps ==
    ASSUME CapitalInv, UNCHANGED ticksInTime,
           TickBegins \/ SyncEnds \/ EntryBegins \/ EntryRefused \/ EntryEnds \/ CloseBooked
             \/ GivesUp \/ NothingToDo \/ EngineWriteFails \/ EngineCrash
    PROVE  CapitalInv'
<1> USE DEF CapitalInv
<1>0. ASSUME ~tx["carry"].open, UNCHANGED tx
      PROVE  tx' = [w \in Writers |-> tx'[w]] /\ tx'["carry"] = NoTx /\ tx'["other"] = tx["other"]
  BY <1>0 DEF CapitalTypeOK, OneWriter, Writers
<1>1. faults' \in Nat
  BY DEF CapitalTypeOK, TickBegins, SyncEnds, EntryBegins, EntryRefused, EntryEnds, CloseBooked,
         GivesUp, NothingToDo, EngineWriteFails, Rollback, EngineCrash
<1>2. CASE TickBegins \/ SyncEnds \/ EntryRefused \/ GivesUp \/ NothingToDo
  <2>1. /\ UNCHANGED <<holds, tx, other, position, orders, now>> /\ ~tx["carry"].open
        /\ engine' \in {Idle, At("sync", None), At("decide", None)}
    BY <1>2 DEF TickBegins, SyncEnds, EntryRefused, GivesUp, NothingToDo, EngineAt
  <2>2. engine' \in CarryPlaces /\ EngineKnows'
    BY <2>1, PlacesExist DEF EngineKnows, Idle, At
  <2>3. OrdersKnown' /\ HeldPairIsCovered'
    BY <2>1 DEF OrdersKnown, HeldPairIsCovered, Live
  <2> QED BY <1>0, <1>1, <2>1, <2>2, <2>3, EngineMoves DEF CapitalTypeOK
<1>3. CASE EntryBegins
  <2> USE <1>3 DEF EntryBegins, EngineAt
  <2>1. NextCycle \in NewCycles
    BY LeastOfCarry DEF NextCycle, NewCycles
  <2>2. holds[NextCycle].state = "none" /\ NextCycle \in Carry
    <3> DEFINE c == NextCycle
    <3>1. c \in Carry /\ (holds[c].state # "none" => c < c)
      BY <2>1 DEF NewCycles
    <3>2. \A n \in Nat : ~(n < n)
      OBVIOUS
    <3> HIDE DEF c
    <3>3. c \in Nat
      BY <3>1, HoldAssumptions
    <3> QED BY <3>1, <3>2, <3>3 DEF c
  <2>3. Available \in Int /\ Available <= Wealth
    <3>1. Dollars(InUse) \in Nat
      BY DollarsFacts DEF InUse
    <3> QED BY <3>1, CarryAssumptions DEF Available
  <2>4. engine' \in CarryPlaces /\ EngineKnows'
    BY <2>2, <2>3 DEF EngineKnows, CarryPlaces, Readings, CapitalTypeOK
  <2>5. OrdersKnown' /\ HeldPairIsCovered'
    BY DEF OrdersKnown, HeldPairIsCovered, Live
  <2> QED BY <1>0, <1>1, <2>4, <2>5, EngineMoves DEF CapitalTypeOK
<1>4. CASE EntryEnds
  <2> USE <1>4 DEF EntryEnds, EngineAt
  <2>1. engine' \in CarryPlaces /\ EngineKnows'
    BY PlacesExist DEF EngineKnows, Idle
  <2>2. engine.cycle \in Carry /\ position' \in Carry \cup {None}
    BY DEF EngineKnows
  <2>3. HeldPairIsCovered'
    BY <2>2 DEF EngineKnows, HeldPairIsCovered, Live
  <2>4. OrdersKnown'
    <3>1. ASSUME NEW i \in Carry, orders[i].open, orders[i].sent > 1 PROVE FALSE
      BY <3>1, HoldAssumptions DEF OrdersKnown, EngineKnows, None
    <3> QED BY <3>1, <2>2 DEF EngineKnows, OrdersKnown
  <2> QED BY <1>0, <1>1, <2>1, <2>2, <2>3, <2>4, EngineMoves DEF CapitalTypeOK
<1>5. CASE CloseBooked
  <2> USE <1>5 DEF CloseBooked, EngineAt
  <2>1. engine' \in CarryPlaces /\ EngineKnows'
    BY PlacesExist DEF EngineKnows, Idle
  <2>2. HeldPairIsCovered'
    BY DEF HeldPairIsCovered
  <2>3. OrdersKnown'
    BY DEF OrdersKnown, InUse, Intents
  <2> QED BY <1>0, <1>1, <2>1, <2>2, <2>3, EngineMoves DEF CapitalTypeOK
<1>6. CASE EngineWriteFails \/ EngineCrash
  <2>1. /\ UNCHANGED <<holds, other, position, orders, now>>
        /\ tx' = [tx EXCEPT !["carry"] = NoTx] /\ engine' \in {Idle, At("decide", None)}
    BY <1>6 DEF EngineWriteFails, Rollback, EngineCrash
  <2>2. tx' = [w \in Writers |-> tx'[w]] /\ tx'["carry"] = NoTx /\ tx'["other"] = tx["other"]
    BY <2>1 DEF CapitalTypeOK, Writers
  <2>3. engine' \in CarryPlaces /\ EngineKnows'
    BY <2>1, PlacesExist DEF EngineKnows, Idle, At
  <2>4. OrdersKnown' /\ HeldPairIsCovered'
    BY <2>1 DEF OrdersKnown, HeldPairIsCovered, Live
  <2> QED BY <1>1, <2>1, <2>2, <2>3, <2>4, EngineMoves DEF CapitalTypeOK
<1> QED BY <1>2, <1>3, <1>4, <1>5, <1>6

-------------------------------------------------------------------------------
(* Transactions.                                                           *)

\* The engine's transactions begin: each stages one of the four changes.
LEMMA EngineStages ==
    ASSUME CapitalInv, UNCHANGED ticksInTime,
           SyncBinds \/ SyncExpires \/ SyncReleases \/ EntryReserves
    PROVE  CapitalInv'
<1> USE DEF CapitalInv
<1>1. ASSUME NEW rows \in [Intents -> Rows], NEW then \in CarryPlaces, Stage("carry", rows, then)
      PROVE  tx'["carry"] = [open |-> TRUE, rows |-> rows, then |-> then]
  BY <1>1 DEF Stage, CapitalTypeOK, Writers
<1>2. CASE SyncBinds
  <2>1. PICK i \in Unbound : Stage("carry", Bound(holds, i, 1), At("sync", None))
    BY <1>2 DEF SyncBinds
  <2> DEFINE r == Bound(holds, i, 1)
  <2>2. i \in Carry /\ i \in Intents /\ holds[i].state = "RESERVED"
    BY DEF Unbound, Intents
  <2>3. r \in [Intents -> Rows] /\ Binds(holds, r, i)
    BY <2>2, BoundRows
  <2> HIDE DEF r
  <2>4. At("sync", None) \in CarryPlaces
    BY PlacesExist
  <2>5. CarryStaged'
    <3>1. tx'["carry"] = [open |-> TRUE, rows |-> r, then |-> At("sync", None)]
      BY <1>1, <2>1, <2>3, <2>4 DEF r
    <3>2. engine'.pc = "sync" /\ holds' = holds
      BY <1>2 DEF SyncBinds, EngineAt
    <3> QED BY <2>2, <2>3, <3>1, <3>2 DEF CarryStaged, At, Binds, AllBut
  <2> QED BY <1>2, <2>1, <2>3, <2>4, <2>5, CarryStages DEF SyncBinds, r
<1>3. CASE SyncExpires
  <2> DEFINE r == Expired(holds, Open, now)
  <2>1. r \in [Intents -> Rows] /\ Sweeps(holds, r)
    BY SweptRows
  <2>2. Stage("carry", r, At("flat", None)) /\ engine'.pc = "sync" /\ UNCHANGED <<holds, orders, now>>
    BY <1>3 DEF SyncExpires, EngineAt
  <2> HIDE DEF r
  <2>3. At("flat", None) \in CarryPlaces
    BY PlacesExist
  <2>4. CarryStaged'
    <3>1. tx'["carry"] = [open |-> TRUE, rows |-> r, then |-> At("flat", None)]
      BY <1>1, <2>1, <2>2, <2>3
    <3> QED BY <2>1, <2>2, <3>1 DEF CarryStaged, At, Sweeps, Lapses
  <2> QED BY <1>3, <2>1, <2>2, <2>3, <2>4, CarryStages DEF SyncExpires
<1>4. CASE SyncReleases
  <2>1. PICK i \in CarryLive : Stage("carry", Released(holds, i, Open), At("flat", None))
    BY <1>4 DEF SyncReleases
  <2> DEFINE r == Released(holds, i, Open)
  <2>2. i \in Carry /\ i \in Intents /\ i \in Live(holds) /\ ~orders[i].open /\ position = None
    BY <1>4 DEF CarryLive, Live, Intents, SyncReleases, MayRelease, Open
  <2>3. r \in [Intents -> Rows] /\ Frees(holds, r, i)
    BY <2>2, ReleasedRows
  <2>4. Stage("carry", r, At("flat", None))
    BY <2>1
  <2> HIDE DEF r
  <2>5. At("flat", None) \in CarryPlaces
    BY PlacesExist
  <2>6. CarryStaged'
    <3>1. tx'["carry"] = [open |-> TRUE, rows |-> r, then |-> At("flat", None)]
      BY <1>1, <2>3, <2>4, <2>5
    <3>2. engine'.pc = "flat" /\ UNCHANGED <<holds, orders, position>>
      BY <1>4 DEF SyncReleases, EngineAt
    <3> QED BY <2>2, <2>3, <3>1, <3>2 DEF CarryStaged, At, Frees, AllBut, Live
  <2> QED BY <1>4, <2>3, <2>4, <2>5, <2>6, CarryStages DEF SyncReleases
<1>5. CASE EntryReserves
  <2> DEFINE i == engine.cycle
             r == Reserved(holds, i, engine.reading, Open, now)
             then == IF i \in Live(r) THEN At("enter", i) ELSE Idle
  <2>1. engine.pc = "reserve" /\ UNCHANGED <<holds, engine, orders, now>> /\ Stage("carry", r, then)
    BY <1>5 DEF EntryReserves, EngineAt
  <2>2. i \in Carry /\ i \in Intents /\ holds[i].state = "none" /\ engine.reading \in Readings
    BY <2>1 DEF EngineKnows, Intents, CapitalTypeOK, CarryPlaces
  <2>3. /\ r \in [Intents -> Rows]
        /\ i \notin Live(r) => Sweeps(holds, r)
        /\ i \in Live(r) => Adds(holds, r, i) /\ now < r[i].expires
    BY <2>2, ReservedRows
  <2> HIDE DEF r
  <2>4. then \in CarryPlaces
    BY <2>2, PlacesExist
  <2>5. tx'["carry"] = [open |-> TRUE, rows |-> r, then |-> then]
    BY <1>1, <2>1, <2>3, <2>4
  <2>6. CarryStaged'
    <3>1. CASE i \in Live(r)
      <4>1. then.pc = "enter" /\ then.cycle = i
        BY <3>1 DEF At
      <4>2. engine' = engine /\ tx'["carry"].rows = r /\ tx'["carry"].then = then
        BY <2>1, <2>5
      <4>3. Adds(holds, r, i)
        BY <2>3, <3>1
      <4> HIDE DEF then
      <4> QED BY <2>1, <2>3, <3>1, <4>1, <4>2, <4>3 DEF CarryStaged, Adds, AllButLapsed, Lapses
    <3>2. CASE i \notin Live(r)
      <4>1. then.pc = "idle" /\ then.cycle = None
        BY <3>2 DEF Idle
      <4>2. engine' = engine /\ tx'["carry"].rows = r /\ tx'["carry"].then = then
        BY <2>1, <2>5
      <4> HIDE DEF then
      <4> QED BY <2>1, <2>3, <3>2, <4>1, <4>2 DEF CarryStaged, Sweeps, Lapses
    <3> QED BY <3>1, <3>2
  <2> HIDE DEF then
  <2> QED BY <1>5, <2>1, <2>3, <2>4, <2>6, CarryStages DEF EntryReserves
<1> QED BY <1>2, <1>3, <1>4, <1>5

\* The other strategy reads its balance or begins a transaction.
LEMMA OtherStagesOrReads ==
    ASSUME CapitalInv, UNCHANGED ticksInTime,
           OtherReads \/ OtherReserves \/ OtherBinds \/ OtherReleases
    PROVE  CapitalInv'
<1> USE DEF CapitalInv
<1> DEFINE i == other.cycle
<1>1. ASSUME NEW rows \in [Intents -> Rows], NEW then \in OtherPlaces, Stage("other", rows, then)
      PROVE  tx'["other"] = [open |-> TRUE, rows |-> rows, then |-> then]
  BY <1>1 DEF Stage, CapitalTypeOK, Writers
<1>2. ASSUME other.pc # "idle"
      PROVE  i \in Others /\ i \in Intents /\ other.reading \in Readings
  BY <1>2 DEF OtherKnows, Intents, CapitalTypeOK, OtherPlaces
<1>3. CASE OtherReads
  <2>1. PICK j \in Others :
          /\ holds[j].state = "none"
          /\ other' = [pc |-> "reserve", cycle |-> j, reading |-> [value |-> Available, at |-> now]]
    BY <1>3 DEF OtherReads
  <2>2. ~tx["other"].open /\ UNCHANGED <<holds, tx, engine, position, orders, now, faults>>
    BY <1>3 DEF OtherReads, OtherAt
  <2>3. Available \in Int /\ Available <= Wealth
    <3>1. Dollars(InUse) \in Nat
      BY DollarsFacts DEF InUse
    <3> QED BY <3>1, CarryAssumptions DEF Available
  <2>4. other' \in OtherPlaces
    BY <2>1, <2>3 DEF OtherPlaces, Readings, CapitalTypeOK
  <2>5. OtherKnows'
    BY <2>1, <2>2 DEF OtherKnows
  <2>6. CapitalTypeOK' /\ OneWriter'
    BY <2>2, <2>4 DEF CapitalTypeOK, OneWriter
  <2>7. OtherStaged'
    BY <2>2 DEF OtherStaged
  <2>8. CarryStaged'
    BY <2>2 DEF CarryStaged, Sweeps, Adds, Binds, Frees, AllBut, AllButLapsed, Lapses
  <2>9. /\ EngineKnows' /\ OrdersKnown' /\ BoundInTime' /\ OrdersAreCovered'
        /\ HeldPairIsCovered' /\ PromisesFit'
    BY <2>2 DEF EngineKnows, OrdersKnown, BoundInTime, OrdersAreCovered,
           HeldPairIsCovered, PromisesFit, Spending, Open, Live
  <2> QED BY <2>5, <2>6, <2>7, <2>8, <2>9
<1>4. CASE OtherReserves
  <2> DEFINE r == Reserved(holds, i, other.reading, Open, now)
             then == IF i \in Live(r) THEN At("bind", i) ELSE Idle
  <2>1. other.pc = "reserve" /\ UNCHANGED <<holds, other, orders, now>> /\ Stage("other", r, then)
    BY <1>4 DEF OtherReserves, OtherAt
  <2>2. i \in Others /\ i \in Intents /\ holds[i].state = "none" /\ other.reading \in Readings
    BY <2>1, <1>2 DEF OtherKnows
  <2>3. /\ r \in [Intents -> Rows]
        /\ i \notin Live(r) => Sweeps(holds, r)
        /\ i \in Live(r) => Adds(holds, r, i)
    BY <2>2, ReservedRows
  <2> HIDE DEF r
  <2>4. then \in OtherPlaces
    BY <2>2, PlacesExist
  <2>5. tx'["other"] = [open |-> TRUE, rows |-> r, then |-> then]
    BY <1>1, <2>1, <2>3, <2>4
  <2>6. OtherStaged'
    <3>1. other' = other /\ tx'["other"].rows = r /\ tx'["other"].then = then
      BY <2>1, <2>5
    <3>2. CASE i \in Live(r)
      <4>1. then.pc = "bind" /\ then.cycle = i
        BY <3>2 DEF At
      <4>2. Adds(holds, r, i)
        BY <2>3, <3>2
      <4> HIDE DEF then
      <4> QED BY <2>1, <2>2, <3>1, <4>1, <4>2 DEF OtherStaged, Adds, AllButLapsed, Lapses
    <3>3. CASE i \notin Live(r)
      <4>1. then.pc = "idle"
        BY <3>3 DEF Idle
      <4> HIDE DEF then
      <4> QED BY <2>1, <2>2, <2>3, <3>1, <3>3, <4>1 DEF OtherStaged, Sweeps, Lapses
    <3> QED BY <3>2, <3>3
  <2> HIDE DEF then
  <2> QED BY <1>4, <2>1, <2>3, <2>4, <2>6, OtherStages DEF OtherReserves
<1>5. CASE OtherBinds
  <2> DEFINE r == Bound(holds, i, 1)
             then == IF i \in Live(r) THEN At("send", i) ELSE Idle
  <2>1. other.pc = "bind" /\ UNCHANGED <<holds, other, orders, now>> /\ Stage("other", r, then)
    BY <1>5 DEF OtherBinds, OtherAt
  <2>2. i \in Others /\ i \in Intents
    BY <2>1, <1>2
  <2>3. /\ r \in [Intents -> Rows]
        /\ holds[i].state = "RESERVED" => Binds(holds, r, i)
        /\ holds[i].state # "RESERVED" => r = holds
    BY <2>2, BoundRows
  <2> HIDE DEF r
  <2>4. then \in OtherPlaces
    BY <2>2, PlacesExist
  <2>5. tx'["other"] = [open |-> TRUE, rows |-> r, then |-> then]
    BY <1>1, <2>1, <2>3, <2>4
  <2>6. OtherStaged'
    <3>1. other' = other /\ tx'["other"].rows = r /\ tx'["other"].then = then
      BY <2>1, <2>5
    <3>2. CASE holds[i].state = "RESERVED"
      <4>1. Binds(holds, r, i)
        BY <2>3, <3>2
      <4>2. i \in Live(r)
        BY <4>1, <2>2 DEF Binds, Live
      <4>3. then.pc = "send" /\ then.cycle = i
        BY <4>2 DEF At
      <4> HIDE DEF then
      <4> QED BY <2>1, <2>2, <3>1, <4>1, <4>3 DEF OtherStaged, Binds, AllBut
    <3>3. CASE holds[i].state # "RESERVED"
      <4>1. r = holds
        BY <2>3, <3>3
      <4>2. CASE i \in Live(r)
        BY <2>1, <3>3, <4>1, <4>2 DEF Live, OtherKnows
      <4>3. CASE i \notin Live(r)
        <5>1. then.pc = "idle"
          BY <4>3 DEF Idle
        <5> HIDE DEF then
        <5> QED BY <2>1, <2>2, <3>1, <4>1, <5>1 DEF OtherStaged, Sweeps, Lapses
      <4> QED BY <4>2, <4>3
    <3> QED BY <3>2, <3>3
  <2> HIDE DEF then
  <2> QED BY <1>5, <2>1, <2>3, <2>4, <2>6, OtherStages DEF OtherBinds
<1>6. CASE OtherReleases
  <2> DEFINE r == Released(holds, i, Open)
             then == IF i \in Live(r) THEN other ELSE Idle
  <2>1. /\ other.pc = "release" /\ ~orders[i].filled /\ UNCHANGED <<holds, other, orders, now>>
        /\ Stage("other", r, then)
    BY <1>6 DEF OtherReleases, OtherAt
  <2>2. i \in Others /\ i \in Intents /\ holds[i].state = "COMMITTED"
    BY <2>1, <1>2 DEF OtherKnows
  <2>3. /\ r \in [Intents -> Rows]
        /\ ~orders[i].open => Frees(holds, r, i)
        /\ orders[i].open => r = holds
    BY <2>2, ReleasedRows DEF Live
  <2> HIDE DEF r
  <2>4. then \in OtherPlaces
    BY <2>2, PlacesExist DEF CapitalTypeOK
  <2>5. tx'["other"] = [open |-> TRUE, rows |-> r, then |-> then]
    BY <1>1, <2>1, <2>3, <2>4
  <2>6. OtherStaged'
    <3>1. other' = other /\ tx'["other"].rows = r /\ tx'["other"].then = then
      BY <2>1, <2>5
    <3>2. CASE orders[i].open
      <4>1. r = holds
        BY <2>3, <3>2
      <4>2. then = other
        BY <4>1, <2>2 DEF Live
      <4> HIDE DEF then
      <4> QED BY <2>1, <2>2, <3>1, <4>1, <4>2 DEF OtherStaged, Sweeps, Lapses
    <3>3. CASE ~orders[i].open
      <4>1. Frees(holds, r, i)
        BY <2>3, <3>3
      <4>2. then.pc = "idle"
        BY <4>1 DEF Frees, Live, Idle
      <4> HIDE DEF then
      <4> QED BY <2>1, <2>2, <3>1, <4>1, <4>2 DEF OtherStaged, Frees, AllBut, Live
    <3> QED BY <3>2, <3>3
  <2> HIDE DEF then
  <2> QED BY <1>6, <2>1, <2>3, <2>4, <2>6, OtherStages DEF OtherReleases
<1> QED BY <1>3, <1>4, <1>5, <1>6

\* What publishing staged rows does.
LEMMA StagedRows ==
    ASSUME CapitalInv, NEW r \in [Intents -> Rows], NEW k,
           Sweeps(holds, r) \/ Adds(holds, r, k) \/ Binds(holds, r, k) \/ Frees(holds, r, k)
    PROVE  /\ \A i \in Intents : r[i].state = "none" => holds[i].state = "none"
           /\ \A i \in Intents \ {k} : r[i] = holds[i] \/ Lapses(holds, r, i)
           /\ \A i \in Live(holds) : orders[i].open => i \in Live(r)
           /\ \A i \in Intents : r[i].state = "RESERVED" =>
                r[i] = holds[i] \/ holds[i].state = "none"
           /\ Live(r) = {} \/ Dollars(Live(r)) + Buffer <= Wealth
<1> USE DEF CapitalInv
<1>1. /\ \A i \in Intents : r[i].state = "none" => holds[i].state = "none"
      /\ \A i \in Intents \ {k} : r[i] = holds[i] \/ Lapses(holds, r, i)
      /\ \A i \in Intents : r[i].state = "RESERVED" => r[i] = holds[i] \/ holds[i].state = "none"
  BY DEF Sweeps, Adds, Binds, Frees, AllBut, AllButLapsed, Lapses, Live
<1>2. ASSUME NEW i \in Live(holds), orders[i].open PROVE i \in Live(r)
  <2>1. i \in Intents
    BY DEF Live
  <2> QED BY <1>2, <2>1 DEF Sweeps, Adds, Binds, Frees, AllBut, AllButLapsed, Lapses, Live
<1>3. CASE Adds(holds, r, k)
  BY <1>1, <1>2, <1>3 DEF Adds
<1>4. CASE Sweeps(holds, r) \/ Binds(holds, r, k) \/ Frees(holds, r, k)
  <2>1. Live(r) \subseteq Live(holds)
    BY <1>4 DEF Sweeps, Binds, Frees, AllBut, Lapses, Live
  <2>2. Live(holds) \subseteq Intents
    BY DEF Live
  <2>3. /\ Dollars(Live(r)) <= Dollars(Live(holds)) /\ Dollars(Live(holds)) \in Nat
        /\ Dollars(Live(r)) \in Nat
    BY <2>1, <2>2, DollarsFacts
  <2>4. Buffer \in Nat /\ Wealth \in Nat
    BY HoldAssumptions, CarryAssumptions
  <2>5. Live(r) = {} \/ Dollars(Live(r)) + Buffer <= Wealth
    <3> DEFINE a == Dollars(Live(r))
               b == Dollars(Live(holds))
    <3>1. Live(r) = {} \/ b + Buffer <= Wealth
      BY <2>1 DEF PromisesFit
    <3>2. a <= b /\ a \in Nat /\ b \in Nat
      BY <2>3
    <3> HIDE DEF a, b
    <3>3. Live(r) = {} \/ a + Buffer <= Wealth
      BY <2>4, <3>1, <3>2
    <3> QED BY <3>3 DEF a
  <2> QED BY <1>1, <1>2, <2>5
<1> QED BY <1>3, <1>4

\* The engine publishes: what was decided on the committed rows is still true of them.
LEMMA CarryCommits ==
    ASSUME CapitalInv, UNCHANGED ticksInTime, EngineCommits
    PROVE  CapitalInv'
<1> USE DEF CapitalInv
<1> DEFINE r == tx["carry"].rows
           then == tx["carry"].then
           k == engine.cycle
<1>1. /\ tx["carry"].open /\ holds' = r /\ engine' = then /\ tx' = [tx EXCEPT !["carry"] = NoTx]
      /\ UNCHANGED <<other, position, orders, now, faults>>
  BY DEF EngineCommits, Publish
<1>2. /\ r \in [Intents -> Rows] /\ then \in CarryPlaces /\ ~tx["other"].open
      /\ tx' = [w \in Writers |-> tx'[w]] /\ tx'["carry"] = NoTx /\ tx'["other"] = tx["other"]
  BY <1>1 DEF CapitalTypeOK, OneWriter, Writers
<1> HIDE DEF r, then
<1>3. CapitalTypeOK' /\ OneWriter' /\ CarryStaged' /\ OtherStaged'
  <2>1. CapitalTypeOK'
    BY <1>1, <1>2, PlacesExist DEF CapitalTypeOK
  <2>2. OneWriter'
    BY <1>1, <1>2, PlacesExist DEF OneWriter, Writers
  <2>3. CarryStaged' /\ OtherStaged'
    BY <1>1, <1>2, PlacesExist DEF CarryStaged, OtherStaged
  <2> QED BY <2>1, <2>2, <2>3
<1>4. \/ /\ Sweeps(holds, r)
         /\ then.pc \in {"idle", "flat", "sync"} /\ then.cycle = None
      \/ /\ \E c \in Carry : Binds(holds, r, c)
         /\ then.pc = "sync" /\ then.cycle = None
      \/ /\ position = None /\ \E c \in Carry : Frees(holds, r, c)
         /\ then.pc = "flat" /\ then.cycle = None
      \/ /\ engine.pc = "reserve" /\ Adds(holds, r, k)
         /\ then.pc = "enter" /\ then.cycle = k /\ now < r[k].expires
  BY <1>1 DEF CarryStaged, r, then
<1>5. /\ \A i \in Intents : r[i].state = "none" => holds[i].state = "none"
      /\ \A i \in Others : r[i] = holds[i] \/ Lapses(holds, r, i)
      /\ \A i \in Live(holds) : orders[i].open => i \in Live(r)
      /\ \A i \in Intents : r[i].state = "RESERVED" => r[i] = holds[i] \/ holds[i].state = "none"
      /\ Live(r) = {} \/ Dollars(Live(r)) + Buffer <= Wealth
      /\ position \in Live(holds) \ {None} => position \in Live(r) \/ Lapses(holds, r, position)
  <2>1. Others \subseteq Intents /\ Carry \subseteq Intents /\ Carry \cap Others = {}
    BY HoldAssumptions DEF Intents
  <2>2. CASE Sweeps(holds, r)
    <3>1. position \in Live(holds) => position \in Live(r) \/ Lapses(holds, r, position)
      BY <2>2 DEF Sweeps, Live
    <3> QED BY <1>2, <2>1, <2>2, <3>1, StagedRows DEF Sweeps
  <2>3. CASE \E c \in Carry : Binds(holds, r, c)
    <3>1. PICK c \in Carry : Binds(holds, r, c)
      BY <2>3
    <3>2. position \in Live(holds) => position \in Live(r)
      BY <3>1 DEF Binds, AllBut, Live
    <3> QED BY <1>2, <2>1, <3>1, <3>2, StagedRows DEF Binds, AllBut
  <2>4. CASE position = None /\ \E c \in Carry : Frees(holds, r, c)
    <3>1. PICK c \in Carry : Frees(holds, r, c)
      BY <2>4
    <3> QED BY <1>2, <2>1, <2>4, <3>1, StagedRows DEF Frees, AllBut
  <2>5. CASE engine.pc = "reserve" /\ Adds(holds, r, k)
    <3>1. k \in Carry /\ position = None
      BY <2>5 DEF EngineKnows
    <3>2. \A i \in Others : r[i] = holds[i] \/ Lapses(holds, r, i)
      BY <2>1, <2>5, <3>1 DEF Adds, AllButLapsed
    <3> QED BY <1>2, <2>1, <2>5, <3>1, <3>2, StagedRows
  <2> QED BY <1>4, <2>2, <2>3, <2>4, <2>5
<1>6. EngineKnows'
  <2>1. CASE then.pc \in {"idle", "flat", "sync"} /\ then.cycle = None
    BY <1>1, <2>1 DEF EngineKnows
  <2>2. CASE /\ engine.pc = "reserve" /\ Adds(holds, r, k)
             /\ then.pc = "enter" /\ then.cycle = k /\ now < r[k].expires
    <3>1. k \in Carry /\ position = None /\ orders[k].sent = 0
      BY <2>2 DEF EngineKnows, OrdersKnown, Intents, CapitalTypeOK, OrderRows
    <3> QED BY <1>1, <2>2, <3>1 DEF EngineKnows, Adds
  <2> QED BY <1>4, <2>1, <2>2
<1>7. OtherKnows'
  <2>1. \A i \in Others : i \in Intents
    BY DEF Intents
  <2> QED BY <1>1, <1>5, <2>1 DEF OtherKnows, Lapses
<1>8. OrdersKnown'
  BY <1>1, <1>5 DEF OrdersKnown
<1>9. BoundInTime'
  <2>1. \A i \in Carry : i \in Intents
    BY DEF Intents
  <2> QED BY <1>1, <1>5, <2>1 DEF BoundInTime, OrdersKnown
<1>10. OrdersAreCovered'
  BY <1>1, <1>5 DEF OrdersAreCovered, Spending, Open
<1>11. HeldPairIsCovered'
  <2>1. ASSUME ticksInTime, position # None PROVE position \in Live(r)
    <3>1. position \in Live(holds) /\ position \in Carry /\ orders[position].sent > 0
      BY <2>1 DEF HeldPairIsCovered, OrdersKnown, CapitalTypeOK
    <3>2. ~Lapses(holds, r, position)
      <4>1. holds[position].state = "RESERVED" => now < holds[position].expires
        BY <2>1, <3>1 DEF BoundInTime
      <4>2. now \in Nat /\ holds[position].expires \in Nat
        BY <3>1 DEF CapitalTypeOK, Rows, Intents
      <4> QED BY <4>1, <4>2 DEF Lapses
    <3> QED BY <1>5, <2>1, <3>1, <3>2
  <2> QED BY <1>1, <2>1 DEF HeldPairIsCovered, Live
<1>12. PromisesFit'
  BY <1>1, <1>5 DEF PromisesFit, Live
<1> QED BY <1>3, <1>6, <1>7, <1>8, <1>9, <1>10, <1>11, <1>12

\* The other strategy publishes; a sweep of its never takes a hold the engine is
\* about to use, or the hold of a pair bound in time.
LEMMA OtherCommitsRows ==
    ASSUME CapitalInv, UNCHANGED ticksInTime, OtherCommits
    PROVE  CapitalInv'
<1> USE DEF CapitalInv
<1> DEFINE r == tx["other"].rows
           then == tx["other"].then
           k == other.cycle
<1>1. /\ tx["other"].open /\ holds' = r /\ other' = then /\ tx' = [tx EXCEPT !["other"] = NoTx]
      /\ UNCHANGED <<engine, position, orders, now, faults>>
  BY DEF OtherCommits, Publish
<1>2. /\ r \in [Intents -> Rows] /\ then \in OtherPlaces /\ ~tx["carry"].open
      /\ tx' = [w \in Writers |-> tx'[w]] /\ tx'["other"] = NoTx /\ tx'["carry"] = tx["carry"]
  BY <1>1 DEF CapitalTypeOK, OneWriter, Writers
<1> HIDE DEF r, then
<1>3. CapitalTypeOK' /\ OneWriter' /\ CarryStaged' /\ OtherStaged'
  <2>1. CapitalTypeOK'
    BY <1>1, <1>2, PlacesExist DEF CapitalTypeOK
  <2>2. OneWriter'
    BY <1>1, <1>2, PlacesExist DEF OneWriter, Writers
  <2>3. CarryStaged' /\ OtherStaged'
    BY <1>1, <1>2, PlacesExist DEF CarryStaged, OtherStaged
  <2> QED BY <2>1, <2>2, <2>3
<1>4. /\ k \in Others
      /\ \/ /\ Sweeps(holds, r)
            /\ then.pc = "idle" \/ (other.pc = "release" /\ then = other)
         \/ other.pc = "reserve" /\ Adds(holds, r, k) /\ then.pc = "bind" /\ then.cycle = k
         \/ other.pc = "bind" /\ Binds(holds, r, k) /\ then.pc = "send" /\ then.cycle = k
         \/ Frees(holds, r, k) /\ ~orders[k].filled /\ then.pc = "idle"
  BY <1>1 DEF OtherStaged, r, then
<1>5. k \in Intents /\ k \notin Carry /\ Others \subseteq Intents /\ Carry \subseteq Intents
  BY <1>4, HoldAssumptions DEF Intents
<1>6. /\ \A i \in Intents : r[i].state = "none" => holds[i].state = "none"
      /\ \A i \in Intents \ {k} : r[i] = holds[i] \/ Lapses(holds, r, i)
      /\ \A i \in Live(holds) : orders[i].open => i \in Live(r)
      /\ \A i \in Intents : r[i].state = "RESERVED" => r[i] = holds[i] \/ holds[i].state = "none"
      /\ Live(r) = {} \/ Dollars(Live(r)) + Buffer <= Wealth
  BY <1>2, <1>4, StagedRows
<1>7. \A i \in Carry : r[i] = holds[i] \/ Lapses(holds, r, i)
  BY <1>5, <1>6
<1>8. EngineKnows'
  <2>1. ASSUME engine.pc \in {"reserve", "enter", "opening"} PROVE engine.cycle \in Carry
    BY <2>1 DEF EngineKnows
  <2>2. ASSUME engine.pc = "enter" PROVE ~Lapses(holds, r, engine.cycle)
    <3>1. now \in Nat /\ holds[engine.cycle].expires \in Nat
      BY <1>5, <2>1, <2>2 DEF CapitalTypeOK, Rows
    <3> QED BY <2>2, <3>1 DEF EngineKnows, Lapses
  <2>3. ASSUME engine.pc = "opening", ticksInTime PROVE ~Lapses(holds, r, engine.cycle)
    <3>1. now \in Nat /\ holds[engine.cycle].expires \in Nat
      BY <1>5, <2>1, <2>3 DEF CapitalTypeOK, Rows
    <3>2. holds[engine.cycle].state = "RESERVED" => now < holds[engine.cycle].expires
      BY <2>1, <2>3 DEF EngineKnows, BoundInTime
    <3> QED BY <3>1, <3>2 DEF Lapses
  <2>4. ASSUME engine.pc = "reserve" PROVE ~Lapses(holds, r, engine.cycle)
    BY <2>4 DEF EngineKnows, Lapses
  <2> QED BY <1>1, <1>7, <2>1, <2>2, <2>3, <2>4 DEF EngineKnows, Live
<1>9. OtherKnows'
  <2>1. \A i \in Others \ {k} : holds[i].state = "COMMITTED" => r[i].state = "COMMITTED"
    BY <1>5, <1>6 DEF Lapses
  <2>2. /\ then.pc # "idle" => then.cycle \in Others
        /\ then.pc # "reserve"
        /\ then.pc = "bind" => r[then.cycle].state # "COMMITTED"
        /\ then.pc \in {"send", "release"} => r[then.cycle].state = "COMMITTED"
    <3>1. CASE other.pc = "release" /\ then = other /\ Sweeps(holds, r)
      BY <1>4, <1>5, <3>1 DEF OtherKnows, Sweeps, Lapses
    <3>2. CASE then.pc = "idle"
      BY <3>2
    <3>3. CASE Adds(holds, r, k) /\ then.pc = "bind" /\ then.cycle = k
      BY <1>4, <3>3 DEF Adds
    <3>4. CASE Binds(holds, r, k) /\ then.pc = "send" /\ then.cycle = k
      BY <1>4, <3>4 DEF Binds
    <3> QED BY <1>4, <3>1, <3>2, <3>3, <3>4
  <2>3. orders[k].open \/ orders[k].filled => r[k].state = "COMMITTED"
    BY <1>4, <1>5 DEF OtherKnows, Sweeps, Lapses, Adds, Binds, Frees
  <2> QED BY <1>1, <2>1, <2>2, <2>3 DEF OtherKnows
<1>10. OrdersKnown'
  BY <1>1, <1>6 DEF OrdersKnown
<1>11. BoundInTime'
  BY <1>1, <1>5, <1>6 DEF BoundInTime, OrdersKnown
<1>12. OrdersAreCovered'
  BY <1>1, <1>6 DEF OrdersAreCovered, Spending, Open
<1>13. HeldPairIsCovered'
  <2>1. ASSUME ticksInTime, position # None PROVE position \in Live(r)
    <3>1. position \in Live(holds) /\ position \in Carry /\ orders[position].sent > 0
      BY <2>1 DEF HeldPairIsCovered, OrdersKnown, CapitalTypeOK
    <3>2. ~Lapses(holds, r, position)
      <4>1. holds[position].state = "RESERVED" => now < holds[position].expires
        BY <2>1, <3>1 DEF BoundInTime
      <4>2. now \in Nat /\ holds[position].expires \in Nat
        BY <1>5, <3>1 DEF CapitalTypeOK, Rows
      <4> QED BY <4>1, <4>2 DEF Lapses
    <3> QED BY <1>7, <3>1, <3>2 DEF Live
  <2> QED BY <1>1, <2>1 DEF HeldPairIsCovered, Live
<1>14. PromisesFit'
  BY <1>1, <1>6 DEF PromisesFit, Live
<1> QED BY <1>3, <1>8, <1>9, <1>10, <1>11, <1>12, <1>13, <1>14

-------------------------------------------------------------------------------
(* Orders and time.                                                        *)

\* The row of an order just sent.
LEMMA SentRows ==
    ASSUME CapitalTypeOK, NEW i \in Intents, orders' = Sent(i)
    PROVE  /\ orders' \in [Intents -> OrderRows]
           /\ orders'[i].sent = orders[i].sent + 1 /\ orders'[i].open
           /\ orders'[i].filled = orders[i].filled
           /\ \A j \in Intents \ {i} : orders'[j] = orders[j]
<1> DEFINE m == [orders[i] EXCEPT !.sent = @ + 1]
           new == [m EXCEPT !.open = TRUE]
<1>1. orders \in [Intents -> OrderRows]
  BY DEF CapitalTypeOK
<1>2. m \in OrderRows /\ m.sent = orders[i].sent + 1 /\ m.filled = orders[i].filled
  BY <1>1 DEF OrderRows
<1>3. new \in OrderRows /\ new.sent = m.sent /\ new.open /\ new.filled = m.filled
  <2> HIDE DEF m
  <2> QED BY <1>2 DEF OrderRows
<1>4. orders' = [orders EXCEPT ![i] = new]
  BY <1>1 DEF Sent
<1> HIDE DEF new, m
<1> QED BY <1>1, <1>2, <1>3, <1>4

\* Orders are only written while no transaction is open.
LEMMA Unlocked ==
    ASSUME CapitalInv, UNCHANGED <<holds, tx>>, Locked("log"),
           orders' \in [Intents -> OrderRows], engine' \in CarryPlaces, other' \in OtherPlaces,
           UNCHANGED <<position, now, faults, ticksInTime>>
    PROVE  CapitalTypeOK' /\ OneWriter' /\ CarryStaged' /\ OtherStaged' /\ PromisesFit'
BY DEF CapitalInv, CapitalTypeOK, OneWriter, CarryStaged, OtherStaged, PromisesFit, Locked, Writers, Live

\* An order is sent: an entry on a live hold, a close for the pair.
LEMMA OrdersAreSent ==
    ASSUME CapitalInv, UNCHANGED ticksInTime, EntryOrder \/ CloseOrder \/ OtherSends
    PROVE  CapitalInv'
<1> USE DEF CapitalInv
<1>0. Carry \subseteq Intents /\ Others \subseteq Intents /\ Carry \cap Others = {} /\ None \notin Carry
  BY HoldAssumptions DEF Intents, None
<1>1. CASE EntryOrder
  <2> DEFINE i == engine.cycle
  <2>1. /\ engine.pc = "enter" /\ Locked("log") /\ orders' = Sent(i) /\ engine' = At("opening", i)
        /\ UNCHANGED <<holds, tx, other, position, now, faults>>
    BY <1>1 DEF EntryOrder, EngineAt
  <2>2. /\ i \in Carry /\ holds[i].state = "RESERVED" /\ now < holds[i].expires /\ position = None
        /\ orders[i].sent = 0
    BY <2>1 DEF EngineKnows
  <2>3. /\ orders' \in [Intents -> OrderRows] /\ orders'[i].sent = 1 /\ orders'[i].open
        /\ \A j \in Intents \ {i} : orders'[j] = orders[j]
    BY <1>0, <2>1, <2>2, SentRows
  <2>4. engine' \in CarryPlaces /\ engine'.pc = "opening" /\ engine'.cycle = i
    BY <2>1, <2>2, PlacesExist DEF At
  <2>5. CapitalTypeOK' /\ OneWriter' /\ CarryStaged' /\ OtherStaged' /\ PromisesFit'
    BY <2>1, <2>3, <2>4, Unlocked DEF CapitalTypeOK
  <2> HIDE DEF i
  <2>6. EngineKnows'
    BY <1>0, <2>1, <2>2, <2>3, <2>4 DEF EngineKnows, Live
  <2>7. OtherKnows'
    BY <1>0, <2>1, <2>2, <2>3 DEF OtherKnows
  <2>8. OrdersKnown' /\ BoundInTime'
    BY <1>0, <2>1, <2>2, <2>3 DEF OrdersKnown, BoundInTime
  <2>9. OrdersAreCovered' /\ HeldPairIsCovered'
    BY <1>0, <2>1, <2>2, <2>3 DEF OrdersAreCovered, HeldPairIsCovered, Spending, Open, Live
  <2> QED BY <2>5, <2>6, <2>7, <2>8, <2>9
<1>2. CASE CloseOrder
  <2>1. /\ engine.pc = "decide" /\ position # None /\ orders[position].filled /\ Locked("log")
        /\ orders' = Sent(position) /\ engine' = At("closing", position)
        /\ UNCHANGED <<holds, tx, other, position, now, faults>>
    BY <1>2 DEF CloseOrder, EngineAt
  <2>2. position \in Carry /\ orders[position].sent > 0 /\ orders[position].sent \in Nat
    BY <1>0, <2>1 DEF CapitalTypeOK, OrdersKnown, OrderRows
  <2>3. /\ orders' \in [Intents -> OrderRows] /\ orders'[position].sent > 1 /\ orders'[position].open
        /\ \A j \in Intents \ {position} : orders'[j] = orders[j]
    BY <1>0, <2>1, <2>2, SentRows
  <2>4. engine' \in CarryPlaces /\ engine'.pc = "closing" /\ engine'.cycle = position
    BY <2>1, <2>2, PlacesExist DEF At
  <2>5. CapitalTypeOK' /\ OneWriter' /\ CarryStaged' /\ OtherStaged' /\ PromisesFit'
    BY <2>1, <2>3, <2>4, Unlocked DEF CapitalTypeOK
  <2>6. EngineKnows'
    BY <1>0, <2>1, <2>2, <2>4 DEF EngineKnows
  <2>7. OtherKnows'
    BY <1>0, <2>1, <2>2, <2>3 DEF OtherKnows
  <2>8. OrdersKnown'
    <3>1. orders'[position].sent > 0
      BY <1>0, <2>2, <2>3 DEF OrderRows
    <3>2. holds[position].state # "none"
      BY <1>0, <2>2 DEF OrdersKnown
    <3> QED BY <1>0, <2>1, <2>2, <2>3, <3>1, <3>2 DEF OrdersKnown
  <2>9. BoundInTime'
    BY <1>0, <2>1, <2>2, <2>3 DEF BoundInTime
  <2>10. OrdersAreCovered' /\ HeldPairIsCovered'
    BY <1>0, <2>1, <2>2, <2>3 DEF OrdersAreCovered, HeldPairIsCovered, Spending, Open, Live
  <2> QED BY <2>5, <2>6, <2>7, <2>8, <2>9, <2>10
<1>3. CASE OtherSends
  <2> DEFINE i == other.cycle
  <2>1. /\ other.pc = "send" /\ Locked("log") /\ orders' = Sent(i) /\ other' = At("release", i)
        /\ UNCHANGED <<holds, tx, engine, position, now, faults>>
    BY <1>3 DEF OtherSends, OtherAt
  <2>2. i \in Others /\ i \notin Carry /\ holds[i].state = "COMMITTED"
    BY <1>0, <2>1 DEF OtherKnows
  <2>3. /\ orders' \in [Intents -> OrderRows] /\ orders'[i].sent > 0
        /\ \A j \in Intents \ {i} : orders'[j] = orders[j]
    <3>1. orders[i].sent \in Nat
      BY <1>0, <2>2 DEF CapitalTypeOK, OrderRows
    <3> QED BY <1>0, <2>1, <2>2, <3>1, SentRows
  <2>4. other' \in OtherPlaces /\ other'.pc = "release" /\ other'.cycle = i
    BY <2>1, <2>2, PlacesExist DEF At
  <2>5. CapitalTypeOK' /\ OneWriter' /\ CarryStaged' /\ OtherStaged' /\ PromisesFit'
    BY <2>1, <2>3, <2>4, Unlocked DEF CapitalTypeOK
  <2> HIDE DEF i
  <2>6. EngineKnows'
    BY <1>0, <2>1, <2>2, <2>3 DEF EngineKnows, Live
  <2>7. OtherKnows'
    BY <1>0, <2>1, <2>2, <2>3, <2>4 DEF OtherKnows
  <2>8. OrdersKnown' /\ BoundInTime'
    <3>1. position # None => position \in Carry
      BY DEF CapitalTypeOK
    <3> QED BY <1>0, <2>1, <2>2, <2>3, <3>1 DEF OrdersKnown, BoundInTime
  <2>9. OrdersAreCovered' /\ HeldPairIsCovered'
    BY <1>0, <2>1, <2>2, <2>3 DEF OrdersAreCovered, HeldPairIsCovered, Spending, Open, Live
  <2> QED BY <2>5, <2>6, <2>7, <2>8, <2>9
<1> QED BY <1>1, <1>2, <1>3

\* An order ends, or the other strategy sells what it holds.
LEMMA OrdersEnd ==
    ASSUME CapitalInv, UNCHANGED ticksInTime, OrderEnds \/ OtherLeaves
    PROVE  CapitalInv'
<1> USE DEF CapitalInv
<1>0. Carry \subseteq Intents /\ Others \subseteq Intents /\ Carry \cap Others = {} /\ None \notin Carry
  BY HoldAssumptions DEF Intents, None
<1>2. CASE OrderEnds
  <2>1. PICK i \in Open, f \in BOOLEAN :
          orders' = [orders EXCEPT ![i].open = FALSE, ![i].filled = f]
    BY <1>2 DEF OrderEnds
  <2>2. i \in Intents /\ orders[i].open /\ Locked("log")
        /\ UNCHANGED <<holds, tx, engine, other, position, now, faults>>
    BY <1>2 DEF OrderEnds, Open
  <2>4. /\ orders' \in [Intents -> OrderRows]
        /\ orders'[i].sent = orders[i].sent /\ ~orders'[i].open
        /\ \A j \in Intents \ {i} : orders'[j] = orders[j]
    <3> DEFINE m == [orders[i] EXCEPT !.open = FALSE]
               new == [m EXCEPT !.filled = f]
    <3>1. orders \in [Intents -> OrderRows]
      BY DEF CapitalTypeOK
    <3>2. m \in OrderRows /\ m.sent = orders[i].sent /\ ~m.open
      BY <2>2, <3>1 DEF OrderRows
    <3>3. new \in OrderRows /\ new.sent = m.sent /\ ~new.open
      <4> HIDE DEF m
      <4> QED BY <3>2 DEF OrderRows
    <3>4. orders' = [orders EXCEPT ![i] = new]
      BY <2>1, <2>2, <3>1
    <3> HIDE DEF new, m
    <3> QED BY <2>2, <3>1, <3>2, <3>3, <3>4
  <2>5. CapitalTypeOK' /\ OneWriter' /\ CarryStaged' /\ OtherStaged' /\ PromisesFit'
    BY <2>2, <2>4, Unlocked DEF CapitalTypeOK
  <2>6. EngineKnows'
    BY <1>0, <2>2, <2>4 DEF EngineKnows, Live
  <2>7. OtherKnows'
    BY <1>0, <2>2, <2>4 DEF OtherKnows
  <2>8. OrdersKnown' /\ BoundInTime'
    <3>1. position # None => position \in Carry
      BY DEF CapitalTypeOK
    <3> QED BY <1>0, <2>2, <2>4, <3>1 DEF OrdersKnown, BoundInTime
  <2>9. OrdersAreCovered' /\ HeldPairIsCovered'
    BY <1>0, <2>2, <2>4 DEF OrdersAreCovered, HeldPairIsCovered, Spending, Open, Live
  <2> QED BY <2>5, <2>6, <2>7, <2>8, <2>9
<1>3. CASE OtherLeaves
  <2>1. PICK i \in Others : orders' = [orders EXCEPT ![i].filled = FALSE]
    BY <1>3 DEF OtherLeaves
  <2>2. UNCHANGED <<holds, tx, engine, other, position, now, faults>>
    BY <1>3 DEF OtherLeaves
  <2>3. /\ orders' \in [Intents -> OrderRows]
        /\ \A j \in Intents : /\ orders'[j].sent = orders[j].sent /\ orders'[j].open = orders[j].open
                              /\ orders'[j].filled => orders[j].filled
    <3> DEFINE new == [orders[i] EXCEPT !.filled = FALSE]
    <3>1. orders \in [Intents -> OrderRows] /\ i \in Intents
      BY <1>0 DEF CapitalTypeOK
    <3>2. /\ new \in OrderRows /\ ~new.filled
          /\ new.sent = orders[i].sent /\ new.open = orders[i].open
      BY <3>1 DEF OrderRows
    <3>3. orders' = [orders EXCEPT ![i] = new]
      BY <2>1, <3>1
    <3> HIDE DEF new
    <3> QED BY <3>1, <3>2, <3>3
  <2>4. CapitalTypeOK' /\ OneWriter' /\ PromisesFit'
    BY <2>2, <2>3 DEF CapitalTypeOK, OneWriter, PromisesFit, Live
  <2>5. CarryStaged'
    BY <2>2, <2>3, SMTT(30) DEF CarryStaged, Sweeps, Adds, Binds, Frees, AllBut, AllButLapsed, Lapses, Live
  <2>6. OtherStaged'
    BY <2>2, <2>3, SMTT(30) DEF OtherStaged, Sweeps, Adds, Binds, Frees, AllBut, AllButLapsed, Lapses, Live
  <2>7. EngineKnows'
    BY <1>0, <2>2, <2>3 DEF EngineKnows, Live
  <2>8. OtherKnows'
    BY <1>0, <2>2, <2>3 DEF OtherKnows
  <2>9. OrdersKnown' /\ BoundInTime'
    <3>1. position # None => position \in Carry
      BY DEF CapitalTypeOK
    <3> QED BY <1>0, <2>2, <2>3, <3>1 DEF OrdersKnown, BoundInTime
  <2>10. OrdersAreCovered' /\ HeldPairIsCovered'
    BY <1>0, <2>2, <2>3 DEF OrdersAreCovered, HeldPairIsCovered, Spending, Open, Live
  <2> QED BY <2>4, <2>5, <2>6, <2>7, <2>8, <2>9, <2>10
<1> QED BY <1>2, <1>3

\* Time passes: no later than the hold of an entry on its way allows.
LEMMA ClockTicks ==
    ASSUME CapitalInv, UNCHANGED ticksInTime, TimePasses
    PROVE  CapitalInv'
<1> USE DEF CapitalInv
<1>0. Carry \subseteq Intents /\ Others \subseteq Intents
  BY DEF Intents
<1>1. /\ now \in Nat /\ now' = now + 1
      /\ UNCHANGED <<holds, tx, engine, other, position, orders, faults>>
      /\ Entering => \A i \in Carry : InTime(holds[i]) /\ InTime(tx["carry"].rows[i])
      /\ ticksInTime => \A i \in Carry : orders[i].sent > 0 => InTime(holds[i])
  BY DEF TimePasses, CapitalTypeOK
<1>2. \A i \in Intents : holds[i].expires \in Nat /\ \A w \in Writers : tx[w].rows[i].expires \in Nat
  BY DEF CapitalTypeOK, Rows, Writers
<1>3. CapitalTypeOK' /\ OneWriter' /\ PromisesFit'
  BY <1>1 DEF CapitalTypeOK, OneWriter, PromisesFit, Live
<1>4. \A r, i : i \in Intents /\ Lapses(holds, r, i) => Lapses(holds, r, i)'
  BY <1>1, <1>2 DEF Lapses
<1>5. CarryStaged'
  <2> DEFINE r == tx["carry"].rows
             then == tx["carry"].then
  <2>1. CASE tx["carry"].open /\ then.pc = "enter"
    <3>1. /\ engine.pc = "reserve" /\ Adds(holds, r, engine.cycle) /\ then.cycle = engine.cycle
          /\ now < r[engine.cycle].expires /\ engine.cycle \in Carry
      BY <2>1 DEF CarryStaged, EngineKnows
    <3>2. now' < r[engine.cycle].expires
      <4>1. InTime(r[engine.cycle]) /\ r[engine.cycle].state = "RESERVED"
        BY <1>1, <2>1, <3>1 DEF Entering, Adds
      <4> QED BY <1>1, <4>1 DEF InTime
    <3> QED BY <1>1, <1>2, <2>1, <3>1, <3>2 DEF CarryStaged, Adds, AllButLapsed, Lapses
  <2>2. CASE tx["carry"].open /\ then.pc # "enter"
    BY <1>1, <1>2, <2>2 DEF CarryStaged, Sweeps, Binds, Frees, AllBut, Lapses, Live
  <2>3. CASE ~tx["carry"].open
    BY <1>1, <2>3 DEF CarryStaged
  <2> QED BY <2>1, <2>2, <2>3
<1>6. OtherStaged'
  BY <1>1, <1>2, SMTT(30) DEF OtherStaged, Sweeps, Adds, Binds, Frees, AllBut, AllButLapsed, Lapses, Live
<1>7. EngineKnows'
  <2>1. ASSUME engine.pc = "enter" PROVE now' < holds[engine.cycle].expires
    <3>1. engine.cycle \in Carry /\ holds[engine.cycle].state = "RESERVED"
      BY <2>1 DEF EngineKnows
    <3>2. InTime(holds[engine.cycle])
      BY <1>1, <2>1, <3>1 DEF Entering
    <3> QED BY <1>1, <3>1, <3>2 DEF InTime
  <2> QED BY <1>1, <2>1 DEF EngineKnows, Live
<1>8. OtherKnows' /\ OrdersKnown'
  BY <1>1 DEF OtherKnows, OrdersKnown
<1>9. BoundInTime'
  BY <1>1 DEF BoundInTime, InTime
<1>10. OrdersAreCovered' /\ HeldPairIsCovered'
  BY <1>1 DEF OrdersAreCovered, HeldPairIsCovered, Spending, Open, Live
<1> QED BY <1>3, <1>5, <1>6, <1>7, <1>8, <1>9, <1>10

-------------------------------------------------------------------------------

\* The invariant holds at the start ...
LEMMA CapitalStarts == CapitalInit => CapitalInv
<1> SUFFICES ASSUME CapitalInit PROVE CapitalInv
  OBVIOUS
<1> USE DEF CapitalInit
<1>1. NoRow \in Rows /\ NoRow.state = "none"
  BY DEF NoRow, Rows, NoLink
<1>2. /\ \A w \in Writers : tx[w] = NoTx /\ ~tx[w].open
      /\ tx = [w \in Writers |-> tx[w]]
  BY PlacesExist DEF Writers
<1>3. \A i \in Intents : holds[i].state = "none" /\ holds[i] \in Rows
  BY <1>1
<1>4. \A i \in Intents : orders[i].sent = 0 /\ ~orders[i].open /\ ~orders[i].filled
  OBVIOUS
<1>5. CapitalTypeOK
  <2>1. orders \in [Intents -> OrderRows]
    BY DEF OrderRows
  <2>2. holds \in [Intents -> Rows]
    BY <1>1
  <2> QED BY <1>2, <2>1, <2>2, PlacesExist DEF CapitalTypeOK, Writers
<1>6. OneWriter /\ CarryStaged /\ OtherStaged
  BY <1>2 DEF OneWriter, CarryStaged, OtherStaged, Writers
<1>7. EngineKnows
  BY DEF EngineKnows, Idle
<1>8. OtherKnows
  BY <1>4 DEF OtherKnows, Idle, Intents
<1>9. OrdersKnown /\ BoundInTime
  BY <1>4 DEF OrdersKnown, BoundInTime, Intents
<1>10. OrdersAreCovered /\ HeldPairIsCovered /\ PromisesFit
  BY <1>3, <1>4 DEF OrdersAreCovered, HeldPairIsCovered, PromisesFit, Spending, Open, Live
<1> QED BY <1>5, <1>6, <1>7, <1>8, <1>9, <1>10 DEF CapitalInv

\* ... and every step keeps it.
LEMMA CapitalSteps == CapitalInv /\ [CapitalNext]_capitalVars => CapitalInv'
<1> SUFFICES ASSUME CapitalInv, [CapitalNext]_capitalVars PROVE CapitalInv'
  OBVIOUS
<1>1. CASE UNCHANGED capitalVars
  <2> USE <1>1 DEF CapitalInv, capitalVars
  <2>1. CapitalTypeOK' /\ OneWriter' /\ EngineKnows' /\ OtherKnows' /\ OrdersKnown' /\ BoundInTime'
    BY DEF CapitalTypeOK, OneWriter, EngineKnows, OtherKnows, OrdersKnown, BoundInTime, Live
  <2>2. OrdersAreCovered' /\ HeldPairIsCovered' /\ PromisesFit'
    BY DEF OrdersAreCovered, HeldPairIsCovered, PromisesFit, Spending, Open, Live
  <2>3. CarryStaged'
    BY DEF CarryStaged, Sweeps, Adds, Binds, Frees, AllBut, AllButLapsed, Lapses, Live
  <2>4. OtherStaged'
    BY DEF OtherStaged, Sweeps, Adds, Binds, Frees, AllBut, AllButLapsed, Lapses, Live
  <2> QED BY <2>1, <2>2, <2>3, <2>4
<1>2. CASE CapitalNext
  <2>1. UNCHANGED ticksInTime
    BY <1>2 DEF CapitalNext
  <2>2. CASE EngineActs \/ EngineFaults
    BY <2>1, <2>2, EngineSteps, EngineStages, OrdersAreSent, CarryCommits DEF EngineActs, EngineFaults
  <2>3. CASE OtherActs
    BY <2>1, <2>3, OtherStagesOrReads, OrdersAreSent, OrdersEnd, OtherCommitsRows DEF OtherActs
  <2>4. CASE OrderEnds \/ TimePasses
    BY <2>1, <2>4, OrdersEnd, ClockTicks
  <2> QED BY <1>2, <2>2, <2>3, <2>4 DEF CapitalNext
<1> QED BY <1>1, <1>2

\* The inductive invariant of the carry book at the portfolio table: in every
\* reachable state the rows, the open transaction, the two loops and the orders
\* agree as the parts above say.
THEOREM CapitalInvariant == CapitalSpec => []CapitalInv
BY CapitalStarts, CapitalSteps, PTL DEF CapitalSpec

\* An entry that may still fill has a live hold behind it, whoever sent it and
\* whatever expired, failed or crashed since (capital_reservations.py:46).
THEOREM EntriesAreCovered == CapitalSpec => []OrdersAreCovered
<1>1. CapitalInv => OrdersAreCovered
  BY DEF CapitalInv
<1> QED BY <1>1, CapitalInvariant, PTL

\* A held pair's hold does not expire on a timer (carry_capital.py:120), as long
\* as the loop binds it in time.
THEOREM PairsAreCovered == CapitalSpec => []HeldPairIsCovered
<1>1. CapitalInv => HeldPairIsCovered
  BY DEF CapitalInv
<1> QED BY <1>1, CapitalInvariant, PTL

\* What is promised and not yet in use is there, while the loop keeps up and no
\* fill is lost: two strategies never reserve the same dollars
\* (capital_reservations.py:42).
THEOREM DollarsAreNotPromisedTwice == CapitalSpec => []KnownDollarsAreThere
<1>1. CapitalInv => KnownDollarsAreThere
  <2> SUFFICES ASSUME CapitalInv, ticksInTime, ~LostFill PROVE DollarsAreThere
    BY DEF KnownDollarsAreThere
  <2> USE DEF CapitalInv
  <2>0. Carry \subseteq Intents /\ Others \subseteq Intents /\ None \notin Carry /\ Intents = Carry \cup Others
    BY HoldAssumptions DEF Intents, None
  <2>1. ASSUME NEW i \in Carry, orders[i].filled PROVE i \in Live(holds)
    <3>1. i = position \/ engine.cycle = i
      BY <2>1 DEF LostFill
    <3>2. i # None /\ orders[i].sent > 0 /\ orders[i].sent \in Nat
      BY <2>0, <2>1 DEF OrdersKnown, CapitalTypeOK, OrderRows
    <3>3. CASE i = position
      BY <3>2, <3>3 DEF HeldPairIsCovered
    <3>4. CASE engine.cycle = i
      <4>1. engine.pc \in {"reserve", "enter", "opening", "closing"}
        BY <3>2, <3>4 DEF EngineKnows, CapitalTypeOK, CarryPlaces
      <4>2. engine.pc # "reserve"
        BY <2>0, <3>2, <3>4 DEF EngineKnows, OrdersKnown
      <4>3. engine.pc # "enter"
        BY <3>2, <3>4 DEF EngineKnows
      <4>4. CASE engine.pc = "opening"
        BY <3>4, <4>4 DEF EngineKnows
      <4>5. CASE engine.pc = "closing"
        BY <3>2, <3>4, <4>5 DEF EngineKnows, HeldPairIsCovered
      <4> QED BY <4>1, <4>2, <4>3, <4>4, <4>5
    <3> QED BY <3>1, <3>3, <3>4
  <2>2. ASSUME NEW i \in Carry, orders[i].open PROVE i \in Live(holds)
    <3>1. orders[i].sent > 0 /\ orders[i].sent \in Nat /\ i # None
      BY <2>0, <2>2 DEF OrdersKnown, CapitalTypeOK, OrderRows
    <3>2. CASE orders[i].sent = 1
      BY <2>0, <2>2, <3>2 DEF OrdersAreCovered, Spending, Open
    <3>3. CASE orders[i].sent > 1
      BY <2>2, <3>1, <3>3 DEF OrdersKnown, HeldPairIsCovered
    <3> QED BY <3>1, <3>2, <3>3
  <2>3. InUse \subseteq Live(holds)
    BY <2>0, <2>1, <2>2 DEF InUse, OtherKnows, Live
  <2> DEFINE used == InUse
             idle == Live(holds) \ InUse
  <2>4. used \subseteq Intents /\ idle \subseteq Intents /\ used \cap idle = {} /\ used \cup idle = Live(holds)
    BY <2>3 DEF InUse, Live
  <2>5. CASE Live(holds) = {}
    BY <2>5 DEF DollarsAreThere
  <2>6. CASE Dollars(Live(holds)) + Buffer <= Wealth
    <3> HIDE DEF used, idle
    <3>1. Dollars(used \cup idle) = Dollars(used) + Dollars(idle)
      BY <2>4, DollarsOfParts
    <3>2. Dollars(used) \in Nat /\ Dollars(idle) \in Nat
      BY <2>4, DollarsFacts
    <3>3. Dollars(idle) + Buffer <= Wealth - Dollars(used)
      <4> DEFINE u == Dollars(used)
                 v == Dollars(idle)
      <4>1. (u + v) + Buffer <= Wealth
        BY <2>4, <2>6, <3>1
      <4>2. u \in Nat /\ v \in Nat /\ Buffer \in Nat /\ Wealth \in Nat
        BY <3>2, HoldAssumptions, CarryAssumptions
      <4> HIDE DEF u, v
      <4>3. v + Buffer <= Wealth - u
        BY <4>1, <4>2
      <4> QED BY <4>3 DEF u, v
    <3> QED BY <3>3 DEF used, idle, DollarsAreThere, Available
  <2> QED BY <2>5, <2>6 DEF PromisesFit
<1> QED BY <1>1, CapitalInvariant, PTL

-------------------------------------------------------------------------------
(* The promise.                                                            *)

\* The claims are the states of the rows.
LEMMA ClaimsOf ==
    /\ Claims = [i \in Intents |-> Claims[i]]
    /\ \A i \in Intents :
        /\ Claims[i] = "free" <=> holds[i].state = "none"
        /\ Claims[i] = "held" <=> holds[i].state = "RESERVED"
        /\ Claims[i] = "bound" <=> holds[i].state = "COMMITTED"
        /\ Claims[i] \in {"free", "held", "bound", "gone"}
BY DEF Claims

\* Granted claims are live holds.
LEMMA GrantedIsLive == Promise!Granted(Claims) = Live(holds)
BY ClaimsOf DEF Promise!Granted, Live

\* The promise adds up as the table does.
LEMMA TotalIsDollars == ASSUME NEW S PROVE Promise!Total(S) = Dollars(S)
BY DEF Promise!Total, Promise!MapThenSumSet, Promise!MapThenFoldSet, Dollars, MapThenSumSet, MapThenFoldSet

\* Rows published are one of the promise's steps.
LEMMA PublishKeeps ==
    ASSUME CapitalInv, NEW r \in [Intents -> Rows], NEW k, holds' = r, orders' = orders,
           \/ Sweeps(holds, r)
           \/ k \in Intents /\ (Adds(holds, r, k) \/ Binds(holds, r, k) \/ Frees(holds, r, k))
    PROVE  Promise!PromiseNext
<1> DEFINE S == {i \in Intents : i # k /\ r[i] # holds[i]}
<1>1. /\ \A i \in Intents : /\ Claims[i] = "free" <=> holds[i].state = "none"
                            /\ Claims[i] = "held" <=> holds[i].state = "RESERVED"
                            /\ Claims[i] = "bound" <=> holds[i].state = "COMMITTED"
                            /\ Claims[i] \in {"free", "held", "bound", "gone"}
                            /\ Claims'[i] = "free" <=> r[i].state = "none"
                            /\ Claims'[i] = "held" <=> r[i].state = "RESERVED"
                            /\ Claims'[i] = "bound" <=> r[i].state = "COMMITTED"
                            /\ Claims'[i] \in {"free", "held", "bound", "gone"}
                            /\ r[i] = holds[i] => Claims'[i] = Claims[i]
      /\ Claims = [i \in Intents |-> Claims[i]] /\ Claims' = [i \in Intents |-> Claims'[i]]
  BY DEF Claims
<1>2. Spending' = Spending /\ \A i \in Spending : orders[i].open
  BY DEF Spending, Open
<1>3. CASE Sweeps(holds, r)
  <2> DEFINE T == {i \in Intents : r[i] # holds[i]}
  <2>1. \A i \in T : Claims[i] = "held" /\ i \notin Spending /\ Claims'[i] = "gone"
    BY <1>1, <1>2, <1>3 DEF Sweeps, Lapses
  <2>2. T \in SUBSET Promise!Lapsing
    BY <2>1 DEF Promise!Lapsing
  <2>3. Claims' = Promise!Lapsed(Claims, T)
    BY <1>1, <2>1 DEF Promise!Lapsed
  <2> HIDE DEF T
  <2> QED BY <1>2, <2>2, <2>3 DEF Promise!Lapse, Promise!PromiseNext
<1>4. CASE k \in Intents /\ Adds(holds, r, k)
  <2>1. \A i \in S : Claims[i] = "held" /\ i \notin Spending /\ Claims'[i] = "gone"
    BY <1>1, <1>2, <1>4 DEF Adds, AllButLapsed, Lapses
  <2>2. S \in SUBSET Promise!Lapsing
    BY <2>1 DEF Promise!Lapsing
  <2>3. Claims[k] = "free" /\ Claims'[k] = "held"
    BY <1>1, <1>4 DEF Adds
  <2>4. Claims' = [Promise!Lapsed(Claims, S) EXCEPT ![k] = "held"]
    BY <1>1, <1>4, <2>1, <2>3 DEF Promise!Lapsed
  <2>5. Promise!Total(Promise!Granted(Claims')) <= Wealth - Buffer
    <3>1. Promise!Granted(Claims') = Live(r)
      BY <1>1 DEF Promise!Granted, Live
    <3>2. Dollars(Live(r)) + Buffer <= Wealth
      BY <1>4 DEF Adds
    <3>3. Dollars(Live(r)) \in Nat /\ Buffer \in Nat /\ Wealth \in Nat
      BY DollarsFacts, HoldAssumptions, CarryAssumptions DEF Live
    <3> DEFINE d == Dollars(Live(r))
    <3>4. d <= Wealth - Buffer
      <4>1. d + Buffer <= Wealth /\ d \in Nat
        BY <3>2, <3>3
      <4> HIDE DEF d
      <4> QED BY <3>3, <4>1
    <3> QED BY <3>1, <3>4, TotalIsDollars
  <2> HIDE DEF S
  <2> QED BY <1>2, <1>4, <2>2, <2>3, <2>4, <2>5 DEF Promise!Grant, Promise!PromiseNext
<1>5. CASE k \in Intents /\ Binds(holds, r, k)
  <2>1. Claims[k] = "held" /\ Claims' = [Claims EXCEPT ![k] = "bound"]
    BY <1>1, <1>5 DEF Binds, AllBut
  <2> QED BY <1>2, <1>5, <2>1 DEF Promise!Bind, Promise!PromiseNext
<1>6. CASE k \in Intents /\ Frees(holds, r, k)
  <2>1. k \in Promise!Granted(Claims) \ Spending
    BY <1>1, <1>2, <1>6 DEF Frees, Promise!Granted, Live
  <2>2. Claims' = [Claims EXCEPT ![k] = "gone"]
    BY <1>1, <1>6 DEF Frees, AllBut
  <2> QED BY <1>2, <2>1, <2>2 DEF Promise!GiveBack, Promise!PromiseNext
<1> QED BY <1>3, <1>4, <1>5, <1>6

\* Sending an order is a start, or the end of the entry it closes.
LEMMA SendKeeps ==
    ASSUME CapitalInv, NEW i \in Intents, orders' = Sent(i), holds' = holds,
           i \in Live(holds) \/ orders[i].sent # 0
    PROVE  [Promise!PromiseNext]_<<Claims, Spending>>
<1>1. Claims' = Claims /\ (orders[i].sent = 0 => i \in Promise!Granted(Claims))
  BY GrantedIsLive DEF Claims
<1>2. /\ orders'[i].sent = orders[i].sent + 1 /\ orders'[i].open /\ orders[i].sent \in Nat
      /\ \A j \in Intents \ {i} : orders'[j] = orders[j]
  BY SentRows DEF CapitalInv, CapitalTypeOK, OrderRows
<1>3. CASE orders[i].sent = 0
  <2>1. Spending' = Spending \cup {i}
    BY <1>2, <1>3 DEF Spending, Open
  <2> QED BY <1>1, <1>3, <2>1 DEF Promise!Start, Promise!PromiseNext
<1>4. CASE orders[i].sent # 0
  <2>1. Spending' = Spending \ {i}
    BY <1>2, <1>4 DEF Spending, Open
  <2>2. CASE i \in Spending
    BY <1>1, <2>1, <2>2 DEF Promise!End, Promise!PromiseNext
  <2>3. CASE i \notin Spending
    <3>1. Spending' = Spending
      BY <2>1, <2>3
    <3> QED BY <1>1, <3>1
  <2> QED BY <2>2, <2>3
<1> QED BY <1>3, <1>4

\* The table, the tick and the timer implement the promise to the strategies that
\* share the account: every step is a step of CapitalPromise or changes nothing
\* of it.
THEOREM TheTableKeepsThePromise == CapitalSpec => HoldsKeepThePromise
<1>1. CapitalInit => Promise!PromiseInit
  <2> SUFFICES ASSUME CapitalInit PROVE Promise!PromiseInit
    OBVIOUS
  <2>1. \A i \in Intents : holds[i].state = "none"
    BY DEF CapitalInit, NoRow
  <2>2. Spending = {}
    BY DEF CapitalInit, Spending, Open
  <2> QED BY <2>1, <2>2 DEF Claims, Promise!PromiseInit
<1>2. CapitalInv /\ [CapitalNext]_capitalVars => [Promise!PromiseNext]_<<Claims, Spending>>
  <2> SUFFICES ASSUME CapitalInv, [CapitalNext]_capitalVars
               PROVE  [Promise!PromiseNext]_<<Claims, Spending>>
    OBVIOUS
  <2>0. Carry \subseteq Intents /\ Others \subseteq Intents
    BY DEF Intents
  <2>1. CASE UNCHANGED <<holds, orders>>
    BY <2>1 DEF Claims, Spending, Open
  <2>2. CASE EngineCommits
    <3> DEFINE r == tx["carry"].rows
    <3>1. holds' = r /\ orders' = orders /\ r \in [Intents -> Rows] /\ tx["carry"].open
      BY <2>2 DEF EngineCommits, Publish, CapitalInv, CapitalTypeOK
    <3>2. \/ Sweeps(holds, r)
          \/ \E k \in Intents : Adds(holds, r, k) \/ Binds(holds, r, k) \/ Frees(holds, r, k)
      <4>1. engine.pc = "reserve" => engine.cycle \in Intents
        BY <2>0 DEF CapitalInv, EngineKnows
      <4> QED BY <2>0, <3>1, <4>1 DEF CapitalInv, CarryStaged
    <3> HIDE DEF r
    <3> QED BY <3>1, <3>2, PublishKeeps
  <2>3. CASE OtherCommits
    <3> DEFINE r == tx["other"].rows
    <3>1. holds' = r /\ orders' = orders /\ r \in [Intents -> Rows] /\ tx["other"].open
      BY <2>3 DEF OtherCommits, Publish, CapitalInv, CapitalTypeOK
    <3>2. \/ Sweeps(holds, r)
          \/ \E k \in Intents : Adds(holds, r, k) \/ Binds(holds, r, k) \/ Frees(holds, r, k)
      BY <2>0, <3>1 DEF CapitalInv, OtherStaged
    <3> HIDE DEF r
    <3> QED BY <3>1, <3>2, PublishKeeps
  <2>4. CASE EntryOrder
    <3>1. engine.cycle \in Intents /\ engine.cycle \in Live(holds)
      BY <2>0, <2>4 DEF EntryOrder, EngineAt, CapitalInv, EngineKnows, Live
    <3> QED BY <2>4, <3>1, SendKeeps DEF EntryOrder
  <2>5. CASE CloseOrder
    <3>1. position \in Intents /\ orders[position].sent # 0
      <4>1. position \in Carry /\ orders[position].sent > 0
        BY <2>5 DEF CloseOrder, CapitalInv, CapitalTypeOK, OrdersKnown
      <4> QED BY <2>0, <4>1
    <3> QED BY <2>5, <3>1, SendKeeps DEF CloseOrder
  <2>6. CASE OtherSends
    <3>1. other.cycle \in Intents /\ other.cycle \in Live(holds)
      BY <2>0, <2>6 DEF OtherSends, OtherAt, CapitalInv, OtherKnows, Live
    <3> QED BY <2>6, <3>1, SendKeeps DEF OtherSends
  <2>7. CASE OrderEnds
    <3>1. PICK i \in Open, f \in BOOLEAN :
            orders' = [orders EXCEPT ![i].open = FALSE, ![i].filled = f]
      BY <2>7 DEF OrderEnds
    <3>2. Claims' = Claims
      BY <2>7 DEF OrderEnds, Claims
    <3>3. i \in Intents /\ ~orders'[i].open /\ \A j \in Intents \ {i} : orders'[j] = orders[j]
      <4> DEFINE m == [orders[i] EXCEPT !.open = FALSE]
                 new == [m EXCEPT !.filled = f]
      <4>1. orders \in [Intents -> OrderRows] /\ i \in Intents
        BY DEF CapitalInv, CapitalTypeOK, Open
      <4>2. m \in OrderRows /\ ~m.open
        BY <4>1 DEF OrderRows
      <4>3. ~new.open
        <5> HIDE DEF m
        <5> QED BY <4>2 DEF OrderRows
      <4>4. orders' = [orders EXCEPT ![i] = new]
        BY <3>1, <4>1
      <4> HIDE DEF new, m
      <4> QED BY <4>1, <4>3, <4>4
    <3>4. Spending' = Spending \ {i}
      BY <3>3 DEF Spending, Open
    <3>5. CASE i \in Spending
      BY <3>2, <3>4, <3>5 DEF Promise!End, Promise!PromiseNext
    <3>6. CASE i \notin Spending
      <4>1. Spending' = Spending
        BY <3>4, <3>6
      <4> QED BY <3>2, <4>1
    <3> QED BY <3>5, <3>6
  <2>8. CASE OtherLeaves
    <3>1. PICK i \in Others : orders' = [orders EXCEPT ![i].filled = FALSE]
      BY <2>8 DEF OtherLeaves
    <3>2. Claims' = Claims
      BY <2>8 DEF OtherLeaves, Claims
    <3>3. \A j \in Intents : orders'[j].sent = orders[j].sent /\ orders'[j].open = orders[j].open
      BY <2>0, <3>1 DEF CapitalInv, CapitalTypeOK, OrderRows
    <3>4. Spending' = Spending
      BY <3>3 DEF Spending, Open
    <3> QED BY <3>2, <3>4
  <2>9. CASE EngineActs \/ EngineFaults
    <3>1. EngineCommits \/ EntryOrder \/ CloseOrder \/ UNCHANGED <<holds, orders>>
      BY <2>9 DEF EngineActs, EngineFaults, TickBegins, SyncBinds, SyncExpires, SyncReleases, SyncEnds,
                  EntryBegins, EntryReserves, EntryEnds, CloseBooked, NothingToDo, EntryRefused,
                  GivesUp, EngineWriteFails, EngineCrash, Rollback
    <3> QED BY <2>1, <2>2, <2>4, <2>5, <3>1
  <2>10. CASE OtherActs
    <3>1. OtherCommits \/ OtherSends \/ OtherLeaves \/ UNCHANGED <<holds, orders>>
      BY <2>10 DEF OtherActs, OtherReads, OtherReserves, OtherBinds, OtherReleases
    <3> QED BY <2>1, <2>3, <2>6, <2>8, <3>1
  <2>11. CASE TimePasses
    BY <2>1, <2>11 DEF TimePasses
  <2>12. CASE UNCHANGED capitalVars
    BY <2>1, <2>12 DEF capitalVars
  <2> QED BY <2>7, <2>9, <2>10, <2>11, <2>12 DEF CapitalNext
<1> QED BY <1>1, <1>2, CapitalInvariant, PTL DEF CapitalSpec, HoldsKeepThePromise, Promise!PromiseSpec, Promise!promiseVars
===============================================================================
