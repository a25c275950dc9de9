----------------------------- MODULE CarryCapital -----------------------------
(***************************************************************************)
(* The carry book at the portfolio table: carry_capital.py and the places  *)
(* of carry_engine.py that call it, on the table of CapitalHolds, shared   *)
(* with another strategy that uses the same interface as its documentation *)
(* asks.  Transactions of the two interleave; one is a lock, a decision on *)
(* the committed rows, and a commit or a rollback.                         *)
(*                                                                         *)
(* Time moves between any two steps, with one bound on it: an entry sends  *)
(* its first order before its hold's time is up (the order follows the     *)
(* hold in the same call; the default life of a hold is minutes).          *)
(* A cycle has one entry order and then closing orders, one at a time.     *)
(* Bounds: MaxTime ticks of the clock, MaxFaults failures and crashes,     *)
(* MaxOrders orders per cycle.                                             *)
(***************************************************************************)
EXTENDS CapitalHolds

CONSTANTS
    Wealth,         \* the balance of the account with nothing in use
    MaxTime, MaxFaults, MaxOrders

ASSUME CarryAssumptions ==
    {Wealth, MaxTime, MaxFaults, MaxOrders} \subseteq Nat

VARIABLES
    holds,      \* the committed rows
    tx,         \* per writer: the open transaction, its rows, where it leads
    engine,     \* the carry tick: where it is and the cycle it works on
    other,      \* the same of the other strategy
    position,   \* the cycle of the pair the engine holds
    orders,     \* per intent: orders written, one in flight, capital in a fill
    now, faults,
    ticksInTime \* whether a pair's hold is always bound before its time is up

capitalVars == <<holds, tx, engine, other, position, orders, now, faults, ticksInTime>>

-------------------------------------------------------------------------------
None == 0
Writers == {"carry", "other"}
NoReading == [value |-> 0, at |-> -MaxAge - 1]
Idle == [pc |-> "idle", cycle |-> None, reading |-> NoReading]
NoTx == [open |-> FALSE, rows |-> [i \in Intents |-> NoRow], then |-> Idle]
At(pc, cycle) == [pc |-> pc, cycle |-> cycle, reading |-> NoReading]

Open == {i \in Intents : orders[i].open}
InUse == {i \in Intents : orders[i].open \/ orders[i].filled}
Available == Wealth - Dollars(InUse)

\* Cycle ids only grow (_unique_cycle_ms); the table keeps every id it saw.
NewCycles == {i \in Carry : \A j \in Carry : holds[j].state # "none" => j < i}
NextCycle == Min(NewCycles)

BrokenLocked(who) == \A w \in Writers : w = who => ~tx[w].open

\* Nobody has the write lock.
Locked(who) == \A w \in Writers : ~tx[w].open

\* The first write takes the lock; the decision reads the committed rows.
Stage(who, rows, then) ==
    /\ Locked(who)
    /\ tx' = [tx EXCEPT ![who] = [open |-> TRUE, rows |-> rows, then |-> then]]

Publish(who) ==
    /\ tx[who].open
    /\ holds' = tx[who].rows
    /\ tx' = [tx EXCEPT ![who] = NoTx]

Rollback(who) ==
    /\ tx[who].open /\ faults < MaxFaults
    /\ faults' = faults + 1
    /\ tx' = [tx EXCEPT ![who] = NoTx]
    /\ UNCHANGED holds

-------------------------------------------------------------------------------
(* The engine's tick: _capital_sync first, then the decision.              *)

EngineAt(pc) == engine.pc = pc /\ ~tx["carry"].open

TickBegins ==
    /\ EngineAt("idle")
    /\ engine' = At("sync", None)
    /\ UNCHANGED <<holds, tx, other, position, orders, now, faults>>

\* The holds of this book that have an order behind them and are not bound.
Unbound == {i \in Carry : holds[i].state = "RESERVED" /\ orders[i].sent > 0}

SyncBinds ==
    /\ EngineAt("sync")
    /\ \E i \in Unbound : Stage("carry", Bound(holds, i, 1), At("sync", None))
    /\ UNCHANGED <<holds, engine, other, position, orders, now, faults>>

SyncExpires ==
    /\ EngineAt("sync") /\ Unbound = {}
    /\ Stage("carry", Expired(holds, Open, now), At("flat", None))
    /\ UNCHANGED <<holds, engine, other, position, orders, now, faults>>

\* A flat book gives its dollars back if none of its orders is in flight.
MayRelease == position = None /\ Open \cap Carry = {}

CarryLive == Live(holds) \cap Carry

SyncReleases ==
    /\ EngineAt("flat") /\ MayRelease
    /\ \E i \in CarryLive : Stage("carry", Released(holds, i, Open), At("flat", None))
    /\ UNCHANGED <<holds, engine, other, position, orders, now, faults>>

SyncEnds ==
    /\ EngineAt("flat")
    /\ MayRelease => CarryLive = {}
    /\ engine' = At("decide", None)
    /\ UNCHANGED <<holds, tx, other, position, orders, now, faults>>

\* entry_blockers: a fresh state with no unresolved order and no exposure the
\* books do not know, and the reading the reservation is decided on.
EntryBegins ==
    /\ EngineAt("decide") /\ position = None
    /\ InUse \cap Carry = {} /\ NewCycles # {}
    /\ engine' = [pc |-> "reserve", cycle |-> NextCycle,
                  reading |-> [value |-> Available, at |-> now]]
    /\ UNCHANGED <<holds, tx, other, position, orders, now, faults>>

EntryReserves ==
    /\ EngineAt("reserve")
    /\ LET i == engine.cycle
           rows == Reserved(holds, i, engine.reading, Open, now)
       IN  Stage("carry", rows, IF i \in Live(rows) THEN At("enter", i) ELSE Idle)
    /\ UNCHANGED <<holds, engine, other, position, orders, now, faults>>

Sent(i) == [orders EXCEPT ![i].sent = @ + 1, ![i].open = TRUE]

\* _open: the order's row, with its cycle, is written before it is sent.
EntryOrder ==
    /\ EngineAt("enter") /\ Locked("log")
    /\ orders' = Sent(engine.cycle)
    /\ engine' = At("opening", engine.cycle)
    /\ UNCHANGED <<holds, tx, other, position, now, faults>>

\* The marker that precedes the order could not be written.
EntryRefused ==
    /\ EngineAt("enter") /\ faults < MaxFaults
    /\ faults' = faults + 1
    /\ engine' = Idle
    /\ UNCHANGED <<holds, tx, other, position, orders, now>>

EntryEnds ==
    /\ EngineAt("opening") /\ ~orders[engine.cycle].open
    /\ position' = IF orders[engine.cycle].filled THEN engine.cycle ELSE None
    /\ engine' = Idle
    /\ UNCHANGED <<holds, tx, other, orders, now, faults>>

CloseOrder ==
    /\ EngineAt("decide") /\ position # None
    /\ ~orders[position].open /\ orders[position].filled
    /\ orders[position].sent < MaxOrders /\ Locked("log")
    /\ orders' = Sent(position)
    /\ engine' = At("closing", position)
    /\ UNCHANGED <<holds, tx, other, position, now, faults>>

\* The close, now or found on a later tick, left nothing.
CloseBooked ==
    /\ EngineAt("closing") \/ EngineAt("decide")
    /\ position # None /\ position \notin InUse
    /\ position' = None
    /\ engine' = Idle
    /\ UNCHANGED <<holds, tx, other, orders, now, faults>>

\* The engine stops waiting; the order may still fill.
GivesUp ==
    /\ EngineAt("opening") \/ EngineAt("closing")
    /\ engine' = Idle
    /\ UNCHANGED <<holds, tx, other, position, orders, now, faults>>

NothingToDo ==
    /\ EngineAt("decide")
    /\ engine' = Idle
    /\ UNCHANGED <<holds, tx, other, position, orders, now, faults>>

EngineCommits ==
    /\ Publish("carry")
    /\ engine' = tx["carry"].then
    /\ UNCHANGED <<other, position, orders, now, faults>>

\* sync never raises into the decision; a reservation that raises is refused.
EngineWriteFails ==
    /\ Rollback("carry")
    /\ engine' = IF engine.pc = "reserve" THEN Idle ELSE At("decide", None)
    /\ UNCHANGED <<other, position, orders, now>>

\* A pair the ledger has is restored; one it has not halts the book, and the
\* venue's contradiction blocks its entries.
EngineCrash ==
    /\ faults < MaxFaults /\ faults' = faults + 1
    /\ engine' = Idle
    /\ tx' = [tx EXCEPT !["carry"] = NoTx]
    /\ UNCHANGED <<holds, other, position, orders, now>>

-------------------------------------------------------------------------------
(* The other strategy: reads a balance, reserves, binds, sends, releases.  *)

OtherAt(pc) == other.pc = pc /\ ~tx["other"].open

OtherReads ==
    /\ OtherAt("idle")
    /\ \E i \in Others :
        /\ holds[i].state = "none"
        /\ other' = [pc |-> "reserve", cycle |-> i,
                     reading |-> [value |-> Available, at |-> now]]
    /\ UNCHANGED <<holds, tx, engine, position, orders, now, faults>>

OtherReserves ==
    /\ OtherAt("reserve")
    /\ LET i == other.cycle
           rows == Reserved(holds, i, other.reading, Open, now)
       IN  Stage("other", rows, IF i \in Live(rows) THEN At("bind", i) ELSE Idle)
    /\ UNCHANGED <<holds, engine, other, position, orders, now, faults>>

OtherBinds ==
    /\ OtherAt("bind")
    /\ LET i == other.cycle
           rows == Bound(holds, i, 1)
       IN  Stage("other", rows, IF i \in Live(rows) THEN At("send", i) ELSE Idle)
    /\ UNCHANGED <<holds, engine, other, position, orders, now, faults>>

OtherSends ==
    /\ OtherAt("send") /\ Locked("log")
    /\ orders' = Sent(other.cycle)
    /\ other' = At("release", other.cycle)
    /\ UNCHANGED <<holds, tx, engine, position, now, faults>>

\* It asks for the release when it is out of the market, or too early.
OtherReleases ==
    /\ OtherAt("release") /\ ~orders[other.cycle].filled
    /\ LET i == other.cycle
           rows == Released(holds, i, Open)
       IN  Stage("other", rows, IF i \in Live(rows) THEN other ELSE Idle)
    /\ UNCHANGED <<holds, engine, other, position, orders, now, faults>>

OtherLeaves ==
    /\ \E i \in Others : orders[i].filled /\ orders' = [orders EXCEPT ![i].filled = FALSE]
    /\ UNCHANGED <<holds, tx, engine, other, position, now, faults>>

OtherCommits ==
    /\ Publish("other")
    /\ other' = tx["other"].then
    /\ UNCHANGED <<engine, position, orders, now, faults>>

-------------------------------------------------------------------------------
\* The log learns how an order ended: an entry filled or not, a close emptied
\* or not.  The order log is in the same file, behind the same lock.
OrderEnds ==
    /\ Locked("log")
    /\ \E i \in Open, filled \in BOOLEAN :
        /\ filled => orders[i].sent = 1 \/ orders[i].filled
        /\ orders' = [orders EXCEPT ![i].open = FALSE, ![i].filled = filled]
    /\ UNCHANGED <<holds, tx, engine, other, position, now, faults>>

InTime(row) == row.state = "RESERVED" => now + 1 < row.expires

\* From the hold to its first order.
Entering == engine.pc = "enter" \/ tx["carry"].then.pc = "enter"

TimePasses ==
    /\ now < MaxTime
    /\ now' = now + 1
    /\ Entering => \A i \in Carry : InTime(holds[i]) /\ InTime(tx["carry"].rows[i])
    /\ ticksInTime => \A i \in Carry : orders[i].sent > 0 => InTime(holds[i])
    /\ UNCHANGED <<holds, tx, engine, other, position, orders, faults>>

CapitalInit ==
    /\ holds = [i \in Intents |-> NoRow] /\ tx = [w \in Writers |-> NoTx]
    /\ engine = Idle /\ other = Idle /\ position = None
    /\ orders = [i \in Intents |-> [sent |-> 0, open |-> FALSE, filled |-> FALSE]]
    /\ now = 0 /\ faults = 0 /\ ticksInTime \in BOOLEAN

EngineActs ==
    \/ TickBegins \/ SyncBinds \/ SyncExpires \/ SyncReleases \/ SyncEnds
    \/ EntryBegins \/ EntryReserves \/ EntryOrder \/ EntryEnds
    \/ CloseOrder \/ CloseBooked \/ NothingToDo
    \/ EngineCommits

EngineFaults == EntryRefused \/ GivesUp \/ EngineWriteFails \/ EngineCrash

OtherActs ==
    \/ OtherReads \/ OtherReserves \/ OtherBinds \/ OtherSends \/ OtherReleases
    \/ OtherLeaves \/ OtherCommits

CapitalNext ==
    /\ EngineActs \/ EngineFaults \/ OtherActs \/ OrderEnds \/ TimePasses
    /\ UNCHANGED ticksInTime

CapitalSpec == CapitalInit /\ [][CapitalNext]_capitalVars

\* The loop keeps ticking, a transaction once begun ends, and a write that waits
\* for the lock gets it.
FairCapital ==
    /\ CapitalSpec
    /\ SF_capitalVars(EngineActs /\ UNCHANGED ticksInTime)
    /\ WF_capitalVars(OtherCommits /\ UNCHANGED ticksInTime)
    /\ SF_capitalVars(OrderEnds /\ UNCHANGED ticksInTime)

-------------------------------------------------------------------------------
\* Orders that may still take capital; a close only gives it back.
Spending == {i \in Open : orders[i].sent = 1}

\* An entry that may still fill has a live hold behind it, whoever sent it and
\* whatever timed out, expired or crashed since (capital_reservations.py:46).
OrdersAreCovered == Spending \subseteq Live(holds)

\* "A held pair's hold must not expire on a timer" (carry_capital.py:120): true
\* as long as the loop binds it in time.
HeldPairIsCovered == ticksInTime /\ position # None => position \in Live(holds)

\* A fill of an entry the engine had given up on, or lost in a crash.
LostFill == \E i \in Carry : orders[i].filled /\ i # position /\ engine.cycle # i

\* "Two strategies can never both reserve the same dollars"
\* (capital_reservations.py:42): what is promised and not yet in use is there.
DollarsAreThere ==
    Live(holds) \subseteq InUse \/ Dollars(Live(holds) \ InUse) + Buffer <= Available

\* The same while the loop keeps up and no fill is lost.
KnownDollarsAreThere == ticksInTime /\ ~LostFill => DollarsAreThere

\* A hold of the carry book ends, unless its pair is held for ever.
HoldsAreGivenBack ==
    \A i \in Carry : i \in Live(holds) ~> (i \notin Live(holds) \/ position = i)

Claims ==
    [i \in Intents |-> CASE holds[i].state = "none" -> "free"
                         [] holds[i].state = "RESERVED" -> "held"
                         [] holds[i].state = "COMMITTED" -> "bound"
                         [] OTHER -> "gone"]

Promise == INSTANCE CapitalPromise
    WITH Capacity <- Wealth - Buffer, claim <- Claims, busy <- Spending

\* The table, the tick and the timer implement the promise to the strategies.
HoldsKeepThePromise == Promise!PromiseSpec
===============================================================================
