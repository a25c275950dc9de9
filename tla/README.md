# A verification of ai-agent-control

TLA+ modules for the parts of the bot that place orders, remember what they
did with them and recover from dying half-way; TLC configurations that check
the modules on small instances; and TLAPS proofs of what matters most for any
instance.  Paths below are relative to the repository (`bot/...`).

## 1. Inventory

The running system is one Python process per book (`bot/main.py`), a venue
(Bybit) behind `bot/bybit_connection.py`, and a SQLite store
(`bot/persistence.py`) that outlives the process.  Two programs share these:
the *carry book* (a short perpetual hedging inventory or a spot leg) and the
*directional engine* (an entry with its stop and its exits).  Both take their
prices from the *market-data engine*, which keeps order books from the venue's
streams and logs every input it acted on.  Both may trade one account: a table
of capital reservations keeps them from promising the same dollars twice.

| component | state it keeps | operations | what makes it correct |
|---|---|---|---|
| order lifecycle, `order_lifecycle.py` | none (pure) | `decide` | a finished order stays finished, evidence is never absorbed, never sent twice |
| order log, `persistence.py` | `orders`, `order_events` | `record_order_intent`, `apply_order_event`, `unresolved_orders` | status and fill tell one story; each event is judged once |
| carry broker, `carry_broker.py` | one order trail per call | `place_market`, `place_post_only`, `cancel_order` | the log knows of everything that left; answers are true |
| transport, `bybit_connection.py` | one request's retries | `_request` | all copies of a request carry one id |
| order recovery, `order_recovery.py` | none | `resolve_unresolved_orders` | silence is proof only past the absence window |
| carry engine, `carry_engine.py` | book state, position, ledger file | `_open`, `_rest_then_take`, unwind, `cold_start`, `_halt` | never oversold; the book knows what it holds |
| carry risk, `carry_risk.py` | the day's entries | `evaluate_open` | nothing new on top of an unsettled order |
| close planner/executor, `close_plan.py`, `close_executor.py` | `carry_close_attempts`, `carry_close_state` | `plan_close`, `step` | one order at a time, no claim on an inference, it ends |
| capital reservations, `capital_reservations.py`, `carry_capital.py` | one shared table of holds | reserve, commit, release, expire; the carry tick that calls them | no dollar promised twice, no order without a hold, every hold given back |
| ledger, `ledger.py` | double-entry journal | `place_market` wrapper, `_book`, `reverse` | each fill booked once |
| risk manager and policy, `risk_management.py`, `risk_policy.py` | kill switch, breach latches, equity anchors | `evaluate`, latch, trip | a latched breach stays latched |
| directional engine, `trading_engine.py` | position row, orders and trades tables, kill switch | entry, stop, take-profit leg, observers, close, settling, start and shutdown | no lot forgotten, no position without a stop, each exit booked once |
| protective restart, `protective_restart.py` | none | plan at start | every inherited position is protected or stopped on |
| private stream, `private_ws_consumer.py` | sequence, dedupe window | connect, message, gap | no execution lost or counted twice |
| market-data streams, `md_feed.py`, `md_book.py`, `md_state.py` | one worker per stream: its socket, its stamps, a local book and ticker | connect, frame, resubscribe, ping, disconnect | a synced book is the venue's; a dead book is noticed |
| market-data log, `md_store.py` | one file per day, chained records, a manifest of removals | append, commit, rotate, prune, verify | the log only grows at its end; what is left verifies |
| market-data engine, `md_engine.py` | the state both streams and REST feed | `record`, view, replay | what an entry used can be reproduced from the log |
| market-data consumers, `md_broker.py`, `portfolio_state.py`, ... | none | read-only | |
| funding, `funding_reconcile.py` | none | match | each payment matched at most once |
| evidence, `evidence_chain.py` | hash chain | append, verify | append only |
| strategy, features, statistics, backtests, tools | files | numeric | outside a state-space check |

How they meet: the engine calls the broker synchronously through the ledger
wrapper; the broker writes the order log before and after every request; a
start runs recovery over that log, and only then compares the engine's ledger
with the venue; the entry gate reads the same log.  The close executor keeps
its own log of attempts in the same store, and sends through the broker.  The
carry tick binds its hold, sweeps overdue ones and only then decides.  A stream
worker hands every frame to the market-data engine, which appends it to the log
and then applies it, under one lock.  The directional engine writes the same
`orders` table as the private stream's consumer.

Hard behaviours: a request is retried under one id and each copy can be lost,
late or answered too late; the venue's order lists lag; the order fills while it
is being cancelled; every write after the request is best effort; the process
dies anywhere; position reads lag fills; somebody else may trade the account.
Inside the carry book, and inside the directional engine, there is one thread:
what interleaves is the process with the venue, the network, the clock, the
private stream and its own successors.  The market-data engine has two stream
threads and a REST thread under one lock.  The reservation table is written by
several processes, one transaction at a time.

## 2. The modules

| module | models | extends |
|---|---|---|
| `OrderIds` | order link ids | |
| `OrderLifecycle` | `order_lifecycle.decide`, as pure operators | |
| `OrderLog` | the two tables under *any* evidence: the abstract specification of the record | both |
| `CarryVenue` | the venue and the network, external | `OrderIds` |
| `CarryBroker` | broker, transport retries, crashes, recovery | `OrderLog`, `CarryVenue` |
| `OverlayOpen` | the engine's overlay open, its ledger and the cold start | `CarryBroker` |
| `CarryPair` | the carry engine from open to close: the ACQUIRE pair, the one-order OVERLAY close, the held tick, halts, cold start | |
| `ClosePlan` | the close planner, as pure operators | |
| `CloseExecutor` | the executor, its tables, a venue of its own | `ClosePlan` |
| `MarketBook` | the effect of one frame on a book and a ticker, as operators | |
| `MarketFeed` | one stream worker, its socket and its venue, in time | `MarketBook` |
| `DurableLog` | abstract: what a reader of the market-data log may rely on | |
| `MarketStore` | the day files, commits, restarts, retention; implements `DurableLog` | |
| `MarketReplay` | the engine's append-then-apply with failing writes, and its replay | `MarketBook` |
| `CapitalHolds` | the reservation table's transactions, as operators | |
| `CarryCapital` | two strategies on that table, the carry tick, the clock | `CapitalHolds` |
| `CapitalPromise` | abstract: what the table promises; implemented by `CarryCapital` | |
| `DirectionalEngine` | the directional engine on one symbol, either product | |
| `CarryBroker_proofs` | theorems about `OrderLog` and the broker on it | |
| `OverlayOpen_proofs` | theorems about the engine on the broker | `CarryBroker_proofs` |
| `MCRecords_proofs` | theorems about `MarketReplay`, `MarketStore` and `CarryPair`, and about all the records side by side | `CarryBroker_proofs`, `SetSums_proofs` |
| `MarketFeed_proofs` | theorems about `MarketFeed` | |
| `CarryCapital_proofs`, `CloseExecutor_proofs`, `DirectionalEngine_proofs` | theorems about the module of that name (`CloseExecutor_proofs` also about `MCCloseBoth`) | `SetSums_proofs` |
| `SetSums_proofs` | lemmas: what a sum over a finite set is | |
| `MC...` | instances for TLC | |

Two instances hold more than one behaviour, told apart by a variable chosen in
the initial state: `MCRecords` (`part`: the order log under any evidence, the
carry broker on it, the carry engine's pair, the day files, or the replay) and
`MCCloseBoth` (`sameId`: a close with fresh ids, or with re-sends of one id, the
latter by `INSTANCE CloseExecutor WITH`).  A behaviour of one part leaves the
others where they began, so each is checked as if alone.

Definitions named `Broken...` are defects the code does not have.  They stand
before the definition each would replace, and show that a property notices.

**Lots.**  Quantities are whole lots.  The code compares floats with a
tolerance far below a lot, so comparisons are exact here.

**OrderLog.**  A row is `[status, req, filled, submits, keys]`: the columns
`status`, `qty` and `filled_qty`, and of `order_events` the number of
submit attempts and the fill event keys already used.  `RecordIntent` and
`Apply` are the two methods; each is one transaction, so one step.
`LogSpec` lets any event with any quantity arrive at any time.

**CarryBroker.**  `call` is the broker call in progress: its point in the
procedure, operation, id, quantity, the try in flight, why a read-back is made,
what was heard.  `IntentNew`/`IntentKnown` (intent, payload conflict, resume),
`SubmitMarker`, `SendCopy`/`NoAnswer`/`Hear...` (the retry loop),
`Acknowledge`, `ReadBack`, `Finish...` (the trail's last writes) follow the
code's order.  Writes before the request are strict; later ones may be lost
(`LogEvent`).  `Crash` leaves the log and the venue alone; `Restart`,
`RecoverPending`, `RecoverRead`, `RecoverSettle`, `RecoverDone` are the recovery
pass, order by order, and its verdict (trading or protect only).  `blind` is not
program state: it marks the orders about which `place_post_only` wrongly said
"nothing rests" (*post-only none* below), so that the other properties can be
checked past that defect.

**OverlayOpen.**  `book`, `leg` and `held` are the engine's memory, `ledger` its
file.  `Rest`, `Rested`, `Pull`, `Pulled`, `Take`, `Took` are the steps of
`_rest_then_take`; a broker answer is the one `CarryBroker` produced, so the
composition is real: every loss and crash of the broker is one of the engine.
`ColdStart` compares ledger, position and open orders as `plan_cold_start` does.

**CarryPair.**  `book`, `pair`, `unwritten` and `verified` are the engine's
memory (`_halt_unwritten`, `_venue_verified_ms`), `ledger` its file, `task` the
point its thread is at; `short`, `coin`, `was` and `closed` are the venue.  Every
order goes through `SendOrder` (`_fire`), whose answer the next action takes:
filled, filled in part, refused, or unknown with the order still out (`loose`).
`OpeningMark`, `BoughtSpot`, `SoldPerp`, `ConfirmOpen`, `DumpedSpot` are `_open` and
its emergency sale; `SizeClose`, `ClosedPerp`, `RereadShort`, `SoldSpot`,
`LookForClose`, `SavedSpot` are `_unwind_impl`; `CheckMargin`, `CheckSize`,
`CheckCover`, `TrimmedPerp`, `ConfirmTrim`, `Decision`, `Rebalanced` a held tick, in
the code's two orders (`ViewedTick`, `BlindTick`).  `WriteLedger`, `Halt` and
`Refuse` are the three ways to the ledger and what each does when the write
fails.  A position read (`ShortReads`) is right, fails, or shows the position
before or on the way to its last change.  `doubt` and `guessed` are not program
state: they mark an order whose outcome stayed unknown, and the defect that run
`naked_pair` shows.

**CloseExecutor.**  `log` and `state` are the two tables; `exec` the step in
progress; `booked` the process's memory of booked fills; `ledger` the journal;
`venue` the orders; `pos` the position and what a read of it shows.  Reading the
position and reading the orders are separate steps, and so are commit and send:
the venue moves in between.  `Begin`, `LookAtOrders`, `Commit`/`CommitFails`/
`Defer`, `Send`/`SendStale`/`Refused`, `Return`/`Sent`/`Unknown` are `_once` and
`_send`.  `stopped` is a HALT answer that could not be put on file: the engine
halts the book and steps no more.  `Resolved` is what `apply_close_step` writes
of a plan: the rows the plan settles, and no others; an attempt still open keeps
its row, whatever the plan read of it.

**MarketFeed.**  `history` is every state the venue's book went through, so
that "the worker's book is the venue's own" can be said of a book that is late.
`topics` is what the venue publishes to this connection, `up` and `down` the
frames in flight, `link` the socket.  The stamps of `StreamWorker`
(`_last_message`, `_last_book`, ping and pong, resync) are `age`, saturated one
above the bound they are compared with.  One receive with the checks behind it
(`md_feed.py:230-330`) is `Step`.  `StoreGapHeals` is the one thing the other
stream's thread does to this product.

**MarketStore.**  `segs` are the files with their rows, `pending` the rows of the
open transaction, `due` the appends since the last commit that succeeded (the
code's `_pending`, which a rollback does not reset), `manifest` the removals
recorded.  A chain value hashes everything before it, so it is the sequence of
records before it.  `latestDay` is the clamp that keeps a clock stepped back from
writing to an earlier file.  Each database call of `append` and `flush` may fail,
and the process goes on (`md_engine.py:70-76`): there is no room (`NoRoom`), the
rows of the day before do not commit (`CloseFails`), the new file is not made or
is left without its start (`OpenFails`), the insert (`InsertFails`) or the commit
(`CommitFails`, `FlushFails`) raises.  After a failed insert or commit the
transaction stays open or is rolled back (`Survive`); `nextId` and `prevChain`
have moved by then and stay where they are, as in the code.  `astray` is not
program state: it tells whether the process continues from where the files end
(`no`), would not if it wrote (`memory`), or has written so (`files`).

**MarketReplay.**  `live` is what the process acts on; `replayed` what a replay
of the log would give at its end, `safe` at its last commit.  A failed append
leaves the row out, leaves it in, or takes the uncommitted rows with it.  A state
holds the market of each product and the tick size REST last told of it
(`set_specs`, `md_state.py:350-356`); a frame carries prices, and whether they are
on the tick is judged by the state that meets it (`JudgedAt`), so the same frame
can be taken live and refused in the replay.  `apart` is not program state: it
holds the products whose tick size differed between the two states at some time
since both last gave the book up.

**CapitalHolds, CarryCapital.**  A transaction is three steps: `Stage` (lock,
decide on the committed rows), `Publish` or `Rollback`.  `engine` and `other`
are the two callers, each at its place in its tick; `orders` is what the order
log says of each cycle, which is what keeps a hold alive.

**DirectionalEngine.**  `pc` and `job` are the thread; a step is one venue call
with the ledger writes up to the next call.  A tick is `resolve` (entries whose
outcome is unknown), `observe` (exits), `naked` (a position without a stop),
then the decision.  An order is one record: the ledger's row beside the venue's
order.  Linear and spot share the procedures and differ where the code asks.
`Name` is where a stop's id goes on the row, and where re-protection alone
(`_record_stop_id`) also recovers the row's take-profit legs; `misnamed` is not
program state: it marks the entries whose row was given a leg of an earlier
position there (*leg_booked_twice* below), so that the other properties can be
asked past that defect.

## 3. What TLC checks

| run | instance | asks |
|---|---|---|
| `records`: orders | one order of 1-2 lots with reports 0-3 | what evidence can make the order log say |
| `records`: broker | one order, two copies per request, one tick to land, one tick of list lag, window 2; crashes unbounded; with fairness | log, venue and answers agree; refinement of `LogSpec`; every call answers, every start decides |
| `records`: pair | three lots, both styles, three faults or trades of others; with fairness | spot is never sold ahead of the short; a book at rest forgets nothing; a broken hedge is seen |
| `records`: files | four records over four days, one restart, one failed call of the database | the files verify and keep their promise (`DurableLog`) |
| `records`: replay | one product, two tick sizes; failed writes and restarts, two in all | what an entry used is reproduced |
| `overlay_open` | two ids (maker, taker), two lots wanted | never oversold; flat is flat; the hedge is what filled |
| `close` | a short of two lots, two attempts, one crash, one stranger's lot; and one lot with re-sends of one id | one order at a time; what the close says is so |
| `close_live` | one lot, with fairness | a close ends flat or with a person called |
| `market_feed` | one level, two updates, two faults, one store gap, the timeouts in the code's proportions; with fairness | a synced book is the venue's; no connection is kept on which the book died; when faults are over, the stream becomes usable again |
| `capital` | two carry cycles and another strategy, of 2 dollars each, 3 in the account; one fault | holds and orders; refinement of `CapitalPromise`; holds are given back |
| `directional` | linear with three orders, spot with four, two faults, the private stream | no lot forgotten, entries do not stack, a naked position is dealt with |
| `naked_pair`, `close_refusal`, `booked_twice`, `second_close`, `leg_booked_twice` | each expects a violation | see below |

*Bounds.*  One order is complete for `OrderLog`, because rows never touch each
other; two lots give every relation of requested, recorded and reported
quantity (below, equal, beyond).  Four records in commits of three leave a tail
to lose at every place in a batch; four days with one kept let a file be removed
while another is written; one failed call leaves records and a restart enough to
go on after it at every place (with two restarts the files pass as well).  Two
faults of the replay are a failed write and a failure of its marker, or a failed
write and a restart over what it left; two tick sizes are a size one state has and
the other has not.  Two copies are the smallest number with a duplicate;
one tick of landing and one of lag are the smallest with a copy that is late and
an order that hides, and window 2 is the smallest that the assumption
`LandBy + Lag <= Window` allows.  Two ids are what one open uses.  In the close,
two attempts give "an attempt beside an attempt", two lots a partial fill, two
waits reach the absence proof and the wait limit, one crash and one meddling lot
suffice for each crash point and each direction; `SendBy = 0` makes any tick
before the send a stall.

In the pair, three lots are the smallest number that lets a list show a short
strictly between two others, neither of them nothing; three faults are what the
known defect takes (a partial fill, a list that lags, a read that fails), so that
anything as deep is found.  Four faults were also checked (94 thousand states, no
error beyond `guessed`).

`market_feed` keeps the timeouts' proportions, which `FeedHeals` needs (the ping
interval above the silence that kills a connection would never be reached
otherwise), and delivers what is in flight before time passes (`Prompt`), because
with timeouts this short an undelivered frame would count as a failure of the
feed.  Its two safety properties need neither: they are proved for any timeouts
and any depth of the book, and were also checked with two levels, with every
timeout one and without `Prompt` (4.9 million states, no error).  Two faults
are a fault and a fault during its repair.  In `capital`, three dollars cannot
carry two holds of two: any double promise shows.  Two cycles show an old hold
beside a new one.  In `directional`, the third order of the linear product is
an entry's close beside a second entry; spot needs one more for the stop as an
order.  Linear with four orders was also checked for the safety properties
(2.5 million states, no error).  `leg_booked_twice` needs six: an entry, its
stop and leg, the stop's replacement, and another entry with its stop.

`CHECK_DEADLOCK FALSE` stands where the system may stop: a halted book with
every order over, a finished close, all records appended, the last tick of the
clock, no order left to place.

**Fairness.**  `FairSpec` (broker): weak fairness of `Procedure` and of the
recovery steps.  Both are synchronous code in which every request has a deadline
(`NoAnswer` is always possible), so a live process keeps going.  Nothing is
assumed of the venue, the clock, or of whoever restarts a dead process.
`FairCloseSpec`: weak fairness of `Step`, because the trading loop runs a step
per tick while the book is UNWINDING (`carry_engine.py:1601-1607, 3019-3024`) and every call
inside a step returns.  No fairness for fills, for the position catching up, for
time.
`PairFairness`: weak fairness of `PairThread` (an engine call runs to its end) and
strong fairness of `ViewedTick`: the loop ticks for ever, and of a held book's
ticks again and again one has a usable market view.  A tick without one runs the
size and margin checks, not the inventory cover.  None of restarts, of unknown
orders, or of `RetryHalt`.
`FeedFairness`: weak fairness of the worker's thread (`Connect`, `Waits`,
`Step`), of the clock, and of a venue that reads what it was sent and publishes
the ticker it promised; none of book updates, and faults are finitely many.
`FairCapital`: strong fairness of the carry tick (its transactions wait for a
lock the other writer takes again and again), weak fairness of the other
writer's commit, strong fairness of an order's end (the venue answers sooner or
later, or recovery does); all only for steps that leave `ticksInTime` alone, so
nothing is assumed of the clock.
`DirectionalFairSpec`: weak fairness of the engine's thread (`Engine`: its loop
ticks for ever and every call has a deadline) and of requests on the wire
(`Arrives`).  None of fills, stops or restarts beyond the thread's own.

### Disagreements found

Shown by a run that expects the violation:

* `naked_pair`: when the position cannot be read after a close of the ACQUIRE
  pair, the part closed is taken relative to what the list said before the close
  (`carry_engine.py:2847-2848`), not to the pair.  A list that shows one of two
  lots then sells all the spot beside an open lot and records FLAT, against the
  comment at 2837-2838.  The OVERLAY branch halts on the same reads (2773-2795).

* `close_refusal`: with `SAME_LINK_ID` re-sends on, a refused re-send records
  NEVER_SENT for an attempt whose first send left (`close_executor.py:321-322,
  342-352`).  Off by default; in the default mode `ResolvedIsTrue` holds.
* `booked_twice` (linear): an unconfirmed close that executes in part is booked
  by the position observer and again when it is settled, under two keys
  (`trading_engine.py:1150` against 2846).  The row goes; the venue still holds
  the rest.
* `second_close` (spot): the private stream ends the row of an unconfirmed
  close, nobody books its execution, the whole lot is sold again
  (`trading_engine.py:1128` against 1115).
* `leg_booked_twice` (spot): re-protection names on the row every take-profit
  order of the symbol that the table still calls open (`trading_engine.py:3126`),
  also a leg of an earlier position that filled and was booked while the
  cancel-all at that position's end failed.  The observer then takes that leg's
  sale off the new position; `record_trade` writes nothing, because its key is on
  file.  A position of the leg's size loses its row and its stop; its coin stays
  with no row, no trade and no open order (against 2103, 2846).  This came out of
  the attempt to prove `EntriesAreKnown`.

Met while modelling, and either excluded by a condition that a property names
or visible only in the model's steps:

* *overfill*: a cancel confirmation that reports more than was asked is closed
  as `filled` (`order_lifecycle.py:249`), although an overfill is by the module's
  own definition a contradiction (lines 22-23).
* *post-only none*: a duplicate-id refusal while the lists lag makes
  `place_post_only` return None, "the order does not exist"
  (`carry_broker.py:1126-1128, 1182`), for an order that rests.  The engine then
  crosses.  With retries only of requests whose answer was lost, this takes one
  lost answer and one lagging read.  The refusal on file ends the row, so recovery
  does not look for the order either.  (`blind` marks these orders.)
* *halt not written*: a ledger write that fails in `_record` halts the book
  without writing the halt and without the retry of `on_candle` (1587-1590), so
  the ledger goes on showing what it showed; only a restart, which compares it
  with the venue, tells.  `ExposureIsKnown` asks the ledger only when it says
  HALTED.
* *store gap*: a record of one stream that marks the store gap resets the other
  stream's ticker (`md_engine.py:159`), whose worker has no reason to ask for
  it again; if no new snapshot comes, the connection stays up without a ticker.
  The view refuses the stale mark, so entries wait.  `FeedHeals` asks for
  health only of a feed that this did not hit.
* *retention*: a file that never received a row is the oldest when retention
  runs, or the process dies between recording a removal and doing it
  (`md_store.py:411`): the intact remainder then fails the verification that
  `md_store.py:473-475` describes.  `IntactVerifies` excludes both (`torn`,
  `NoChain`).
* *rolled back*: `append` numbers and chains the next record before the commit
  (`md_store.py:305-309`), and nothing moves either back.  When a commit or an
  insert raises and SQLite rolls the transaction back (a full disk), the process
  goes on (`md_engine.py:70-76`) and its next record is written with a gap in the
  ids and a chain value the file does not end on: `verify` reports both on a log
  nobody touched.  `IntactVerifies` excludes it from the moment such a record may
  be on its way to a file (`astray = "files"`); until then the log verifies, and
  `StoreIsALog` holds throughout, because what was lost is the unsynced tail.
* *emptied log*: a restart that finds no row in any file (all its rows were lost
  in a crash or rolled back, or retention took the rest) starts again at
  record 1 from the beginning of the chain (`md_store.py:203-215`), though
  `pruned.jsonl` says where the removed files ended; the first record then does
  not continue them (`astray`).
* *half-made file*: `_open` makes a day's file and then writes its `chain_start`
  (`md_store.py:264-275`).  When the second fails, the file has none, reads as
  starting from the beginning (`_segment_meta`), and keeps a later, wrong start if
  another day's file was written meanwhile (`astray`).
* *lost tick*: the gap marker resets books and tickers and not the tick sizes
  (`md_engine.py:154-160`), although its docstring says "live and replay converge
  on the same unsynced state" (`md_engine.py:50-53`).  When the REST record that
  set a tick size is lost (or the start of a session, whose replay keeps the
  earlier session's), a later snapshot can be taken live and be OFF_TICK in the
  replay.  The hourly refresh of the instruments (`md_feed.py:450-452`) ends the
  difference in tick size; a book taken meanwhile stays different until both next
  give it up.  `TrustedIsReproduced` excludes these books (`apart`); a trusted
  ticker is always one the replay trusts.
* *replay after a failed write*: the input was applied live and is not in the
  log (`md_engine.py:73`), so a view between the failure and the marker is not
  reproduced, against `md_store.py:6-7`.  `EveryViewReproduced` asks it of runs
  without a failed write; `TrustedIsReproduced` of what entries may use.
* *replay start*: the first record of a session that cannot be written raises a
  fault, and applying that record wipes it (`md_engine.py:131`).
* *late tick*: the hold of a pair just opened expires when the tick that binds
  it comes later than the hold's time (`carry_capital.py:99, 120`).
  `HeldPairIsCovered` asks it of ticks in time.
* *early give-back*: a hold is released on the order log alone while a balance
  read before the fill is young enough to reserve against
  (`carry_capital.py:109`).  `KnownDollarsAreThere` excludes that reading
  (`LostFill`).
* *spot exit lost*: a crash between "filled" and its booking loses a spot exit.
* *shutdown*: a graceful shutdown marks an unconfirmed close that executed
  `cancelled`.
* *stop not named*: a spot crash between setting a stop and recording its id
  leaves a stop-out that is never observed.
* *booked again at replay*: a crash between `record_exit_fill`'s transaction and
  the status write in `_settle_pending_closes` reduces the row again at the next
  start, against the comment near `trading_engine.py:2905`.
* *never sent too early*: the directional start-up writes `never_sent` without
  an age check; the model assumes a lost request arrived or died before.
* *stray legs* (spot): after failed cancels a stray leg or a second stop is not
  chased at start-up despite the docstrings (`trading_engine.py:1223, 3094`);
  with two failed cancels a later lot can adopt an earlier lot's stray stop,
  which need not be of its size.
* *unreadable filters* (spot): a naked spot position is not seen "next cycle"
  when the filters cannot be read; `NakedIsDealtWith` is a linear property.

## 4. What is proved

Every theorem holds for all values of the constants that satisfy the named
assumptions: any set of ids, any quantities, any number of copies, delays,
faults and crashes.  For each safety property the argument is an inductive
invariant, checked by TLC before it was proved; what follows says why the
property alone is not inductive.

| module | theorems | about |
|---|---|---|
| `CarryBroker_proofs` | `LogTyped`, `StatusAlwaysMatchesFill`, `NeverSentTwice`, `EvidenceAlwaysKept` | the order log under any evidence |
| | `BrokerTyped`, `NothingEverHidden`, `BrokerImplementsLog`, `BrokerNeverSendsTwice`, `BrokerKeepsEvidence` | the broker as a client of the log |
| | `LogIsTrue`, `NothingContradicted`, `AnswersAreTrue` | log and answers against the venue |
| `OverlayOpen_proofs` | `NeverMoreThanAsked`, `FlatBooksAreFlat`, `HedgesAreFilled` | the engine's two orders |
| `CloseExecutor_proofs` | `OneOrderAtATime`, `FlatWhenClosed`, `ExplainedByOurs`, `SettledAtTheVenue`, `EveryLotIsBooked` | the close |
| `CarryCapital_proofs` | `EntriesAreCovered`, `PairsAreCovered`, `DollarsAreNotPromisedTwice`, `TheTableKeepsThePromise` | the reservation table |
| `MCRecords_proofs` | `ViewsAreReproduced`, `TrustIsReproduced`, `NoEntryWithoutRecord` | live state and replay |
| | `StoreTyped`, `FilesVerify`, `StoreKeepsPromise` | the day files against their verification and `DurableLog` |
| | `NeverNaked`, `NothingIsForgotten` | the pair from open to close |
| | `RecordsTyped` | all the records side by side |
| `MarketFeed_proofs` | `FeedIsTyped`, `TrueBook`, `TroubleActedOn` | the stream, its queues and the store |
| `DirectionalEngine_proofs` | `BoughtIsKnown`, `EntriesTakeTurns`, `BookCoversVenue` | the directional engine, either product |

**OrderLog.**  `LogInv` gives each row: a well-typed row, a status that fits its
fill (stronger than the property: what each open status may have recorded), and
a submit count that is 0 for a pending row and at most 1 otherwise
(`SubmitsFit`).  Without the last part a second submission is not excluded:
that a row left `pending` for good is what forbids it.  `VerdictFits` does the
case analysis of `Decide` once; `RowStep` and `LogStep` lift it to a row and to
the table.

**CarryBroker.**  `BrokerImplementsLog` is the refinement: every step of broker,
recovery or crash is a step of `LogSpec` or leaves the log alone, so the log's
theorems hold of the log the broker writes.  `BrokerInv` adds to types and
`LogInv`: a call past the marker has its marker on file (`CallFits`,
`SentFirst`), and the rows recovery has still to visit are recorded.

Its second part is about truth.  The last word on an order must never be
overtaken, so `BrokerTruth` rests on facts about the venue that no later step
takes back: the order ended, or the venue refused it, or it is not there and no
copy can land any more (`Over`, `Gone`).  `CallTrue` says which such fact each
step of a procedure hands to the next, `RowTrue` what the row has of it.
Silence of the order lists is such a fact only past the window: an accepted
order that is not listed is younger than `LandBy` plus the ticks it has been
hidden (`VenueTold`), and `LandBy + Lag <= Window` is what makes the code's
absence proof (`carry_broker.py`, `order_recovery.py`) sound.

**OverlayOpen.**  Every step of the engine is one the broker's specification
allows, except the comparison at a cold start, which writes no order; so
`BrokerTruth` holds under this caller.  What an order can come to (`Potential`)
never grows unless a copy leaves, and only the call in progress sends one.
`EngineInv` says for each point of the leg which order may still be open (none,
the maker order, or the crossing order for what the maker order left) and that
all others are over with what the leg booked of them (`DoneWith`).  Exposure is
then a sum of at most two terms.

**CarryPair.**  `PairInv`: the own short is known up to what a list that lags
can hide (`OwnKnown`), the coin up to what a fee of unknown currency takes
(`CoinKnown`), and the short never exceeds the coin that covers it
(`CoverKept`).  The code sizes the sale of the coin in proportion to what it
believes bought back (`carry_engine.py`, `SpotToSell`); `ProportionOfRead` and
`ProportionOfFill` are the two lemmas of integer arithmetic that say such a sale
leaves enough coin, whichever of the two numbers it used.

**CloseExecutor.**  A plan is made from one look and committed and sent later,
so the theorems are in two steps.  `PlanFits` says what any plan may do to any
log given only the look it was made on; `CloseInv` says that the look stays good
enough: each row says of its order what the venue would say (`Honest`), an open
row's order has come no further than the row's age allows (`Timely`), every
attempt but the last is over, a plan that waits is as good as when it was made,
an order is sent and credited once, and while nobody else trades the short only
shrinks.  All but two theorems hold of either way of naming attempts.
`SettledAtTheVenue` and `EveryLotIsBooked` assume `~Resend`: with one id for all
sends they are false (run `close_refusal` and hazard `ledger.py:2178`).

**CarryCapital.**  `CapitalInv` says what an open transaction may hold: it was
decided on committed rows that nobody has changed since, because there is one
writer at a time and orders move only behind the same lock.  What is reserved
and what is needed fit the wallet together (`PromisesFit`); an entry that is
about to send has its hold on file with time left; while the loop keeps up and
no fill is lost, the hold of every pair in use is alive.
`TheTableKeepsThePromise` is a refinement shown step by step: each step of
`CarryCapital` is a step of `CapitalPromise` or leaves its view alone.

**MarketReplay.**  Once a write has failed, live and replayed state drift apart;
what brings them together again is not that they get the same inputs but that
both are reset, by the gap marker or by the connection event of a stream.  So
`ReplayInv` speaks of streams: of a stream without a connection nothing is
trusted, and of a connected one, while the log is writable, both states have the
same ticker, and the same book unless the product is `apart`.  A record keeps
this (`Sound`): outside `apart` the tick sizes are the same, so both judge the
frame alike.  `EveryViewReproduced` is the special case without a failed write,
where the two states are equal, ticks included.

**MarketStore.**  What a reader verifies is a list of files; what the writer
continues is a chain value in memory and one open transaction.  `Chained` says
that the three are one log, for any files, and four lemmas say that each effect
of the code keeps it so: a row (`RecordRowKeeps`), a commit (`CommitKeeps`), a new file
(`OpenKeeps`), a removal (`TailKeeps`).  `FilesVerify` is not inductive because of
rollbacks and restarts.  After a rollback the chain value in memory is no longer
where the files end, while the files are still one log: `LogFits` says `Chained` of
files, transaction and memory (`no`), or of the files alone (`memory`), and
nothing of a log that was written on since (`files`).  A new process looks for the newest row on disk, in whichever file
has one, so it finds the end of the log only if files without rows start where
the files before them do (`EmptySkipped`), and only if there is a row.
`StoreKeepsPromise` is the refinement of `DurableLog`: an append is
`AppendRecord` with whatever the commits made durable, a flush or the commit
before a removal is `Sync`, a crash or a rollback `LoseTail`, the removal of a file
with rows `DropOldest`, and everything else leaves the log alone.  It holds after a
rollback too: what is lost is the unsynced tail, whatever its chain values say.  It rests on what
`FlattenSeq` computes when a file is added, grows or goes (`FlatAppend`,
`FlatExtended`, `FlatTail`).

**MCRecords.**  `RecordsTyped` is about the instance itself: every step of it is
a step of the store or leaves the store alone, and the same for the replay, so
`StoreTyped` and `ReplayInvariant` apply.  The order log needs more
(`OrdersTyped`), because there the broker's invariant holds only in behaviours
in which the broker moves; under any other evidence its rows are typed still.

**MarketFeed.**  That a synced book is one the venue had (`BookIsTrue`) cannot be
seen from the store: it depends on every frame still on its way.  `BookFollows`
therefore follows the venue's history along the pipe.  Inside one numbering
numbers only rise, and every frame says what the book was at its place in that
history (`FramesTrue`).  A restart of the numbering is what could go wrong:
before a delta of the new numbering is read, the store must have seen a snapshot
of it or not trust its book (`RestartsKnown`, `TopicKnown`), and no snapshot may
take it back (`NumberingsInOrder`, `RestartsLast`).  The last two are not facts
about the code: a snapshot of the old numbering, repeated after the first of the
new one, would be believed, because the code takes a snapshot at its word.  So
`FrameRepeated` says that a venue does not do this; the instances had been too
small to show that the model needs it.  `TroubleIsActedOn` is an invariant about
stamps: `TimesAgree` says which of them can be old together, and `Late` allows
for the tick whose step is still to come.

**DirectionalEngine.**  `DirectionalInv` has three parts.  `BookFacts` relates
ledger and venue: only the last entry can be open or have the position
(`LastEntry`), which is what the entry gate (`MayEnter`), the hold on entry rows
(`Held`) and the order of writes at adoption achieve together; an order whose
sale is booked was sent for the lot it is booked on, so no later lot can collide
with its key (`TradesFit`, `StopIsOwn`); a lot without a row is in the trades or
gone (`Known`).  On linear the quantity is not conserved, since a close can be
booked twice (run `booked_twice`); what holds is a bound by what the booked
closes sold, before and since the row was opened (`Counted`, sums over a set
that grows one close at a time).  `Control` says what each point of the thread
finds.  All of `BookFacts` is stated of parameters, so an effect - an order
moves, executes, is recorded, booked or cancelled - is one lemma, and each action
names the effect it has.

The attempt showed two things.  The model had let every naming of a stop recover
the row's legs, where the code does so only when it protects again; it is
corrected.  And `Known` is not inductive at exactly that place: a recovered leg
may be an earlier position's, whose key is on file.  TLC turned the failed step
into a behaviour (`leg_booked_twice`), and the properties except such lots
(`misnamed`).  `OneEntryAtATime` says of an earlier lot on linear that it went
before the next was bought (`GoneBefore`): it may have no trade, because an
execution that no row waits for is seen at the venue only.

**SetSums.**  `MapThenSumSet` is a recursive function over chosen elements.
Instead of an induction theorem with an operator parameter, each induction is a
smallest counterexample (`SmallestOf`, from the library's well-founded subset
ordering).  `SumWith`, `SumOfParts`, `SumGrows`, `SumSame` are what the capital,
overlay, close and directional proofs cite, and `LeastOf` what `Min` returns.

*Assumptions used.*  All are the named `ASSUME`s of the modules, evaluated by
TLC for each run's constants.  Most only type the constants.  Those that carry
an argument: `WindowAssumption` and `CloseAssumption` (`LandBy + Lag <= Window`;
the close also that a send is at most `SendBy` late, which
`INTENT_TO_SEND_MAX_S` enforces), `WantedAssumption` (a hedge of zero stands
aside, `carry_engine.py:1845`, and every part of a hedge is a quantity an order
can have), `FiniteAssumption` (finitely many ids), `PolicyAssumption` (the
limits of the close policy are numbers), `FramesAssumption` (what kinds of frame
there are), `StoreBounds` (there is a day to write to, and a commit of at least
one record), `NoMark` (a payload is not the mark `NoChain` uses for a missing
chain value).

*Only model-checked.*  Every safety invariant, action property and refinement the
runs check is stated by a theorem.  What is left to TLC is that something happens
eventually: `EveryCallAnswers`, `EveryStartDecides`, `BrokenHedgeIsSeen`,
`CloseEnds`, `FeedHeals`, `HoldsAreGivenBack`, `NakedIsDealtWith`.  Liveness under
fairness, `ENABLED` and what a recursive operator computes for every input are out
of the prover's reach here.

## 5. Assumptions and abstractions

* The venue judges every copy of one request alike (`CarryVenue`): a refusal
  of one copy is final for all.  The code relies on it (`carry_broker.py:832`).
* A copy cannot land later than `LandBy`, an order cannot stay unlisted longer
  than `Lag`, and the window outlasts both; no gap between the realtime list and
  history when an order ends.  No time passes between the submit marker and the
  first copy (a stall there would outrun the absence proof).  In the close model
  the corresponding stall is guarded by the code (`INTENT_TO_SEND_MAX_S`) and
  is modelled.
* A live order may be cancelled or rejected by the venue at any time.  The venue
  never overfills in `CarryVenue`; overfills are in `OrderLog`, where any report
  can arrive.
* Whether a failure is logged as a timeout or an unknown outcome is a
  nondeterministic choice.  Read-back polls are reads that happen later.
* `cancel_resting` stays False, as nothing in the program sets it.
* The gates before an order (kill switch, funding, cost, margin) can only refuse
  to start, so `OpenOverlay` is a step that may or may not happen.
* At a cold start the position read is exact; in the close it lags without bound.
* Pair: fees taken in coin are dust, except when their currency is unknown; one
  lot of difference is out of the delta band, and legs differ by whole lots, so a
  rebalance only ever buys.  The broker is reduced to its answer.  An unknown order
  fills or ends before a start (recovery settles it or nothing starts).  A list
  has caught up by the next tick, and the two reads of a cold start and of
  `_perp_confirmed_closed` are right.  Margin and liquidation distance are reasons
  to unwind or halt at any time, funding a reason to unwind.
* Close: an order and its executions that disagree are a failed lookup, and a
  status that is not understood counts as live (both only wait); unequal only in
  the reason given.  The clock is monotone.  `age` of an attempt counts until it is resolved.  A refused or lost request does not come back.
* Market data: a level is a side and a price with no size; trades, the clock
  estimate and the REST schedule are left out; the venue numbers updates of one
  connection without gaps except when it skips, repeats or restarts, and repeats
  no snapshot of a numbering it has left.  The verifier sees files that nobody else wrote.
  A file that cannot even be given its tables, after which no process can read the
  log, is out.  Of what REST brings the replay keeps the tick size, which decides
  how frames are taken; settled prints, the touch and the trading status are set
  and lost in the same way and decide nothing in it.
* Capital: an entry sends its first order before its hold's time is up (the
  order follows the hold in the same call; the default time is minutes).  The
  other strategy uses the interface as its documentation asks.
* Directional: one symbol, a lot of two units with at most one take-profit leg
  of one; a failed cancellation may have taken effect, and a shutdown cancels all
  or, as a crash, none; prices, fees, dust, execution proofs, maker-first entries (off by
  default) and the linear stop's order row are left out.  Only the horizon exit
  (`main.py:1982-2026`) closes; nobody clears the kill switch.
* Not a bound of the code: `MaxCrashes`, `MaxFaults`, `MaxDiskFails`,
  `MaxTroubles`, `MaxRestarts` and one meddling lot; the faults of the directional
  model are a budget over kinds, so two of them may be any pair.

## 6. Not modelled, and the plan

Next, in this order:

1. The close composed with the next open (a moot attempt that is still on its
   way when the cycle closes, `close_plan.py:329`).
2. Risk latches and the kill switch; protective restart; the private stream's
   gaps and duplicates; the ledger's references and reversals (including
   `ledger.py:2178`); the evidence chain.

No property covers four hazards listed in PROJECT.json: `carry_broker.py:1182` and
`md_engine.py:159` (described above), and two that wait for the plan:
`close_plan.py:329` and `ledger.py:2178`.  Of `md_store.py:309` a property says that
only unsynced records go, and none that the log verifies afterwards, because it
does not; of `md_engine.py:73` the wiped fault and the lost tick are left out of the
properties by name.

Left out for good: feature, model and statistics code, backtests, paper
trading, reports, tools, deployment (numeric or offline), and the native
arithmetic kernels.
