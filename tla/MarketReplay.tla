----------------------------- MODULE MarketReplay -----------------------------
(***************************************************************************)
(* md_engine.Engine: every input is appended to the durable log and then   *)
(* applied to the market state, by the one function a replay also uses.    *)
(* Beside the live state the module keeps the state a replay of the log    *)
(* would reach: at its end, and at its last commit (what a crash leaves).  *)
(*                                                                         *)
(* Writes fail: a record is not written (disk full), or is in the file     *)
(* although the append raised (the commit failed), or the failing write    *)
(* takes the uncommitted records with it (the database rolls back).  The   *)
(* engine applies the input all the same, raises store_fault, and marks    *)
(* the gap when it can write again.                                        *)
(*                                                                         *)
(* The market of a product is MarketBook's.  Of what REST brings, the tick *)
(* size of an instrument is kept: prices that are no multiple of it unsync *)
(* the book, so two states can judge the same frame differently.  The rest *)
(* of REST (settled prints, the touch, trading status) is set and lost in  *)
(* the same way and decides nothing here.  Reasons shown in a view, the    *)
(* clock estimate and trades are data left out.                            *)
(* Definitions named Broken... are defects the code does not have.         *)
(***************************************************************************)
EXTENDS MarketBook, Sequences

CONSTANTS
    Products,       \* the two streams
    Ticks,          \* tick sizes an instrument can have
    NoTick,         \* the tick size nobody has told yet
    Frames,         \* frames a stream can deliver; fits: the ticks its prices are on
    MaxFaults       \* bound: failed writes and restarts together

ASSUME ReplayBounds == MaxFaults \in Nat

ASSUME FramesAssumption ==
    \A f \in Frames : /\ f.u \in Nat /\ f.seq \in Nat
                      /\ f.levels \subseteq Levels
                      /\ \A c \in f.changes : c.level \in Levels

VARIABLES
    live,       \* the market state the process acts on
    replayed,   \* what a replay of the log reaches at its end
    safe,       \* ... and at its last commit
    ws,         \* which streams hold a connection
    unlogged,   \* inputs applied since the last write that failed, capped
    hole,       \* what of this session is in no log, and no marker says so:
                \* "nothing", its "start", or an "input"
    apart,      \* products whose tick size was not the same in both states at
                \* some time since both last gave up the book
    running,    \* the process is up and has started its session
    fails, crashes

replayVars == <<live, replayed, safe, ws, unlogged, hole, apart, running,
                fails, crashes>>

-------------------------------------------------------------------------------
(* Records and the one transition.                                         *)

FreshState ==
    [market |-> [c \in Products |-> OfflineMarket], tick |-> [c \in Products |-> NoTick],
     fault |-> FALSE]

Rec(kind, c, what) == [kind |-> kind, product |-> c, what |-> what]
SessionStart == Rec("session_start", "", "")
StoreGap == Rec("store_gap", "", "")

OnMarket(state, c, new) == [state EXCEPT !.market[c] = new]

\* _off_tick: nothing is off a tick size nobody has told.
FitsTick(frame, tick) == tick = NoTick \/ tick \in frame.fits

\* A frame as the book meets it, its prices held against the tick size of the moment.
JudgedAt(frame, tick) ==
    [kind |-> frame.kind, u |-> frame.u, seq |-> frame.seq, levels |-> frame.levels,
     changes |-> frame.changes, onTick |-> FitsTick(frame, tick)]

ApplyRecord(state, rec) ==
    CASE rec.kind = "session_start" -> FreshState
      [] rec.kind = "store_gap" ->
            [state EXCEPT !.market = [c \in Products |-> AfterStoreGap(state.market[c])],
                          !.fault = FALSE]
      [] rec.kind = "connected" -> OnMarket(state, rec.product, Online(state.market[rec.product]))
      [] rec.kind = "disconnected" -> OnMarket(state, rec.product, Offline(state.market[rec.product]))
      [] rec.kind = "invalidate" ->
            OnMarket(state, rec.product, BookInvalidated(state.market[rec.product]))
      [] rec.kind = "frame" ->
            OnMarket(state, rec.product,
                     Ingest(state.market[rec.product], JudgedAt(rec.what, state.tick[rec.product])))
      [] rec.kind = "specs" -> [state EXCEPT !.tick[rec.product] = rec.what]

\* Observers: whose tick sizes differ, and whose books a record makes both give up.
Differ(s, t) == {c \in Products : s.tick[c] # t.tick[c]}

GivenUp(rec) ==
    CASE rec.kind = "session_start" -> Products
      [] rec.kind \in {"connected", "disconnected", "invalidate"} -> {rec.product}
      [] OTHER -> {}

-------------------------------------------------------------------------------
(* record(): append, then apply.                                           *)

BrokenFaulted(state) == state

Faulted(state) == [state EXCEPT !.fault = TRUE]

\* What became of a record whose write raised, and what a replay then reaches.
Fates == {"landed", "lost", "rolledback"}

AfterFailure(from, rec, fate) ==
    CASE fate = "landed" -> ApplyRecord(from, rec)
      [] fate = "lost" -> from
      [] fate = "rolledback" -> safe

MayFail == fails + crashes < MaxFaults /\ fails' = fails + 1

\* The first unlogged input only needs to be told from none.
CountUnlogged == unlogged' = TRUE

\* Appended and applied.
Logged(rec) ==
    /\ live' = ApplyRecord(live, rec)
    /\ replayed' = ApplyRecord(replayed, rec)
    /\ safe' \in {safe, replayed'}
    /\ apart' = Differ(live', replayed') \cup (apart \ GivenUp(rec))
    /\ UNCHANGED <<unlogged, hole, fails>>

\* The append raises; the input is applied all the same.
Unlogged(rec) ==
    /\ MayFail
    /\ live' = ApplyRecord(Faulted(live), rec)
    /\ \E fate \in Fates :
          /\ replayed' = AfterFailure(replayed, rec, fate)
          /\ hole' = IF fate = "landed" THEN hole ELSE "input"
    /\ CountUnlogged
    /\ UNCHANGED <<safe, apart>>

\* The log is writable again: a marker goes first, then the input.
GapLogged(rec) ==
    /\ live' = ApplyRecord(ApplyRecord(live, StoreGap), rec)
    /\ replayed' = ApplyRecord(ApplyRecord(replayed, StoreGap), rec)
    /\ safe' \in {safe, replayed'}
    /\ unlogged' = FALSE /\ hole' = "nothing"
    /\ apart' = Differ(live', replayed')
    /\ UNCHANGED fails

\* The marker is written and the input is not.
GapLoggedOnly(rec) ==
    /\ MayFail
    /\ live' = ApplyRecord(Faulted(ApplyRecord(live, StoreGap)), rec)
    /\ \E fate \in Fates :
          /\ replayed' = AfterFailure(ApplyRecord(replayed, StoreGap), rec, fate)
          /\ hole' = IF fate = "landed" THEN "nothing" ELSE "input"
    /\ CountUnlogged
    /\ UNCHANGED <<safe, apart>>

StillDown(rec) ==
    /\ MayFail
    /\ live' = ApplyRecord(Faulted(live), rec)
    /\ \E fate \in Fates : replayed' = AfterFailure(replayed, StoreGap, fate)
    /\ hole' = "input"
    /\ CountUnlogged
    /\ UNCHANGED <<safe, apart>>

Record(rec) ==
    \/ ~unlogged /\ (Logged(rec) \/ Unlogged(rec))
    \/ unlogged /\ (GapLogged(rec) \/ GapLoggedOnly(rec) \/ StillDown(rec))

-------------------------------------------------------------------------------
\* A process starts: it writes what it is and begins from a fresh state.  When
\* that write fails the fresh state forgets the fault, and the count with it.
StartSession ==
    /\ ~running /\ running' = TRUE
    /\ \/ Logged(SessionStart)
       \/ /\ MayFail
          /\ live' = FreshState
          /\ \E fate \in Fates :
                /\ replayed' = AfterFailure(replayed, SessionStart, fate)
                /\ hole' = IF fate = "landed" THEN "nothing" ELSE "start"
          /\ unlogged' = FALSE
          /\ apart' = Differ(live', replayed')
          /\ UNCHANGED safe
    /\ UNCHANGED <<ws, crashes>>

StreamConnects(c) ==
    /\ ~ws[c] /\ ws' = [ws EXCEPT ![c] = TRUE]
    /\ Record(Rec("connected", c, ""))

BrokenStreamDrops(c) ==
    /\ ws[c] /\ ws' = [ws EXCEPT ![c] = FALSE]
    /\ live' = OnMarket(live, c, Offline(live.market[c]))
    /\ UNCHANGED <<replayed, safe, unlogged, hole, apart, fails>>

\* _drop: the state is told and the event is logged, in one critical section.
StreamDrops(c) ==
    /\ ws[c] /\ ws' = [ws EXCEPT ![c] = FALSE]
    /\ Record(Rec("disconnected", c, ""))

BookAskedAgain(c) ==
    /\ ws[c] /\ Record(Rec("invalidate", c, ""))
    /\ UNCHANGED ws

FrameArrives(c) ==
    /\ ws[c] /\ \E frame \in Frames : Record(Rec("frame", c, frame))
    /\ UNCHANGED ws

RestArrives ==
    /\ \E c \in Products, tick \in Ticks : Record(Rec("specs", c, tick))
    /\ UNCHANGED ws

\* log_view: nothing is logged while inputs are missing from the log.  A view
\* changes neither state, unless its write fails.
ViewFails ==
    /\ ~unlogged /\ MayFail
    /\ live' = Faulted(live)
    /\ \E rolledback \in BOOLEAN :
          /\ replayed' = IF rolledback THEN safe ELSE replayed
          /\ hole' = IF rolledback THEN "input" ELSE hole
    /\ CountUnlogged
    /\ UNCHANGED <<safe, ws, apart>>

Commit ==
    /\ safe' = replayed
    /\ UNCHANGED <<live, replayed, ws, unlogged, hole, apart, fails>>

Inputs ==
    /\ running
    /\ \/ \E c \in Products :
            StreamConnects(c) \/ StreamDrops(c) \/ BookAskedAgain(c) \/ FrameArrives(c)
       \/ RestArrives
       \/ ViewFails
       \/ Commit
    /\ UNCHANGED <<running, crashes>>

\* The process dies: the records after the last commit are gone.
SessionDies ==
    /\ fails + crashes < MaxFaults /\ crashes' = crashes + 1
    /\ running' = FALSE
    /\ ws' = [c \in Products |-> FALSE]
    /\ live' = FreshState
    /\ replayed' = safe
    /\ unlogged' = FALSE /\ hole' = "nothing"
    /\ UNCHANGED <<safe, apart, fails>>

ReplayInit ==
    /\ live = FreshState /\ replayed = FreshState /\ safe = FreshState
    /\ ws = [c \in Products |-> FALSE]
    /\ unlogged = FALSE /\ hole = "nothing" /\ apart = {} /\ running = FALSE
    /\ fails = 0 /\ crashes = 0

ReplayNext == StartSession \/ Inputs \/ SessionDies

ReplaySpec == ReplayInit /\ [][ReplayNext]_replayVars

-------------------------------------------------------------------------------
States == [market : [Products -> [connected : BOOLEAN, ticker : BOOLEAN,
                                  book : [levels : SUBSET Levels, u : Nat, seq : Nat,
                                          synced : BOOLEAN]]],
           tick : [Products -> Ticks \cup {NoTick}], fault : BOOLEAN]

ReplayTypeOK ==
    /\ live \in States /\ replayed \in States /\ safe \in States
    /\ ~replayed.fault /\ apart \subseteq Products
    /\ ws \in [Products -> BOOLEAN]
    /\ unlogged => live.fault

\* What a view shows of a state.
ViewOf(state) ==
    [book |-> [c \in Products |->
                  LET m == state.market[c]
                  IN  IF m.connected /\ m.book.synced THEN <<m.book.levels>> ELSE <<>>],
     connected |-> [c \in Products |-> state.market[c].connected],
     ticker |-> [c \in Products |-> state.market[c].ticker],
     tick |-> state.tick,
     store |-> ~state.fault]

\* Until a write has failed, a replay of the log computes every view that can be
\* logged, through restarts and lost tails (md_store.py:6-7: "reproduces the
\* state, and every stored view, exactly").  A store fault ends that: the marker
\* resets books and tickers and not what else the missing inputs had changed.
EveryViewReproduced ==
    fails = 0 /\ running => ViewOf(live) = ViewOf(replayed)

\* What survives a store fault.  Once the log is writable again, a ticker the
\* process trusts is one a replay of the log trusts, and a book it trusts is the
\* one a replay has, as long as both judged its frames by the same tick size
\* since both last gave the book up.  The marker alone is no such promise
\* (md_engine.py:50-53: "live and replay converge on the same unsynced state"):
\* it resets no tick size, so one in a missing record stays unknown to the replay
\* until REST brings the next, and a book synced before that may be off tick there.
TrustedIsReproduced ==
    running /\ ~unlogged =>
        \A c \in Products :
            /\ live.market[c].ticker => replayed.market[c].ticker
            /\ c \notin apart /\ live.market[c].book.synced =>
                  replayed.market[c].book = live.market[c].book

\* Entries stop (the view's store component fails) while an input of this
\* session is missing from the log unmarked (md_engine.py:50-51: "entries need
\* a reproducible record and stop until the log is writable again").
EntriesNeedTheRecord ==
    running /\ hole = "input" => ~ViewOf(live).store
===============================================================================
