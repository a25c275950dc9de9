---------------------------- MODULE MCRecords_proofs ----------------------------
(***************************************************************************)
(* Theorems about the records MCRecords brings together, besides the       *)
(* broker's: the market-data engine and the replay of its log              *)
(* (MarketReplay), the store (MarketStore) and the carry engine's hedge    *)
(* (CarryPair), for any values of the constants and any number of faults,  *)
(* restarts and trades of others; and, at the end, that all of them stay   *)
(* well-formed whichever moves.                                            *)
(*                                                                         *)
(* The engine.  While no write has failed the replayed state is the live   *)
(* one.  Once one has, the two states drift apart, and what brings them    *)
(* together again is not that they receive the same inputs but that both   *)
(* are reset: by the gap marker, or by the connection event of a stream.   *)
(* So the invariant speaks of streams.  Of a stream without a connection   *)
(* the process trusts nothing; of a connected stream, while the log is     *)
(* writable, both states hold the same ticker, and the same book, save of  *)
(* a product one of whose frames the two judged by different tick sizes    *)
(* and no reset has come to since.                                         *)
(*                                                                         *)
(* The store.  What a reader verifies is a list of files; what the writer  *)
(* continues is a chain value in memory and the rows of one open           *)
(* transaction.  The invariant (LogFits) says that the three are one log   *)
(* (Chained), or that the files alone are one and the process is elsewhere *)
(* with nothing written since.  A restart needs more: it looks for the     *)
(* newest row on disk, so it finds the end of the log only because files   *)
(* without rows start where the files before them do (EmptySkipped), and   *)
(* only where retention left a row.                                        *)
(*                                                                         *)
(* The hedge.  What is at stake is the engine's own short: the venue's     *)
(* short less what others sold.  The invariant bounds it, wherever the     *)
(* thread is, by a number the engine can compute (OwnKnown), and bounds    *)
(* the coin the same way (CoinKnown).  A close sells spot only after its   *)
(* cover was answered, and then a list that lags shows no less than the    *)
(* own short, because the cover itself was the last of the engine's trades *)
(* (Own <= was): so selling in proportion leaves a coin for each own lot   *)
(* (CoverKept).  The one way out of the bound is the observer guessed.     *)
(***************************************************************************)
EXTENDS MCRecords, CarryBroker_proofs, SetSums_proofs, SequenceTheorems

-------------------------------------------------------------------------------
(***************************************************************************)
(* The engine and the replay of its log.                                   *)
(***************************************************************************)
Books == [levels : SUBSET Levels, u : Nat, seq : Nat, synced : BOOLEAN]
Markets == [connected : BOOLEAN, ticker : BOOLEAN, book : Books]

\* Nothing of the market is trusted.
Quiet(m) == ~m.book.synced /\ ~m.ticker

\* Two markets trust the same ticker.
SameTicker(m, n) == m.ticker = n.ticker

\* They trust a book or not alike, and what both trust is equal.
SameBook(m, n) ==
    /\ m.book.synced = n.book.synced
    /\ m.book.synced => m.book = n.book

QuietOff(s, up) == \A c \in Products : ~up[c] => Quiet(s.market[c])

\* Two states trust the same of every connected stream, the books left out whose
\* frames they may have judged differently.
InStep(s, t, up, judgedApart) ==
    \A c \in Products : up[c] =>
        /\ SameTicker(s.market[c], t.market[c])
        /\ c \notin judgedApart => SameBook(s.market[c], t.market[c])

ReplayInv ==
    /\ ReplayTypeOK /\ ~safe.fault
    /\ unlogged \in BOOLEAN /\ running \in BOOLEAN /\ fails \in Nat
    /\ fails = 0 => ~unlogged /\ (running => live = replayed)
    /\ ~running => ~unlogged /\ \A c \in Products : ~ws[c]
    /\ hole = "input" => unlogged
    /\ QuietOff(live, ws)
    /\ running /\ ~unlogged => InStep(live, replayed, ws, apart)

-------------------------------------------------------------------------------
(***************************************************************************)
(* One market.                                                             *)
(***************************************************************************)

\* The states of the module, by name.
LEMMA StatesAre ==
    States = [market : [Products -> Markets], tick : [Products -> Ticks \cup {NoTick}],
              fault : BOOLEAN]
BY DEF States, Markets, Books

\* What the book needs of a frame it is given.
FrameLike(f) ==
    /\ f.u \in Nat /\ f.seq \in Nat
    /\ f.levels \in SUBSET Levels /\ \A d \in f.changes : d.level \in Levels
    /\ f.onTick \in BOOLEAN

LEMMA JudgedIs ==
    ASSUME NEW f \in Frames, NEW tick
    PROVE  FrameLike(JudgedAt(f, tick)) /\ JudgedAt(f, tick).kind = f.kind
<1>1. FitsTick(f, tick) \in BOOLEAN
  BY DEF FitsTick
<1> QED
  BY <1>1, FramesAssumption DEF FrameLike, JudgedAt

LEMMA ChangedType ==
    ASSUME NEW levels \in SUBSET Levels, NEW f, FrameLike(f)
    PROVE  Changed(levels, f.changes) \in SUBSET Levels
BY DEF Changed, FrameLike

\* A frame leaves a book a book.
LEMMA ApplyBookType ==
    ASSUME NEW b \in Books, NEW f, FrameLike(f)
    PROVE  ApplyBook(b, f).book \in Books
<1>1. Invalidated(b) \in Books
  BY DEF Invalidated, Books
<1>2. [levels |-> f.levels, u |-> f.u, seq |-> f.seq, synced |-> TRUE] \in Books
  BY DEF Books, FrameLike
<1>3. Changed(b.levels, f.changes) \in SUBSET Levels
  BY ChangedType DEF Books
<1>4. [levels |-> Changed(b.levels, f.changes), u |-> f.u, seq |-> f.seq, synced |-> TRUE] \in Books
  BY <1>3 DEF Books, FrameLike
<1>5. ApplySnapshot(b, f).book \in Books
  BY <1>1, <1>2 DEF ApplySnapshot, Result
<1>6. NextDelta(b, f).book \in Books
  BY <1>1, <1>4 DEF NextDelta, Result
<1>7. ApplyDelta(b, f).book \in Books
  BY <1>1, <1>6 DEF ApplyDelta, Result
<1> QED
  BY <1>5, <1>7 DEF ApplyBook

\* Books that are not trusted are left untrusted or replaced by the same snapshot.
LEMMA ApplyBookUntrusted ==
    ASSUME NEW b \in Books, NEW d \in Books, ~b.synced, ~d.synced, NEW f, FrameLike(f)
    PROVE  /\ ApplyBook(b, f).book.synced = ApplyBook(d, f).book.synced
           /\ ApplyBook(b, f).book.synced => ApplyBook(b, f).book = ApplyBook(d, f).book
<1>0. f.onTick \in BOOLEAN
  BY DEF FrameLike
<1>1. Invalidated(b).synced = FALSE /\ Invalidated(d).synced = FALSE
  BY DEF Invalidated, Books
<1>2. CASE f.kind = "snapshot"
  <2>1. ~StaleSnapshot(b, f) /\ ~StaleSnapshot(d, f)
    BY DEF StaleSnapshot
  <2>2. ApplyBook(b, f) = ApplySnapshot(b, f) /\ ApplyBook(d, f) = ApplySnapshot(d, f)
    BY <1>2 DEF ApplyBook
  <2>3. CASE f.onTick
    <3>1. ApplySnapshot(b, f).book = ApplySnapshot(d, f).book
      BY <1>0, <2>1, <2>3 DEF ApplySnapshot, Result
    <3> QED
      BY <2>2, <3>1
  <2>4. CASE ~f.onTick
    <3>1. /\ ApplySnapshot(b, f).book = Invalidated(b)
          /\ ApplySnapshot(d, f).book = Invalidated(d)
      BY <1>0, <2>1, <2>4 DEF ApplySnapshot, Result
    <3> QED
      BY <1>1, <2>2, <3>1
  <2> QED
    BY <1>0, <2>3, <2>4
<1>3. CASE f.kind # "snapshot"
  <2>1. ApplyBook(b, f).book = b /\ ApplyBook(d, f).book = d
    BY <1>3 DEF ApplyBook, ApplyDelta, Result
  <2> QED
    BY <2>1 DEF Books
<1> QED
  BY <1>2, <1>3

LEMMA IngestType ==
    ASSUME NEW m \in Markets, NEW f, FrameLike(f)
    PROVE  Ingest(m, f) \in Markets
<1>1. m.book \in Books
  BY DEF Markets
<1>2. ApplyBook(m.book, f).book \in Books
  BY <1>1, ApplyBookType
<1>3. Invalidated(m.book) \in Books
  BY <1>1 DEF Invalidated, Books
<1>4. [m EXCEPT !.book = ApplyBook(@, f).book] \in Markets
  BY <1>2 DEF Markets
<1>5. BookInvalidated(m) \in Markets
  BY <1>3 DEF BookInvalidated, Markets
<1>6. TickerHeard(m, f) \in Markets
  BY DEF TickerHeard, Markets
<1> QED
  BY <1>4, <1>5, <1>6 DEF Ingest

\* A ticker hears what a frame is, and not how its prices were judged.
LEMMA IngestTicker ==
    ASSUME NEW m \in Markets, NEW n \in Markets, SameTicker(m, n),
           NEW f, NEW g, f.kind = g.kind
    PROVE  SameTicker(Ingest(m, f), Ingest(n, g))
<1>1. CASE f.kind \in BookFrames
  <2> DEFINE x == ApplyBook(m.book, f).book
             y == ApplyBook(n.book, g).book
  <2>1. Ingest(m, f) = [m EXCEPT !.book = x] /\ Ingest(n, g) = [n EXCEPT !.book = y]
    BY <1>1 DEF Ingest, BookFrames, TickerFrames
  <2> HIDE DEF x, y
  <2>2. Ingest(m, f).ticker = m.ticker /\ Ingest(n, g).ticker = n.ticker
    BY <2>1 DEF Markets
  <2> QED
    BY <2>2 DEF SameTicker
<1>2. CASE f.kind = "garbled"
  <2>1. Ingest(m, f) = BookInvalidated(m) /\ Ingest(n, g) = BookInvalidated(n)
    BY <1>2 DEF Ingest, BookFrames, TickerFrames
  <2>2. Ingest(m, f).ticker = m.ticker /\ Ingest(n, g).ticker = n.ticker
    BY <2>1 DEF BookInvalidated, Markets
  <2> QED
    BY <2>2 DEF SameTicker
<1>3. CASE f.kind \in TickerFrames
  <2>1. Ingest(m, f) = TickerHeard(m, f) /\ Ingest(n, g) = TickerHeard(n, g)
    BY <1>3 DEF Ingest, BookFrames, TickerFrames
  <2> QED
    BY <2>1 DEF TickerHeard, SameTicker, Markets
<1>4. CASE f.kind \notin BookFrames \cup {"garbled"} \cup TickerFrames
  BY <1>4 DEF Ingest
<1> QED
  BY <1>1, <1>2, <1>3, <1>4

LEMMA IngestBook ==
    ASSUME NEW m \in Markets, NEW n \in Markets, SameBook(m, n), NEW f, FrameLike(f)
    PROVE  SameBook(Ingest(m, f), Ingest(n, f))
<1>1. m.book \in Books /\ n.book \in Books
  BY DEF Markets
<1>2. CASE f.kind \in BookFrames
  <2> DEFINE x == ApplyBook(m.book, f).book
             y == ApplyBook(n.book, f).book
  <2>1. x.synced = y.synced /\ (x.synced => x = y)
    <3>1. CASE m.book.synced
      BY <3>1 DEF SameBook
    <3>2. CASE ~m.book.synced
      BY <1>1, <3>2, ApplyBookUntrusted DEF SameBook
    <3> QED
      BY <3>1, <3>2
  <2>2. Ingest(m, f) = [m EXCEPT !.book = x] /\ Ingest(n, f) = [n EXCEPT !.book = y]
    BY <1>2 DEF Ingest, BookFrames, TickerFrames
  <2> HIDE DEF x, y
  <2>3. Ingest(m, f).book = x /\ Ingest(n, f).book = y
    BY <2>2 DEF Markets
  <2> QED
    BY <2>1, <2>3 DEF SameBook
<1>3. CASE f.kind = "garbled"
  <2>1. Ingest(m, f) = BookInvalidated(m) /\ Ingest(n, f) = BookInvalidated(n)
    BY <1>3 DEF Ingest, BookFrames, TickerFrames
  <2>2. /\ BookInvalidated(m).book = Invalidated(m.book)
        /\ BookInvalidated(n).book = Invalidated(n.book)
    BY DEF BookInvalidated, Markets
  <2>3. Invalidated(m.book).synced = FALSE /\ Invalidated(n.book).synced = FALSE
    BY <1>1 DEF Invalidated, Books
  <2> QED
    BY <2>1, <2>2, <2>3 DEF SameBook
<1>4. CASE f.kind \in TickerFrames
  <2>1. Ingest(m, f) = TickerHeard(m, f) /\ Ingest(n, f) = TickerHeard(n, f)
    BY <1>4 DEF Ingest, BookFrames, TickerFrames
  <2> QED
    BY <2>1 DEF TickerHeard, SameBook, Markets
<1>5. CASE f.kind \notin BookFrames \cup {"garbled"} \cup TickerFrames
  BY <1>5 DEF Ingest
<1> QED
  BY <1>2, <1>3, <1>4, <1>5

-------------------------------------------------------------------------------
(***************************************************************************)
(* One record, on two states.                                              *)
(***************************************************************************)

LEMMA OnMarketIs ==
    ASSUME NEW s \in States, NEW c \in Products, NEW m \in Markets
    PROVE  /\ OnMarket(s, c, m) \in States
           /\ OnMarket(s, c, m).fault = s.fault /\ OnMarket(s, c, m).tick = s.tick
           /\ OnMarket(s, c, m).market[c] = m
           /\ \A d \in Products : d # c => OnMarket(s, c, m).market[d] = s.market[d]
BY StatesAre DEF OnMarket

LEMMA FreshIs ==
    /\ FreshState \in States /\ ~FreshState.fault
    /\ \A c \in Products : Quiet(FreshState.market[c])
<1>1. OfflineMarket \in Markets /\ Quiet(OfflineMarket)
  BY DEF OfflineMarket, NoBook, Markets, Books, Quiet
<1> QED
  BY <1>1, StatesAre DEF FreshState

LEMMA FaultedIs ==
    ASSUME NEW s \in States
    PROVE  Faulted(s) \in States /\ Faulted(s).fault /\ Faulted(s).market = s.market
BY StatesAre DEF Faulted

\* The gap marker leaves nothing trusted, in whatever state it finds.
LEMMA GapIs ==
    ASSUME NEW s \in States
    PROVE  /\ ApplyRecord(s, StoreGap) \in States
           /\ ~ApplyRecord(s, StoreGap).fault
           /\ \A c \in Products : Quiet(ApplyRecord(s, StoreGap).market[c])
<1>1. ASSUME NEW m \in Markets PROVE AfterStoreGap(m) \in Markets /\ Quiet(AfterStoreGap(m))
  BY DEF AfterStoreGap, Invalidated, Markets, Books, Quiet
<1>2. ApplyRecord(s, StoreGap) =
        [s EXCEPT !.market = [c \in Products |-> AfterStoreGap(s.market[c])], !.fault = FALSE]
  BY DEF ApplyRecord, StoreGap, Rec
<1> DEFINE after == [c \in Products |-> AfterStoreGap(s.market[c])]
<1>3. \A c \in Products : s.market[c] \in Markets
  BY StatesAre
<1>4. after \in [Products -> Markets] /\ \A c \in Products : Quiet(after[c])
  BY <1>1, <1>3
<1> HIDE DEF after
<1>5. ApplyRecord(s, StoreGap) = [s EXCEPT !.market = after, !.fault = FALSE]
  BY <1>2 DEF after
<1>6. /\ ApplyRecord(s, StoreGap) \in States
      /\ ApplyRecord(s, StoreGap).fault = FALSE
      /\ ApplyRecord(s, StoreGap).market = after
  BY <1>4, <1>5, StatesAre
<1> QED
  BY <1>4, <1>6

LEMMA QuietAgrees ==
    ASSUME NEW m \in Markets, NEW n \in Markets, Quiet(m), Quiet(n)
    PROVE  SameTicker(m, n) /\ SameBook(m, n)
BY DEF Quiet, SameTicker, SameBook, Markets, Books

\* What each input does to the market of its product.
LEMMA StartIs ==
    ASSUME NEW s
    PROVE  ApplyRecord(s, SessionStart) = FreshState
BY DEF ApplyRecord, SessionStart, Rec

LEMMA ConnectedIs ==
    ASSUME NEW s, NEW c
    PROVE  ApplyRecord(s, Rec("connected", c, "")) = OnMarket(s, c, Online(s.market[c]))
BY DEF ApplyRecord, Rec

LEMMA DisconnectedIs ==
    ASSUME NEW s, NEW c
    PROVE  ApplyRecord(s, Rec("disconnected", c, "")) = OnMarket(s, c, Offline(s.market[c]))
BY DEF ApplyRecord, Rec

LEMMA InvalidateIs ==
    ASSUME NEW s, NEW c
    PROVE  ApplyRecord(s, Rec("invalidate", c, "")) = OnMarket(s, c, BookInvalidated(s.market[c]))
BY DEF ApplyRecord, Rec

LEMMA FrameIs ==
    ASSUME NEW s, NEW c, NEW f
    PROVE  ApplyRecord(s, Rec("frame", c, f)) =
             OnMarket(s, c, Ingest(s.market[c], JudgedAt(f, s.tick[c])))
BY DEF ApplyRecord, Rec

LEMMA SpecsIs ==
    ASSUME NEW s, NEW c, NEW x
    PROVE  ApplyRecord(s, Rec("specs", c, x)) = [s EXCEPT !.tick[c] = x]
BY DEF ApplyRecord, Rec

\* What a record must do for the invariant when the connections go from up to on:
\* it is an input; trust appears only where a stream is connected; and both states
\* gain it alike, books where they have the same tick size.
Sound(rec, up, on) ==
    /\ \A s \in States :
        /\ ApplyRecord(s, rec) \in States
        /\ ApplyRecord(s, rec).fault = s.fault
        /\ QuietOff(s, up) => QuietOff(ApplyRecord(s, rec), on)
    /\ \A s, t \in States : \A A \in SUBSET Products :
        InStep(s, t, up, A) =>
            InStep(ApplyRecord(s, rec), ApplyRecord(t, rec), on,
                   Differ(ApplyRecord(s, rec), ApplyRecord(t, rec)) \cup (A \ GivenUp(rec)))

LEMMA SoundAtMarket ==
    ASSUME NEW rec, NEW c \in Products,
           NEW up \in [Products -> BOOLEAN], NEW on \in [Products -> BOOLEAN],
           NEW F \in [States -> Markets],
           \A d \in Products : d # c => on[d] = up[d],
           \A s \in States : ApplyRecord(s, rec) = OnMarket(s, c, F[s]),
           \A s \in States : (~up[c] => Quiet(s.market[c])) => (~on[c] => Quiet(F[s])),
           GivenUp(rec) \subseteq {c},
           \A s, t \in States :
              (up[c] => SameTicker(s.market[c], t.market[c])) => (on[c] => SameTicker(F[s], F[t])),
           \A s, t \in States :
              /\ s.tick[c] = t.tick[c]
              /\ c \notin GivenUp(rec) => (up[c] => SameBook(s.market[c], t.market[c]))
              => (on[c] => SameBook(F[s], F[t]))
    PROVE  Sound(rec, up, on)
<1>1. ASSUME NEW s \in States
      PROVE  /\ ApplyRecord(s, rec) \in States
             /\ ApplyRecord(s, rec).fault = s.fault /\ ApplyRecord(s, rec).tick = s.tick
             /\ ApplyRecord(s, rec).market[c] = F[s]
             /\ \A d \in Products : d # c => ApplyRecord(s, rec).market[d] = s.market[d]
  <2> DEFINE m == F[s]
  <2>1. m \in Markets /\ ApplyRecord(s, rec) = OnMarket(s, c, m)
    OBVIOUS
  <2> HIDE DEF m
  <2>2. /\ OnMarket(s, c, m) \in States
        /\ OnMarket(s, c, m).fault = s.fault /\ OnMarket(s, c, m).tick = s.tick
        /\ OnMarket(s, c, m).market[c] = m
        /\ \A d \in Products : d # c => OnMarket(s, c, m).market[d] = s.market[d]
    BY <2>1, OnMarketIs
  <2>3. /\ ApplyRecord(s, rec) \in States
        /\ ApplyRecord(s, rec).fault = s.fault /\ ApplyRecord(s, rec).tick = s.tick
        /\ ApplyRecord(s, rec).market[c] = m
        /\ \A d \in Products : d # c => ApplyRecord(s, rec).market[d] = s.market[d]
    BY <2>1, <2>2
  <2> QED
    BY <2>3 DEF m
<1>2. ASSUME NEW s \in States, QuietOff(s, up)
      PROVE  QuietOff(ApplyRecord(s, rec), on)
  <2> SUFFICES ASSUME NEW d \in Products, ~on[d]
               PROVE  Quiet(ApplyRecord(s, rec).market[d])
    BY DEF QuietOff
  <2>1. CASE d = c
    BY <1>1, <1>2, <2>1 DEF QuietOff
  <2>2. CASE d # c
    BY <1>1, <1>2, <2>2 DEF QuietOff
  <2> QED
    BY <2>1, <2>2
<1>3. ASSUME NEW s \in States, NEW t \in States, NEW A \in SUBSET Products, InStep(s, t, up, A)
      PROVE  InStep(ApplyRecord(s, rec), ApplyRecord(t, rec), on,
                    Differ(ApplyRecord(s, rec), ApplyRecord(t, rec)) \cup (A \ GivenUp(rec)))
  <2> DEFINE s1 == ApplyRecord(s, rec)
             t1 == ApplyRecord(t, rec)
  <2>1. /\ s1.tick = s.tick /\ s1.market[c] = F[s]
        /\ t1.tick = t.tick /\ t1.market[c] = F[t]
        /\ \A d \in Products : d # c => s1.market[d] = s.market[d] /\ t1.market[d] = t.market[d]
    BY <1>1
  <2> HIDE DEF s1, t1
  <2> SUFFICES ASSUME NEW d \in Products, on[d]
               PROVE  /\ SameTicker(s1.market[d], t1.market[d])
                      /\ d \notin Differ(s1, t1) \cup (A \ GivenUp(rec)) =>
                            SameBook(s1.market[d], t1.market[d])
    BY DEF InStep, s1, t1
  <2>2. CASE d = c
    <3>1. up[c] => SameTicker(s.market[c], t.market[c])
      BY <1>3 DEF InStep
    <3>2. SameTicker(F[s], F[t])
      BY <2>2, <3>1
    <3>3. ASSUME d \notin Differ(s1, t1) \cup (A \ GivenUp(rec))
          PROVE  SameBook(F[s], F[t])
      <4>1. s.tick[c] = t.tick[c]
        BY <2>1, <2>2, <3>3 DEF Differ
      <4>2. c \notin GivenUp(rec) => (up[c] => SameBook(s.market[c], t.market[c]))
        BY <1>3, <2>2, <3>3 DEF InStep
      <4> QED
        BY <2>2, <4>1, <4>2
    <3> QED
      BY <2>1, <2>2, <3>2, <3>3
  <2>3. CASE d # c
    <3>1. up[d] /\ d \notin GivenUp(rec)
      BY <2>3
    <3>2. /\ SameTicker(s.market[d], t.market[d])
          /\ d \notin A => SameBook(s.market[d], t.market[d])
      BY <1>3, <3>1 DEF InStep
    <3> QED
      BY <2>1, <2>3, <3>1, <3>2
  <2> QED
    BY <2>2, <2>3
<1> QED
  BY <1>1, <1>2, <1>3 DEF Sound

LEMMA ConnectedSound ==
    ASSUME NEW c \in Products, NEW up \in [Products -> BOOLEAN]
    PROVE  Sound(Rec("connected", c, ""), up, [up EXCEPT ![c] = TRUE])
<1> DEFINE F == [s \in States |-> Online(s.market[c])]
           on == [up EXCEPT ![c] = TRUE]
<1>1. ASSUME NEW m \in Markets PROVE Online(m) \in Markets /\ Quiet(Online(m))
  BY DEF Online, Invalidated, Markets, Books, Quiet
<1>2. ASSUME NEW s \in States PROVE s.market[c] \in Markets
  BY StatesAre
<1>3. F \in [States -> Markets] /\ \A s \in States : Quiet(F[s])
  BY <1>1, <1>2
<1>4. \A s, t \in States : SameTicker(F[s], F[t]) /\ SameBook(F[s], F[t])
  <2> HIDE DEF F
  <2> QED
    BY <1>3, QuietAgrees
<1>5. \A s \in States : ApplyRecord(s, Rec("connected", c, "")) = OnMarket(s, c, F[s])
  BY ConnectedIs
<1>6. /\ on \in [Products -> BOOLEAN] /\ on[c] /\ \A d \in Products : d # c => on[d] = up[d]
      /\ GivenUp(Rec("connected", c, "")) \subseteq {c}
  BY DEF GivenUp, Rec
<1> HIDE DEF F, on
<1>7. Sound(Rec("connected", c, ""), up, on)
  BY <1>3, <1>4, <1>5, <1>6, SoundAtMarket
<1> QED
  BY <1>7 DEF on

LEMMA DisconnectedSound ==
    ASSUME NEW c \in Products, NEW up \in [Products -> BOOLEAN]
    PROVE  Sound(Rec("disconnected", c, ""), up, [up EXCEPT ![c] = FALSE])
<1> DEFINE F == [s \in States |-> Offline(s.market[c])]
           on == [up EXCEPT ![c] = FALSE]
<1>1. ASSUME NEW m \in Markets PROVE Offline(m) \in Markets /\ Quiet(Offline(m))
  BY DEF Offline, Invalidated, Markets, Books, Quiet
<1>2. ASSUME NEW s \in States PROVE s.market[c] \in Markets
  BY StatesAre
<1>3. F \in [States -> Markets] /\ \A s \in States : Quiet(F[s])
  BY <1>1, <1>2
<1>4. \A s \in States : ApplyRecord(s, Rec("disconnected", c, "")) = OnMarket(s, c, F[s])
  BY DisconnectedIs
<1>5. /\ on \in [Products -> BOOLEAN] /\ ~on[c] /\ \A d \in Products : d # c => on[d] = up[d]
      /\ GivenUp(Rec("disconnected", c, "")) \subseteq {c}
  BY DEF GivenUp, Rec
<1> HIDE DEF F, on
<1>6. Sound(Rec("disconnected", c, ""), up, on)
  BY <1>3, <1>4, <1>5, SoundAtMarket
<1> QED
  BY <1>6 DEF on

LEMMA InvalidateSound ==
    ASSUME NEW c \in Products, NEW up \in [Products -> BOOLEAN], up[c]
    PROVE  Sound(Rec("invalidate", c, ""), up, up)
<1> DEFINE F == [s \in States |-> BookInvalidated(s.market[c])]
<1>1. ASSUME NEW m \in Markets PROVE BookInvalidated(m) \in Markets
  BY DEF BookInvalidated, Invalidated, Markets, Books
<1>2. ASSUME NEW s \in States PROVE s.market[c] \in Markets
  BY StatesAre
<1>3. ASSUME NEW m \in Markets, NEW n \in Markets
      PROVE  /\ SameTicker(m, n) => SameTicker(BookInvalidated(m), BookInvalidated(n))
             /\ SameBook(BookInvalidated(m), BookInvalidated(n))
  BY <1>3 DEF BookInvalidated, Invalidated, Markets, Books, SameTicker, SameBook
<1>4. F \in [States -> Markets]
  BY <1>1, <1>2
<1>5. \A s, t \in States :
        /\ SameTicker(s.market[c], t.market[c]) => SameTicker(F[s], F[t])
        /\ SameBook(F[s], F[t])
  BY <1>2, <1>3
<1>6. \A s \in States : ApplyRecord(s, Rec("invalidate", c, "")) = OnMarket(s, c, F[s])
  BY InvalidateIs
<1>7. GivenUp(Rec("invalidate", c, "")) \subseteq {c}
  BY DEF GivenUp, Rec
<1> HIDE DEF F
<1> QED
  BY <1>4, <1>5, <1>6, <1>7, SoundAtMarket

LEMMA FrameSound ==
    ASSUME NEW c \in Products, NEW up \in [Products -> BOOLEAN], up[c], NEW f \in Frames
    PROVE  Sound(Rec("frame", c, f), up, up)
<1> DEFINE F == [s \in States |-> Ingest(s.market[c], JudgedAt(f, s.tick[c]))]
<1>1. ASSUME NEW s \in States PROVE s.market[c] \in Markets
  BY StatesAre
<1>2. F \in [States -> Markets]
  BY <1>1, IngestType, JudgedIs
<1>3. \A s, t \in States : SameTicker(s.market[c], t.market[c]) => SameTicker(F[s], F[t])
  BY <1>1, IngestTicker, JudgedIs
<1>4. \A s, t \in States :
        s.tick[c] = t.tick[c] /\ SameBook(s.market[c], t.market[c]) => SameBook(F[s], F[t])
  BY <1>1, IngestBook, JudgedIs
<1>5. \A s \in States : ApplyRecord(s, Rec("frame", c, f)) = OnMarket(s, c, F[s])
  BY FrameIs
<1>6. GivenUp(Rec("frame", c, f)) = {}
  BY DEF GivenUp, Rec
<1> HIDE DEF F
<1> QED
  BY <1>2, <1>3, <1>4, <1>5, <1>6, SoundAtMarket

LEMMA SpecsSound ==
    ASSUME NEW c \in Products, NEW x \in Ticks, NEW up \in [Products -> BOOLEAN]
    PROVE  Sound(Rec("specs", c, x), up, up)
<1> DEFINE rec == Rec("specs", c, x)
<1>1. ASSUME NEW s \in States
      PROVE  /\ [s EXCEPT !.tick[c] = x] \in States
             /\ [s EXCEPT !.tick[c] = x].fault = s.fault
             /\ [s EXCEPT !.tick[c] = x].market = s.market
  <2> DEFINE after == [s.tick EXCEPT ![c] = x]
  <2>1. after \in [Products -> Ticks \cup {NoTick}]
    BY StatesAre
  <2>2. [s EXCEPT !.tick[c] = x] = [s EXCEPT !.tick = after]
    OBVIOUS
  <2> HIDE DEF after
  <2> QED
    BY <2>1, <2>2, StatesAre
<1>2. ASSUME NEW s \in States
      PROVE  /\ ApplyRecord(s, rec) \in States
             /\ ApplyRecord(s, rec).fault = s.fault
             /\ ApplyRecord(s, rec).market = s.market
  <2> DEFINE after == [s EXCEPT !.tick[c] = x]
  <2>1. ApplyRecord(s, rec) = after
    BY SpecsIs
  <2>2. after \in States /\ after.fault = s.fault /\ after.market = s.market
    BY <1>1
  <2> HIDE DEF after
  <2> QED
    BY <2>1, <2>2
<1>3. GivenUp(rec) = {}
  BY DEF GivenUp, Rec
<1> HIDE DEF rec
<1>4. Sound(rec, up, up)
  BY <1>2, <1>3 DEF Sound, QuietOff, InStep
<1> QED
  BY <1>4 DEF rec

-------------------------------------------------------------------------------
(***************************************************************************)
(* record() keeps the invariant, whatever becomes of its write.            *)
(***************************************************************************)

LEMMA RecordKeeps ==
    ASSUME ReplayInv, running, running' = running, UNCHANGED crashes,
           ws' \in [Products -> BOOLEAN],
           NEW rec, Sound(rec, ws, ws'), Record(rec)
    PROVE  ReplayInv'
<1> USE DEF ReplayInv, ReplayTypeOK
<1> DEFINE marked == ApplyRecord(live, StoreGap)
           again == ApplyRecord(replayed, StoreGap)
<1>1. /\ marked \in States /\ ~marked.fault /\ \A c \in Products : Quiet(marked.market[c])
      /\ again \in States /\ ~again.fault /\ \A c \in Products : Quiet(again.market[c])
  BY GapIs
<1>2. QuietOff(marked, ws) /\ InStep(marked, again, ws, {})
  <2>1. ASSUME NEW c \in Products
        PROVE  marked.market[c] \in Markets /\ again.market[c] \in Markets
    BY <1>1, StatesAre
  <2> QED
    BY <1>1, <2>1, QuietAgrees DEF QuietOff, InStep
<1>3. ASSUME NEW s \in States, QuietOff(s, ws)
      PROVE  /\ ApplyRecord(s, rec) \in States
             /\ ApplyRecord(s, rec).fault = s.fault
             /\ QuietOff(ApplyRecord(s, rec), ws')
  BY <1>3 DEF Sound
<1>4. ASSUME NEW s \in States
      PROVE  ApplyRecord(s, rec) \in States /\ ApplyRecord(s, rec).fault = s.fault
  BY DEF Sound
<1>5. ASSUME NEW s \in States, QuietOff(s, ws)
      PROVE  /\ ApplyRecord(Faulted(s), rec) \in States
             /\ ApplyRecord(Faulted(s), rec).fault
             /\ QuietOff(ApplyRecord(Faulted(s), rec), ws')
  <2>1. Faulted(s) \in States /\ Faulted(s).fault /\ QuietOff(Faulted(s), ws)
    BY <1>5, FaultedIs DEF QuietOff
  <2> QED
    BY <1>3, <2>1
<1>6. ASSUME NEW s \in States, ~s.fault, NEW r, NEW fate \in Fates,
             ApplyRecord(s, r) \in States, ~ApplyRecord(s, r).fault
      PROVE  AfterFailure(s, r, fate) \in States /\ ~AfterFailure(s, r, fate).fault
  BY <1>6 DEF AfterFailure, Fates
<1> HIDE DEF marked, again
<1>7. CASE Logged(rec)
  <2>1. live' \in States /\ replayed' \in States /\ ~replayed'.fault /\ QuietOff(live', ws')
    BY <1>3, <1>4, <1>7 DEF Logged
  <2>2. safe' \in States /\ ~safe'.fault
    BY <1>7, <2>1 DEF Logged
  <2>3. ~unlogged => InStep(live', replayed', ws', apart')
    BY <1>7 DEF Logged, Sound
  <2>6. apart' \subseteq Products
    BY <1>7 DEF Logged, Differ
  <2>4. unlogged => live'.fault
    BY <1>3, <1>7 DEF Logged
  <2>5. fails' = 0 => live' = replayed'
    BY <1>7 DEF Logged
  <2> QED
    BY <1>7, <2>1, <2>2, <2>3, <2>4, <2>5, <2>6 DEF Logged
<1>8. CASE Unlogged(rec)
  <2>1. live' \in States /\ live'.fault /\ QuietOff(live', ws')
    BY <1>5, <1>8 DEF Unlogged
  <2>2. replayed' \in States /\ ~replayed'.fault
    BY <1>4, <1>6, <1>8 DEF Unlogged
  <2> QED
    BY <1>8, <2>1, <2>2 DEF Unlogged, MayFail, CountUnlogged
<1>9. CASE unlogged /\ GapLogged(rec)
  <2>1. live' = ApplyRecord(marked, rec) /\ replayed' = ApplyRecord(again, rec)
    BY <1>9 DEF GapLogged, marked, again
  <2>2. live' \in States /\ replayed' \in States /\ ~replayed'.fault /\ QuietOff(live', ws')
    BY <1>1, <1>2, <1>3, <1>4, <2>1
  <2>3. safe' \in States /\ ~safe'.fault
    BY <1>9, <2>2 DEF GapLogged
  <2>4. InStep(live', replayed', ws', Differ(live', replayed') \cup ({} \ GivenUp(rec)))
    BY <1>1, <1>2, <2>1 DEF Sound
  <2>5. InStep(live', replayed', ws', apart') /\ apart' \subseteq Products
    BY <1>9, <2>4 DEF GapLogged, Differ
  <2> QED
    BY <1>9, <2>2, <2>3, <2>5 DEF GapLogged
<1>10. CASE GapLoggedOnly(rec)
  <2>1. live' \in States /\ live'.fault /\ QuietOff(live', ws')
    BY <1>1, <1>2, <1>5, <1>10 DEF GapLoggedOnly, marked
  <2>2. replayed' \in States /\ ~replayed'.fault
    <3>1. PICK fate \in Fates : replayed' = AfterFailure(again, rec, fate)
      BY <1>10 DEF GapLoggedOnly, again
    <3> QED
      BY <1>1, <1>4, <1>6, <3>1
  <2> QED
    BY <1>10, <2>1, <2>2 DEF GapLoggedOnly, MayFail, CountUnlogged
<1>11. CASE StillDown(rec)
  <2>1. live' \in States /\ live'.fault /\ QuietOff(live', ws')
    BY <1>5, <1>11 DEF StillDown
  <2>2. replayed' \in States /\ ~replayed'.fault
    <3>1. PICK fate \in Fates : replayed' = AfterFailure(replayed, StoreGap, fate)
      BY <1>11 DEF StillDown
    <3> QED
      BY <1>1, <1>6, <3>1 DEF again
  <2> QED
    BY <1>11, <2>1, <2>2 DEF StillDown, MayFail, CountUnlogged
<1> QED
  BY <1>7, <1>8, <1>9, <1>10, <1>11 DEF Record

LEMMA InputsKeep ==
    ASSUME ReplayInv, Inputs
    PROVE  ReplayInv'
<1>1. running /\ running' = running /\ UNCHANGED crashes
  BY DEF Inputs
<1>2. ws \in [Products -> BOOLEAN]
  BY DEF ReplayInv, ReplayTypeOK
<1>3. ASSUME NEW c \in Products, StreamConnects(c) PROVE ReplayInv'
  <2>1. ws' = [ws EXCEPT ![c] = TRUE] /\ Record(Rec("connected", c, ""))
    BY <1>3 DEF StreamConnects
  <2> QED
    BY <1>1, <1>2, <2>1, ConnectedSound, RecordKeeps
<1>4. ASSUME NEW c \in Products, StreamDrops(c) PROVE ReplayInv'
  <2>1. ws' = [ws EXCEPT ![c] = FALSE] /\ Record(Rec("disconnected", c, ""))
    BY <1>4 DEF StreamDrops
  <2> QED
    BY <1>1, <1>2, <2>1, DisconnectedSound, RecordKeeps
<1>5. ASSUME NEW c \in Products, BookAskedAgain(c) PROVE ReplayInv'
  <2>1. ws[c] /\ ws' = ws /\ Record(Rec("invalidate", c, ""))
    BY <1>5 DEF BookAskedAgain
  <2> QED
    BY <1>1, <1>2, <2>1, InvalidateSound, RecordKeeps
<1>6. ASSUME NEW c \in Products, FrameArrives(c) PROVE ReplayInv'
  <2>1. PICK f \in Frames : ws[c] /\ ws' = ws /\ Record(Rec("frame", c, f))
    BY <1>6 DEF FrameArrives
  <2> QED
    BY <1>1, <1>2, <2>1, FrameSound, RecordKeeps
<1>7. CASE RestArrives
  <2>1. PICK c \in Products, x \in Ticks : ws' = ws /\ Record(Rec("specs", c, x))
    BY <1>7 DEF RestArrives
  <2> QED
    BY <1>1, <1>2, <2>1, SpecsSound, RecordKeeps
<1>8. CASE ViewFails
  <2>1. live' \in States /\ live'.fault /\ live'.market = live.market
    BY <1>8, FaultedIs DEF ViewFails, ReplayInv, ReplayTypeOK
  <2>2. QuietOff(live', ws')
    BY <1>8, <2>1 DEF ViewFails, QuietOff, ReplayInv
  <2>3. replayed' \in States /\ ~replayed'.fault /\ unlogged' = TRUE /\ fails' = fails + 1
    BY <1>8 DEF ViewFails, CountUnlogged, MayFail, ReplayInv, ReplayTypeOK
  <2> QED
    BY <1>1, <1>8, <2>1, <2>2, <2>3 DEF ViewFails, ReplayInv, ReplayTypeOK
<1>9. CASE Commit
  BY <1>1, <1>9 DEF Commit, ReplayInv, ReplayTypeOK
<1> QED
  BY <1>3, <1>4, <1>5, <1>6, <1>7, <1>8, <1>9 DEF Inputs

LEMMA ReplayInvInit == ReplayInit => ReplayInv
<1> SUFFICES ASSUME ReplayInit PROVE ReplayInv
  OBVIOUS
<1>1. live \in States /\ replayed \in States /\ safe \in States
      /\ ~safe.fault /\ ~replayed.fault /\ QuietOff(live, ws)
  BY FreshIs DEF ReplayInit, QuietOff
<1> QED
  BY <1>1 DEF ReplayInit, ReplayInv, ReplayTypeOK

LEMMA ReplayInvStep == ReplayInv /\ [ReplayNext]_replayVars => ReplayInv'
<1> SUFFICES ASSUME ReplayInv, [ReplayNext]_replayVars PROVE ReplayInv'
  OBVIOUS
<1>1. CASE StartSession
  <2>1. /\ ~running /\ running' = TRUE /\ UNCHANGED <<ws, crashes>>
        /\ ~unlogged /\ (\A c \in Products : ~ws[c]) /\ ws \in [Products -> BOOLEAN]
        /\ replayed \in States /\ ~replayed.fault /\ safe \in States /\ ~safe.fault
    BY <1>1 DEF StartSession, ReplayInv, ReplayTypeOK
  <2>2. live' = FreshState
    BY <1>1, StartIs DEF StartSession, Logged
  <2>3. live' \in States /\ QuietOff(live', ws') /\ InStep(live', replayed', ws', apart')
    BY <2>1, <2>2, FreshIs DEF QuietOff, InStep
  <2>6. apart' \subseteq Products
    BY <1>1 DEF StartSession, Logged, Differ, ReplayInv, ReplayTypeOK
  <2>4. CASE Logged(SessionStart)
    <3>1. replayed' = FreshState /\ safe' \in {safe, FreshState}
      BY <2>4, StartIs DEF Logged
    <3> QED
      BY <2>1, <2>2, <2>3, <2>4, <2>6, <3>1, FreshIs DEF Logged, ReplayInv, ReplayTypeOK
  <2>5. CASE /\ MayFail
             /\ \E fate \in Fates :
                  /\ replayed' = AfterFailure(replayed, SessionStart, fate)
                  /\ hole' = IF fate = "landed" THEN "nothing" ELSE "start"
             /\ unlogged' = FALSE
             /\ apart' = Differ(live', replayed')
             /\ UNCHANGED safe
    <3>1. replayed' \in {replayed, FreshState, safe}
      BY <2>5, StartIs DEF AfterFailure, Fates
    <3>2. replayed' \in States /\ ~replayed'.fault
      BY <2>1, <3>1, FreshIs
    <3>3. fails' \in Nat /\ fails' # 0 /\ hole' # "input"
      BY <2>5 DEF MayFail, ReplayInv
    <3> QED
      BY <2>1, <2>3, <2>5, <2>6, <3>2, <3>3 DEF ReplayInv, ReplayTypeOK
  <2> QED
    BY <1>1, <2>4, <2>5 DEF StartSession
<1>2. CASE Inputs
  BY <1>2, InputsKeep
<1>3. CASE SessionDies
  <2>1. live' \in States /\ QuietOff(live', ws')
    BY <1>3, FreshIs DEF SessionDies, QuietOff
  <2> QED
    BY <1>3, <2>1 DEF SessionDies, ReplayInv, ReplayTypeOK
<1>4. CASE UNCHANGED replayVars
  BY <1>4 DEF replayVars, ReplayInv, ReplayTypeOK, QuietOff, InStep
<1> QED
  BY <1>1, <1>2, <1>3, <1>4 DEF ReplayNext

-------------------------------------------------------------------------------
(***************************************************************************)
(* The theorems.                                                           *)
(***************************************************************************)

\* However writes fail and sessions die, a stream without a connection is trusted by
\* nobody, and while the log is writable the live engine and a replay of its log
\* trust the same tickers, and the same books wherever they judged the frames of a
\* book by one tick size.
THEOREM ReplayInvariant == ReplaySpec => []ReplayInv
BY ReplayInvInit, ReplayInvStep, PTL DEF ReplaySpec

\* Before the first failed write a replay of the log computes every view the live
\* engine can log, through any number of restarts (md_store.py:6-7).
THEOREM ViewsAreReproduced == ReplaySpec => []EveryViewReproduced
<1>1. ReplayInv => EveryViewReproduced
  BY DEF ReplayInv, EveryViewReproduced
<1> QED
  BY <1>1, ReplayInvariant, PTL

\* After any number of failed writes, once the log is writable again, a ticker the
\* process trusts is one a replay of the log trusts, and so is a book, unless the two
\* had different tick sizes at some time since both gave it up (md_engine.py:50-53).
THEOREM TrustIsReproduced == ReplaySpec => []TrustedIsReproduced
<1>1. ReplayInv => TrustedIsReproduced
  <2> SUFFICES ASSUME ReplayInv, running, ~unlogged, NEW c \in Products
               PROVE  /\ live.market[c].ticker => replayed.market[c].ticker
                      /\ c \notin apart /\ live.market[c].book.synced =>
                           replayed.market[c].book = live.market[c].book
    BY DEF TrustedIsReproduced
  <2>1. CASE ws[c]
    BY <2>1 DEF ReplayInv, InStep, SameTicker, SameBook
  <2>2. CASE ~ws[c]
    BY <2>2 DEF ReplayInv, QuietOff, Quiet
  <2> QED
    BY <2>1, <2>2
<1> QED
  BY <1>1, ReplayInvariant, PTL

\* While an input of this session is missing from the log unmarked the live state
\* shows the fault that stops entries, however the writes fail and recover.
THEOREM NoEntryWithoutRecord == ReplaySpec => []EntriesNeedTheRecord
<1>1. ReplayInv => EntriesNeedTheRecord
  <2> SUFFICES ASSUME ReplayInv, hole = "input" PROVE ~ViewOf(live).store
    BY DEF EntriesNeedTheRecord
  <2>1. live.fault
    BY DEF ReplayInv, ReplayTypeOK
  <2> QED
    BY <2>1 DEF ViewOf
<1> QED
  BY <1>1, ReplayInvariant, PTL

-------------------------------------------------------------------------------
(***************************************************************************)
(* What FlattenSeq computes.  It is the last value of a recursive function *)
(* on the places of a sequence; each induction is by the smallest place at *)
(* which a claim fails.                                                    *)
(***************************************************************************)
LEMMA SmallestPlace ==
    ASSUME NEW N \in Nat, NEW B, B \subseteq 1..N, B # {}
    PROVE  \E n \in B : \A m \in B : n <= m
<1> DEFINE C == {U \in SUBSET (1..N) : \E n \in B : U = 1..n}
<1>1. IsFiniteSet(1..N)
  BY FS_Interval
<1>2. C \subseteq SUBSET (1..N)
  OBVIOUS
<1>3. \A n \in B : n \in 1..N /\ 1..n \in C
  <2> SUFFICES ASSUME NEW n \in B PROVE n \in 1..N /\ 1..n \in C
    OBVIOUS
  <2>1. n \in 1..N
    OBVIOUS
  <2>2. 1..n \in SUBSET (1..N)
    BY <2>1
  <2> QED BY <2>1, <2>2
<1>4. C # {}
  BY <1>3
<1>5. PICK U \in C : \A V \in C : V \subseteq U => V = U
  <2> DEFINE I == 1..N
  <2>1. IsFiniteSet(I) /\ C \subseteq SUBSET I
    BY <1>1, <1>2
  <2> HIDE DEF C, I
  <2> QED BY <1>4, <2>1, SmallestOf
<1>6. PICK n \in B : U = 1..n
  BY <1>5
<1>7. ASSUME NEW m \in B, m < n PROVE FALSE
  <2>1. 1..m \in C /\ m \in 1..N /\ n \in 1..N
    BY <1>3
  <2>2. 1..m \subseteq U
    BY <1>6, <1>7, <2>1
  <2>3. 1..m = 1..n
    BY <1>5, <1>6, <2>1, <2>2
  <2>4. n \in 1..m
    BY <2>1, <2>3
  <2> QED BY <1>7, <2>1, <2>4
<1>8. \A m \in B : m \in 1..N
  BY <1>3
<1> QED BY <1>7, <1>8, <1>3

LEMMA Associative ==
    \A S : \A a, b, c \in Seq(S) : (a \o b) \o c = a \o (b \o c)
BY ConcatAssociative

\* f lays the first n parts of s out one after the other.
Flattens(s, n, f) == f = [i \in 1..n |-> IF i = 1 THEN s[i] ELSE f[i - 1] \o s[i]]

LaidOut(s, n, f) ==
    /\ 1 \in 1..n => f[1] = s[1]
    /\ \A i \in 1..n : i # 1 => f[i] = f[i - 1] \o s[i]

LEMMA FlattensSteps ==
    ASSUME NEW s, NEW n \in Nat, NEW f, Flattens(s, n, f)
    PROVE  LaidOut(s, n, f)
<1> DEFINE body(i) == IF i = 1 THEN s[i] ELSE f[i - 1] \o s[i]
<1>1. f = [i \in 1..n |-> body(i)]
  BY DEF Flattens
<1> HIDE DEF body
<1>2. DOMAIN f = 1..n /\ \A i \in 1..n : f[i] = body(i)
  BY <1>1
<1> USE DEF body
<1>3. ASSUME 1 \in 1..n PROVE f[1] = s[1]
  <2>1. f[1] = body(1)
    BY <1>2, <1>3
  <2> QED BY <2>1
<1>4. ASSUME NEW i \in 1..n, i # 1 PROVE f[i] = f[i - 1] \o s[i]
  BY <1>2, <1>4
<1> QED BY <1>3, <1>4 DEF LaidOut

SameTo(n, s, t) == \A i \in 1..n : s[i] = t[i]

LEMMA FlattenersAgree ==
    ASSUME NEW s, NEW t, NEW n \in Nat, NEW m \in Nat, n <= m, NEW f, NEW g,
           Flattens(s, n, f), Flattens(t, m, g), SameTo(n, s, t)
    PROVE  SameTo(n, f, g)
<1> USE DEF SameTo
<1>0. LaidOut(s, n, f)
  BY FlattensSteps
<1>a. LaidOut(t, m, g)
  BY FlattensSteps
<1> DEFINE B == {i \in 1..n : f[i] # g[i]}
<1> SUFFICES ASSUME B # {} PROVE FALSE
  OBVIOUS
<1>1. PICK i \in B : \A j \in B : i <= j
  <2>1. B \subseteq 1..n
    OBVIOUS
  <2> HIDE DEF B
  <2> QED BY <2>1, SmallestPlace
<1>2. i \in 1..n /\ f[i] # g[i] /\ \A j \in 1..n : j < i => f[j] = g[j]
  BY <1>1
<1>3. CASE i = 1
  <2>0. 1 \in 1..n /\ 1 \in 1..m
    BY <1>2, <1>3
  <2>1. f[1] = s[1]
    BY <1>0, <2>0 DEF LaidOut
  <2>2. g[1] = t[1]
    BY <1>a, <2>0 DEF LaidOut
  <2> QED BY <1>2, <1>3, <2>0, <2>1, <2>2
<1>4. CASE i # 1
  <2>1. i - 1 \in 1..n /\ i - 1 < i /\ i \in 1..m
    BY <1>2, <1>4
  <2>2. f[i] = f[i - 1] \o s[i]
    BY <1>0, <1>2, <1>4 DEF LaidOut
  <2>3. g[i] = g[i - 1] \o t[i]
    BY <1>a, <1>4, <2>1 DEF LaidOut
  <2>4. f[i - 1] = g[i - 1] /\ s[i] = t[i]
    BY <1>2, <2>1
  <2> QED BY <1>2, <2>2, <2>3, <2>4
<1> QED BY <1>3, <1>4

LEMMA FlattenersExtend ==
    ASSUME NEW s, NEW n \in Nat, NEW f, Flattens(s, n, f)
    PROVE  \E g : Flattens(s, n + 1, g)
<1>0. LaidOut(s, n, f)
  BY FlattensSteps
<1> DEFINE new == IF n = 0 THEN s[1] ELSE f[n] \o s[n + 1]
           g == [i \in 1..n + 1 |-> IF i \in 1..n THEN f[i] ELSE new]
<1>1. \A i \in 1..n : g[i] = f[i]
  OBVIOUS
<1>2. g[n + 1] = new
  OBVIOUS
<1>3. ASSUME NEW i \in 1..n + 1
      PROVE  g[i] = IF i = 1 THEN s[i] ELSE g[i - 1] \o s[i]
  <2>1. CASE i = n + 1
    <3>1. CASE n = 0
      BY <1>2, <2>1, <3>1
    <3>2. CASE n # 0
      <4>1. g[n] = f[n] /\ i # 1 /\ i - 1 = n
        BY <1>1, <2>1, <3>2
      <4> HIDE DEF g
      <4> QED BY <1>2, <2>1, <3>2, <4>1
    <3> QED BY <3>1, <3>2
  <2>2. CASE i # n + 1 /\ i = 1
    <3>1. i \in 1..n /\ 1 \in 1..n
      BY <2>2
    <3> HIDE DEF g
    <3> QED BY <1>0, <1>1, <2>2, <3>1 DEF LaidOut
  <2>3. CASE i # n + 1 /\ i # 1
    <3>1. i \in 1..n /\ i - 1 \in 1..n
      BY <2>3
    <3>2. f[i] = f[i - 1] \o s[i]
      BY <1>0, <2>3, <3>1 DEF LaidOut
    <3> HIDE DEF g
    <3> QED BY <1>1, <2>3, <3>1, <3>2
  <2> QED BY <2>1, <2>2, <2>3
<1>4. g = [i \in 1..n + 1 |-> IF i = 1 THEN s[i] ELSE g[i - 1] \o s[i]]
  <2>1. g = [i \in 1..n + 1 |-> g[i]]
    OBVIOUS
  <2> HIDE DEF g
  <2> QED BY <1>3, <2>1
<1> HIDE DEF g
<1> QED BY <1>4 DEF Flattens

LEMMA FlattenersExist == ASSUME NEW s, NEW n \in Nat PROVE \E f : Flattens(s, n, f)
<1> DEFINE B == {m \in 1..n : ~ \E f : Flattens(s, m, f)}
<1>0. \E f : Flattens(s, 0, f)
  <2> DEFINE e == [i \in {} |-> i]
  <2>1. 1..0 = {}
    OBVIOUS
  <2>2. e = [i \in 1..0 |-> IF i = 1 THEN s[i] ELSE e[i - 1] \o s[i]]
    BY <2>1
  <2> HIDE DEF e
  <2> QED BY <2>2 DEF Flattens
<1> SUFFICES ASSUME B # {} PROVE FALSE
  BY <1>0
<1>1. PICK m \in B : \A j \in B : m <= j
  <2>1. B \subseteq 1..n
    OBVIOUS
  <2> HIDE DEF B
  <2> QED BY <2>1, SmallestPlace
<1>2. m \in 1..n /\ m - 1 \in Nat /\ (m - 1) + 1 = m /\ (m = 1 \/ m - 1 \in 1..n)
  BY <1>1
<1>3. \E f : Flattens(s, m - 1, f)
  BY <1>0, <1>1, <1>2
<1>4. \E g : Flattens(s, (m - 1) + 1, g)
  BY <1>2, <1>3, FlattenersExtend
<1> QED BY <1>1, <1>2, <1>4

LEMMA FlattenOf ==
    ASSUME NEW s, Len(s) \in Nat \ {0}
    PROVE  \E f : Flattens(s, Len(s), f) /\ FlattenSeq(s) = f[Len(s)]
<1> DEFINE f == CHOOSE f : Flattens(s, Len(s), f)
<1>1. Flattens(s, Len(s), f)
  BY FlattenersExist
<1>2. FlattenSeq(s) = f[Len(s)]
  BY DEF FlattenSeq, Flattens
<1> QED BY <1>1, <1>2

LEMMA FlattenersTyped ==
    ASSUME NEW S, NEW s \in Seq(Seq(S)), NEW f, Flattens(s, Len(s), f)
    PROVE  \A i \in 1..Len(s) : f[i] \in Seq(S)
<1> DEFINE n == Len(s)
<1>0. n \in Nat /\ Flattens(s, n, f) /\ \A i \in 1..n : s[i] \in Seq(S)
  OBVIOUS
<1> SUFFICES \A i \in 1..n : f[i] \in Seq(S)
  OBVIOUS
<1> HIDE DEF n
<1>a. LaidOut(s, n, f)
  BY <1>0, FlattensSteps
<1> DEFINE B == {i \in 1..n : f[i] \notin Seq(S)}
<1> SUFFICES ASSUME B # {} PROVE FALSE
  OBVIOUS
<1>1. PICK i \in B : \A j \in B : i <= j
  <2>1. B \subseteq 1..n
    OBVIOUS
  <2> HIDE DEF B
  <2> QED BY <1>0, <2>1, SmallestPlace
<1>2. i \in 1..n /\ f[i] \notin Seq(S) /\ \A j \in 1..n : j < i => f[j] \in Seq(S)
  BY <1>0, <1>1
<1>3. CASE i = 1
  <2>0. 1 \in 1..n
    BY <1>2, <1>3
  <2>1. f[1] = s[1]
    BY <1>a, <2>0 DEF LaidOut
  <2> QED BY <1>0, <1>2, <1>3, <2>0, <2>1
<1>4. CASE i # 1
  <2>1. i - 1 \in 1..n /\ i - 1 < i
    BY <1>0, <1>2, <1>4
  <2>2. f[i] = f[i - 1] \o s[i]
    BY <1>a, <1>2, <1>4 DEF LaidOut
  <2>3. f[i - 1] \in Seq(S) /\ s[i] \in Seq(S)
    BY <1>0, <1>2, <2>1
  <2>4. f[i - 1] \o s[i] \in Seq(S)
    BY <2>3, ConcatProperties
  <2> QED BY <1>2, <2>2, <2>4
<1> QED BY <1>3, <1>4

LEMMA FlattenTyped ==
    ASSUME NEW S, NEW s \in Seq(Seq(S))
    PROVE  FlattenSeq(s) \in Seq(S) /\ (s = <<>> => FlattenSeq(s) = <<>>)
<1>1. CASE s = <<>>
  <2>0. Len(s) = 0
    BY <1>1, EmptySeq
  <2>1. FlattenSeq(s) = s
    BY <2>0 DEF FlattenSeq
  <2> QED BY <1>1, <2>1, EmptySeq
<1>2. CASE s # <<>>
  <2>1. Len(s) \in Nat \ {0}
    BY <1>2, EmptySeq
  <2>2. PICK f : Flattens(s, Len(s), f) /\ FlattenSeq(s) = f[Len(s)]
    BY <2>1, FlattenOf
  <2>3. f[Len(s)] \in Seq(S)
    BY <2>1, <2>2, FlattenersTyped
  <2> QED BY <1>2, <2>2, <2>3
<1> QED BY <1>1, <1>2

\* A part more at the end.
LEMMA FlattenAppend ==
    ASSUME NEW S, NEW s \in Seq(Seq(S)), NEW x \in Seq(S)
    PROVE  FlattenSeq(Append(s, x)) = FlattenSeq(s) \o x
<1> DEFINE t == Append(s, x)
<1>1. /\ t \in Seq(Seq(S)) /\ Len(t) = Len(s) + 1 /\ Len(s) \in Nat
      /\ t[Len(t)] = x /\ \A i \in 1..Len(s) : s[i] = t[i]
  BY AppendProperties
<1> HIDE DEF t
<1>2. PICK g : Flattens(t, Len(t), g) /\ FlattenSeq(t) = g[Len(t)]
  <2>1. Len(t) \in Nat \ {0}
    BY <1>1
  <2> QED BY <2>1, FlattenOf
<1>c. LaidOut(t, Len(t), g)
  <2>1. Len(t) \in Nat /\ Flattens(t, Len(t), g)
    BY <1>1, <1>2
  <2> QED BY <2>1, FlattensSteps
<1>3. CASE s = <<>>
  <2>0. Len(t) = 1 /\ 1 \in 1..Len(t) /\ Len(t) \in Nat
    BY <1>1, <1>3, EmptySeq
  <2>1. Len(t) = 1 /\ g[1] = t[1]
    BY <1>c, <2>0 DEF LaidOut
  <2>2. FlattenSeq(s) \o x = x
    BY <1>3, FlattenTyped, ConcatEmptySeq
  <2> QED BY <1>1, <1>2, <2>1, <2>2 DEF t
<1>4. CASE s # <<>>
  <2>1. Len(s) \in Nat \ {0}
    BY <1>4, EmptySeq
  <2>2. PICK f : Flattens(s, Len(s), f) /\ FlattenSeq(s) = f[Len(s)]
    BY <2>1, FlattenOf
  <2>6. Len(s) \in Nat /\ Len(t) \in Nat /\ Len(s) <= Len(t) /\ Len(s) \in 1..Len(s)
    BY <1>1, <2>1
  <2>7. SameTo(Len(s), f, g)
    <3>1. SameTo(Len(s), s, t)
      BY <1>1 DEF SameTo
    <3>2. Flattens(s, Len(s), f) /\ Flattens(t, Len(t), g)
      BY <1>2, <2>2
    <3> QED BY <2>6, <3>1, <3>2, FlattenersAgree
  <2>3. f[Len(s)] = g[Len(s)]
    BY <2>6, <2>7 DEF SameTo
  <2>4. Len(t) \in 1..Len(t) /\ Len(t) # 1 /\ Len(t) \in Nat /\ Len(t) - 1 = Len(s)
    BY <1>1, <2>1
  <2>5. g[Len(t)] = g[Len(t) - 1] \o t[Len(t)]
    BY <1>c, <2>4 DEF LaidOut
  <2> QED BY <1>1, <1>2, <2>2, <2>3, <2>4, <2>5 DEF t
<1> QED BY <1>3, <1>4

\* The first part taken away.
LEMMA FlattenTail ==
    ASSUME NEW S, NEW s \in Seq(Seq(S)), s # <<>>
    PROVE  s[1] \in Seq(S) /\ Tail(s) \in Seq(Seq(S))
           /\ FlattenSeq(s) = s[1] \o FlattenSeq(Tail(s))
<1> DEFINE t == Tail(s)
<1>1. /\ t \in Seq(Seq(S)) /\ Len(t) = Len(s) - 1 /\ Len(s) \in Nat \ {0} /\ Len(t) \in Nat
      /\ \A i \in 1..Len(t) : t[i] = s[i + 1]
  BY HeadTailProperties, EmptySeq
<1> HIDE DEF t
<1>2. \A i \in 1..Len(s) : s[i] \in Seq(S)
  OBVIOUS
<1>a. s[1] \in Seq(S)
  BY <1>1, <1>2
<1>3. PICK f : Flattens(s, Len(s), f) /\ FlattenSeq(s) = f[Len(s)]
  BY <1>1, FlattenOf
<1>b. LaidOut(s, Len(s), f)
  <2>1. Len(s) \in Nat /\ Flattens(s, Len(s), f)
    BY <1>1, <1>3
  <2> QED BY <2>1, FlattensSteps
<1>4. CASE t = <<>>
  <2>0. Len(s) = 1 /\ 1 \in 1..Len(s) /\ Len(s) \in Nat
    BY <1>1, <1>4, EmptySeq
  <2>1. Len(s) = 1 /\ f[1] = s[1]
    BY <1>b, <2>0 DEF LaidOut
  <2>2. FlattenSeq(t) = <<>> /\ s[1] \o <<>> = s[1]
    BY <1>1, <1>4, <1>a, FlattenTyped, ConcatEmptySeq
  <2> QED BY <1>1, <1>3, <1>a, <2>1, <2>2 DEF t
<1>5. CASE t # <<>>
  <2>1. Len(t) \in Nat \ {0}
    BY <1>1, <1>5, EmptySeq
  <2>2. PICK g : Flattens(t, Len(t), g) /\ FlattenSeq(t) = g[Len(t)]
    BY <2>1, FlattenOf
  <2>5. LaidOut(t, Len(t), g)
    <3>1. Len(t) \in Nat /\ Flattens(t, Len(t), g)
      BY <1>1, <2>2
    <3> QED BY <3>1, FlattensSteps
  <2>6. \A i \in 1..Len(t) : g[i] \in Seq(S)
    BY <1>1, <2>2, FlattenersTyped
  <2> DEFINE B == {i \in 1..Len(t) : f[i + 1] # s[1] \o g[i]}
  <2>3. ASSUME B # {} PROVE FALSE
    <3>1. PICK i \in B : \A j \in B : i <= j
      <4>1. B \subseteq 1..Len(t)
        OBVIOUS
      <4> HIDE DEF B
      <4> QED BY <1>1, <2>3, <4>1, SmallestPlace
    <3>2. /\ i \in 1..Len(t) /\ f[i + 1] # s[1] \o g[i]
          /\ \A j \in 1..Len(t) : j < i => f[j + 1] = s[1] \o g[j]
      <4>1. i \in 1..Len(t) /\ f[i + 1] # s[1] \o g[i]
        OBVIOUS
      <4>2. ASSUME NEW j \in 1..Len(t), j < i PROVE f[j + 1] = s[1] \o g[j]
        <5>1. j \notin B
          <6>1. i \in Nat /\ j \in Nat
            BY <1>1, <4>1
          <6> HIDE DEF B
          <6> QED BY <3>1, <4>2, <6>1
        <5> QED BY <5>1
      <4> QED BY <4>1, <4>2
    <3> HIDE DEF B
    <3>3. i + 1 \in 1..Len(s) /\ i + 1 # 1 /\ (i + 1) - 1 = i /\ Len(s) \in Nat
      BY <1>1, <3>2
    <3>4. f[i + 1] = f[(i + 1) - 1] \o s[i + 1]
      BY <1>b, <3>3 DEF LaidOut
    <3>5. f[i + 1] = f[i] \o t[i]
      BY <1>1, <3>2, <3>3, <3>4
    <3>6. CASE i = 1
      <4>0. 1 \in 1..Len(s) /\ 1 \in 1..Len(t) /\ Len(s) \in Nat /\ Len(t) \in Nat
        BY <1>1, <2>1
      <4>1. f[1] = s[1]
        BY <1>b, <4>0 DEF LaidOut
      <4>2. g[1] = t[1]
        BY <2>5, <4>0 DEF LaidOut
      <4> QED BY <3>2, <3>5, <3>6, <4>1, <4>2
    <3>7. CASE i # 1
      <4>1. i - 1 \in 1..Len(t) /\ i - 1 < i /\ (i - 1) + 1 = i
        BY <1>1, <3>2, <3>7
      <4>2. g[i] = g[i - 1] \o t[i]
        BY <2>5, <3>2, <3>7 DEF LaidOut
      <4>3. f[(i - 1) + 1] = s[1] \o g[i - 1]
        BY <3>2, <4>1
      <4>4. f[i] = s[1] \o g[i - 1]
        BY <4>1, <4>3
      <4>5. g[i - 1] \in Seq(S) /\ t[i] \in Seq(S)
        <5>1. g[i - 1] \in Seq(S)
          BY <2>6, <4>1
        <5>2. t[i] \in Seq(S)
          BY <1>1, <3>2, ElementOfSeq
        <5> QED BY <5>1, <5>2
      <4>6. (s[1] \o g[i - 1]) \o t[i] = s[1] \o (g[i - 1] \o t[i])
        <5> DEFINE x == s[1]
                   y == g[i - 1]
                   z == t[i]
        <5>1. x \in Seq(S) /\ y \in Seq(S) /\ z \in Seq(S)
          BY <1>a, <4>5
        <5> HIDE DEF x, y, z
        <5>2. (x \o y) \o z = x \o (y \o z)
          BY <5>1, Associative, SMTT(30)
        <5> QED BY <5>2 DEF x, y, z
      <4> QED BY <3>2, <3>5, <4>2, <4>4, <4>6
    <3> QED BY <3>6, <3>7
  <2>4. f[Len(t) + 1] = s[1] \o g[Len(t)]
    <3>1. Len(t) \in 1..Len(t)
      BY <2>1
    <3> QED BY <2>3, <3>1
  <2> HIDE DEF B
  <2>7. Len(t) + 1 = Len(s)
    BY <1>1
  <2>8. FlattenSeq(s) = s[1] \o FlattenSeq(t)
    BY <1>3, <2>2, <2>4, <2>7
  <2> QED BY <1>1, <1>a, <2>8 DEF t
<1> QED BY <1>4, <1>5

-------------------------------------------------------------------------------
(***************************************************************************)
(* The log that files, an open transaction and a chain value make up.      *)
(***************************************************************************)
Days == 1..LastDay
RecordRows == {r \in [id : Nat, rec : Records, chain : Seq(Records)] : r.id = Len(r.chain)}
Files == [day : Days, start : Seq(Records) \cup {NoChain}, rows : Seq(RecordRows)]

\* The rows of some files, in order: AllRows of the files on disk.
RowsIn(files) == [i \in DOMAIN files |-> files[i].rows]

Flat(files) == FlattenSeq(RowsIn(files))

DaysGrow(files) == \A i, j \in DOMAIN files : i < j => files[i].day < files[j].day

\* No file was left without its start.
Started(files) == \A i \in DOMAIN files : files[i].start \in Seq(Records)

\* Each file starts where the one before it ends, and its rows continue from there.
Linked(files) ==
    /\ \A i \in 2..Len(files) : files[i].start = EndChain(files[i - 1])
    /\ \A i \in DOMAIN files : RowsContinue(files[i].start, files[i].rows)

\* A file after empty files starts where they do.
EmptySkipped(files) ==
    \A i, j \in DOMAIN files :
        i <= j /\ (\A k \in i..j - 1 : files[k].rows = <<>>) => files[j].start = files[i].start

\* The numbers of rows run on without a gap.
IdsRun(rows) == \A i \in 2..Len(rows) : rows[i].id = rows[i - 1].id + 1

\* The chain value that rows end on when they continue from one.
Ends(chain, rows) == IF rows = <<>> THEN chain ELSE rows[Len(rows)].chain

\* Files, the rows of the open transaction and the chain value in memory are one log.
Chained(files, rows, chain) ==
    /\ files \in Seq(Files) /\ rows \in Seq(RecordRows) /\ chain \in Seq(Records)
    /\ DaysGrow(files) /\ Started(files) /\ Linked(files) /\ EmptySkipped(files)
    /\ IdsRun(Flat(files))
    /\ files = <<>> => rows = <<>> /\ chain = Genesis
    /\ files # <<>> => /\ RowsContinue(EndChain(files[Len(files)]), rows)
                       /\ chain = Ends(EndChain(files[Len(files)]), rows)
                       /\ Flat(files) # <<>> => Ends(Genesis, Flat(files)) = EndChain(files[Len(files)])

Extended(files, rows) == [files EXCEPT ![Len(files)].rows = @ \o rows]

LEMMA NoChainIs == NoChain \notin Seq(Records)
<1> SUFFICES ASSUME NoChain \in Seq(Records) PROVE FALSE
  OBVIOUS
<1> DEFINE mark == ""
<1>1. NoChain = <<mark>> /\ mark \notin Records
  BY NoMark DEF NoChain
<1> HIDE DEF mark
<1>2. Len(NoChain) = 1 /\ NoChain[1] = mark
  BY <1>1
<1>3. NoChain[1] \in Records
  BY <1>2, ElementOfSeq
<1> QED BY <1>1, <1>2, <1>3

LEMMA FilesFacts ==
    ASSUME NEW files \in Seq(Files)
    PROVE  /\ Len(files) \in Nat /\ DOMAIN files = 1..Len(files)
           /\ files # <<>> => Len(files) \in 1..Len(files) /\ 1 \in 1..Len(files)
           /\ \A i \in 1..Len(files) :
                 /\ files[i] \in Files /\ files[i].day \in Days
                 /\ files[i].rows \in Seq(RecordRows)
<1>1. Len(files) \in Nat /\ DOMAIN files = 1..Len(files)
  BY LenProperties
<1>2. ASSUME files # <<>> PROVE Len(files) \in 1..Len(files) /\ 1 \in 1..Len(files)
  <2>1. Len(files) \in Nat \ {0}
    BY <1>2, EmptySeq
  <2> QED BY <2>1
<1>3. ASSUME NEW i \in 1..Len(files)
      PROVE  files[i] \in Files /\ files[i].day \in Days /\ files[i].rows \in Seq(RecordRows)
  <2>1. files[i] \in Files
    BY ElementOfSeq
  <2> QED BY <2>1 DEF Files
<1> QED BY <1>1, <1>2, <1>3

LEMMA RecordRowFacts ==
    ASSUME NEW rows \in Seq(RecordRows)
    PROVE  /\ Len(rows) \in Nat /\ DOMAIN rows = 1..Len(rows)
           /\ rows # <<>> => Len(rows) \in 1..Len(rows) /\ 1 \in 1..Len(rows)
           /\ rows = <<>> => Len(rows) = 0
           /\ \A i \in 1..Len(rows) :
                 /\ rows[i] \in RecordRows /\ rows[i].rec \in Records /\ rows[i].chain \in Seq(Records)
                 /\ rows[i].id = Len(rows[i].chain) /\ rows[i].id \in Nat
<1>1. Len(rows) \in Nat /\ DOMAIN rows = 1..Len(rows)
  BY LenProperties
<1>2. ASSUME rows # <<>> PROVE Len(rows) \in 1..Len(rows) /\ 1 \in 1..Len(rows)
  <2>1. Len(rows) \in Nat \ {0}
    BY <1>2, EmptySeq
  <2> QED BY <2>1
<1>3. ASSUME NEW i \in 1..Len(rows)
      PROVE  /\ rows[i] \in RecordRows /\ rows[i].rec \in Records /\ rows[i].chain \in Seq(Records)
             /\ rows[i].id = Len(rows[i].chain) /\ rows[i].id \in Nat
  <2>1. rows[i] \in RecordRows
    BY ElementOfSeq
  <2> QED BY <2>1 DEF RecordRows
<1>4. rows = <<>> => Len(rows) = 0
  BY EmptySeq
<1> QED BY <1>1, <1>2, <1>3, <1>4

\* A file by the chain value it ends on.
LEMMA EndIs ==
    ASSUME NEW seg \in Files
    PROVE  /\ EndChain(seg) = Ends(StartOf(seg), seg.rows) /\ EndChain(seg) \in Seq(Records)
           /\ seg.start \in Seq(Records) => StartOf(seg) = seg.start
<1>1. seg.rows \in Seq(RecordRows) /\ seg.start \in Seq(Records) \cup {NoChain}
  BY DEF Files
<1>2. StartOf(seg) \in Seq(Records) /\ (seg.start \in Seq(Records) => StartOf(seg) = seg.start)
  BY <1>1, NoChainIs, EmptySeq DEF StartOf, Genesis
<1>3. EndChain(seg) = Ends(StartOf(seg), seg.rows)
  BY DEF EndChain, Ends, Last
<1>4. CASE seg.rows = <<>>
  BY <1>2, <1>3, <1>4 DEF Ends
<1>5. CASE seg.rows # <<>>
  BY <1>1, <1>2, <1>3, <1>5, RecordRowFacts DEF Ends
<1> QED BY <1>4, <1>5

LEMMA RowsInTyped ==
    ASSUME NEW files \in Seq(Files)
    PROVE  /\ RowsIn(files) \in Seq(Seq(RecordRows)) /\ Len(RowsIn(files)) = Len(files)
           /\ \A i \in 1..Len(files) : RowsIn(files)[i] = files[i].rows
           /\ Flat(files) \in Seq(RecordRows) /\ (files = <<>> => Flat(files) = <<>>)
<1>1. /\ Len(files) \in Nat /\ DOMAIN files = 1..Len(files)
      /\ \A i \in 1..Len(files) : files[i].rows \in Seq(RecordRows)
  BY FilesFacts
<1>2. RowsIn(files) \in [1..Len(files) -> Seq(RecordRows)]
  BY <1>1 DEF RowsIn
<1>3. RowsIn(files) \in Seq(Seq(RecordRows)) /\ Len(RowsIn(files)) = Len(files)
  BY <1>1, <1>2
<1>4. \A i \in 1..Len(files) : RowsIn(files)[i] = files[i].rows
  BY <1>1 DEF RowsIn
<1>5. files = <<>> => RowsIn(files) = <<>>
  <2> SUFFICES ASSUME files = <<>> PROVE RowsIn(files) = <<>>
    OBVIOUS
  <2>1. Len(RowsIn(files)) = 0
    BY <1>3, EmptySeq
  <2> QED BY <1>3, <2>1, EmptySeq
<1>6. Flat(files) \in Seq(RecordRows) /\ (files = <<>> => Flat(files) = <<>>)
  <2> HIDE DEF RowsIn
  <2> QED BY <1>3, <1>5, FlattenTyped DEF Flat
<1> QED BY <1>3, <1>4, <1>6

LEMMA FlatAppend ==
    ASSUME NEW files \in Seq(Files), NEW file \in Files
    PROVE  Flat(Append(files, file)) = Flat(files) \o file.rows
<1> DEFINE new == Append(files, file)
           s == RowsIn(files)
           t == Append(s, file.rows)
<1>1. /\ new \in Seq(Files) /\ Len(new) = Len(files) + 1 /\ Len(files) \in Nat
      /\ new[Len(files) + 1] = file /\ \A i \in 1..Len(files) : new[i] = files[i]
  BY AppendProperties, LenProperties
<1>2. file.rows \in Seq(RecordRows)
  BY DEF Files
<1>3. s \in Seq(Seq(RecordRows)) /\ Len(s) = Len(files) /\ \A i \in 1..Len(files) : s[i] = files[i].rows
  BY RowsInTyped
<1>4. /\ t \in Seq(Seq(RecordRows)) /\ Len(t) = Len(files) + 1
      /\ t[Len(files) + 1] = file.rows /\ \A i \in 1..Len(files) : t[i] = s[i]
  <2> HIDE DEF s
  <2> QED BY <1>2, <1>3, AppendProperties
<1> HIDE DEF new
<1>5. /\ RowsIn(new) \in Seq(Seq(RecordRows)) /\ Len(RowsIn(new)) = Len(new)
      /\ \A i \in 1..Len(new) : RowsIn(new)[i] = new[i].rows
  BY <1>1, RowsInTyped
<1>6. RowsIn(new) = t
  <2> HIDE DEF s, t
  <2>1. \A i \in 1..Len(new) : RowsIn(new)[i] = t[i]
    <3> SUFFICES ASSUME NEW i \in 1..Len(new) PROVE RowsIn(new)[i] = t[i]
      OBVIOUS
    <3>1. CASE i = Len(files) + 1
      BY <1>1, <1>4, <1>5, <3>1
    <3>2. CASE i # Len(files) + 1
      <4>1. i \in 1..Len(files)
        BY <1>1, <3>2
      <4> QED BY <1>1, <1>3, <1>4, <1>5, <4>1
    <3> QED BY <3>1, <3>2
  <2> QED BY <1>1, <1>4, <1>5, <2>1, SeqEqual
<1>7. FlattenSeq(t) = FlattenSeq(s) \o file.rows
  <2> HIDE DEF s
  <2> QED BY <1>2, <1>3, FlattenAppend
<1> QED BY <1>6, <1>7 DEF Flat, new

LEMMA FlatTail ==
    ASSUME NEW files \in Seq(Files), files # <<>>
    PROVE  /\ Tail(files) \in Seq(Files) /\ Flat(Tail(files)) \in Seq(RecordRows)
           /\ files[1].rows \in Seq(RecordRows)
           /\ Flat(files) = files[1].rows \o Flat(Tail(files))
<1> DEFINE rest == Tail(files)
           s == RowsIn(files)
<1>1. /\ rest \in Seq(Files) /\ Len(rest) = Len(files) - 1 /\ Len(files) \in Nat \ {0}
      /\ \A i \in 1..Len(rest) : rest[i] = files[i + 1]
  BY HeadTailProperties, EmptySeq
<1>2. s \in Seq(Seq(RecordRows)) /\ Len(s) = Len(files) /\ \A i \in 1..Len(files) : s[i] = files[i].rows
  BY RowsInTyped
<1> HIDE DEF s, rest
<1>3. s # <<>>
  BY <1>1, <1>2, EmptySeq
<1>4. /\ RowsIn(rest) \in Seq(Seq(RecordRows)) /\ Len(RowsIn(rest)) = Len(rest)
      /\ \A i \in 1..Len(rest) : RowsIn(rest)[i] = rest[i].rows
      /\ Flat(rest) \in Seq(RecordRows)
  BY <1>1, RowsInTyped
<1>5. /\ Tail(s) \in Seq(Seq(RecordRows)) /\ Len(Tail(s)) = Len(s) - 1
      /\ \A i \in 1..Len(Tail(s)) : Tail(s)[i] = s[i + 1]
  BY <1>2, <1>3, HeadTailProperties
<1>6. RowsIn(rest) = Tail(s)
  <2>1. \A i \in 1..Len(rest) : RowsIn(rest)[i] = Tail(s)[i]
    <3> SUFFICES ASSUME NEW i \in 1..Len(rest) PROVE RowsIn(rest)[i] = Tail(s)[i]
      OBVIOUS
    <3>1. i \in 1..Len(Tail(s)) /\ i + 1 \in 1..Len(files)
      BY <1>1, <1>2, <1>5
    <3> QED BY <1>1, <1>2, <1>4, <1>5, <3>1
  <2> QED BY <1>1, <1>2, <1>4, <1>5, <2>1, SeqEqual
<1>7. s[1] \in Seq(RecordRows) /\ FlattenSeq(s) = s[1] \o FlattenSeq(Tail(s))
  BY <1>2, <1>3, FlattenTail
<1>8. s[1] = files[1].rows
  BY <1>1, <1>2
<1> QED BY <1>1, <1>4, <1>6, <1>7, <1>8 DEF Flat, s, rest

LEMMA ExtendedIs ==
    ASSUME NEW files \in Seq(Files), files # <<>>, NEW rows \in Seq(RecordRows)
    PROVE  LET e == Extended(files, rows)
               n == Len(files)
           IN /\ e \in Seq(Files) /\ Len(e) = n /\ DOMAIN e = DOMAIN files
              /\ \A i \in 1..n : i # n => e[i] = files[i]
              /\ e[n].day = files[n].day /\ e[n].start = files[n].start
              /\ e[n].rows = files[n].rows \o rows
<1> DEFINE e == Extended(files, rows)
           n == Len(files)
           new == [files[n] EXCEPT !.rows = @ \o rows]
<1>1. n \in 1..n /\ n \in Nat /\ DOMAIN files = 1..n /\ files[n] \in Files
      /\ files[n].rows \in Seq(RecordRows)
  BY FilesFacts
<1>2. files[n].rows \o rows \in Seq(RecordRows)
  BY <1>1, ConcatProperties
<1>3. new \in Files /\ new.day = files[n].day /\ new.start = files[n].start
      /\ new.rows = files[n].rows \o rows
  BY <1>1, <1>2 DEF Files
<1>4. e = [files EXCEPT ![n] = new]
  BY DEF Extended
<1> HIDE DEF new, e
<1>5. /\ e \in Seq(Files) /\ Len(e) = n
      /\ \A j \in 1..n : e[j] = IF j = n THEN new ELSE files[j]
  BY <1>1, <1>3, <1>4, ExceptSeq
<1>6. DOMAIN e = 1..n
  BY <1>5, LenProperties
<1> QED BY <1>1, <1>3, <1>5, <1>6 DEF e

LEMMA FlatExtended ==
    ASSUME NEW files \in Seq(Files), files # <<>>, NEW rows \in Seq(RecordRows)
    PROVE  Flat(Extended(files, rows)) = Flat(files) \o rows
<1> DEFINE n == Len(files)
           front == SubSeq(files, 1, n - 1)
           e == Extended(files, rows)
<1>1. n \in 1..n /\ n \in Nat /\ n - 1 \in Nat /\ \A i \in 1..n : files[i] \in Files
  BY FilesFacts
<1>2. \A i \in 1..n - 1 : files[i] \in Files
  BY <1>1
<1>3. /\ front \in Seq(Files) /\ Len(front) = n - 1
      /\ \A i \in 1..n - 1 : front[i] = files[i]
  <2> DEFINE k == n - 1
             w == SubSeq(files, 1, k)
  <2>1. k \in Int /\ k \in Nat /\ 1 \in Int /\ \A i \in 1..k : files[i] \in Files
    BY <1>1, <1>2
  <2> HIDE DEF k
  <2>2. w \in Seq(Files) /\ Len(w) = (IF 1 <= k THEN k - 1 + 1 ELSE 0)
        /\ \A i \in 1..k - 1 + 1 : w[i] = files[1 + i - 1]
    BY <2>1, SubSeqProperties
  <2> HIDE DEF w
  <2>3. Len(w) = k /\ k - 1 + 1 = k
    BY <2>1, <2>2
  <2>4. ASSUME NEW i \in 1..k PROVE w[i] = files[i]
    <3>1. i \in 1..k - 1 + 1 /\ 1 + i - 1 = i
      BY <2>1, <2>3
    <3> QED BY <2>2, <3>1
  <2> QED BY <2>2, <2>3, <2>4 DEF w, k
<1>4. /\ e \in Seq(Files) /\ Len(e) = n /\ \A i \in 1..n : i # n => e[i] = files[i]
      /\ e[n].rows = files[n].rows \o rows /\ e[n] \in Files
  <2>1. /\ e \in Seq(Files) /\ Len(e) = n /\ \A i \in 1..n : i # n => e[i] = files[i]
        /\ e[n].rows = files[n].rows \o rows
    BY ExtendedIs
  <2> HIDE DEF e
  <2> QED BY <1>1, <2>1, ElementOfSeq
<1> HIDE DEF front, e
<1>5. ASSUME NEW g \in Seq(Files), Len(g) = n, \A i \in 1..n : i # n => g[i] = files[i]
      PROVE  g[n] \in Files /\ Flat(g) = Flat(front) \o g[n].rows
  <2>0. g[n] \in Files
    BY <1>1, <1>5, ElementOfSeq
  <2>1. /\ Append(front, g[n]) \in Seq(Files) /\ Len(Append(front, g[n])) = n
        /\ Append(front, g[n])[n] = g[n]
        /\ \A i \in 1..n - 1 : Append(front, g[n])[i] = front[i]
    BY <1>1, <1>3, <2>0, AppendProperties
  <2> DEFINE h == Append(front, g[n])
  <2> HIDE DEF h
  <2>2. \A i \in 1..n : g[i] = h[i]
    <3> SUFFICES ASSUME NEW i \in 1..n PROVE g[i] = h[i]
      OBVIOUS
    <3>1. CASE i = n
      BY <2>1, <3>1 DEF h
    <3>2. CASE i # n
      <4>1. i \in 1..n - 1
        BY <1>1, <3>2
      <4> QED BY <1>3, <1>5, <2>1, <3>2, <4>1 DEF h
    <3> QED BY <3>1, <3>2
  <2>3. g = h
    BY <1>5, <2>1, <2>2, SeqEqual DEF h
  <2> QED BY <1>3, <2>0, <2>3, FlatAppend DEF h
<1>6. Flat(files) = Flat(front) \o files[n].rows /\ files[n].rows \in Seq(RecordRows)
  BY <1>1, <1>5, FilesFacts
<1>7. Flat(e) = Flat(front) \o e[n].rows
  BY <1>4, <1>5
<1>8. Flat(front) \in Seq(RecordRows)
  BY <1>3, RowsInTyped
<1> DEFINE x == Flat(front)
           y == files[n].rows
<1>9. (x \o y) \o rows = x \o (y \o rows)
  <2>1. x \in Seq(RecordRows) /\ y \in Seq(RecordRows)
    BY <1>6, <1>8
  <2> HIDE DEF x, y
  <2> QED BY <2>1, Associative, SMTT(30)
<1> QED BY <1>4, <1>6, <1>7, <1>9 DEF e

\* RecordRows that continue a chain end on a chain value, and are numbered without a gap.
LEMMA EndsTyped ==
    ASSUME NEW chain \in Seq(Records), NEW rows \in Seq(RecordRows)
    PROVE  Ends(chain, rows) \in Seq(Records)
<1>1. CASE rows = <<>>
  BY <1>1 DEF Ends
<1>2. CASE rows # <<>>
  BY <1>2, RecordRowFacts DEF Ends
<1> QED BY <1>1, <1>2

LEMMA RowsNumbered ==
    ASSUME NEW chain \in Seq(Records), NEW rows \in Seq(RecordRows), RowsContinue(chain, rows)
    PROVE  IdsRun(rows) /\ (rows # <<>> => rows[1].id = Len(chain) + 1)
<1>1. /\ Len(rows) \in Nat /\ DOMAIN rows = 1..Len(rows)
      /\ rows # <<>> => 1 \in 1..Len(rows)
      /\ \A i \in 1..Len(rows) :
            /\ rows[i].rec \in Records /\ rows[i].chain \in Seq(Records)
            /\ rows[i].id = Len(rows[i].chain) /\ rows[i].id \in Nat
  BY RecordRowFacts
<1>2. \A i \in 1..Len(rows) :
         rows[i].chain = Append(IF i = 1 THEN chain ELSE rows[i - 1].chain, rows[i].rec)
  BY <1>1 DEF RowsContinue
<1>3. ASSUME NEW i \in 2..Len(rows) PROVE rows[i].id = rows[i - 1].id + 1
  <2>1. i \in 1..Len(rows) /\ i - 1 \in 1..Len(rows) /\ i # 1
    BY <1>1
  <2> DEFINE before == rows[i - 1].chain
             rec == rows[i].rec
  <2>2. rows[i].chain = Append(before, rec)
    BY <1>2, <2>1
  <2>3. before \in Seq(Records) /\ rec \in Records
    BY <1>1, <2>1
  <2>6. rows[i].id = Len(rows[i].chain) /\ rows[i - 1].id = Len(before)
    BY <1>1, <2>1
  <2> HIDE DEF before, rec
  <2>5. Len(Append(before, rec)) = Len(before) + 1
    BY <2>3, AppendProperties
  <2> QED BY <2>2, <2>5, <2>6
<1>4. ASSUME rows # <<>> PROVE rows[1].id = Len(chain) + 1
  <2>1. 1 \in 1..Len(rows)
    BY <1>1, <1>4
  <2> DEFINE rec == rows[1].rec
  <2>2. rows[1].chain = Append(chain, rec) /\ rec \in Records
    BY <1>1, <1>2, <2>1
  <2>4. rows[1].id = Len(rows[1].chain)
    BY <1>1, <2>1
  <2> HIDE DEF rec
  <2>3. Len(Append(chain, rec)) = Len(chain) + 1
    BY <2>2, AppendProperties
  <2> QED BY <2>2, <2>3, <2>4
<1> QED BY <1>3, <1>4 DEF IdsRun

LEMMA EndsJoin ==
    ASSUME NEW chain, NEW a \in Seq(RecordRows), NEW b \in Seq(RecordRows)
    PROVE  Ends(chain, a \o b) = Ends(Ends(chain, a), b)
<1> DEFINE c == a \o b
           n == Len(a)
           m == Len(b)
<1>1. /\ c \in Seq(RecordRows) /\ Len(c) = n + m /\ n \in Nat /\ m \in Nat
      /\ \A i \in 1..n + m : c[i] = IF i <= n THEN a[i] ELSE b[i - n]
  BY ConcatProperties, RecordRowFacts
<1>2. b # <<>> => m \in 1..m
  BY RecordRowFacts
<1> HIDE DEF c, n, m
<1>3. CASE b = <<>>
  <2>1. c = a
    BY <1>3, ConcatEmptySeq DEF c
  <2> QED BY <1>3, <2>1 DEF Ends, c
<1>4. CASE b # <<>>
  <2>1. m \in 1..m /\ n + m \in 1..n + m /\ ~(n + m <= n) /\ (n + m) - n = m
    BY <1>1, <1>2, <1>4
  <2>2. c[n + m] = b[m]
    BY <1>1, <2>1
  <2>3. c # <<>>
    BY <1>1, <2>1, EmptySeq
  <2> QED BY <1>1, <1>4, <2>2, <2>3 DEF Ends, m, c
<1> QED BY <1>3, <1>4

\* RecordRows behind rows.
LEMMA RowsJoin ==
    ASSUME NEW chain, NEW a \in Seq(RecordRows), NEW b \in Seq(RecordRows),
           RowsContinue(chain, a), RowsContinue(Ends(chain, a), b)
    PROVE  /\ a \o b \in Seq(RecordRows) /\ RowsContinue(chain, a \o b)
           /\ Ends(chain, a \o b) = Ends(Ends(chain, a), b)
<1> DEFINE c == a \o b
           n == Len(a)
           m == Len(b)
<1>1. /\ c \in Seq(RecordRows) /\ Len(c) = n + m /\ n \in Nat /\ m \in Nat
      /\ \A i \in 1..n + m : c[i] = IF i <= n THEN a[i] ELSE b[i - n]
  BY ConcatProperties, RecordRowFacts
<1>2. /\ DOMAIN a = 1..n /\ DOMAIN b = 1..m /\ DOMAIN c = 1..n + m
      /\ a # <<>> => n \in 1..n
      /\ b # <<>> => m \in 1..m
      /\ a = <<>> => n = 0
      /\ b = <<>> => m = 0
  BY <1>1, RecordRowFacts
<1> HIDE DEF c, n, m
<1>3. \A i \in 1..n : a[i].chain = Append(IF i = 1 THEN chain ELSE a[i - 1].chain, a[i].rec)
  BY <1>2 DEF RowsContinue
<1>4. \A i \in 1..m :
         b[i].chain = Append(IF i = 1 THEN Ends(chain, a) ELSE b[i - 1].chain, b[i].rec)
  BY <1>2 DEF RowsContinue
<1>5. ASSUME NEW i \in 1..n + m
      PROVE  c[i].chain = Append(IF i = 1 THEN chain ELSE c[i - 1].chain, c[i].rec)
  <2>1. CASE i <= n
    <3>1. i \in 1..n /\ c[i] = a[i] /\ (i # 1 => c[i - 1] = a[i - 1])
      BY <1>1, <2>1
    <3> QED BY <1>3, <3>1
  <2>2. CASE i > n /\ i = n + 1
    <3>1. 1 \in 1..m /\ c[i] = b[1] /\ i - n = 1
      BY <1>1, <2>2
    <3>2. b[1].chain = Append(Ends(chain, a), b[1].rec)
      BY <1>4, <3>1
    <3>3. CASE a = <<>>
      <4>1. i = 1 /\ Ends(chain, a) = chain
        BY <1>2, <2>2, <3>3 DEF Ends
      <4> QED BY <3>1, <3>2, <4>1
    <3>4. CASE a # <<>>
      <4>1. i # 1 /\ i - 1 = n /\ n \in 1..n + m /\ c[n] = a[n] /\ Ends(chain, a) = a[n].chain
        BY <1>1, <1>2, <2>2, <3>4 DEF Ends, n
      <4> QED BY <3>1, <3>2, <4>1
    <3> QED BY <3>3, <3>4
  <2>3. CASE i > n /\ i # n + 1
    <3>1. /\ i - n \in 1..m /\ i - n # 1 /\ i # 1 /\ c[i] = b[i - n]
          /\ i - 1 \in 1..n + m /\ ~(i - 1 <= n) /\ c[i - 1] = b[(i - 1) - n]
          /\ (i - 1) - n = (i - n) - 1
      BY <1>1, <2>3
    <3>2. b[i - n].chain = Append(b[(i - n) - 1].chain, b[i - n].rec)
      BY <1>4, <3>1
    <3> QED BY <3>1, <3>2
  <2> QED BY <1>1, <2>1, <2>2, <2>3
<1>6. RowsContinue(chain, c)
  BY <1>2, <1>5 DEF RowsContinue
<1>7. Ends(chain, c) = Ends(Ends(chain, a), b)
  BY EndsJoin DEF c
<1> QED BY <1>1, <1>6, <1>7 DEF c

\* Numbered rows behind numbered rows.
LEMMA NumbersJoin ==
    ASSUME NEW a \in Seq(RecordRows), NEW b \in Seq(RecordRows), NEW chain \in Seq(Records),
           IdsRun(a), RowsContinue(chain, b), a # <<>> => a[Len(a)].chain = chain
    PROVE  IdsRun(a \o b)
<1> DEFINE c == a \o b
           n == Len(a)
           m == Len(b)
<1>1. /\ c \in Seq(RecordRows) /\ Len(c) = n + m /\ n \in Nat /\ m \in Nat
      /\ \A i \in 1..n + m : c[i] = IF i <= n THEN a[i] ELSE b[i - n]
  BY ConcatProperties, RecordRowFacts
<1>2. /\ \A i \in 2..n : a[i].id = a[i - 1].id + 1
      /\ \A i \in 2..m : b[i].id = b[i - 1].id + 1
      /\ b # <<>> => b[1].id = Len(chain) + 1
  BY RowsNumbered DEF IdsRun
<1>3. /\ a # <<>> => a[n].id = Len(a[n].chain) /\ a[n].chain = chain
      /\ a = <<>> => n = 0
      /\ b = <<>> => m = 0
  BY RecordRowFacts
<1> HIDE DEF c, n, m
<1>4. ASSUME NEW i \in 2..n + m PROVE c[i].id = c[i - 1].id + 1
  <2>1. CASE i <= n
    <3>1. i \in 2..n /\ c[i] = a[i] /\ c[i - 1] = a[i - 1]
      BY <1>1, <2>1
    <3> QED BY <1>2, <3>1
  <2>2. CASE i > n /\ i = n + 1
    <3>1. i - n = 1 /\ i - 1 = n /\ i \in 1..n + m /\ n \in 1..n + m /\ n # 0 /\ m # 0
      BY <1>1, <2>2
    <3>2. c[i] = b[1] /\ c[i - 1] = a[n]
      BY <1>1, <2>2, <3>1
    <3>3. b[1].id = Len(chain) + 1 /\ a[n].id = Len(chain)
      BY <1>2, <1>3, <3>1
    <3> QED BY <3>2, <3>3
  <2>3. CASE i > n /\ i # n + 1
    <3>1. i - n \in 2..m /\ ~(i - 1 <= n) /\ (i - 1) - n = (i - n) - 1
          /\ i \in 1..n + m /\ i - 1 \in 1..n + m
      BY <1>1, <2>3
    <3>2. c[i] = b[i - n]
      BY <1>1, <2>3, <3>1
    <3>3. c[i - 1] = b[(i - 1) - n]
      BY <1>1, <3>1
    <3>4. b[i - n].id = b[(i - n) - 1].id + 1
      BY <1>2, <3>1
    <3> QED BY <3>1, <3>2, <3>3, <3>4
  <2> QED BY <1>1, <2>1, <2>2, <2>3
<1> QED BY <1>1, <1>4 DEF IdsRun, c

\* The part of a numbered sequence behind its beginning.
LEMMA NumbersTail ==
    ASSUME NEW a \in Seq(RecordRows), NEW b \in Seq(RecordRows), IdsRun(a \o b)
    PROVE  IdsRun(b) /\ (b # <<>> => a \o b # <<>> /\ Ends(Genesis, a \o b) = Ends(Genesis, b))
<1> DEFINE c == a \o b
           n == Len(a)
           m == Len(b)
<1>1. /\ c \in Seq(RecordRows) /\ Len(c) = n + m /\ n \in Nat /\ m \in Nat
      /\ \A i \in 1..n + m : c[i] = IF i <= n THEN a[i] ELSE b[i - n]
  BY ConcatProperties, RecordRowFacts
<1>2. \A i \in 2..n + m : c[i].id = c[i - 1].id + 1
  BY <1>1 DEF IdsRun
<1>0. b # <<>> => m \in 1..m
  BY RecordRowFacts
<1> HIDE DEF c, n, m
<1>3. ASSUME NEW i \in 2..m PROVE b[i].id = b[i - 1].id + 1
  <2>1. /\ n + i \in 2..n + m /\ ~(n + i <= n) /\ (n + i) - n = i
        /\ n + i - 1 \in 1..n + m /\ ~(n + i - 1 <= n) /\ (n + i - 1) - n = i - 1
    BY <1>1
  <2> DEFINE k == n + i
  <2>2. k \in 2..n + m /\ k \in 1..n + m /\ ~(k <= n) /\ k - n = i
        /\ k - 1 \in 1..n + m /\ ~(k - 1 <= n) /\ (k - 1) - n = i - 1
    BY <1>1, <2>1
  <2> HIDE DEF k
  <2>3. c[k] = b[i]
    BY <1>1, <2>2
  <2>4. c[k - 1] = b[i - 1]
    BY <1>1, <2>2
  <2>5. c[k].id = c[k - 1].id + 1
    BY <1>2, <2>2
  <2> QED BY <2>3, <2>4, <2>5
<1>4. ASSUME b # <<>> PROVE c # <<>> /\ Ends(Genesis, c) = Ends(Genesis, b)
  <2>1. m \in 1..m /\ n + m \in 1..n + m /\ ~(n + m <= n) /\ (n + m) - n = m
    BY <1>0, <1>1, <1>4
  <2>2. c[n + m] = b[m]
    BY <1>1, <2>1
  <2>3. c # <<>>
    BY <1>1, <2>1, EmptySeq
  <2> QED BY <1>1, <1>4, <2>2, <2>3 DEF Ends, m
<1> QED BY <1>3, <1>4 DEF IdsRun, c, m

-------------------------------------------------------------------------------
(***************************************************************************)
(* What the store does to the log, one effect at a time: it writes a row,  *)
(* commits, opens a file, removes the oldest, starts again from the files. *)
(***************************************************************************)
LEMMA ChainedFacts ==
    ASSUME NEW files, NEW rows, NEW chain, Chained(files, rows, chain)
    PROVE  /\ files \in Seq(Files) /\ rows \in Seq(RecordRows) /\ chain \in Seq(Records)
           /\ Len(files) \in Nat /\ DOMAIN files = 1..Len(files)
           /\ files # <<>> => Len(files) \in 1..Len(files) /\ 1 \in 1..Len(files)
           /\ \A i \in 1..Len(files) :
                 /\ files[i] \in Files /\ files[i].day \in Days
                 /\ files[i].start \in Seq(Records) /\ files[i].rows \in Seq(RecordRows)
                 /\ EndChain(files[i]) = Ends(files[i].start, files[i].rows)
                 /\ EndChain(files[i]) \in Seq(Records)
<1>1. /\ files \in Seq(Files) /\ rows \in Seq(RecordRows) /\ chain \in Seq(Records)
      /\ Started(files)
  BY DEF Chained
<1>2. /\ Len(files) \in Nat /\ DOMAIN files = 1..Len(files)
      /\ files # <<>> => Len(files) \in 1..Len(files) /\ 1 \in 1..Len(files)
      /\ \A i \in 1..Len(files) :
            /\ files[i] \in Files /\ files[i].day \in Days
            /\ files[i].start \in Seq(Records) /\ files[i].rows \in Seq(RecordRows)
  BY <1>1, FilesFacts DEF Started
<1>3. \A i \in 1..Len(files) : /\ EndChain(files[i]) = Ends(files[i].start, files[i].rows)
                               /\ EndChain(files[i]) \in Seq(Records)
  BY <1>2, EndIs
<1> QED BY <1>1, <1>2, <1>3

LEMMA NothingContinues == ASSUME NEW chain PROVE RowsContinue(chain, <<>>) /\ <<>> \in Seq(RecordRows)
<1>1. DOMAIN <<>> = {}
  OBVIOUS
<1> QED BY <1>1, EmptySeq DEF RowsContinue

\* A commit.
LEMMA CommitKeeps ==
    ASSUME NEW files, NEW rows, NEW chain, Chained(files, rows, chain), files # <<>>
    PROVE  /\ Chained(Extended(files, rows), <<>>, chain)
           /\ Flat(Extended(files, rows)) = Flat(files) \o rows
           /\ EndChain(Extended(files, rows)[Len(files)]) = chain
<1> DEFINE e == Extended(files, rows)
           n == Len(files)
           last == EndChain(files[n])
<1>1. /\ files \in Seq(Files) /\ rows \in Seq(RecordRows) /\ chain \in Seq(Records)
      /\ n \in Nat /\ DOMAIN files = 1..n /\ n \in 1..n
      /\ \A i \in 1..n :
            /\ files[i].start \in Seq(Records) /\ files[i].rows \in Seq(RecordRows)
            /\ EndChain(files[i]) = Ends(files[i].start, files[i].rows)
  BY ChainedFacts
<1>2. /\ DaysGrow(files) /\ Linked(files) /\ EmptySkipped(files) /\ IdsRun(Flat(files))
      /\ RowsContinue(last, rows) /\ chain = Ends(last, rows)
      /\ Flat(files) # <<>> => Ends(Genesis, Flat(files)) = last
  BY DEF Chained
<1>3. /\ e \in Seq(Files) /\ Len(e) = n /\ DOMAIN e = 1..n
      /\ \A i \in 1..n : i # n => e[i] = files[i]
      /\ e[n].day = files[n].day /\ e[n].start = files[n].start
      /\ e[n].rows = files[n].rows \o rows
  BY <1>1, ExtendedIs
<1>4. Flat(e) = Flat(files) \o rows /\ Flat(files) \in Seq(RecordRows) /\ Flat(e) \in Seq(RecordRows)
  <2>1. Flat(e) = Flat(files) \o rows
    BY <1>1, FlatExtended
  <2> HIDE DEF e
  <2> QED BY <1>1, <1>3, <2>1, RowsInTyped
<1>5. /\ RowsContinue(files[n].start, files[n].rows \o rows)
      /\ Ends(files[n].start, files[n].rows \o rows) = chain
  <2>1. RowsContinue(files[n].start, files[n].rows)
    BY <1>1, <1>2 DEF Linked
  <2>2. last = Ends(files[n].start, files[n].rows)
    BY <1>1
  <2>3. RowsContinue(Ends(files[n].start, files[n].rows), rows)
    BY <1>2, <2>2
  <2> QED BY <1>1, <1>2, <2>1, <2>2, <2>3, RowsJoin
<1> HIDE DEF e, n
<1>6. EndChain(e[n]) = chain
  <2>1. e[n] \in Files /\ e[n].start \in Seq(Records)
    BY <1>1, <1>3, ElementOfSeq
  <2> QED BY <1>3, <1>5, <2>1, EndIs
<1>7. DaysGrow(e)
  <2>1. \A i \in 1..n : e[i].day = files[i].day
    BY <1>3
  <2> QED BY <1>1, <1>2, <1>3, <2>1 DEF DaysGrow
<1>8. Linked(e)
  <2>1. ASSUME NEW i \in 2..Len(e) PROVE e[i].start = EndChain(e[i - 1])
    <3>1. i \in 1..n /\ i - 1 \in 1..n /\ i - 1 # n /\ i \in 2..Len(files)
      <4>1. Len(files) = n
        BY DEF n
      <4> QED BY <1>1, <1>3, <4>1
    <3>2. e[i].start = files[i].start /\ e[i - 1] = files[i - 1]
      BY <1>3, <3>1
    <3> QED BY <1>2, <3>1, <3>2 DEF Linked
  <2>2. ASSUME NEW i \in DOMAIN e PROVE RowsContinue(e[i].start, e[i].rows)
    <3>1. CASE i = n
      BY <1>3, <1>5, <3>1
    <3>2. CASE i # n
      BY <1>1, <1>2, <1>3, <3>2 DEF Linked
    <3> QED BY <3>1, <3>2
  <2> QED BY <2>1, <2>2 DEF Linked
<1>9. EmptySkipped(e)
  <2> SUFFICES ASSUME NEW i \in 1..n, NEW j \in 1..n, i <= j,
                      \A k \in i..j - 1 : e[k].rows = <<>>
               PROVE  e[j].start = e[i].start
    BY <1>3 DEF EmptySkipped
  <2>1. \A k \in i..j - 1 : files[k].rows = <<>>
    <3> SUFFICES ASSUME NEW k \in i..j - 1 PROVE files[k].rows = <<>>
      OBVIOUS
    <3>1. k \in 1..n /\ k # n
      BY <1>1
    <3> QED BY <1>3, <3>1
  <2>2. files[j].start = files[i].start
    BY <1>1, <1>2, <2>1 DEF EmptySkipped
  <2>3. e[j].start = files[j].start /\ e[i].start = files[i].start
    BY <1>3
  <2> QED BY <2>2, <2>3
<1>10. IdsRun(Flat(e))
  <2>1. Flat(files) # <<>> => Flat(files)[Len(Flat(files))].chain = last
    BY <1>2 DEF Ends
  <2>2. last \in Seq(Records)
    BY <1>1, ChainedFacts DEF n
  <2> HIDE DEF last
  <2> QED BY <1>2, <1>4, <2>1, <2>2, NumbersJoin
<1>11. Flat(e) # <<>> => Ends(Genesis, Flat(e)) = chain
  <2>1. Ends(Genesis, Flat(e)) = Ends(Ends(Genesis, Flat(files)), rows)
    BY <1>1, <1>4, EndsJoin
  <2>2. CASE rows = <<>>
    <3>1. Flat(e) = Flat(files)
      BY <1>4, <2>2, ConcatEmptySeq
    <3> QED BY <1>2, <2>2, <3>1 DEF Ends
  <2>3. CASE rows # <<>>
    BY <1>2, <2>1, <2>3 DEF Ends
  <2> QED BY <2>2, <2>3
<1>12. /\ <<>> \in Seq(RecordRows) /\ RowsContinue(EndChain(e[n]), <<>>)
       /\ chain = Ends(EndChain(e[n]), <<>>)
  BY <1>6, NothingContinues DEF Ends
<1>13. e # <<>>
  BY <1>1, <1>3, EmptySeq
<1>14. Started(e)
  <2> SUFFICES ASSUME NEW i \in 1..n PROVE e[i].start \in Seq(Records)
    BY <1>3 DEF Started
  <2> QED BY <1>1, <1>3
<1>15. Chained(e, <<>>, chain)
  BY <1>1, <1>3, <1>14, <1>6, <1>7, <1>8, <1>9, <1>10, <1>11, <1>12, <1>13 DEF Chained
<1> QED BY <1>4, <1>6, <1>15 DEF e, n

\* A file more, which continues the chain.
LEMMA OpenKeeps ==
    ASSUME NEW files, NEW chain, Chained(files, <<>>, chain), NEW day \in Days,
           \A i \in 1..Len(files) : files[i].day < day
    PROVE  LET new == Append(files, DayFile(day, chain))
           IN /\ Chained(new, <<>>, chain) /\ Flat(new) = Flat(files)
              /\ new \in Seq(Files) /\ new # <<>> /\ Len(new) = Len(files) + 1
              /\ new[Len(new)].day = day /\ EndChain(new[Len(new)]) = chain
              /\ \A i \in 1..Len(files) : new[i] = files[i]
<1> DEFINE file == DayFile(day, chain)
           new == Append(files, file)
           n == Len(files)
<1>1. /\ files \in Seq(Files) /\ chain \in Seq(Records)
      /\ n \in Nat /\ DOMAIN files = 1..n /\ (files # <<>> => n \in 1..n)
      /\ (files = <<>> => n = 0)
      /\ \A i \in 1..n :
            /\ files[i].day \in Days /\ files[i].rows \in Seq(RecordRows)
            /\ files[i].start \in Seq(Records)
            /\ EndChain(files[i]) = Ends(files[i].start, files[i].rows)
  BY ChainedFacts, EmptySeq
<1>2. /\ DaysGrow(files) /\ Linked(files) /\ EmptySkipped(files) /\ IdsRun(Flat(files))
      /\ files = <<>> => chain = Genesis
      /\ files # <<>> => /\ chain = EndChain(files[n])
                         /\ Flat(files) # <<>> => Ends(Genesis, Flat(files)) = chain
  BY DEF Chained, Ends
<1>3. /\ file \in Files /\ file.day = day /\ file.start = chain /\ file.rows = <<>>
      /\ EndChain(file) = chain
  <2>1. file \in Files /\ file.day = day /\ file.start = chain /\ file.rows = <<>>
    BY <1>1, NothingContinues DEF DayFile, Files
  <2> HIDE DEF file
  <2>2. EndChain(file) = Ends(StartOf(file), file.rows) /\ StartOf(file) = file.start
    BY <1>1, <2>1, EndIs
  <2> QED BY <2>1, <2>2 DEF Ends
<1> HIDE DEF file
<1>4. /\ new \in Seq(Files) /\ new # <<>> /\ Len(new) = n + 1 /\ new[n + 1] = file
      /\ \A i \in 1..n : new[i] = files[i]
  BY <1>1, <1>3, AppendProperties
<1>5. DOMAIN new = 1..n + 1
  <2> HIDE DEF new
  <2> QED BY <1>4, LenProperties
<1>6. Flat(new) = Flat(files)
  <2>1. Flat(new) = Flat(files) \o <<>> /\ Flat(files) \in Seq(RecordRows)
    BY <1>1, <1>3, FlatAppend, RowsInTyped
  <2> QED BY <2>1, ConcatEmptySeq
<1> HIDE DEF new, n
<1>7. DaysGrow(new)
  <2> SUFFICES ASSUME NEW i \in 1..n + 1, NEW j \in 1..n + 1, i < j
               PROVE  new[i].day < new[j].day
    BY <1>5 DEF DaysGrow
  <2>0. n \in Nat
    BY <1>1
  <2>1. CASE j = n + 1
    <3>1. i \in 1..n
      BY <2>0, <2>1
    <3> QED BY <1>3, <1>4, <2>1, <3>1 DEF n
  <2>2. CASE j # n + 1
    <3>1. i \in 1..n /\ j \in 1..n
      BY <2>0, <2>2
    <3>2. DaysGrow(files) /\ DOMAIN files = 1..n
      BY <1>1, <1>2
    <3>3. files[i].day < files[j].day
      BY <3>1, <3>2 DEF DaysGrow
    <3>4. new[i] = files[i] /\ new[j] = files[j]
      BY <1>4, <3>1
    <3> QED BY <3>3, <3>4
  <2> QED BY <2>1, <2>2
<1>8. Linked(new)
  <2>1. ASSUME NEW i \in 2..n + 1 PROVE new[i].start = EndChain(new[i - 1])
    <3>1. CASE i = n + 1
      <4>1. n \in 1..n /\ i - 1 = n /\ files # <<>>
        BY <1>1, <3>1
      <4> QED BY <1>2, <1>3, <1>4, <3>1, <4>1
    <3>2. CASE i # n + 1
      <4>1. i \in 2..n /\ i \in 1..n /\ i - 1 \in 1..n
        BY <1>1, <3>2
      <4> QED BY <1>2, <1>4, <4>1 DEF Linked, n
    <3> QED BY <3>1, <3>2
  <2>2. ASSUME NEW i \in 1..n + 1 PROVE RowsContinue(new[i].start, new[i].rows)
    <3>1. CASE i = n + 1
      BY <1>3, <1>4, <3>1, NothingContinues
    <3>2. CASE i # n + 1
      <4>1. i \in 1..n
        BY <1>1, <3>2
      <4> QED BY <1>1, <1>2, <1>4, <4>1 DEF Linked
    <3> QED BY <3>1, <3>2
  <2> QED BY <1>4, <1>5, <2>1, <2>2 DEF Linked
<1>9. EmptySkipped(new)
  <2> SUFFICES ASSUME NEW i \in 1..n + 1, NEW j \in 1..n + 1, i <= j,
                      \A k \in i..j - 1 : new[k].rows = <<>>
               PROVE  new[j].start = new[i].start
    BY <1>5 DEF EmptySkipped
  <2>0. ASSUME NEW l \in 1..n, i <= l, l <= j PROVE files[l].start = files[i].start
    <3>1. i \in 1..n
      BY <1>1, <2>0
    <3>2. \A k \in i..l - 1 : files[k].rows = <<>>
      <4> SUFFICES ASSUME NEW k \in i..l - 1 PROVE files[k].rows = <<>>
        OBVIOUS
      <4>1. k \in 1..n /\ k \in i..j - 1
        BY <1>1, <2>0
      <4> QED BY <1>4, <4>1
    <3> QED BY <1>1, <1>2, <2>0, <3>1, <3>2 DEF EmptySkipped
  <2>1. CASE j = n + 1 /\ i # n + 1
    <3>1. n \in 1..n /\ i \in 1..n /\ n \in i..j - 1 /\ files # <<>> /\ i <= n /\ n <= j
      BY <1>1, <2>1, EmptySeq
    <3>2. files[n].rows = <<>> /\ files[n].start = files[i].start
      BY <1>4, <2>0, <3>1
    <3>3. chain = files[n].start
      BY <1>1, <1>2, <3>1, <3>2 DEF Ends
    <3> QED BY <1>3, <1>4, <2>1, <3>1, <3>2, <3>3
  <2>2. CASE j # n + 1
    <3>1. j \in 1..n /\ i \in 1..n /\ j <= j
      BY <1>1, <2>2
    <3> QED BY <1>4, <2>0, <3>1
  <2>3. CASE i = n + 1
    <3>1. j = i
      BY <1>1, <2>3
    <3> QED BY <3>1
  <2> QED BY <2>1, <2>2, <2>3
<1>10. IdsRun(Flat(new))
  BY <1>2, <1>6
<1>11. Flat(new) # <<>> => Ends(Genesis, Flat(new)) = chain
  <2>1. files = <<>> => Flat(files) = <<>>
    BY <1>1, RowsInTyped
  <2> QED BY <1>2, <1>6, <2>1
<1>12. EndChain(new[n + 1]) = chain
  BY <1>3, <1>4
<1>13. Started(new)
  <2> SUFFICES ASSUME NEW i \in 1..n + 1 PROVE new[i].start \in Seq(Records)
    BY <1>5 DEF Started
  <2>1. CASE i = n + 1
    BY <1>1, <1>3, <1>4, <2>1
  <2>2. CASE i # n + 1
    <3>1. i \in 1..n
      BY <1>1, <2>2
    <3> QED BY <1>1, <1>4, <3>1
  <2> QED BY <2>1, <2>2
<1>14. Chained(new, <<>>, chain)
  BY <1>1, <1>4, <1>13, <1>7, <1>8, <1>9, <1>10, <1>11, <1>12, NothingContinues DEF Chained, Ends
<1> QED BY <1>3, <1>4, <1>6, <1>12, <1>14 DEF new, n, file

\* The row that append writes on a chain value.
RowAfter(chain, rec) == StoredRow(Len(chain) + 1, rec, Append(chain, rec))

RowGoes(files, rows, chain, rec) ==
    LET row == RowAfter(chain, rec)
        next == Append(chain, rec)
        all == rows \o <<row>>
    IN  /\ row \in RecordRows /\ row.chain = next /\ next \in Seq(Records) /\ Len(next) = Len(chain) + 1
        /\ all \in Seq(RecordRows) /\ all # <<>> /\ Chained(files, all, next)

\* A row more in the open transaction.
LEMMA RecordRowKeeps ==
    ASSUME NEW files, NEW rows, NEW chain, Chained(files, rows, chain), files # <<>>,
           NEW rec \in Records
    PROVE  RowGoes(files, rows, chain, rec)
<1> DEFINE next == Append(chain, rec)
           row == RowAfter(chain, rec)
           last == EndChain(files[Len(files)])
           one == <<row>>
           all == rows \o one
<1>1. /\ files \in Seq(Files) /\ rows \in Seq(RecordRows) /\ chain \in Seq(Records)
      /\ RowsContinue(last, rows) /\ chain = Ends(last, rows)
  BY ChainedFacts DEF Chained
<1>2. next \in Seq(Records) /\ Len(next) = Len(chain) + 1 /\ Len(chain) \in Nat
  BY <1>1, AppendProperties, LenProperties
<1>3. row \in RecordRows /\ row.chain = next /\ row.rec = rec
  <2> HIDE DEF next, row
  <2>1. row = StoredRow(Len(chain) + 1, rec, next)
    BY DEF RowAfter, next, row
  <2> QED BY <1>2, <2>1 DEF StoredRow, RecordRows
<1> HIDE DEF row
<1>4. one \in Seq(RecordRows) /\ Len(one) = 1 /\ one[1] = row /\ DOMAIN one = 1..1 /\ one # <<>>
  BY <1>3
<1> HIDE DEF one
<1>5. RowsContinue(chain, one) /\ Ends(chain, one) = next
  BY <1>3, <1>4 DEF RowsContinue, Ends, next
<1>6. all \in Seq(RecordRows) /\ RowsContinue(last, all) /\ Ends(last, all) = next
  <2>1. RowsContinue(Ends(last, rows), one) /\ Ends(Ends(last, rows), one) = next
    BY <1>1, <1>5
  <2> HIDE DEF last, next
  <2> QED BY <1>1, <1>4, <2>1, RowsJoin
<1>7. all # <<>>
  <2>1. Len(rows) \in Nat /\ Len(all) = Len(rows) + Len(one)
    BY <1>1, <1>4, LenProperties, ConcatProperties
  <2>2. Len(all) = Len(rows) + 1 /\ Len(all) # 0
    BY <1>4, <2>1
  <2> QED BY <1>6, <2>2, RecordRowFacts
<1>8. Chained(files, all, next)
  <2> HIDE DEF all, next
  <2> QED BY <1>2, <1>6 DEF Chained, last
<1> QED BY <1>2, <1>3, <1>6, <1>7, <1>8 DEF RowGoes, row, one

\* The oldest file away.
LEMMA TailKeeps ==
    ASSUME NEW files, NEW rows, NEW chain, Chained(files, rows, chain), Len(files) > 1
    PROVE  LET rest == Tail(files)
           IN /\ Chained(rest, rows, chain) /\ rest # <<>> /\ Len(rest) = Len(files) - 1
              /\ \A i \in 1..Len(rest) : rest[i] = files[i + 1]
              /\ rest[Len(rest)] = files[Len(files)] /\ rest[1] = files[2]
<1> DEFINE rest == Tail(files)
           n == Len(files)
           m == Len(rest)
<1>1. /\ files \in Seq(Files) /\ rows \in Seq(RecordRows) /\ chain \in Seq(Records)
      /\ n \in Nat /\ DOMAIN files = 1..n /\ files # <<>>
  BY ChainedFacts, EmptySeq
<1>2. /\ DaysGrow(files) /\ Started(files) /\ Linked(files) /\ EmptySkipped(files)
      /\ IdsRun(Flat(files)) /\ RowsContinue(EndChain(files[n]), rows) /\ chain = Ends(EndChain(files[n]), rows)
      /\ Flat(files) # <<>> => Ends(Genesis, Flat(files)) = EndChain(files[n])
  BY <1>1 DEF Chained
<1>3. /\ rest \in Seq(Files) /\ m = n - 1 /\ \A i \in 1..m : rest[i] = files[i + 1]
      /\ m \in Nat /\ m \in 1..m /\ 1 \in 1..m
  BY <1>1, HeadTailProperties
<1>4. rest # <<>> /\ DOMAIN rest = 1..m /\ rest[m] = files[n] /\ rest[1] = files[2]
  <2> HIDE DEF rest
  <2>1. rest # <<>>
    BY <1>3, EmptySeq DEF m
  <2>2. DOMAIN rest = 1..m
    BY <1>3, LenProperties DEF m
  <2>3. m + 1 = n /\ 1 + 1 = 2
    BY <1>1, <1>3
  <2> QED BY <1>3, <2>1, <2>2, <2>3
<1>5. /\ Flat(rest) \in Seq(RecordRows) /\ files[1].rows \in Seq(RecordRows)
      /\ Flat(files) = files[1].rows \o Flat(rest)
  BY <1>1, FlatTail
<1> HIDE DEF rest
<1>6. /\ IdsRun(Flat(rest))
      /\ Flat(rest) # <<>> => Ends(Genesis, Flat(rest)) = EndChain(files[n])
  <2>1. IdsRun(files[1].rows \o Flat(rest))
    BY <1>2, <1>5
  <2>2. IdsRun(Flat(rest))
        /\ (Flat(rest) # <<>> => files[1].rows \o Flat(rest) # <<>>
               /\ Ends(Genesis, files[1].rows \o Flat(rest)) = Ends(Genesis, Flat(rest)))
    BY <1>5, <2>1, NumbersTail
  <2> QED BY <1>2, <1>5, <2>2
<1> HIDE DEF m, n
<1>7. DaysGrow(rest)
  <2> SUFFICES ASSUME NEW i \in 1..m, NEW j \in 1..m, i < j PROVE rest[i].day < rest[j].day
    BY <1>4 DEF DaysGrow
  <2>1. i + 1 \in 1..n /\ j + 1 \in 1..n /\ i + 1 < j + 1
    BY <1>1, <1>3
  <2>2. files[i + 1].day < files[j + 1].day
    BY <1>1, <1>2, <2>1 DEF DaysGrow
  <2> QED BY <1>3, <2>2
<1>8. Linked(rest)
  <2>1. ASSUME NEW i \in 2..m PROVE rest[i].start = EndChain(rest[i - 1])
    <3>1. i + 1 \in 2..n /\ i \in 1..m /\ i - 1 \in 1..m /\ (i - 1) + 1 = i /\ (i + 1) - 1 = i
      BY <1>1, <1>3
    <3>2. files[i + 1].start = EndChain(files[(i + 1) - 1])
      BY <1>2, <3>1 DEF Linked, n
    <3>3. rest[i] = files[i + 1] /\ rest[i - 1] = files[(i - 1) + 1]
      BY <1>3, <3>1
    <3> QED BY <3>1, <3>2, <3>3
  <2>2. ASSUME NEW i \in 1..m PROVE RowsContinue(rest[i].start, rest[i].rows)
    <3>1. i + 1 \in DOMAIN files
      BY <1>1, <1>3
    <3> QED BY <1>2, <1>3, <3>1 DEF Linked
  <2> QED BY <1>4, <2>1, <2>2 DEF Linked, m
<1>9. EmptySkipped(rest)
  <2> SUFFICES ASSUME NEW i \in 1..m, NEW j \in 1..m, i <= j,
                      \A k \in i..j - 1 : rest[k].rows = <<>>
               PROVE  rest[j].start = rest[i].start
    BY <1>4 DEF EmptySkipped
  <2>1. i + 1 \in DOMAIN files /\ j + 1 \in DOMAIN files /\ i + 1 <= j + 1
    BY <1>1, <1>3
  <2>2. \A k \in i + 1..(j + 1) - 1 : files[k].rows = <<>>
    <3> SUFFICES ASSUME NEW k \in i + 1..(j + 1) - 1 PROVE files[k].rows = <<>>
      OBVIOUS
    <3>1. k - 1 \in i..j - 1 /\ k - 1 \in 1..m /\ (k - 1) + 1 = k
      BY <1>1, <1>3
    <3>2. rest[k - 1] = files[(k - 1) + 1]
      BY <1>3, <3>1
    <3> QED BY <3>1, <3>2
  <2>3. files[j + 1].start = files[i + 1].start
    BY <1>2, <2>1, <2>2 DEF EmptySkipped
  <2> QED BY <1>3, <2>3
<1>10. Started(rest)
  <2> SUFFICES ASSUME NEW i \in 1..m PROVE rest[i].start \in Seq(Records)
    BY <1>4 DEF Started
  <2>1. i + 1 \in 1..n
    BY <1>1, <1>3
  <2> QED BY <1>1, <1>2, <1>3, <2>1 DEF Started
<1>11. Chained(rest, rows, chain)
  BY <1>1, <1>2, <1>10, <1>3, <1>4, <1>6, <1>7, <1>8, <1>9 DEF Chained, m
<1> QED BY <1>3, <1>4, <1>11 DEF rest, m, n

\* The open transaction lost.
LEMMA CrashKeeps ==
    ASSUME NEW files, NEW rows, NEW chain, Chained(files, rows, chain)
    PROVE  Chained(files, <<>>, IF files = <<>> THEN Genesis ELSE EndChain(files[Len(files)]))
<1>1. CASE files = <<>>
  <2>1. <<>> \in Seq(Records) /\ <<>> \in Seq(RecordRows)
    BY EmptySeq
  <2> QED BY <1>1, <2>1 DEF Chained, Genesis
<1>2. CASE files # <<>>
  <2>1. EndChain(files[Len(files)]) \in Seq(Records)
    BY <1>2, ChainedFacts
  <2> QED BY <1>2, <2>1, NothingContinues DEF Chained, Ends
<1> QED BY <1>1, <1>2

\* The newest row on disk, as a new process finds it.
LEMMA TailRowIs ==
    ASSUME segs \in Seq(Files), Filled # {}
    PROVE  \E t \in Filled :
              /\ \A j \in Filled : j <= t
              /\ TailRow = segs[t].rows[Len(segs[t].rows)]
<1> DEFINE n == Len(segs)
           B == {i \in 1..n : n + 1 - i \in Filled}
           t == CHOOSE i \in Filled : \A j \in Filled : j <= i
<1>1. n \in Nat /\ Filled \subseteq 1..n
  BY FilesFacts DEF Filled
<1> HIDE DEF n
<1>2. B \subseteq 1..n /\ B # {}
  <2>1. PICK i \in Filled : TRUE
    OBVIOUS
  <2>2. n + 1 - i \in 1..n /\ n + 1 - (n + 1 - i) = i
    BY <1>1, <2>1
  <2> QED BY <2>1, <2>2
<1>3. PICK b \in B : \A c \in B : b <= c
  <2> HIDE DEF B
  <2> QED BY <1>1, <1>2, SmallestPlace
<1>4. \E i \in Filled : \A j \in Filled : j <= i
  <2>1. b \in 1..n /\ n + 1 - b \in Filled
    OBVIOUS
  <2>2. ASSUME NEW j \in Filled PROVE j <= n + 1 - b
    <3>1. j \in 1..n /\ n + 1 - j \in 1..n /\ n + 1 - (n + 1 - j) = j
      BY <1>1
    <3>2. n + 1 - j \in B
      BY <3>1
    <3>3. b <= n + 1 - j
      BY <1>3, <3>2
    <3> QED BY <1>1, <2>1, <3>1, <3>3
  <2> QED BY <2>1, <2>2
<1>5. t \in Filled /\ \A j \in Filled : j <= t
  BY <1>4
<1>6. TailRow = Last(segs[t].rows)
  BY DEF TailRow
<1> HIDE DEF t
<1> QED BY <1>5, <1>6 DEF Last

\* The end of the log, as a new process finds it.
LEMMA FoundAtTheEnd ==
    ASSUME NEW rows, NEW chain, Chained(segs, rows, chain), segs # <<>>
    PROVE  /\ Filled # {} => TailRow.chain = EndChain(segs[Len(segs)])
           /\ Filled = {} => EndChain(segs[Len(segs)]) = segs[1].start
<1> DEFINE n == Len(segs)
<1>1. /\ n \in Nat /\ DOMAIN segs = 1..n /\ n \in 1..n /\ 1 \in 1..n
      /\ segs \in Seq(Files)
      /\ \A i \in 1..n : EndChain(segs[i]) = Ends(segs[i].start, segs[i].rows)
      /\ Linked(segs) /\ EmptySkipped(segs)
  BY ChainedFacts DEF Chained
<1>2. /\ Filled \subseteq 1..n
      /\ \A i \in 1..n : i \notin Filled => segs[i].rows = <<>>
      /\ \A i \in Filled : segs[i].rows # <<>>
  BY <1>1 DEF Filled
<1> HIDE DEF n
<1>3. ASSUME Filled # {} PROVE TailRow.chain = EndChain(segs[n])
  <2>1. PICK t \in Filled : /\ \A j \in Filled : j <= t
                            /\ TailRow = segs[t].rows[Len(segs[t].rows)]
    BY <1>1, <1>3, TailRowIs
  <2>2. t \in 1..n /\ segs[t].rows # <<>>
    BY <1>2
  <2>3. TailRow.chain = EndChain(segs[t])
    BY <1>1, <2>1, <2>2 DEF Ends
  <2>4. ASSUME t # n PROVE EndChain(segs[n]) = EndChain(segs[t])
    <3>1. t + 1 \in 2..n /\ t + 1 \in 1..n /\ (t + 1) - 1 = t /\ t + 1 <= n
      BY <1>1, <2>2, <2>4
    <3>2. segs[t + 1].start = EndChain(segs[t])
      BY <1>1, <3>1 DEF Linked, n
    <3>3. \A k \in t + 1..n : segs[k].rows = <<>>
      <4> SUFFICES ASSUME NEW k \in t + 1..n PROVE segs[k].rows = <<>>
        OBVIOUS
      <4>1. k \in 1..n /\ ~(k <= t)
        BY <1>1, <2>2
      <4> QED BY <1>2, <2>1, <4>1
    <3>4. \A k \in t + 1..n - 1 : segs[k].rows = <<>>
      BY <1>1, <2>2, <3>3
    <3>5. segs[n].start = segs[t + 1].start
      BY <1>1, <3>1, <3>4 DEF EmptySkipped
    <3>6. segs[n].rows = <<>>
      BY <1>1, <3>1, <3>3
    <3> QED BY <1>1, <3>2, <3>5, <3>6 DEF Ends
  <2> QED BY <2>3, <2>4
<1>4. ASSUME Filled = {} PROVE EndChain(segs[n]) = segs[1].start
  <2>1. \A k \in 1..n : segs[k].rows = <<>>
    BY <1>2, <1>4
  <2>2. \A k \in 1..n - 1 : segs[k].rows = <<>>
    BY <1>1, <2>1
  <2>3. segs[n].start = segs[1].start
    BY <1>1, <2>2 DEF EmptySkipped
  <2> QED BY <1>1, <2>1, <2>3 DEF Ends
<1> QED BY <1>3, <1>4 DEF n

-------------------------------------------------------------------------------
(***************************************************************************)
(* The invariant of the store.                                             *)
(***************************************************************************)
\* The chain value that files end on.
EndOf(files) == IF files = <<>> THEN Genesis ELSE EndChain(files[Len(files)])

\* What the files, the open transaction and the chain value in memory still are
\* to one another: one log; or the files alone are one, and the process is
\* elsewhere; or there is no more than files of growing days.
LogFits(files, rows, chain, where) ==
    /\ files \in Seq(Files) /\ DaysGrow(files)
    /\ rows \in Seq(RecordRows) /\ chain \in Seq(Records)
    /\ where = "no" => Chained(files, rows, chain)
    /\ where = "memory" => rows = <<>> /\ Chained(files, <<>>, EndOf(files))

\* No number above a bound.
RowsBelow(rows, n) == \A i \in 1..Len(rows) : rows[i].id <= n

FilesBelow(files, n) == \A i \in 1..Len(files) : RowsBelow(files[i].rows, n)

\* The open transaction is in the newest file.
WritingNewest ==
    /\ conn = 0 => pending = <<>>
    /\ conn # 0 => segs # <<>> /\ conn <= Newest
    /\ pending # <<>> => conn = Newest
    /\ segs # <<>> => Newest <= latestDay

\* While a removal is recorded and not done, the file is there and so is another.
RemovalFits ==
    removing # 0 => /\ Len(segs) > 1 /\ removing = segs[1].day /\ pending = <<>>
                    /\ manifest # <<>>

\* The oldest file starts where the record of removals says.
StartsOnRecord ==
    astray # "files" /\ ~torn /\ NoChain \notin ToSet(manifest) =>
        IF removing = 0 THEN FirstContinues ELSE Last(manifest) = EndChain(segs[1])

\* Files that never lost one start where the log does.
StartsAtGenesis ==
    astray # "files" /\ manifest = <<>> /\ segs # <<>> => segs[1].start = Genesis

\* What was appended bounds what is numbered; only after a failed call does a
\* transaction wait for longer than a commit takes.
Counted ==
    /\ appended \in 0..MaxRecords /\ nextId = Len(prevChain) + 1 /\ Len(prevChain) <= appended
    /\ FilesBelow(segs, appended) /\ RowsBelow(pending, appended)
    /\ due \in Nat /\ due <= appended /\ Len(pending) <= due
    /\ diskFails \in Nat /\ (due >= CommitEvery => diskFails > 0)

Typed ==
    /\ today \in Days /\ conn \in 0..LastDay /\ latestDay \in 0..LastDay
    /\ removing \in 0..LastDay /\ torn \in BOOLEAN /\ astray \in {"no", "memory", "files"}
    /\ manifest \in Seq(Seq(Records) \cup {NoChain}) /\ (segs = <<>> => manifest = <<>>)

StoreInv ==
    /\ LogFits(segs, pending, prevChain, astray) /\ Counted /\ Typed
    /\ WritingNewest /\ RemovalFits /\ StartsOnRecord /\ StartsAtGenesis

\* The files are one log of their own for as long as no append went on elsewhere.
LEMMA FilesFit ==
    ASSUME NEW files, NEW rows, NEW chain, NEW where \in {"no", "memory"},
           LogFits(files, rows, chain, where)
    PROVE  Chained(files, <<>>, EndOf(files))
<1>1. CASE where = "no"
  BY <1>1, CrashKeeps DEF LogFits, EndOf
<1>2. CASE where = "memory"
  BY <1>2 DEF LogFits
<1> QED BY <1>1, <1>2

\* A log loses its open transaction: the chain value in memory is ahead of it.
LEMMA SurviveFits ==
    ASSUME NEW files, NEW rows, NEW chain, NEW where \in {"no", "memory", "files"},
           LogFits(files, rows, chain, where), Survive(rows, where)
    PROVE  /\ LogFits(files, pending', chain, astray') /\ pending' \in {rows, <<>>}
           /\ astray' \in {"no", "memory", "files"} /\ (astray' # "files" => where # "files")
<1>1. CASE pending' = rows /\ astray' = where
  BY <1>1
<1>2. CASE pending' = <<>> /\ astray' = IF rows # <<>> /\ where = "no" THEN "memory" ELSE where
  <2>1. <<>> \in Seq(RecordRows)
    BY EmptySeq
  <2>2. CASE where = "no" /\ rows # <<>>
    <3>1. Chained(files, <<>>, EndOf(files))
      BY <2>2, FilesFit
    <3>2. astray' = "memory"
      BY <1>2, <2>2
    <3> QED BY <1>2, <2>1, <2>2, <3>1, <3>2 DEF LogFits
  <2>3. CASE ~(where = "no" /\ rows # <<>>)
    <3>1. astray' = where
      BY <1>2, <2>3
    <3> QED BY <1>2, <2>1, <2>3, <3>1 DEF LogFits
  <2> QED BY <2>2, <2>3
<1> QED BY <1>1, <1>2 DEF Survive

\* Numbers in a sequence and behind it.
LEMMA JoinBelow ==
    ASSUME NEW a \in Seq(RecordRows), NEW b \in Seq(RecordRows), NEW n \in Nat,
           RowsBelow(a, n), RowsBelow(b, n)
    PROVE  RowsBelow(a \o b, n)
<1> DEFINE c == a \o b
           k == Len(a)
           m == Len(b)
<1>1. /\ Len(c) = k + m /\ k \in Nat /\ m \in Nat
      /\ \A i \in 1..k + m : c[i] = IF i <= k THEN a[i] ELSE b[i - k]
  BY ConcatProperties, RecordRowFacts
<1>2. /\ \A i \in 1..k : a[i].id <= n
      /\ \A i \in 1..m : b[i].id <= n
  BY DEF RowsBelow
<1> HIDE DEF c, k, m
<1>3. ASSUME NEW i \in 1..k + m PROVE c[i].id <= n
  <2>1. CASE i <= k
    <3>1. i \in 1..k
      BY <1>1, <2>1
    <3> QED BY <1>1, <1>2, <2>1, <3>1
  <2>2. CASE ~(i <= k)
    <3>1. i - k \in 1..m
      BY <1>1, <2>2
    <3> QED BY <1>1, <1>2, <2>2, <3>1
  <2> QED BY <2>1, <2>2
<1> QED BY <1>1, <1>3 DEF RowsBelow, c

\* Days grow, so a commit reaches the newest file only.
LEMMA CommitIs ==
    ASSUME NEW files \in Seq(Files), files # <<>>, DaysGrow(files), NEW rows \in Seq(RecordRows),
           NEW day, day = files[Len(files)].day
    PROVE  Into(files, day, rows) = Extended(files, rows)
<1> DEFINE n == Len(files)
           new == [files[n] EXCEPT !.rows = @ \o rows]
<1>1. /\ n \in Nat /\ DOMAIN files = 1..n /\ n \in 1..n
      /\ \A i \in 1..n : files[i].day \in Nat
  BY FilesFacts, StoreBounds DEF Days
<1> HIDE DEF n
<1>2. ASSUME NEW i \in 1..n, files[i].day = day PROVE i = n
  <2>1. SUFFICES ASSUME i # n PROVE FALSE
    OBVIOUS
  <2>2. i < n
    BY <1>1, <2>1
  <2>3. files[i].day < files[n].day
    BY <1>1, <2>2 DEF DaysGrow
  <2> QED BY <1>1, <1>2, <2>3 DEF n
<1>3. Extended(files, rows) = [files EXCEPT ![n] = new]
  BY DEF Extended, n
<1>4. [files EXCEPT ![n] = new] = [i \in DOMAIN files |-> IF i = n THEN new ELSE files[i]]
  OBVIOUS
<1>5. ASSUME NEW i \in DOMAIN files
      PROVE  (IF files[i].day = day THEN [files[i] EXCEPT !.rows = @ \o rows] ELSE files[i])
             = IF i = n THEN new ELSE files[i]
  <2>1. CASE i = n
    BY <2>1 DEF n
  <2>2. CASE i # n
    BY <1>1, <1>2, <2>2
  <2> QED BY <2>1, <2>2
<1>6. Into(files, day, rows) = [i \in DOMAIN files |-> IF i = n THEN new ELSE files[i]]
  BY <1>5 DEF Into
<1> HIDE DEF new
<1> QED BY <1>3, <1>4, <1>6

\* What a log keeps of files when rows are written to the newest of them.
Reached(new, files, n) ==
    /\ new \in Seq(Files) /\ DaysGrow(new) /\ FilesBelow(new, n)
    /\ Len(files) <= Len(new)
    /\ files # <<>> => new # <<>> /\ new[1].day = files[1].day

LEMMA ExtendedReached ==
    ASSUME NEW files \in Seq(Files), files # <<>>, DaysGrow(files), NEW rows \in Seq(RecordRows),
           NEW n \in Nat, FilesBelow(files, n), RowsBelow(rows, n)
    PROVE  LET e == Extended(files, rows)
           IN /\ Reached(e, files, n) /\ Len(e) = Len(files) /\ e # <<>>
              /\ e[Len(files)].day = files[Len(files)].day /\ e[1].start = files[1].start
<1> DEFINE e == Extended(files, rows)
           k == Len(files)
           a == files[k].rows
<1>1. /\ e \in Seq(Files) /\ Len(e) = k /\ DOMAIN e = DOMAIN files
      /\ \A i \in 1..k : i # k => e[i] = files[i]
      /\ e[k].day = files[k].day /\ e[k].start = files[k].start /\ e[k].rows = a \o rows
  BY ExtendedIs
<1>2. k \in Nat /\ k \in 1..k /\ 1 \in 1..k /\ a \in Seq(RecordRows) /\ DOMAIN files = 1..k
  BY FilesFacts
<1>3. \A i \in 1..k : e[i].day = files[i].day /\ e[i].start = files[i].start
  BY <1>1
<1>4. e # <<>>
  <2> HIDE DEF e
  <2> QED BY <1>1, <1>2, EmptySeq
<1> HIDE DEF e
<1>5. DaysGrow(e)
  BY <1>1, <1>2, <1>3 DEF DaysGrow
<1>6. RowsBelow(a \o rows, n)
  <2>1. RowsBelow(a, n)
    BY <1>2 DEF FilesBelow
  <2> HIDE DEF a
  <2> QED BY <1>2, <2>1, JoinBelow
<1>7. FilesBelow(e, n)
  <2> SUFFICES ASSUME NEW i \in 1..k PROVE RowsBelow(e[i].rows, n)
    BY <1>1 DEF FilesBelow
  <2>1. CASE i = k
    BY <1>1, <1>6, <2>1
  <2>2. CASE i # k
    <3>1. RowsBelow(files[i].rows, n)
      BY DEF FilesBelow
    <3> QED BY <1>1, <2>2, <3>1
  <2> QED BY <2>1, <2>2
<1>8. e[1].day = files[1].day /\ e[1].start = files[1].start
  BY <1>2, <1>3
<1>9. Reached(e, files, n)
  <2>1. Len(files) <= Len(e)
    <3>1. Len(e) = k /\ k \in Nat
      BY <1>1, <1>2
    <3> HIDE DEF k
    <3>2. k <= Len(e)
      BY <3>1
    <3> QED BY <3>2 DEF k
  <2> QED BY <1>1, <1>4, <1>5, <1>7, <1>8, <2>1 DEF Reached
<1> QED BY <1>1, <1>4, <1>8, <1>9 DEF e

\* The pending rows in their file.
LEMMA CommittedIs ==
    ASSUME StoreInv
    PROVE  LET files == Committed(segs, pending)
           IN /\ Reached(files, segs, appended) /\ Len(files) = Len(segs)
              /\ files = <<>> <=> segs = <<>>
              /\ segs # <<>> => files[1].start = segs[1].start /\ files[Len(files)].day = Newest
              /\ Flat(files) = Flat(segs) \o pending
              /\ LogFits(files, <<>>, prevChain, astray)
<1> DEFINE files == Committed(segs, pending)
<1>1. /\ LogFits(segs, pending, prevChain, astray) /\ segs \in Seq(Files) /\ DaysGrow(segs)
      /\ pending \in Seq(RecordRows) /\ prevChain \in Seq(Records)
      /\ FilesBelow(segs, appended) /\ RowsBelow(pending, appended) /\ appended \in Nat
  BY DEF StoreInv, LogFits, Counted
<1>2. /\ Len(segs) \in Nat /\ DOMAIN segs = 1..Len(segs)
      /\ \A i \in 1..Len(segs) : segs[i] \in Files /\ segs[i].rows \in Seq(RecordRows)
  BY <1>1, FilesFacts
<1>0. <<>> \in Seq(RecordRows)
  BY EmptySeq
<1>3. CASE pending = <<>>
  <2>1. ASSUME NEW i \in DOMAIN segs
        PROVE  (IF segs[i].day = conn THEN [segs[i] EXCEPT !.rows = @ \o pending] ELSE segs[i])
               = segs[i]
    <3> DEFINE f == segs[i]
               r == f.rows
    <3>1. f \in Files /\ r \in Seq(RecordRows)
      BY <1>2
    <3> HIDE DEF r
    <3>2. r \o pending = r
      BY <1>3, <3>1, ConcatEmptySeq
    <3>3. [f EXCEPT !.rows = r] = f
      <4> HIDE DEF f
      <4> QED BY <3>1 DEF Files, r
    <3> QED BY <3>2, <3>3 DEF r
  <2>2. files = [i \in DOMAIN segs |-> segs[i]]
    BY <2>1 DEF Committed, Into
  <2>3. files = segs
    BY <1>1, <1>2, <2>2
  <2>4. Flat(segs) \o pending = Flat(segs)
    BY <1>1, <1>3, RowsInTyped, ConcatEmptySeq
  <2>5. Reached(segs, segs, appended)
    BY <1>1, <1>2 DEF Reached
  <2> HIDE DEF files
  <2> QED BY <1>1, <1>3, <2>3, <2>4, <2>5 DEF Newest, files
<1>4. CASE pending # <<>>
  <2>1. conn = Newest /\ segs # <<>>
    BY <1>4 DEF StoreInv, WritingNewest
  <2>2. files = Extended(segs, pending)
    <3>1. Into(segs, conn, pending) = Extended(segs, pending)
      BY <1>1, <2>1, CommitIs DEF Newest
    <3> QED BY <3>1 DEF Committed
  <2> HIDE DEF files
  <2>3. /\ Reached(files, segs, appended) /\ Len(files) = Len(segs) /\ files # <<>>
        /\ files[Len(segs)].day = segs[Len(segs)].day /\ files[1].start = segs[1].start
    BY <1>1, <2>1, <2>2, ExtendedReached
  <2>4. Flat(files) = Flat(segs) \o pending
    BY <1>1, <2>1, <2>2, FlatExtended
  <2>5. LogFits(files, <<>>, prevChain, astray)
    <3>1. astray # "memory"
      BY <1>1, <1>4 DEF LogFits
    <3>2. astray = "no" => Chained(files, <<>>, prevChain)
      <4> SUFFICES ASSUME astray = "no" PROVE Chained(files, <<>>, prevChain)
        OBVIOUS
      <4>1. Chained(segs, pending, prevChain)
        BY <1>1 DEF LogFits
      <4> QED BY <2>1, <2>2, <4>1, CommitKeeps
    <3> QED BY <1>0, <1>1, <2>3, <3>1, <3>2 DEF LogFits, Reached
  <2> QED BY <2>1, <2>3, <2>4, <2>5 DEF Newest, files
<1> QED BY <1>3, <1>4

\* A file more, of a later day.
LEMMA AppendReached ==
    ASSUME NEW files \in Seq(Files), DaysGrow(files), NEW n \in Nat, FilesBelow(files, n),
           NEW day \in Days, \A i \in 1..Len(files) : files[i].day < day,
           NEW start \in Seq(Records) \cup {NoChain}
    PROVE  LET new == Append(files, DayFile(day, start))
           IN /\ Reached(new, files, n) /\ new # <<>> /\ new[Len(new)].day = day
              /\ Flat(new) = Flat(files)
              /\ new[1].start = IF files = <<>> THEN start ELSE files[1].start
<1> DEFINE file == DayFile(day, start)
           new == Append(files, file)
           k == Len(files)
<1>1. /\ k \in Nat /\ DOMAIN files = 1..k /\ (files # <<>> => 1 \in 1..k)
      /\ (files = <<>> => k = 0)
  BY FilesFacts, EmptySeq
<1>2. file \in Files /\ file.day = day /\ file.start = start /\ file.rows = <<>>
  BY NothingContinues DEF DayFile, Files
<1> HIDE DEF file
<1>3. /\ new \in Seq(Files) /\ new # <<>> /\ Len(new) = k + 1 /\ new[k + 1] = file
      /\ \A i \in 1..k : new[i] = files[i]
  BY <1>2, AppendProperties
<1>4. Flat(new) = Flat(files)
  <2>1. Flat(new) = Flat(files) \o <<>> /\ Flat(files) \in Seq(RecordRows)
    BY <1>2, FlatAppend, RowsInTyped
  <2> QED BY <2>1, ConcatEmptySeq
<1> HIDE DEF new
<1>5. DOMAIN new = 1..k + 1
  BY <1>3, LenProperties
<1>6. DaysGrow(new)
  <2> SUFFICES ASSUME NEW i \in 1..k + 1, NEW j \in 1..k + 1, i < j
               PROVE  new[i].day < new[j].day
    BY <1>5 DEF DaysGrow
  <2>0. k \in Nat
    BY <1>1
  <2> DEFINE m == k
  <2>1. m \in Nat /\ m = k
    BY <2>0
  <2> HIDE DEF m
  <2>2. CASE j = m + 1
    <3>1. i \in 1..m
      BY <2>1, <2>2
    <3>2. files[i].day < day
      BY <2>1, <3>1
    <3>3. new[i] = files[i] /\ new[j] = file
      BY <1>3, <2>1, <2>2, <3>1
    <3> QED BY <1>2, <3>2, <3>3
  <2>3. CASE j # m + 1
    <3>1. i \in 1..m /\ j \in 1..m
      BY <2>1, <2>3
    <3>2. files[i].day < files[j].day
      BY <1>1, <2>1, <3>1 DEF DaysGrow
    <3>3. new[i] = files[i] /\ new[j] = files[j]
      BY <1>3, <2>1, <3>1
    <3> QED BY <3>2, <3>3
  <2> QED BY <2>2, <2>3
<1>7. FilesBelow(new, n)
  <2> SUFFICES ASSUME NEW i \in 1..k + 1 PROVE RowsBelow(new[i].rows, n)
    BY <1>3 DEF FilesBelow
  <2>1. CASE i = k + 1
    <3>1. Len(<<>>) = 0
      OBVIOUS
    <3>2. RowsBelow(<<>>, n)
      BY <3>1 DEF RowsBelow
    <3> QED BY <1>2, <1>3, <2>1, <3>2
  <2>2. CASE i # k + 1
    <3>1. i \in 1..k
      BY <1>1, <2>2
    <3>2. RowsBelow(files[i].rows, n)
      BY <3>1 DEF FilesBelow
    <3> QED BY <1>3, <3>1, <3>2
  <2> QED BY <2>1, <2>2
<1>8. /\ files # <<>> => new[1] = files[1]
      /\ files = <<>> => new[1] = file
  <2>1. files # <<>> => new[1] = files[1]
    BY <1>1, <1>3
  <2>2. ASSUME files = <<>> PROVE new[1] = file
    <3>1. k + 1 = 1
      BY <1>1, <2>2
    <3>2. new[k + 1] = file
      BY <1>3
    <3> QED BY <3>1, <3>2
  <2> QED BY <2>1, <2>2
<1>9. k <= k + 1
  BY <1>1
<1>10. Reached(new, files, n)
  BY <1>3, <1>6, <1>7, <1>8, <1>9 DEF Reached
<1> QED BY <1>2, <1>3, <1>4, <1>8, <1>10 DEF new, file

\* The file of a day that is not before the newest: it was there, or it was left
\* without its start and is told it now, or it is made.
LEMMA OpenedIs ==
    ASSUME NEW files \in Seq(Files), DaysGrow(files), NEW n \in Nat, FilesBelow(files, n),
           NEW day \in Days, files # <<>> => files[Len(files)].day <= day,
           prevChain \in Seq(Records)
    PROVE  LET new == Opened(files, day)
           IN /\ Reached(new, files, n) /\ new # <<>> /\ new[Len(new)].day = day
              /\ Flat(new) = Flat(files)
              /\ Chained(files, <<>>, prevChain) =>
                    /\ Chained(new, <<>>, prevChain)
                    /\ new[1].start = IF files = <<>> THEN Genesis ELSE files[1].start
<1> DEFINE k == Len(files)
           new == Opened(files, day)
<1>1. /\ k \in Nat /\ DOMAIN files = 1..k /\ (files # <<>> => k \in 1..k /\ 1 \in 1..k)
      /\ (files = <<>> => k = 0)
      /\ \A i \in 1..k : files[i] \in Files /\ files[i].day \in Days
  BY FilesFacts, EmptySeq
<1>2. Days \subseteq Nat
  BY StoreBounds DEF Days
<1> HIDE DEF k
<1>3. \A i \in 1..k : files[i].day <= day /\ (i # k => files[i].day < day)
  <2> SUFFICES ASSUME NEW i \in 1..k
               PROVE  files[i].day <= day /\ (i # k => files[i].day < day)
    OBVIOUS
  <2>1. files # <<>>
    BY <1>1
  <2>2. k \in 1..k /\ files[k].day <= day
    BY <1>1, <2>1 DEF k
  <2>3. i # k => i < k
    BY <1>1
  <2>4. i # k => files[i].day < files[k].day
    BY <1>1, <2>2, <2>3 DEF DaysGrow
  <2>5. files[i].day \in Nat /\ files[k].day \in Nat /\ day \in Nat
    BY <1>1, <1>2, <2>2
  <2>6. i = k => files[i].day = files[k].day
    OBVIOUS
  <2> QED BY <2>2, <2>4, <2>5, <2>6
<1>4. ASSUME HasFile(files, day)
      PROVE  files # <<>> /\ files[k].day = day /\ \A i \in 1..k : files[i].day = day => i = k
  <2>1. PICK i \in 1..k : files[i].day = day
    BY <1>1, <1>4 DEF HasFile
  <2>2. \A j \in 1..k : files[j].day = day => j = k
    <3> SUFFICES ASSUME NEW j \in 1..k, files[j].day = day, j # k PROVE FALSE
      OBVIOUS
    <3> QED BY <1>1, <1>2, <1>3
  <2>3. files # <<>>
    BY <1>1, <2>1
  <2> QED BY <2>1, <2>2, <2>3
<1>5. CASE HasFile(files, day) /\ files[k].start # NoChain
  <2>1. \A i \in DOMAIN files : ~(files[i].day = day /\ files[i].start = NoChain)
    BY <1>1, <1>4, <1>5
  <2>2. new = [i \in DOMAIN files |-> files[i]]
    BY <1>5, <2>1 DEF Opened
  <2>3. new = files
    BY <1>1, <2>2
  <2>4. Reached(files, files, n)
    BY <1>1 DEF Reached, k
  <2> HIDE DEF new
  <2> QED BY <1>4, <1>5, <2>3, <2>4 DEF new, k
<1>6. CASE HasFile(files, day) /\ files[k].start = NoChain
  <2> DEFINE file == [files[k] EXCEPT !.start = prevChain]
  <2>0. k \in 1..k /\ files[k].day = day /\ files # <<>>
    BY <1>1, <1>4, <1>6
  <2>1. file \in Files /\ file.day = files[k].day /\ file.rows = files[k].rows
    BY <1>1, <2>0 DEF Files
  <2>2. ASSUME NEW i \in DOMAIN files
        PROVE  (IF files[i].day = day /\ files[i].start = NoChain
                THEN [files[i] EXCEPT !.start = prevChain] ELSE files[i])
               = IF i = k THEN file ELSE files[i]
    <3>1. CASE i = k
      BY <1>6, <2>0, <3>1
    <3>2. CASE i # k
      BY <1>1, <1>4, <1>6, <3>2
    <3> QED BY <3>1, <3>2
  <2>3. new = [i \in DOMAIN files |-> IF i = k THEN file ELSE files[i]]
    BY <1>6, <2>2 DEF Opened
  <2> HIDE DEF file
  <2>4. new = [files EXCEPT ![k] = file]
    BY <2>3
  <2> HIDE DEF new
  <2>5. /\ new \in Seq(Files) /\ Len(new) = k
        /\ \A j \in 1..k : new[j] = IF j = k THEN file ELSE files[j]
    BY <2>0, <2>1, <2>4, ExceptSeq DEF k
  <2>6. \A j \in 1..k : new[j].day = files[j].day /\ new[j].rows = files[j].rows
    BY <2>1, <2>5
  <2>7. DOMAIN new = 1..k /\ new # <<>>
    BY <1>1, <2>0, <2>5, LenProperties, EmptySeq
  <2>8. DaysGrow(new)
    BY <1>1, <2>6, <2>7 DEF DaysGrow
  <2>9. FilesBelow(new, n)
    BY <2>5, <2>6 DEF FilesBelow, k
  <2>10. Flat(new) = Flat(files)
    <3>1. RowsIn(new) = RowsIn(files)
      BY <1>1, <2>6, <2>7 DEF RowsIn
    <3> QED BY <3>1 DEF Flat
  <2>11. new[1].day = files[1].day /\ new[k].day = day
    BY <1>1, <2>0, <2>6
  <2>12. Reached(new, files, n)
    <3>1. Len(files) <= Len(new)
      <4>1. Len(new) = k /\ k \in Nat
        BY <1>1, <2>5
      <4>2. k <= Len(new)
        BY <4>1
      <4> QED BY <4>2 DEF k
    <3> QED BY <2>5, <2>7, <2>8, <2>9, <2>11, <3>1 DEF Reached
  <2>13. ~Chained(files, <<>>, prevChain)
    BY <1>1, <1>6, <2>0, NoChainIs DEF Chained, Started
  <2> QED BY <2>5, <2>7, <2>10, <2>11, <2>12, <2>13 DEF new
<1>7. CASE ~HasFile(files, day)
  <2>1. new = Append(files, DayFile(day, prevChain))
    BY <1>7 DEF Opened
  <2>2. \A i \in 1..Len(files) : files[i].day < day
    <3>1. \A i \in 1..k : files[i].day < day
      <4> SUFFICES ASSUME NEW i \in 1..k PROVE files[i].day < day
        OBVIOUS
      <4>1. files[i].day <= day /\ files[i].day # day /\ files[i].day \in Nat /\ day \in Nat
        BY <1>1, <1>2, <1>3, <1>7 DEF HasFile
      <4> QED BY <4>1
    <3> QED BY <3>1 DEF k
  <2> HIDE DEF new
  <2>3. /\ Reached(new, files, n) /\ new # <<>> /\ new[Len(new)].day = day
        /\ Flat(new) = Flat(files)
        /\ new[1].start = IF files = <<>> THEN prevChain ELSE files[1].start
    BY <2>1, <2>2, AppendReached
  <2>4. Chained(files, <<>>, prevChain) => Chained(new, <<>>, prevChain)
    BY <2>1, <2>2, OpenKeeps
  <2>5. Chained(files, <<>>, prevChain) /\ files = <<>> => prevChain = Genesis
    BY DEF Chained
  <2> QED BY <2>3, <2>4, <2>5 DEF new
<1> QED BY <1>5, <1>6, <1>7

LEMMA ReachedAgain ==
    ASSUME NEW a \in Seq(Files), NEW b, NEW c, NEW n \in Nat, Reached(b, a, n), Reached(c, b, n)
    PROVE  Reached(c, a, n)
<1>1. Len(a) \in Nat /\ Len(b) \in Nat /\ Len(c) \in Nat
  BY LenProperties DEF Reached
<1> QED BY <1>1 DEF Reached

-------------------------------------------------------------------------------
\* What append writes to: the file of the day, and what its transaction holds.
WritesTo(day, files, rows) ==
    /\ Reached(files, segs, appended) /\ files # <<>> /\ files[Len(files)].day = day
    /\ rows \in Seq(RecordRows) /\ RowsBelow(rows, appended)
    /\ DueFor(day) \in Nat /\ DueFor(day) <= due /\ Len(rows) <= DueFor(day)
    /\ Flat(files) \o rows = Flat(segs) \o pending
    /\ \/ files = segs /\ rows = pending
       \/ Flat(files) = Flat(segs) \o pending /\ rows = <<>>
    /\ GoesOn \in {"no", "files"} /\ LogFits(files, rows, prevChain, GoesOn)
    /\ GoesOn # "files" =>
          /\ astray # "files"
          /\ files[1].start = IF segs = <<>> THEN Genesis ELSE segs[1].start

LEMMA WriteReady ==
    ASSUME StoreInv, NEW day \in Days, latestDay <= day
    PROVE  WritesTo(day, FilesFor(day), RowsFor(day))
<1>1. /\ LogFits(segs, pending, prevChain, astray) /\ WritingNewest
      /\ segs \in Seq(Files) /\ pending \in Seq(RecordRows) /\ prevChain \in Seq(Records)
      /\ DaysGrow(segs) /\ FilesBelow(segs, appended) /\ RowsBelow(pending, appended)
      /\ appended \in Nat /\ due \in Nat /\ Len(pending) <= due
      /\ astray \in {"no", "memory", "files"} /\ latestDay \in 0..LastDay /\ conn \in 0..LastDay
  BY DEF StoreInv, LogFits, Counted, Typed
<1>2. Days \subseteq Nat /\ LastDay \in Nat /\ day # 0
  BY StoreBounds DEF Days
<1>3. segs # <<>> => Newest \in Days /\ Newest <= latestDay
  BY <1>1, FilesFacts DEF WritingNewest, Newest
<1>4. GoesOn \in {"no", "files"} /\ (GoesOn # "files" => astray = "no" /\ GoesOn = "no")
  BY <1>1 DEF GoesOn
<1>5. CASE conn # day
  <2> DEFINE old == Committed(segs, pending)
             new == Opened(old, day)
  <2>1. /\ Reached(old, segs, appended) /\ Len(old) = Len(segs)
        /\ old = <<>> <=> segs = <<>>
        /\ segs # <<>> => old[1].start = segs[1].start /\ old[Len(old)].day = Newest
        /\ Flat(old) = Flat(segs) \o pending
        /\ LogFits(old, <<>>, prevChain, astray)
    BY CommittedIs
  <2> HIDE DEF old
  <2>2. /\ old \in Seq(Files) /\ DaysGrow(old) /\ FilesBelow(old, appended)
        /\ astray = "no" => Chained(old, <<>>, prevChain)
    BY <2>1 DEF Reached, LogFits
  <2>3. old # <<>> => old[Len(old)].day <= day
    <3> SUFFICES ASSUME old # <<>> PROVE old[Len(old)].day <= day
      OBVIOUS
    <3>1. old[Len(old)].day = Newest /\ Newest <= latestDay /\ Newest \in Nat
      BY <1>2, <1>3, <2>1
    <3>2. day \in Nat /\ latestDay \in Nat
      BY <1>1, <1>2
    <3> QED BY <3>1, <3>2
  <2>4. /\ Reached(new, old, appended) /\ new # <<>> /\ new[Len(new)].day = day
        /\ Flat(new) = Flat(old)
        /\ Chained(old, <<>>, prevChain) =>
              /\ Chained(new, <<>>, prevChain)
              /\ new[1].start = IF old = <<>> THEN Genesis ELSE old[1].start
    BY <1>1, <2>2, <2>3, OpenedIs
  <2> HIDE DEF new
  <2>5. Reached(new, segs, appended)
    BY <1>1, <2>1, <2>4, ReachedAgain
  <2>6. new \in Seq(Files) /\ DaysGrow(new)
    BY <2>4 DEF Reached
  <2>7. Flat(new) \o <<>> = Flat(new)
    BY <2>6, RowsInTyped, ConcatEmptySeq
  <2>8. <<>> \in Seq(RecordRows) /\ Len(<<>>) = 0 /\ RowsBelow(<<>>, appended)
    BY EmptySeq DEF RowsBelow
  <2>9. LogFits(new, <<>>, prevChain, GoesOn)
    BY <1>1, <1>4, <2>2, <2>4, <2>6, <2>8 DEF LogFits
  <2>10. GoesOn # "files" => new[1].start = IF segs = <<>> THEN Genesis ELSE segs[1].start
    BY <1>4, <2>1, <2>2, <2>4
  <2>11. FilesFor(day) = new /\ RowsFor(day) = <<>> /\ DueFor(day) = 0
    BY <1>5 DEF FilesFor, RowsFor, DueFor, new, old
  <2>12. GoesOn # "files" => astray # "files"
    BY <1>4
  <2>13. 0 \in Nat /\ 0 <= due /\ 0 <= 0
    BY <1>1
  <2> QED BY <1>4, <2>1, <2>4, <2>5, <2>7, <2>8, <2>9, <2>10, <2>11, <2>12, <2>13 DEF WritesTo
<1>6. CASE conn = day
  <2>1. segs # <<>> /\ conn <= Newest
    BY <1>1, <1>2, <1>6 DEF WritingNewest
  <2>2. Newest = day
    <3>1. Newest \in Nat /\ day \in Nat
      BY <1>2, <1>3, <2>1
    <3>3. latestDay \in Nat
      BY <1>1, <1>2
    <3>2. Newest <= latestDay /\ day <= Newest /\ latestDay <= day
      BY <1>3, <1>6, <2>1
    <3> QED BY <3>1, <3>2, <3>3
  <2>3. FilesFor(day) = segs /\ RowsFor(day) = pending /\ DueFor(day) = due
    BY <1>6 DEF FilesFor, RowsFor, DueFor
  <2>4. Reached(segs, segs, appended)
    <3>1. Len(segs) \in Nat /\ Len(segs) <= Len(segs)
      BY <1>1, LenProperties
    <3> QED BY <1>1, <3>1 DEF Reached
  <2>5. LogFits(segs, pending, prevChain, GoesOn)
    BY <1>1, <1>4 DEF LogFits
  <2>6. due <= due
    BY <1>1
  <2>7. GoesOn # "files" => astray # "files"
    BY <1>4
  <2> QED BY <1>1, <1>4, <2>1, <2>2, <2>3, <2>4, <2>5, <2>6, <2>7 DEF WritesTo, Newest
<1> QED BY <1>5, <1>6

LEMMA BelowMore ==
    ASSUME NEW n \in Nat
    PROVE  /\ \A rows \in Seq(RecordRows) : RowsBelow(rows, n) => RowsBelow(rows, n + 1)
           /\ \A files \in Seq(Files) : FilesBelow(files, n) => FilesBelow(files, n + 1)
<1>1. ASSUME NEW rows \in Seq(RecordRows), RowsBelow(rows, n) PROVE RowsBelow(rows, n + 1)
  <2> SUFFICES ASSUME NEW i \in 1..Len(rows) PROVE rows[i].id <= n + 1
    BY DEF RowsBelow
  <2>1. rows[i].id \in Nat
    BY RecordRowFacts
  <2>2. rows[i].id <= n
    BY <1>1 DEF RowsBelow
  <2> QED BY <2>1, <2>2
<1>2. ASSUME NEW files \in Seq(Files), FilesBelow(files, n) PROVE FilesBelow(files, n + 1)
  <2> SUFFICES ASSUME NEW i \in 1..Len(files) PROVE RowsBelow(files[i].rows, n + 1)
    BY DEF FilesBelow
  <2>1. files[i].rows \in Seq(RecordRows)
    BY FilesFacts
  <2>2. RowsBelow(files[i].rows, n)
    BY <1>2 DEF FilesBelow
  <2> QED BY <1>1, <2>1, <2>2
<1> QED BY <1>1, <1>2

\* While no append went on elsewhere, the oldest file stays as it starts.
KeepsStart ==
    astray' # "files" =>
        /\ astray # "files"
        /\ segs = <<>> => segs' = <<>> \/ segs'[1].start = Genesis
        /\ segs # <<>> => segs' # <<>> /\ segs'[1].start = segs[1].start

LEMMA Grown ==
    ASSUME StoreInv, KeepsStart, UNCHANGED <<manifest, torn, removing>>, removing = 0
    PROVE  StartsOnRecord' /\ RemovalFits' /\ StartsAtGenesis'
<1>0. Genesis # NoChain
  BY NoChainIs, EmptySeq DEF Genesis
<1>1. segs = <<>> => manifest = <<>>
  BY DEF StoreInv, Typed
<1>2. StartsOnRecord'
  <2>1. SUFFICES ASSUME astray' # "files", ~torn, NoChain \notin ToSet(manifest)
                 PROVE  FirstContinues'
    BY DEF StartsOnRecord, ToSet
  <2>2. FirstContinues
    BY <2>1 DEF StoreInv, StartsOnRecord, KeepsStart
  <2>3. CASE segs = <<>>
    BY <1>0, <1>1, <2>1, <2>3 DEF FirstContinues, KeepsStart, StartOf
  <2>4. CASE segs # <<>>
    <3>1. StartOf(segs'[1]) = StartOf(segs[1])
      BY <2>1, <2>4 DEF KeepsStart, StartOf
    <3> QED BY <2>2, <2>4, <3>1 DEF FirstContinues
  <2> QED BY <2>3, <2>4
<1>3. RemovalFits'
  BY DEF RemovalFits
<1>4. StartsAtGenesis'
  BY DEF KeepsStart, StoreInv, StartsAtGenesis
<1> QED BY <1>2, <1>3, <1>4

\* An append, whatever became of its calls, with the process now in the file of
\* the day.
LEMMA Lands ==
    ASSUME StoreInv, removing = 0, NEW day \in Days, latestDay <= day,
           segs' \in Seq(Files), FilesBelow(segs', appended + 1),
           segs' # <<>>, segs'[Len(segs')].day = day,
           conn' = day, latestDay' = day, LogFits(segs', pending', prevChain', astray'),
           astray' \in {"no", "memory", "files"}, KeepsStart,
           nextId' = Len(prevChain') + 1, Len(prevChain') <= appended + 1,
           appended < MaxRecords, appended' = appended + 1,
           RowsBelow(pending', appended + 1),
           due' \in Nat, due' <= appended + 1, Len(pending') <= due',
           diskFails' \in Nat, due' >= CommitEvery => diskFails' > 0,
           UNCHANGED <<manifest, torn, removing, today>>
    PROVE  StoreInv'
<1>1. StartsOnRecord' /\ RemovalFits' /\ StartsAtGenesis'
  BY Grown
<1>2. Counted'
  <2>1. appended' \in 0..MaxRecords
    BY StoreBounds DEF StoreInv, Counted
  <2> QED BY <2>1 DEF Counted
<1>3. Typed'
  <2>1. day \in 0..LastDay /\ 0 \in 0..LastDay
    BY StoreBounds DEF Days
  <2> QED BY <2>1 DEF StoreInv, Typed, Days
<1>4. WritingNewest'
  <2>1. day # 0 /\ day <= day
    BY StoreBounds DEF Days
  <2> QED BY <2>1 DEF WritingNewest, Newest
<1> QED BY <1>1, <1>2, <1>3, <1>4 DEF StoreInv

\* A row more behind what append writes to.
RowAdded(day, files, rows, rec) ==
    LET all == rows \o <<NewRow(rec)>>
        next == Append(prevChain, rec)
    IN  /\ NewRow(rec) \in RecordRows /\ NewRow(rec).chain = next
        /\ next \in Seq(Records) /\ Len(next) = Len(prevChain) + 1
        /\ all \in Seq(RecordRows) /\ RowsBelow(all, appended + 1)
        /\ Len(all) <= DueFor(day) + 1
        /\ LogFits(files, all, next, GoesOn)
        /\ Flat(files) \o all = (Flat(segs) \o pending) \o <<NewRow(rec)>>

LEMMA RowAddedIs ==
    ASSUME StoreInv, NEW day \in Days, NEW files, NEW rows, WritesTo(day, files, rows),
           NEW rec \in Records
    PROVE  RowAdded(day, files, rows, rec)
<1> DEFINE next == Append(prevChain, rec)
           row == NewRow(rec)
           one == <<row>>
           all == rows \o one
<1>1. /\ files \in Seq(Files) /\ files # <<>> /\ rows \in Seq(RecordRows)
      /\ RowsBelow(rows, appended) /\ DueFor(day) \in Nat /\ Len(rows) <= DueFor(day)
      /\ Flat(files) \o rows = Flat(segs) \o pending
      /\ GoesOn \in {"no", "files"} /\ LogFits(files, rows, prevChain, GoesOn)
  BY DEF WritesTo, Reached
<1>2. /\ nextId = Len(prevChain) + 1 /\ Len(prevChain) <= appended /\ appended \in Nat
      /\ prevChain \in Seq(Records) /\ Len(prevChain) \in Nat
  BY LenProperties DEF StoreInv, Counted, LogFits
<1>3. next \in Seq(Records) /\ Len(next) = Len(prevChain) + 1
  BY <1>2, AppendProperties
<1>4. row = RowAfter(prevChain, rec) /\ row.chain = next /\ row.id = Len(next) /\ row.rec = rec
  BY <1>2, <1>3 DEF NewRow, RowAfter, StoredRow
<1>5. row \in RecordRows
  <2> HIDE DEF next
  <2>1. row = StoredRow(Len(next), rec, next)
    BY <1>2, <1>3 DEF NewRow, next
  <2> QED BY <1>2, <1>3, <2>1 DEF StoredRow, RecordRows
<1> HIDE DEF row
<1>6. one \in Seq(RecordRows) /\ Len(one) = 1 /\ one[1] = row
  BY <1>5
<1> HIDE DEF one
<1>7. all \in Seq(RecordRows) /\ Len(all) = Len(rows) + 1 /\ Len(rows) \in Nat
  <2>1. rows \in Seq(RecordRows) /\ one \in Seq(RecordRows) /\ Len(one) = 1
    BY <1>1, <1>6
  <2>2. all \in Seq(RecordRows) /\ Len(all) = Len(rows) + Len(one)
    BY <2>1, ConcatProperties
  <2>3. Len(rows) \in Nat
    BY <2>1, LenProperties
  <2> HIDE DEF all
  <2> QED BY <2>1, <2>2, <2>3
<1>8. RowsBelow(all, appended + 1)
  <2>1. RowsBelow(rows, appended + 1)
    BY <1>1, <1>2, BelowMore
  <2>2. RowsBelow(one, appended + 1)
    <3>1. row.id <= appended + 1
      <4> HIDE DEF next
      <4> QED BY <1>2, <1>3, <1>4
    <3> QED BY <1>6, <3>1 DEF RowsBelow
  <2>3. appended + 1 \in Nat
    BY <1>2
  <2> QED BY <1>1, <1>6, <2>1, <2>2, <2>3, JoinBelow
<1>9. Len(all) <= DueFor(day) + 1
  <2> HIDE DEF all
  <2> QED BY <1>1, <1>7
<1>10. LogFits(files, all, next, GoesOn)
  <2>1. ASSUME GoesOn = "no" PROVE Chained(files, all, next)
    <3>1. Chained(files, rows, prevChain)
      BY <1>1, <2>1 DEF LogFits
    <3>2. RowGoes(files, rows, prevChain, rec)
      BY <1>1, <3>1, RecordRowKeeps
    <3>3. one = <<RowAfter(prevChain, rec)>>
      BY <1>4 DEF one
    <3> QED BY <3>2, <3>3 DEF RowGoes
  <2> HIDE DEF all, next
  <2> QED BY <1>1, <1>3, <1>7, <2>1 DEF LogFits
<1>11. Flat(files) \o all = (Flat(segs) \o pending) \o one
  <2> DEFINE f == Flat(files)
  <2>1. f \in Seq(RecordRows)
    BY <1>1, RowsInTyped
  <2> HIDE DEF f
  <2>2. (f \o rows) \o one = f \o (rows \o one)
    <3>1. rows \in Seq(RecordRows) /\ one \in Seq(RecordRows)
      BY <1>1, <1>6
    <3> QED BY <2>1, <3>1, Associative, SMTT(30)
  <2> QED BY <1>1, <2>2 DEF f
<1> QED BY <1>3, <1>4, <1>5, <1>7, <1>8, <1>9, <1>10, <1>11 DEF RowAdded, one, row

\* What one more record does to the log.
OneMore(row) ==
    /\ Flat(segs') \o pending' = (Flat(segs) \o pending) \o <<row>>
    /\ Flat(segs') \in {Flat(segs), Flat(segs) \o pending, (Flat(segs) \o pending) \o <<row>>}

LEMMA LaterDayIs == ASSUME StoreInv PROVE LaterDay(latestDay, today) \in Days
                                          /\ latestDay <= LaterDay(latestDay, today)
BY StoreBounds DEF LaterDay, StoreInv, Typed, Days

LEMMA AppendKeeps ==
    ASSUME StoreInv, AppendRow
    PROVE  StoreInv' /\ \E row \in RecordRows : OneMore(row)
<1> DEFINE day == LaterDay(latestDay, today)
           files == FilesFor(day)
           held == RowsFor(day)
<1>1. PICK rec \in Records, commits \in BOOLEAN :
        /\ DueFor(day) + 1 >= CommitEvery => commits
        /\ segs' = IF commits THEN Into(files, day, held \o <<NewRow(rec)>>) ELSE files
        /\ pending' = IF commits THEN <<>> ELSE held \o <<NewRow(rec)>>
        /\ due' = IF commits THEN 0 ELSE DueFor(day) + 1
        /\ conn' = day /\ latestDay' = day
        /\ nextId' = nextId + 1 /\ prevChain' = NewRow(rec).chain
        /\ astray' = GoesOn
  BY DEF AppendRow, Write, Numbered
<1>2. /\ removing = 0 /\ appended < MaxRecords /\ appended' = appended + 1
      /\ UNCHANGED <<manifest, removing, torn, today, restarts, diskFails>>
  BY DEF AppendRow, Working
<1>3. day \in Days /\ latestDay <= day
  BY LaterDayIs
<1> HIDE DEF day
<1>4. WritesTo(day, files, held)
  BY <1>3, WriteReady
<1> HIDE DEF files, held
<1> DEFINE row == NewRow(rec)
           all == held \o <<row>>
           next == Append(prevChain, rec)
<1>5. RowAdded(day, files, held, rec)
  BY <1>3, <1>4, RowAddedIs
<1>6. /\ row \in RecordRows /\ row.chain = next /\ next \in Seq(Records)
      /\ Len(next) = Len(prevChain) + 1
      /\ all \in Seq(RecordRows) /\ RowsBelow(all, appended + 1)
      /\ Len(all) <= DueFor(day) + 1
      /\ LogFits(files, all, next, GoesOn)
      /\ Flat(files) \o all = (Flat(segs) \o pending) \o <<row>>
  BY <1>5 DEF RowAdded
<1>7. /\ files \in Seq(Files) /\ DaysGrow(files) /\ FilesBelow(files, appended)
      /\ files # <<>> /\ files[Len(files)].day = day
      /\ DueFor(day) \in Nat /\ DueFor(day) <= due
      /\ GoesOn \in {"no", "files"}
      /\ GoesOn # "files" => /\ astray # "files"
                             /\ files[1].start = IF segs = <<>> THEN Genesis ELSE segs[1].start
      /\ held \in Seq(RecordRows)
      /\ \/ files = segs /\ held = pending
         \/ Flat(files) = Flat(segs) \o pending /\ held = <<>>
  BY <1>4 DEF WritesTo, Reached
<1>8. /\ nextId = Len(prevChain) + 1 /\ Len(prevChain) <= appended /\ appended \in Nat
      /\ Len(prevChain) \in Nat /\ due \in Nat /\ due <= appended /\ diskFails \in Nat
      /\ prevChain \in Seq(Records)
  BY LenProperties DEF StoreInv, Counted, LogFits
<1> HIDE DEF row, all, next
<1>9. /\ DueFor(day) + 1 >= CommitEvery => commits
      /\ segs' = IF commits THEN Into(files, day, all) ELSE files
      /\ pending' = IF commits THEN <<>> ELSE all
      /\ due' = IF commits THEN 0 ELSE DueFor(day) + 1
      /\ conn' = day /\ latestDay' = day
      /\ nextId' = nextId + 1 /\ prevChain' = next /\ astray' = GoesOn
  BY <1>1, <1>6 DEF row, all
<1>10. Into(files, day, all) = Extended(files, all)
  BY <1>6, <1>7, CommitIs
<1>11. FilesBelow(files, appended + 1)
  BY <1>7, <1>8, BelowMore
<1>12. /\ segs' \in Seq(Files) /\ FilesBelow(segs', appended + 1) /\ segs' # <<>>
       /\ segs'[Len(segs')].day = day /\ segs'[1].start = files[1].start
       /\ LogFits(segs', pending', prevChain', astray')
       /\ RowsBelow(pending', appended + 1)
       /\ due' \in Nat /\ due' <= appended + 1 /\ Len(pending') <= due'
       /\ due' >= CommitEvery => diskFails' > 0
       /\ OneMore(row)
  <2>0. CommitEvery \in Nat \ {0} /\ appended + 1 \in Nat
    BY <1>8, StoreBounds
  <2>1. CASE commits
    <3>1. segs' = Extended(files, all) /\ pending' = <<>> /\ due' = 0
      BY <1>9, <1>10, <2>1
    <3>2. /\ Reached(Extended(files, all), files, appended + 1) /\ Extended(files, all) # <<>>
          /\ Len(Extended(files, all)) = Len(files)
          /\ Extended(files, all)[Len(files)].day = files[Len(files)].day
          /\ Extended(files, all)[1].start = files[1].start
      BY <1>6, <1>7, <1>11, <2>0, ExtendedReached
    <3>3. Extended(files, all) \in Seq(Files) /\ DaysGrow(Extended(files, all))
          /\ FilesBelow(Extended(files, all), appended + 1)
      BY <3>2 DEF Reached
    <3>4. <<>> \in Seq(RecordRows) /\ Len(<<>>) = 0 /\ RowsBelow(<<>>, appended + 1)
      BY EmptySeq DEF RowsBelow
    <3>5. LogFits(Extended(files, all), <<>>, next, GoesOn)
      <4>1. ASSUME GoesOn = "no" PROVE Chained(Extended(files, all), <<>>, next)
        <5>1. Chained(files, all, next)
          BY <1>6, <4>1 DEF LogFits
        <5> QED BY <1>7, <5>1, CommitKeeps
      <4> QED BY <1>6, <1>7, <3>3, <3>4, <4>1 DEF LogFits
    <3>6. OneMore(row)
      <4>1. Flat(segs') = Flat(files) \o all
        BY <1>6, <1>7, <3>1, FlatExtended
      <4>2. segs' \in Seq(Files)
        BY <3>1, <3>3
      <4>3. Flat(segs') \in Seq(RecordRows)
        BY <4>2, RowsInTyped
      <4>4. Flat(segs') \o pending' = Flat(segs')
        BY <3>1, <4>3, ConcatEmptySeq
      <4> QED BY <1>6, <4>1, <4>4 DEF OneMore
    <3>7. 0 \in Nat /\ 0 <= appended + 1 /\ 0 <= 0 /\ ~(0 >= CommitEvery)
      BY <2>0
    <3> QED BY <1>7, <1>9, <3>1, <3>2, <3>3, <3>4, <3>5, <3>6, <3>7
  <2>2. CASE ~commits
    <3>1. segs' = files /\ pending' = all /\ due' = DueFor(day) + 1
      BY <1>9, <2>2
    <3>2. ~(DueFor(day) + 1 >= CommitEvery)
      BY <1>9, <2>2
    <3>3. /\ due' \in Nat /\ due' <= appended + 1 /\ Len(pending') <= due'
          /\ ~(due' >= CommitEvery)
      BY <1>6, <1>7, <1>8, <3>1, <3>2
    <3>4. OneMore(row)
      BY <1>6, <1>7, <3>1 DEF OneMore
    <3> QED BY <1>6, <1>7, <1>9, <1>11, <3>1, <3>3, <3>4
  <2> QED BY <2>1, <2>2
<1>13. KeepsStart
  BY <1>7, <1>9, <1>12 DEF KeepsStart
<1>14. nextId' = Len(prevChain') + 1 /\ Len(prevChain') <= appended + 1
  BY <1>6, <1>8, <1>9
<1>15. diskFails' \in Nat
  BY <1>2, <1>8
<1>16. astray' \in {"no", "memory", "files"}
  BY <1>7, <1>9
<1>17. StoreInv'
  BY <1>2, <1>3, <1>9, <1>12, <1>13, <1>14, <1>15, <1>16, Lands
<1> QED BY <1>6, <1>12, <1>17

\* What a step that only makes records durable does to the log.
Synced == Flat(segs') = Flat(segs) \o pending /\ pending' = <<>>

\* What a failed call does to it: nothing, the open transaction lost, the rows of
\* the day before made durable, or the new row kept in spite of the failure.
Failed ==
    \/ segs' = segs /\ pending' \in {pending, <<>>}
    \/ Synced
    \/ \E row \in RecordRows : OneMore(row)

\* What a failed append leaves alone.
FailLeaves ==
    /\ removing = 0 /\ appended < MaxRecords /\ appended' = appended + 1
    /\ diskFails' = diskFails + 1
    /\ UNCHANGED <<manifest, removing, torn, today, restarts>>

LEMMA InvFacts ==
    ASSUME StoreInv
    PROVE  /\ LogFits(segs, pending, prevChain, astray)
           /\ segs \in Seq(Files) /\ DaysGrow(segs) /\ FilesBelow(segs, appended)
           /\ pending \in Seq(RecordRows) /\ RowsBelow(pending, appended)
           /\ prevChain \in Seq(Records) /\ Len(prevChain) \in Nat
           /\ nextId = Len(prevChain) + 1 /\ Len(prevChain) <= appended
           /\ appended \in Nat /\ due \in Nat /\ due <= appended /\ Len(pending) <= due
           /\ Len(pending) \in Nat /\ diskFails \in Nat
           /\ astray \in {"no", "memory", "files"}
           /\ <<>> \in Seq(RecordRows) /\ Len(<<>>) = 0
           /\ \A n \in Nat : RowsBelow(<<>>, n)
           /\ Len(segs) \in Nat /\ DOMAIN segs = 1..Len(segs)
           /\ \A i \in 1..Len(segs) : segs[i] \in Files /\ segs[i].day \in Days
           /\ segs # <<>> => Len(segs) \in 1..Len(segs) /\ 1 \in 1..Len(segs) /\ Newest \in Days
<1>1. segs \in Seq(Files) /\ pending \in Seq(RecordRows) /\ prevChain \in Seq(Records)
      /\ DaysGrow(segs)
  BY DEF StoreInv, LogFits
<1>2. Len(prevChain) \in Nat /\ Len(pending) \in Nat
  BY <1>1, LenProperties
<1>3. <<>> \in Seq(RecordRows) /\ Len(<<>>) = 0 /\ \A n \in Nat : RowsBelow(<<>>, n)
  BY EmptySeq DEF RowsBelow
<1>4. /\ Len(segs) \in Nat /\ DOMAIN segs = 1..Len(segs)
      /\ \A i \in 1..Len(segs) : segs[i] \in Files /\ segs[i].day \in Days
      /\ segs # <<>> => Len(segs) \in 1..Len(segs) /\ 1 \in 1..Len(segs)
  BY <1>1, FilesFacts
<1>5. segs # <<>> => Newest \in Days
  BY <1>4 DEF Newest
<1> QED BY <1>1, <1>2, <1>3, <1>4, <1>5 DEF StoreInv, Counted, Typed

\* Nothing was numbered and the process stays in its file.
LEMMA StaysBehind ==
    ASSUME StoreInv, FailLeaves, segs' = segs, pending' \in {pending, <<>>},
           LogFits(segs', pending', prevChain, astray'),
           astray' \in {"no", "memory", "files"}, astray' # "files" => astray # "files",
           UNCHANGED <<conn, due, nextId, prevChain>>,
           latestDay' \in 0..LastDay, latestDay <= latestDay'
    PROVE  StoreInv'
<1>1. /\ removing = 0 /\ appended < MaxRecords /\ appended' = appended + 1
      /\ diskFails' = diskFails + 1 /\ UNCHANGED <<manifest, removing, torn, today>>
  BY DEF FailLeaves
<1>2. KeepsStart
  BY DEF KeepsStart
<1>3. StartsOnRecord' /\ RemovalFits' /\ StartsAtGenesis'
  BY <1>1, <1>2, Grown
<1>4. Counted'
  <2>1. /\ segs \in Seq(Files) /\ pending \in Seq(RecordRows)
        /\ FilesBelow(segs, appended) /\ RowsBelow(pending, appended)
        /\ Len(prevChain) \in Nat /\ nextId = Len(prevChain) + 1 /\ Len(prevChain) <= appended
        /\ appended \in Nat /\ due \in Nat /\ due <= appended /\ Len(pending) <= due
        /\ Len(pending) \in Nat /\ diskFails \in Nat
        /\ Len(<<>>) = 0 /\ <<>> \in Seq(RecordRows) /\ \A n \in Nat : RowsBelow(<<>>, n)
    BY InvFacts
  <2>2. appended' \in 0..MaxRecords
    BY <1>1, <2>1, StoreBounds
  <2>3. FilesBelow(segs, appended + 1) /\ RowsBelow(pending, appended + 1)
        /\ RowsBelow(<<>>, appended + 1)
    BY <2>1, BelowMore
  <2>4. RowsBelow(pending', appended')
    BY <1>1, <2>3
  <2>5. Len(pending') <= due
    BY <2>1
  <2>6. Len(prevChain) <= appended + 1 /\ due <= appended + 1
        /\ diskFails + 1 \in Nat /\ diskFails + 1 > 0
    <3> QED BY <2>1
  <2> QED BY <1>1, <2>1, <2>2, <2>3, <2>4, <2>5, <2>6 DEF Counted
<1>5. Typed'
  BY <1>1 DEF StoreInv, Typed
<1>6. WritingNewest'
  <2>1. segs # <<>> => Newest <= latestDay'
    <3>1. segs # <<>> => Newest \in Nat
      BY InvFacts, StoreBounds DEF Days
    <3>2. latestDay \in Nat /\ latestDay' \in Nat
      BY StoreBounds DEF StoreInv, Typed
    <3>3. segs # <<>> => Newest <= latestDay
      BY DEF StoreInv, WritingNewest
    <3> QED BY <3>1, <3>2, <3>3
  <2> QED BY <2>1 DEF StoreInv, WritingNewest, Newest
<1>7. LogFits(segs', pending', prevChain', astray')
  OBVIOUS
<1> QED BY <1>3, <1>4, <1>5, <1>6, <1>7 DEF StoreInv

LEMMA CloseFailsKeeps ==
    ASSUME StoreInv, FailLeaves, NEW day \in Days, latestDay <= day, CloseFails(day)
    PROVE  StoreInv' /\ Failed
<1>1. /\ Survive(pending, astray) /\ latestDay' = day
      /\ UNCHANGED <<segs, conn, due, nextId, prevChain>>
  BY DEF CloseFails
<1>2. LogFits(segs, pending, prevChain, astray) /\ astray \in {"no", "memory", "files"}
  BY InvFacts
<1>3. /\ LogFits(segs, pending', prevChain, astray') /\ pending' \in {pending, <<>>}
      /\ astray' \in {"no", "memory", "files"} /\ (astray' # "files" => astray # "files")
  BY <1>1, <1>2, SurviveFits
<1>4. LogFits(segs', pending', prevChain, astray')
  BY <1>1, <1>3
<1>5. latestDay' \in 0..LastDay /\ latestDay <= latestDay'
  BY <1>1, StoreBounds DEF Days
<1> QED BY <1>1, <1>3, <1>4, <1>5, StaysBehind DEF Failed

LEMMA OpenFailsKeeps ==
    ASSUME StoreInv, FailLeaves, NEW day \in Days, latestDay <= day, OpenFails(day)
    PROVE  StoreInv' /\ Synced
<1> DEFINE old == Committed(segs, pending)
           new == Append(old, DayFile(day, NoChain))
<1>1. /\ conn # day /\ pending' = <<>> /\ due' = 0 /\ latestDay' = day
      /\ UNCHANGED <<conn, nextId, prevChain>>
      /\ \/ segs' = old /\ astray' = astray
         \/ ~HasFile(segs, day) /\ segs' = new /\ astray' = "files"
  BY DEF OpenFails
<1>2. /\ removing = 0 /\ appended < MaxRecords /\ appended' = appended + 1
      /\ diskFails' = diskFails + 1 /\ UNCHANGED <<manifest, removing, torn, today>>
  BY DEF FailLeaves
<1>3. /\ Reached(old, segs, appended) /\ Len(old) = Len(segs)
      /\ old = <<>> <=> segs = <<>>
      /\ segs # <<>> => old[1].start = segs[1].start /\ old[Len(old)].day = Newest
      /\ Flat(old) = Flat(segs) \o pending
      /\ LogFits(old, <<>>, prevChain, astray)
  BY CommittedIs
<1> HIDE DEF old
<1>4. /\ old \in Seq(Files) /\ DaysGrow(old) /\ FilesBelow(old, appended)
  BY <1>3 DEF Reached
<1>5. /\ prevChain \in Seq(Records) /\ appended \in Nat
      /\ <<>> \in Seq(RecordRows) /\ Len(<<>>) = 0 /\ \A n \in Nat : RowsBelow(<<>>, n)
      /\ Len(segs) \in Nat /\ DOMAIN segs = 1..Len(segs)
      /\ \A i \in 1..Len(segs) : segs[i] \in Files /\ segs[i].day \in Days
      /\ segs # <<>> => Newest \in Days
  BY InvFacts
<1>6. latestDay \in 0..LastDay /\ LastDay \in Nat /\ day \in 0..LastDay /\ day \in Nat
      /\ conn \in 0..LastDay /\ (conn # 0 => segs # <<>> /\ conn <= Newest)
      /\ (segs # <<>> => Newest <= latestDay)
  BY StoreBounds DEF StoreInv, Typed, Days, WritingNewest
\* The newest file is not of a later day, and none is of this day when there is no file for it.
<1>7. segs # <<>> => /\ Newest \in Nat /\ Newest <= day
  <2> SUFFICES ASSUME segs # <<>> PROVE Newest \in Nat /\ Newest <= day
    OBVIOUS
  <2>1. Newest \in Nat
    BY <1>5, StoreBounds DEF Days
  <2> QED BY <1>6, <2>1
<1>8. ASSUME ~HasFile(segs, day) PROVE \A i \in 1..Len(old) : old[i].day < day
  <2> SUFFICES ASSUME NEW i \in 1..Len(old) PROVE old[i].day < day
    OBVIOUS
  <2>1. \A j \in 1..Len(segs) : old[j].day = segs[j].day
    <3>1. old = [j \in DOMAIN segs |-> IF segs[j].day = conn
                   THEN [segs[j] EXCEPT !.rows = @ \o pending] ELSE segs[j]]
      BY DEF old, Committed, Into
    <3> SUFFICES ASSUME NEW j \in 1..Len(segs) PROVE old[j].day = segs[j].day
      OBVIOUS
    <3>2. segs[j] \in Files
      BY <1>5
    <3> QED BY <1>5, <3>1, <3>2 DEF Files
  <2>2. i \in 1..Len(segs) /\ segs # <<>>
    BY <1>3, <1>5, EmptySeq
  <2>3. segs[i].day # day
    BY <1>5, <1>8, <2>2 DEF HasFile
  <2>4. segs[i].day <= Newest
    <3>1. CASE i = Len(segs)
      BY <1>7, <2>2, <3>1 DEF Newest
    <3>2. CASE i # Len(segs)
      <4>1. i < Len(segs) /\ Len(segs) \in 1..Len(segs)
        <5> DEFINE m == Len(segs)
        <5>1. m \in Nat /\ i \in 1..m /\ i # m
          BY <1>5, <2>2, <3>2
        <5> HIDE DEF m
        <5>2. i < m /\ m \in 1..m
          BY <5>1
        <5> QED BY <5>2 DEF m
      <4>2. DaysGrow(segs)
        BY InvFacts
      <4>3. segs[i].day < Newest
        BY <1>5, <2>2, <4>1, <4>2 DEF DaysGrow, Newest
      <4>4. segs[i].day \in Nat
        BY <1>5, <2>2, StoreBounds DEF Days
      <4> QED BY <1>7, <2>2, <4>3, <4>4
    <3> QED BY <3>1, <3>2
  <2>5. segs[i].day \in Nat
    BY <1>5, <2>2, StoreBounds DEF Days
  <2> QED BY <1>6, <1>7, <2>1, <2>2, <2>3, <2>4, <2>5
<1>9. /\ segs' \in Seq(Files) /\ DaysGrow(segs') /\ FilesBelow(segs', appended)
      /\ Flat(segs') = Flat(segs) \o pending
      /\ LogFits(segs', <<>>, prevChain, astray')
      /\ conn # 0 => segs' # <<>> /\ conn <= segs'[Len(segs')].day
      /\ segs' # <<>> => segs'[Len(segs')].day <= day
      /\ segs' = <<>> => segs = <<>>
      /\ astray' \in {"no", "memory", "files"} /\ KeepsStart
  <2>1. CASE segs' = old /\ astray' = astray
    <3>1. KeepsStart
      BY <1>3, <2>1 DEF KeepsStart
    <3>2. astray \in {"no", "memory", "files"}
      BY InvFacts
    <3>3. conn # 0 => segs' # <<>> /\ conn <= segs'[Len(segs')].day
      BY <1>3, <1>6, <2>1
    <3>4. segs' # <<>> => segs'[Len(segs')].day <= day
      BY <1>3, <1>7, <2>1
    <3> QED BY <1>3, <1>4, <2>1, <3>1, <3>2, <3>3, <3>4
  <2>2. CASE ~HasFile(segs, day) /\ segs' = new /\ astray' = "files"
    <3>1. NoChain \in Seq(Records) \cup {NoChain}
      OBVIOUS
    <3>2. \A i \in 1..Len(old) : old[i].day < day
      BY <1>8, <2>2
    <3>3. /\ Reached(new, old, appended) /\ new # <<>> /\ new[Len(new)].day = day
          /\ Flat(new) = Flat(old)
      BY <1>4, <1>5, <3>1, <3>2, AppendReached
    <3> HIDE DEF new
    <3>4. new \in Seq(Files) /\ DaysGrow(new) /\ FilesBelow(new, appended)
      BY <3>3 DEF Reached
    <3>5. LogFits(new, <<>>, prevChain, "files")
      BY <1>5, <3>4 DEF LogFits
    <3>6. conn # 0 => conn <= day
      BY <1>6, <1>7
    <3>7. KeepsStart
      BY <2>2 DEF KeepsStart
    <3>8. day <= day
      BY <1>6
    <3> QED BY <1>3, <2>2, <3>3, <3>4, <3>5, <3>6, <3>7, <3>8
  <2> QED BY <1>1, <2>1, <2>2
<1> HIDE DEF new
<1>10. StartsOnRecord' /\ RemovalFits' /\ StartsAtGenesis'
  BY <1>2, <1>9, Grown
<1>11. Counted'
  <2>1. /\ nextId = Len(prevChain) + 1 /\ Len(prevChain) <= appended /\ Len(prevChain) \in Nat
        /\ diskFails \in Nat
    BY InvFacts
  <2>2. appended' \in 0..MaxRecords
    BY <1>2, <1>5, StoreBounds
  <2>3. FilesBelow(segs', appended')
    <3> DEFINE f == segs'
    <3>1. f \in Seq(Files) /\ FilesBelow(f, appended)
      BY <1>9
    <3> HIDE DEF f
    <3>2. FilesBelow(f, appended + 1)
      BY <1>5, <3>1, BelowMore
    <3> QED BY <1>2, <3>2 DEF f
  <2>4. RowsBelow(<<>>, appended')
    BY <1>2, <1>5
  <2>5. Len(prevChain) <= appended + 1 /\ 0 <= appended + 1 /\ 0 \in Nat /\ 0 <= 0
        /\ diskFails + 1 \in Nat /\ diskFails + 1 > 0
    BY <1>5, <2>1
  <2> QED BY <1>1, <1>2, <1>5, <2>1, <2>2, <2>3, <2>4, <2>5 DEF Counted
<1>12. Typed'
  BY <1>1, <1>2, <1>6, <1>9 DEF StoreInv, Typed
<1>13. WritingNewest'
  BY <1>1, <1>9 DEF WritingNewest, Newest
<1>14. StoreInv'
  BY <1>1, <1>9, <1>10, <1>11, <1>12, <1>13 DEF StoreInv
<1> QED BY <1>1, <1>9, <1>14 DEF Synced

LEMMA InsertFailsKeeps ==
    ASSUME StoreInv, FailLeaves, NEW day \in Days, latestDay <= day, InsertFails(day)
    PROVE  StoreInv' /\ Failed
<1> DEFINE files == FilesFor(day)
           rows == RowsFor(day)
<1>1. /\ Survive(rows, GoesOn) /\ segs' = files /\ due' = DueFor(day)
      /\ conn' = day /\ latestDay' = day /\ nextId' = nextId /\ prevChain' = prevChain
  BY DEF InsertFails
<1>2. /\ removing = 0 /\ appended < MaxRecords /\ appended' = appended + 1
      /\ diskFails' = diskFails + 1 /\ UNCHANGED <<manifest, removing, torn, today>>
  BY DEF FailLeaves
<1>3. WritesTo(day, files, rows)
  BY WriteReady
<1> HIDE DEF files, rows
<1>4. /\ files \in Seq(Files) /\ FilesBelow(files, appended)
      /\ files # <<>> /\ files[Len(files)].day = day
      /\ rows \in Seq(RecordRows) /\ RowsBelow(rows, appended)
      /\ DueFor(day) \in Nat /\ DueFor(day) <= due /\ Len(rows) <= DueFor(day)
      /\ GoesOn \in {"no", "files"} /\ LogFits(files, rows, prevChain, GoesOn)
      /\ GoesOn # "files" => /\ astray # "files"
                             /\ files[1].start = IF segs = <<>> THEN Genesis ELSE segs[1].start
      /\ \/ files = segs /\ rows = pending
         \/ Flat(files) = Flat(segs) \o pending /\ rows = <<>>
  BY <1>3 DEF WritesTo, Reached
<1>5. /\ LogFits(files, pending', prevChain, astray') /\ pending' \in {rows, <<>>}
      /\ astray' \in {"no", "memory", "files"} /\ (astray' # "files" => GoesOn # "files")
  <2>1. GoesOn \in {"no", "memory", "files"}
    BY <1>4
  <2> QED BY <1>1, <1>4, <2>1, SurviveFits
<1>6. /\ nextId = Len(prevChain) + 1 /\ Len(prevChain) <= appended /\ Len(prevChain) \in Nat
      /\ appended \in Nat /\ due \in Nat /\ due <= appended /\ diskFails \in Nat
      /\ Len(<<>>) = 0 /\ \A n \in Nat : RowsBelow(<<>>, n)
  BY InvFacts
<1>7. FilesBelow(files, appended + 1) /\ RowsBelow(pending', appended + 1)
  BY <1>4, <1>5, <1>6, BelowMore
<1>8. Len(pending') <= DueFor(day)
  BY <1>4, <1>5, <1>6
<1>9. /\ DueFor(day) <= appended + 1 /\ Len(prevChain) <= appended + 1
      /\ diskFails + 1 \in Nat /\ diskFails + 1 > 0
  BY <1>4, <1>6
<1>10. KeepsStart
  BY <1>1, <1>4, <1>5 DEF KeepsStart
<1>11. LogFits(segs', pending', prevChain', astray')
  BY <1>1, <1>5
<1>12. StoreInv'
  BY <1>1, <1>2, <1>4, <1>5, <1>6, <1>7, <1>8, <1>9, <1>10, <1>11, Lands
<1>13. Failed
  BY <1>1, <1>4, <1>5 DEF Failed, Synced
<1> QED BY <1>12, <1>13

LEMMA CommitFailsKeeps ==
    ASSUME StoreInv, FailLeaves, NEW day \in Days, latestDay <= day,
           NEW rec \in Records, CommitFails(rec, day)
    PROVE  StoreInv' /\ Failed
<1> DEFINE files == FilesFor(day)
           held == RowsFor(day)
           row == NewRow(rec)
           all == held \o <<row>>
           next == Append(prevChain, rec)
<1>1. /\ Survive(all, GoesOn) /\ segs' = files /\ due' = DueFor(day) + 1
      /\ conn' = day /\ latestDay' = day /\ nextId' = nextId + 1 /\ prevChain' = row.chain
  BY DEF CommitFails, Numbered
<1>2. /\ removing = 0 /\ appended < MaxRecords /\ appended' = appended + 1
      /\ diskFails' = diskFails + 1 /\ UNCHANGED <<manifest, removing, torn, today>>
  BY DEF FailLeaves
<1>3. WritesTo(day, files, held)
  BY WriteReady
<1>4. RowAdded(day, files, held, rec)
  <2> HIDE DEF files, held
  <2> QED BY <1>3, RowAddedIs
<1> HIDE DEF files, held
<1>5. /\ row \in RecordRows /\ row.chain = next /\ next \in Seq(Records)
      /\ Len(next) = Len(prevChain) + 1
      /\ all \in Seq(RecordRows) /\ RowsBelow(all, appended + 1)
      /\ Len(all) <= DueFor(day) + 1
      /\ LogFits(files, all, next, GoesOn)
      /\ Flat(files) \o all = (Flat(segs) \o pending) \o <<row>>
  BY <1>4 DEF RowAdded
<1>6. /\ files \in Seq(Files) /\ FilesBelow(files, appended)
      /\ files # <<>> /\ files[Len(files)].day = day
      /\ DueFor(day) \in Nat /\ DueFor(day) <= due
      /\ GoesOn \in {"no", "files"}
      /\ GoesOn # "files" => /\ astray # "files"
                             /\ files[1].start = IF segs = <<>> THEN Genesis ELSE segs[1].start
      /\ \/ files = segs /\ held = pending
         \/ Flat(files) = Flat(segs) \o pending /\ held = <<>>
  BY <1>3 DEF WritesTo, Reached
<1> HIDE DEF row, all, next
<1>7. /\ LogFits(files, pending', next, astray') /\ pending' \in {all, <<>>}
      /\ astray' \in {"no", "memory", "files"} /\ (astray' # "files" => GoesOn # "files")
  <2>1. GoesOn \in {"no", "memory", "files"}
    BY <1>6
  <2> QED BY <1>1, <1>5, <2>1, SurviveFits
<1>8. /\ nextId = Len(prevChain) + 1 /\ Len(prevChain) <= appended /\ Len(prevChain) \in Nat
      /\ appended \in Nat /\ due \in Nat /\ due <= appended /\ diskFails \in Nat
      /\ Len(<<>>) = 0 /\ \A n \in Nat : RowsBelow(<<>>, n)
  BY InvFacts
<1>9. FilesBelow(files, appended + 1) /\ RowsBelow(pending', appended + 1)
  <2>1. appended + 1 \in Nat
    BY <1>8
  <2> QED BY <1>5, <1>6, <1>7, <1>8, <2>1, BelowMore
<1>10. Len(pending') <= DueFor(day) + 1
  <2>1. Len(<<>>) <= DueFor(day) + 1
    BY <1>6, <1>8
  <2> QED BY <1>5, <1>7, <2>1
<1>11. /\ DueFor(day) + 1 <= appended + 1 /\ DueFor(day) + 1 \in Nat
       /\ diskFails + 1 \in Nat /\ diskFails + 1 > 0
  BY <1>6, <1>8
<1>12. KeepsStart
  BY <1>1, <1>6, <1>7 DEF KeepsStart
<1>13. prevChain' = next
  BY <1>1, <1>5
<1>14. nextId' = Len(prevChain') + 1 /\ Len(prevChain') <= appended + 1
  BY <1>1, <1>5, <1>8, <1>13
<1>15. StoreInv'
  <2>1. LogFits(segs', pending', prevChain', astray')
    BY <1>1, <1>7, <1>13
  <2>2. /\ segs' \in Seq(Files) /\ FilesBelow(segs', appended + 1)
        /\ segs' # <<>> /\ segs'[Len(segs')].day = day
    BY <1>1, <1>6, <1>9
  <2>3. /\ due' \in Nat /\ due' <= appended + 1 /\ Len(pending') <= due'
        /\ diskFails' \in Nat /\ diskFails' > 0
    BY <1>1, <1>2, <1>10, <1>11
  <2> QED BY <1>1, <1>2, <1>7, <1>9, <1>12, <1>14, <2>1, <2>2, <2>3, Lands
<1>16. Failed
  <2>1. CASE pending' = all
    <3>1. OneMore(row)
      <4>1. Flat(segs') \o pending' = (Flat(segs) \o pending) \o <<row>>
        BY <1>1, <1>5, <2>1
      <4>2. Flat(segs') \in {Flat(segs), Flat(segs) \o pending}
        BY <1>1, <1>6
      <4> QED BY <4>1, <4>2 DEF OneMore
    <3> QED BY <1>5, <3>1 DEF Failed
  <2>2. CASE pending' = <<>>
    BY <1>1, <1>6, <2>2 DEF Failed, Synced
  <2> QED BY <1>7, <2>1, <2>2
<1> QED BY <1>15, <1>16

LEMMA AppendFailsKeeps == ASSUME StoreInv, AppendFails PROVE StoreInv' /\ Failed
<1> DEFINE day == LaterDay(latestDay, today)
<1>1. FailLeaves
  BY DEF AppendFails, FailLeaves, MayFailOnDisk, Working
<1>2. day \in Days /\ latestDay <= day
  BY LaterDayIs
<1>3. \/ NoRoom
      \/ CloseFails(day) \/ OpenFails(day) \/ InsertFails(day)
      \/ \E rec \in Records : CommitFails(rec, day)
  BY DEF AppendFails
<1> HIDE DEF day
<1>4. CASE NoRoom
  <2>1. /\ segs' = segs /\ pending' = pending /\ astray' = astray
        /\ UNCHANGED <<conn, due, nextId, prevChain>> /\ latestDay' = latestDay
    BY <1>4 DEF NoRoom
  <2>2. LogFits(segs, pending, prevChain, astray) /\ astray \in {"no", "memory", "files"}
    BY InvFacts
  <2>3. latestDay' \in 0..LastDay /\ latestDay <= latestDay'
    BY <2>1, StoreBounds DEF StoreInv, Typed
  <2> QED BY <1>1, <2>1, <2>2, <2>3, StaysBehind DEF Failed
<1>5. CASE CloseFails(day)
  BY <1>1, <1>2, <1>5, CloseFailsKeeps
<1>6. CASE OpenFails(day)
  BY <1>1, <1>2, <1>6, OpenFailsKeeps DEF Failed
<1>7. CASE InsertFails(day)
  BY <1>1, <1>2, <1>7, InsertFailsKeeps
<1>8. CASE \E rec \in Records : CommitFails(rec, day)
  BY <1>1, <1>2, <1>8, CommitFailsKeeps
<1> QED BY <1>3, <1>4, <1>5, <1>6, <1>7, <1>8

\* The files after a commit of what was pending, and nothing numbered.
LEMMA CommittedKeeps ==
    ASSUME StoreInv, removing = 0, segs' = Committed(segs, pending), pending' = <<>>, due' = 0,
           UNCHANGED <<conn, nextId, prevChain, latestDay, torn, astray, today, appended,
                       diskFails>>
    PROVE  /\ LogFits(segs', pending', prevChain', astray') /\ Counted' /\ WritingNewest' /\ Synced
           /\ segs' \in Seq(Files) /\ Len(segs') = Len(segs)
           /\ segs # <<>> => segs'[1].day = segs[1].day /\ segs'[1].start = segs[1].start
           /\ segs' = <<>> <=> segs = <<>>
<1> DEFINE files == Committed(segs, pending)
<1>1. /\ Reached(files, segs, appended) /\ Len(files) = Len(segs)
      /\ files = <<>> <=> segs = <<>>
      /\ segs # <<>> => files[1].start = segs[1].start /\ files[Len(files)].day = Newest
      /\ Flat(files) = Flat(segs) \o pending
      /\ LogFits(files, <<>>, prevChain, astray)
  BY CommittedIs
<1> HIDE DEF files
<1>2. segs' = files
  BY DEF files
<1>3. /\ files \in Seq(Files) /\ FilesBelow(files, appended)
      /\ segs # <<>> => files[1].day = segs[1].day
  BY <1>1 DEF Reached
<1>4. /\ Len(<<>>) = 0 /\ RowsBelow(<<>>, appended) /\ appended \in Nat /\ diskFails \in Nat
  BY InvFacts
<1>5. Counted'
  <2>1. 0 \in Nat /\ 0 <= appended /\ 0 <= 0 /\ ~(0 >= CommitEvery)
    BY <1>4, StoreBounds
  <2> QED BY <1>2, <1>3, <1>4, <2>1 DEF StoreInv, Counted
<1>6. WritingNewest'
  BY <1>1, <1>2 DEF StoreInv, WritingNewest, Newest
<1> QED BY <1>1, <1>2, <1>3, <1>5, <1>6 DEF Synced

LEMMA FlushKeeps == ASSUME StoreInv, Flush PROVE StoreInv' /\ Synced
<1>1. /\ removing = 0 /\ segs' = Committed(segs, pending) /\ pending' = <<>> /\ due' = 0
      /\ UNCHANGED <<manifest, conn, nextId, prevChain, latestDay, removing, torn, astray,
                     today, appended, diskFails>>
  BY DEF Flush, Working
<1>2. /\ LogFits(segs', pending', prevChain', astray') /\ Counted' /\ WritingNewest' /\ Synced
      /\ segs' \in Seq(Files) /\ Len(segs') = Len(segs)
      /\ segs # <<>> => segs'[1].day = segs[1].day /\ segs'[1].start = segs[1].start
      /\ segs' = <<>> <=> segs = <<>>
  BY <1>1, CommittedKeeps
<1>3. KeepsStart
  BY <1>1, <1>2 DEF KeepsStart
<1>4. StartsOnRecord' /\ RemovalFits' /\ StartsAtGenesis'
  BY <1>1, <1>3, Grown
<1>5. Typed'
  BY <1>1, <1>2 DEF StoreInv, Typed
<1> QED BY <1>2, <1>4, <1>5 DEF StoreInv

LEMMA FlushFailsKeeps == ASSUME StoreInv, FlushFails PROVE StoreInv' /\ Failed
<1>1. /\ removing = 0 /\ Survive(pending, astray) /\ diskFails' = diskFails + 1
      /\ UNCHANGED <<segs, manifest, conn, due, nextId, prevChain, latestDay, removing, torn,
                     today, appended>>
  BY DEF FlushFails, MayFailOnDisk, Working
<1>2. /\ LogFits(segs, pending, prevChain, astray) /\ astray \in {"no", "memory", "files"}
      /\ Len(<<>>) = 0 /\ RowsBelow(<<>>, appended) /\ appended \in Nat /\ diskFails \in Nat
      /\ due \in Nat
  BY InvFacts
<1>3. /\ LogFits(segs, pending', prevChain, astray') /\ pending' \in {pending, <<>>}
      /\ astray' \in {"no", "memory", "files"} /\ (astray' # "files" => astray # "files")
  BY <1>1, <1>2, SurviveFits
<1>4. KeepsStart
  BY <1>1, <1>3 DEF KeepsStart
<1>5. StartsOnRecord' /\ RemovalFits' /\ StartsAtGenesis'
  BY <1>1, <1>4, Grown
<1>6. Counted'
  <2>1. /\ RowsBelow(pending, appended) /\ Len(pending) <= due
    BY DEF StoreInv, Counted
  <2>2. RowsBelow(pending', appended) /\ Len(pending') <= due
    BY <1>2, <1>3, <2>1
  <2>3. diskFails + 1 \in Nat /\ diskFails + 1 > 0
    BY <1>2
  <2> QED BY <1>1, <2>2, <2>3 DEF StoreInv, Counted
<1>7. Typed'
  BY <1>1, <1>3 DEF StoreInv, Typed
<1>8. WritingNewest'
  BY <1>1, <1>3 DEF StoreInv, WritingNewest, Newest
<1>9. LogFits(segs', pending', prevChain', astray')
  BY <1>1, <1>3
<1> QED BY <1>1, <1>3, <1>5, <1>6, <1>7, <1>8, <1>9 DEF StoreInv, Failed

LEMMA DayTurnsKeeps == ASSUME StoreInv, DayTurns PROVE StoreInv'
BY DEF DayTurns, StoreInv, Counted, Typed, Days, WritingNewest, Newest, RemovalFits,
       StartsOnRecord, FirstContinues, StartsAtGenesis, ToSet, LogFits

\* A removal recorded: its last chain value is kept for the reader.
LEMMA PruneRecordsKeeps == ASSUME StoreInv, PruneRecords PROVE StoreInv' /\ Synced
<1> DEFINE kept == LastChain(segs'[1])
<1>1. /\ removing = 0 /\ Len(segs) > 1 /\ segs' = Committed(segs, pending)
      /\ manifest' = Append(manifest, kept) /\ pending' = <<>> /\ due' = 0
      /\ removing' = segs[1].day
      /\ UNCHANGED <<conn, nextId, prevChain, latestDay, torn, astray, today, appended,
                     diskFails>>
  BY DEF PruneRecords, Working
<1>2. /\ LogFits(segs', pending', prevChain', astray') /\ Counted' /\ WritingNewest' /\ Synced
      /\ segs' \in Seq(Files) /\ Len(segs') = Len(segs)
      /\ segs # <<>> => segs'[1].day = segs[1].day /\ segs'[1].start = segs[1].start
      /\ segs' = <<>> <=> segs = <<>>
  BY <1>1, CommittedKeeps
<1>3. segs # <<>> /\ segs[1].day \in Days /\ 1 \in 1..Len(segs)
  <2>1. segs # <<>>
    BY <1>1, EmptySeq
  <2> QED BY <2>1, InvFacts
<1>4. segs'[1] \in Files /\ EndChain(segs'[1]) \in Seq(Records)
  <2>1. segs'[1] \in Files
    BY <1>2, <1>3, ElementOfSeq
  <2> QED BY <2>1, EndIs
<1>5. \/ segs'[1].rows = <<>> /\ kept = NoChain
      \/ segs'[1].rows # <<>> /\ kept = EndChain(segs'[1])
  BY DEF LastChain, EndChain
<1>6. kept \in Seq(Records) \cup {NoChain}
  BY <1>4, <1>5
<1> HIDE DEF kept
<1>7. /\ manifest' \in Seq(Seq(Records) \cup {NoChain}) /\ manifest' # <<>>
      /\ Last(manifest') = kept /\ kept \in ToSet(manifest')
  <2> DEFINE S == Seq(Records) \cup {NoChain}
  <2> HIDE DEF S
  <2>1. manifest \in Seq(S) /\ kept \in S
    BY <1>6 DEF StoreInv, Typed, S
  <2>2. /\ manifest' \in Seq(S) /\ Len(manifest') = Len(manifest) + 1
        /\ manifest'[Len(manifest) + 1] = kept /\ Len(manifest) \in Nat
    BY <1>1, <2>1, AppendProperties, LenProperties
  <2>3. /\ DOMAIN manifest' = 1..Len(manifest') /\ Len(manifest') \in DOMAIN manifest'
        /\ manifest' # <<>>
    BY <2>2, LenProperties, EmptySeq
  <2> QED BY <2>2, <2>3 DEF S, Last, ToSet
<1>8. StartsOnRecord'
  <2>1. removing' # 0
    BY <1>1, <1>3, StoreBounds DEF Days
  <2>2. kept # NoChain => kept = EndChain(segs'[1])
    BY <1>5
  <2>3. (~torn /\ NoChain \notin ToSet(manifest))' => Last(manifest') = EndChain(segs'[1])
    BY <1>7, <2>2 DEF ToSet
  <2> QED BY <2>1, <2>3 DEF StartsOnRecord
<1>9. RemovalFits' /\ StartsAtGenesis'
  BY <1>1, <1>2, <1>3, <1>7 DEF RemovalFits, StartsAtGenesis
<1>10. Typed'
  <2>1. removing' \in 0..LastDay
    BY <1>1, <1>3, StoreBounds DEF Days
  <2> QED BY <1>1, <1>2, <1>3, <1>7, <2>1 DEF StoreInv, Typed
<1> QED BY <1>2, <1>8, <1>9, <1>10 DEF StoreInv

\* The removal done.
LEMMA PruneRemovesKeeps ==
    ASSUME StoreInv, PruneRemoves
    PROVE  StoreInv' /\ pending' = <<>> /\ pending = <<>>
           /\ segs[1].rows \in Seq(RecordRows) /\ Flat(segs) = segs[1].rows \o Flat(segs')
<1> DEFINE n == Len(segs)
           new == Tail(segs)
<1>1. /\ removing # 0 /\ segs' = new /\ removing' = 0
      /\ UNCHANGED <<manifest, pending, conn, due, nextId, prevChain, latestDay, torn, astray,
                     today, appended, diskFails>>
  BY DEF PruneRemoves, Working
<1>2. n > 1 /\ pending = <<>> /\ manifest # <<>>
  BY <1>1 DEF StoreInv, RemovalFits
<1>3. /\ LogFits(segs, pending, prevChain, astray) /\ segs \in Seq(Files) /\ DaysGrow(segs)
      /\ FilesBelow(segs, appended) /\ prevChain \in Seq(Records) /\ n \in Nat
      /\ DOMAIN segs = 1..n /\ pending \in Seq(RecordRows)
      /\ astray \in {"no", "memory", "files"}
  BY InvFacts
<1>4. segs # <<>>
  BY <1>2, EmptySeq
<1>5. /\ new \in Seq(Files) /\ Len(new) = n - 1 /\ \A i \in 1..n - 1 : new[i] = segs[i + 1]
  BY <1>3, <1>4, HeadTailProperties
<1>6. /\ Flat(new) \in Seq(RecordRows) /\ segs[1].rows \in Seq(RecordRows)
      /\ Flat(segs) = segs[1].rows \o Flat(new)
  BY <1>3, <1>4, FlatTail
<1> HIDE DEF new
<1>7. /\ new # <<>> /\ DOMAIN new = 1..n - 1 /\ n - 1 \in 1..n - 1
      /\ new[Len(new)] = segs[n] /\ new[1] = segs[2]
  <2> HIDE DEF n
  <2>1. n - 1 \in 1..n - 1 /\ n - 1 # 0 /\ 1 \in 1..n - 1 /\ (n - 1) + 1 = n /\ 1 + 1 = 2
    BY <1>2, <1>3
  <2>2. new # <<>>
    BY <1>5, <2>1, EmptySeq
  <2>3. DOMAIN new = 1..n - 1
    BY <1>5, LenProperties
  <2> QED BY <1>5, <2>1, <2>2, <2>3
<1>8. DaysGrow(new) /\ FilesBelow(new, appended)
  <2> DEFINE m == n
  <2> HIDE DEF m
  <2>0. m \in Nat /\ m = n
    BY <1>3 DEF m
  <2>1. ASSUME NEW i \in 1..m - 1 PROVE i + 1 \in 1..m /\ new[i] = segs[i + 1]
    BY <1>5, <2>0
  <2>2. ASSUME NEW i \in 1..m - 1, NEW j \in 1..m - 1, i < j PROVE new[i].day < new[j].day
    <3>1. i + 1 \in 1..m /\ j + 1 \in 1..m /\ i + 1 < j + 1
      BY <2>0, <2>2
    <3>2. segs[i + 1].day < segs[j + 1].day
      BY <1>3, <2>0, <3>1 DEF DaysGrow
    <3> QED BY <2>1, <3>2
  <2>3. ASSUME NEW i \in 1..m - 1 PROVE RowsBelow(new[i].rows, appended)
    <3>1. RowsBelow(segs[i + 1].rows, appended)
      BY <1>3, <2>0, <2>1 DEF FilesBelow
    <3> QED BY <2>1, <3>1
  <2> QED BY <1>5, <1>7, <2>0, <2>2, <2>3 DEF DaysGrow, FilesBelow
\* Of a log, a log is left.
<1>9. ASSUME NEW rows, NEW chain, Chained(segs, rows, chain)
      PROVE  Chained(new, rows, chain) /\ segs[2].start = EndChain(segs[1])
  <2>1. Chained(new, rows, chain)
    BY <1>2, <1>9, TailKeeps DEF new
  <2>2. 2 \in 2..n /\ 2 - 1 = 1
    BY <1>2, <1>3
  <2>3. segs[2].start = EndChain(segs[1])
    BY <1>9, <2>2 DEF Chained, Linked
  <2> QED BY <2>1, <2>3
<1>10. EndOf(new) = EndOf(segs)
  BY <1>4, <1>7 DEF EndOf
<1>11. LogFits(new, pending, prevChain, astray)
  <2>1. astray = "no" => Chained(new, pending, prevChain)
    BY <1>3, <1>9 DEF LogFits
  <2>2. astray = "memory" => pending = <<>> /\ Chained(new, <<>>, EndOf(new))
    BY <1>2, <1>3, <1>9, <1>10 DEF LogFits
  <2> QED BY <1>3, <1>5, <1>8, <2>1, <2>2 DEF LogFits
<1>12. StartsOnRecord'
  <2>1. SUFFICES ASSUME astray # "files", ~torn, NoChain \notin ToSet(manifest)
                 PROVE  FirstContinues'
    BY <1>1 DEF StartsOnRecord, ToSet
  <2>2. Last(manifest) = EndChain(segs[1])
    BY <1>1, <2>1 DEF StoreInv, StartsOnRecord
  <2>3. astray \in {"no", "memory"}
    BY <1>3, <2>1
  <2>4. Chained(segs, <<>>, EndOf(segs))
    BY <1>3, <2>3, FilesFit
  <2>5. segs[2].start = EndChain(segs[1]) /\ EndChain(segs[1]) \in Seq(Records)
    <3>1. 1 \in 1..n
      BY <1>2, <1>3
    <3> QED BY <1>9, <2>4, <3>1, ChainedFacts
  <2>6. StartOf(segs'[1]) = Last(manifest)
    BY <1>1, <1>7, <2>2, <2>5, NoChainIs DEF StartOf
  <2> QED BY <1>1, <1>2, <2>6 DEF FirstContinues
<1>13. RemovalFits' /\ StartsAtGenesis'
  BY <1>1, <1>2 DEF RemovalFits, StartsAtGenesis
<1>14. WritingNewest'
  BY <1>1, <1>4, <1>7 DEF StoreInv, WritingNewest, Newest
<1>15. Counted'
  BY <1>1, <1>8 DEF StoreInv, Counted
<1>16. Typed'
  <2>1. removing' \in 0..LastDay
    BY <1>1, StoreBounds
  <2> QED BY <1>1, <1>7, <2>1 DEF StoreInv, Typed
<1>17. LogFits(segs', pending', prevChain', astray')
  BY <1>1, <1>11
<1>18. StoreInv'
  BY <1>12, <1>13, <1>14, <1>15, <1>16, <1>17 DEF StoreInv
<1> QED BY <1>1, <1>2, <1>6, <1>18

\* A new process continues from the newest row; it is at the end of the log, or
\* it found no row of a log that had some, or the files were no log before.
LEMMA StoreDiesKeeps ==
    ASSUME StoreInv, StoreDies PROVE StoreInv' /\ segs' = segs /\ pending' = <<>>
<1> DEFINE n == Len(segs)
           found == IF Filled = {} THEN Genesis ELSE TailRow.chain
<1>1. /\ torn' = (torn \/ removing # 0) /\ pending' = <<>> /\ conn' = 0 /\ due' = 0
      /\ removing' = 0
      /\ astray' = IF astray = "files" THEN "files"
                   ELSE IF Filled = {} /\ manifest # <<>> THEN "memory" ELSE "no"
      /\ nextId' = IF Filled = {} THEN 1 ELSE TailRow.id + 1
      /\ prevChain' = found
      /\ latestDay' = IF segs = <<>> THEN 0 ELSE Newest
      /\ segs' = segs /\ manifest' = manifest /\ today' = today /\ appended' = appended
      /\ diskFails' = diskFails
  BY DEF StoreDies, Working
<1>2. /\ LogFits(segs, pending, prevChain, astray) /\ segs \in Seq(Files) /\ DaysGrow(segs)
      /\ FilesBelow(segs, appended) /\ n \in Nat /\ DOMAIN segs = 1..n
      /\ appended \in Nat /\ diskFails \in Nat /\ astray \in {"no", "memory", "files"}
      /\ <<>> \in Seq(RecordRows) /\ Len(<<>>) = 0 /\ RowsBelow(<<>>, appended)
      /\ segs # <<>> => Newest \in Days
  BY InvFacts
<1>3. ASSUME Filled # {}
      PROVE  /\ segs # <<>> /\ TailRow.chain \in Seq(Records) /\ TailRow.id = Len(TailRow.chain)
             /\ TailRow.id <= appended
  <2>1. PICK t \in Filled : TailRow = segs[t].rows[Len(segs[t].rows)]
    BY <1>2, <1>3, TailRowIs
  <2>2. t \in 1..n /\ segs[t].rows # <<>>
    BY <1>2 DEF Filled
  <2> DEFINE rows == segs[t].rows
  <2>3. rows \in Seq(RecordRows)
    BY <1>2, <2>2, FilesFacts
  <2>4. RowsBelow(rows, appended)
    BY <1>2, <2>2 DEF FilesBelow
  <2> HIDE DEF rows
  <2>5. Len(rows) \in 1..Len(rows) /\ rows[Len(rows)] = TailRow
    BY <2>1, <2>2, <2>3, RecordRowFacts DEF rows
  <2>6. TailRow.id <= appended
    BY <2>4, <2>5 DEF RowsBelow
  <2>7. TailRow.chain \in Seq(Records) /\ TailRow.id = Len(TailRow.chain)
    BY <2>3, <2>5, RecordRowFacts
  <2>8. segs # <<>>
    BY <1>2, <2>2, EmptySeq
  <2> QED BY <2>6, <2>7, <2>8
<1>4. /\ found \in Seq(Records) /\ Len(found) <= appended /\ nextId' = Len(found) + 1
  <2>1. CASE Filled = {}
    <3>1. found = <<>> /\ nextId' = 1
      BY <1>1, <2>1 DEF Genesis
    <3>2. 0 <= appended /\ 1 = 0 + 1
      BY <1>2
    <3> QED BY <1>2, <3>1, <3>2, EmptySeq
  <2>2. CASE Filled # {}
    <3>1. found = TailRow.chain /\ nextId' = TailRow.id + 1
      BY <1>1, <2>2
    <3> QED BY <1>3, <2>2, <3>1
  <2> QED BY <2>1, <2>2
<1> HIDE DEF found
\* Files that are a log end where the new process finds its tail, unless they have
\* no row and some were removed.
<1>5. ASSUME astray # "files", Filled # {} \/ manifest = <<>>
      PROVE  found = EndOf(segs)
  <2>1. CASE segs = <<>>
    <3>1. Filled = {}
      BY <1>3, <2>1
    <3> QED BY <2>1, <3>1 DEF found, EndOf
  <2>2. CASE segs # <<>>
    <3>1. Chained(segs, <<>>, EndOf(segs))
      <4>1. astray \in {"no", "memory"}
        BY <1>2, <1>5
      <4> QED BY <1>2, <4>1, FilesFit
    <3>2. /\ Filled # {} => TailRow.chain = EndChain(segs[Len(segs)])
          /\ Filled = {} => EndChain(segs[Len(segs)]) = segs[1].start
      BY <2>2, <3>1, FoundAtTheEnd
    <3>3. Filled = {} => segs[1].start = Genesis
      BY <1>5, <2>2 DEF StoreInv, StartsAtGenesis
    <3> QED BY <2>2, <3>2, <3>3 DEF found, EndOf
  <2> QED BY <2>1, <2>2
<1>6. astray # "files" => Chained(segs, <<>>, EndOf(segs))
  <2>1. astray # "files" => astray \in {"no", "memory"}
    BY <1>2
  <2> QED BY <1>2, <2>1, FilesFit
<1>7. LogFits(segs, <<>>, found, astray')
  <2>1. ASSUME astray' = "no" PROVE Chained(segs, <<>>, found)
    <3>1. astray # "files" /\ (Filled # {} \/ manifest = <<>>)
      BY <1>1, <2>1
    <3> QED BY <1>5, <1>6, <3>1
  <2>2. ASSUME astray' = "memory" PROVE Chained(segs, <<>>, EndOf(segs))
    BY <1>1, <1>6, <2>2
  <2> QED BY <1>2, <1>4, <2>1, <2>2 DEF LogFits
<1>8. Counted'
  <2>1. 0 \in Nat /\ 0 <= appended /\ 0 <= 0 /\ ~(0 >= CommitEvery)
    BY <1>2, StoreBounds
  <2> QED BY <1>1, <1>2, <1>4, <2>1 DEF StoreInv, Counted
<1>9. Typed'
  <2>1. latestDay' \in 0..LastDay /\ 0 \in 0..LastDay
    BY <1>1, <1>2, StoreBounds DEF Days
  <2>2. astray' \in {"no", "memory", "files"}
    BY <1>1
  <2>3. torn' \in BOOLEAN
    BY <1>1 DEF StoreInv, Typed
  <2> QED BY <1>1, <2>1, <2>2, <2>3 DEF StoreInv, Typed
<1>10. WritingNewest'
  <2>1. segs # <<>> => Newest <= Newest
    BY <1>2, StoreBounds DEF Days
  <2> QED BY <1>1, <2>1 DEF WritingNewest, Newest
<1>11. RemovalFits' /\ StartsAtGenesis'
  BY <1>1 DEF StoreInv, RemovalFits, StartsAtGenesis
<1>12. StartsOnRecord'
  BY <1>1 DEF StoreInv, StartsOnRecord, FirstContinues, ToSet
<1>13. LogFits(segs', pending', prevChain', astray')
  BY <1>1, <1>7
<1> QED BY <1>1, <1>8, <1>9, <1>10, <1>11, <1>12, <1>13 DEF StoreInv

LEMMA StoreInitIs == ASSUME StoreInit PROVE StoreInv
<1>1. /\ segs = <<>> /\ manifest = <<>> /\ pending = <<>> /\ conn = 0 /\ nextId = 1
      /\ prevChain = <<>> /\ latestDay = 0 /\ removing = 0 /\ torn = FALSE /\ today = 1
      /\ appended = 0 /\ due = 0 /\ diskFails = 0 /\ astray = "no"
  BY DEF StoreInit, Genesis
<1>2. /\ <<>> \in Seq(Files) /\ <<>> \in Seq(RecordRows) /\ <<>> \in Seq(Records)
      /\ Len(<<>>) = 0 /\ DOMAIN <<>> = 1..0
  BY EmptySeq
<1>3. Chained(<<>>, <<>>, <<>>) /\ DaysGrow(<<>>)
  <2>1. Flat(<<>>) = <<>>
    BY <1>2, RowsInTyped
  <2>2. /\ DaysGrow(<<>>) /\ Started(<<>>) /\ Linked(<<>>) /\ EmptySkipped(<<>>)
        /\ IdsRun(<<>>)
    BY <1>2 DEF DaysGrow, Started, Linked, EmptySkipped, IdsRun
  <2> QED BY <1>2, <2>1, <2>2 DEF Chained, Genesis
<1>4. LogFits(segs, pending, prevChain, astray)
  BY <1>1, <1>2, <1>3 DEF LogFits
<1>5. Counted
  <2>1. 0 \in 0..MaxRecords /\ ~(0 >= CommitEvery) /\ 0 <= 0 /\ 1 = 0 + 1 /\ 0 \in Nat
    BY StoreBounds
  <2>2. RowsBelow(<<>>, 0) /\ FilesBelow(<<>>, 0)
    BY <1>2 DEF RowsBelow, FilesBelow
  <2> QED BY <1>1, <1>2, <2>1, <2>2 DEF Counted
<1>6. Typed
  <2>1. 0 \in 0..LastDay /\ 1 \in Days
    BY StoreBounds DEF Days
  <2>2. <<>> \in Seq(Seq(Records) \cup {NoChain})
    BY EmptySeq
  <2> QED BY <1>1, <2>1, <2>2 DEF Typed
<1>7. WritingNewest /\ RemovalFits /\ StartsOnRecord /\ StartsAtGenesis
  BY <1>1 DEF WritingNewest, RemovalFits, StartsOnRecord, FirstContinues, StartsAtGenesis
<1> QED BY <1>4, <1>5, <1>6, <1>7 DEF StoreInv

LEMMA StoreStays == ASSUME StoreInv, UNCHANGED storeVars PROVE StoreInv'
BY DEF storeVars, StoreInv, Counted, Typed, WritingNewest, Newest, RemovalFits, LogFits,
       StartsOnRecord, FirstContinues, StartsAtGenesis, ToSet

\* Whatever calls failed: the files, the transaction and the chain value in memory
\* are one log; or the files are one and the process is elsewhere, since rows
\* were rolled back under it or it found none to continue from, with nothing
\* written since; or it did write, and the files stay a log no more.  The record
\* of removals fits them for as long as they are one.
THEOREM OneLogAlways == StoreSpec => []StoreInv
<1>1. StoreInit => StoreInv
  BY StoreInitIs
<1>2. StoreInv /\ [StoreNext]_storeVars => StoreInv'
  <2> SUFFICES ASSUME StoreInv, [StoreNext]_storeVars PROVE StoreInv'
    OBVIOUS
  <2>1. CASE AppendRow
    BY <2>1, AppendKeeps
  <2>2. CASE AppendFails
    BY <2>2, AppendFailsKeeps
  <2>3. CASE Flush
    BY <2>3, FlushKeeps
  <2>4. CASE FlushFails
    BY <2>4, FlushFailsKeeps
  <2>5. CASE DayTurns
    BY <2>5, DayTurnsKeeps
  <2>6. CASE PruneRecords
    BY <2>6, PruneRecordsKeeps
  <2>7. CASE PruneRemoves
    BY <2>7, PruneRemovesKeeps
  <2>8. CASE StoreDies
    BY <2>8, StoreDiesKeeps
  <2>9. CASE UNCHANGED storeVars
    BY <2>9, StoreStays
  <2> QED BY <2>1, <2>2, <2>3, <2>4, <2>5, <2>6, <2>7, <2>8, <2>9 DEF StoreNext
<1> QED BY <1>1, <1>2, PTL DEF StoreSpec

\* The types, numbers and bounds of the store: days grow from file to file, the
\* chain value names fewer records than were numbered, and rows wait for longer
\* than a commit takes only after a failed call.
THEOREM StoreTyped == StoreSpec => []StoreTypeOK
<1>1. StoreInv => StoreTypeOK
  <2> SUFFICES ASSUME StoreInv PROVE StoreTypeOK
    OBVIOUS
  <2>1. /\ DOMAIN segs = 1..Len(segs) /\ Len(segs) \in Nat /\ DaysGrow(segs)
        /\ \A i \in 1..Len(segs) : segs[i].day \in Days
        /\ Len(prevChain) \in Nat /\ nextId = Len(prevChain) + 1
        /\ Len(prevChain) <= appended /\ due \in Nat /\ due <= appended
        /\ Len(pending) <= due
    BY InvFacts
  <2>2. \A i \in 2..Len(segs) : segs[i - 1].day < segs[i].day
    <3> SUFFICES ASSUME NEW i \in 2..Len(segs) PROVE segs[i - 1].day < segs[i].day
      OBVIOUS
    <3>1. i - 1 \in DOMAIN segs /\ i \in DOMAIN segs /\ i - 1 < i
      BY <2>1
    <3> QED BY <2>1, <3>1 DEF DaysGrow
  <2>3. appended \in 0..MaxRecords /\ MaxRecords \in Nat
    BY StoreBounds DEF StoreInv, Counted
  <2>4. /\ nextId \in 1..MaxRecords + 1 /\ Len(prevChain) < nextId
        /\ due \in 0..MaxRecords
    BY <2>1, <2>3
  <2> QED BY <2>1, <2>2, <2>4 DEF StoreTypeOK, StoreInv, Counted, Typed, Days
<1> QED BY <1>1, OneLogAlways, PTL

\* md_store.verify reports nothing on a log nobody touched, until the process went
\* on from a chain value the files do not end on (md_store.py:205-215, 264-283,
\* 305-309): at every moment outside a removal each file starts where the last
\* one ended or where the record of removals says, every row continues the
\* chain before it and the numbers have no gap, however many files, failed
\* calls, restarts, lost tails, stepped clocks and removals there were.
THEOREM FilesVerify == StoreSpec => []IntactVerifies
<1>1. StoreInv => IntactVerifies
  <2> SUFFICES ASSUME StoreInv, astray # "files", ~torn, NoChain \notin ToSet(manifest),
                      removing = 0
               PROVE  Verified
    BY DEF IntactVerifies, RetainedVerifies, Working
  <2>1. FirstContinues
    BY DEF StoreInv, StartsOnRecord
  <2>2. Chained(segs, <<>>, EndOf(segs))
    <3>1. astray \in {"no", "memory"} /\ LogFits(segs, pending, prevChain, astray)
      BY InvFacts
    <3> QED BY <3>1, FilesFit
  <2>3. Linked(segs) /\ IdsRun(Flat(segs))
    BY <2>2 DEF Chained
  <2>4. AllRows = Flat(segs)
    BY DEF AllRows, Flat, RowsIn
  <2>5. \A i \in 1..Len(segs) : StartOf(segs[i]) = segs[i].start
    BY <2>2, ChainedFacts, NoChainIs DEF StartOf
  <2>6. \A i \in 2..Len(segs) : StartOf(segs[i]) = EndChain(segs[i - 1])
    <3> SUFFICES ASSUME NEW i \in 2..Len(segs) PROVE StartOf(segs[i]) = EndChain(segs[i - 1])
      OBVIOUS
    <3>1. i \in 1..Len(segs)
      BY InvFacts
    <3> QED BY <2>3, <2>5, <3>1 DEF Linked
  <2>7. \A i \in DOMAIN segs : RowsContinue(StartOf(segs[i]), segs[i].rows)
    <3>1. DOMAIN segs = 1..Len(segs)
      BY InvFacts
    <3> QED BY <2>3, <2>5, <3>1 DEF Linked
  <2> QED BY <2>1, <2>3, <2>4, <2>6, <2>7 DEF Verified, IdsRun
<1> QED BY <1>1, OneLogAlways, PTL

-------------------------------------------------------------------------------
(***************************************************************************)
(* The store implements the durable log it promises (DurableLog).          *)
(***************************************************************************)
Recs(rows) == [i \in DOMAIN rows |-> rows[i].rec]

LEMMA RecsIs ==
    ASSUME NEW rows \in Seq(RecordRows)
    PROVE  /\ Recs(rows) \in Seq(Records) /\ Len(Recs(rows)) = Len(rows)
           /\ \A i \in 1..Len(rows) : Recs(rows)[i] = rows[i].rec
<1>1. /\ Len(rows) \in Nat /\ DOMAIN rows = 1..Len(rows)
      /\ \A i \in 1..Len(rows) : rows[i].rec \in Records
  BY RecordRowFacts
<1>2. Recs(rows) = [i \in 1..Len(rows) |-> rows[i].rec]
  BY <1>1 DEF Recs
<1> QED BY <1>1, <1>2

LEMMA RecsJoin ==
    ASSUME NEW a \in Seq(RecordRows), NEW b \in Seq(RecordRows)
    PROVE  Recs(a \o b) = Recs(a) \o Recs(b)
<1> DEFINE c == a \o b
           x == Recs(a)
           y == Recs(b)
           z == Recs(c)
           n == Len(a)
           m == Len(b)
<1>1. /\ c \in Seq(RecordRows) /\ Len(c) = n + m /\ n \in Nat /\ m \in Nat
      /\ \A i \in 1..n + m : c[i] = IF i <= n THEN a[i] ELSE b[i - n]
  BY ConcatProperties, LenProperties
<1> HIDE DEF c
<1>2. /\ x \in Seq(Records) /\ Len(x) = n /\ \A i \in 1..n : x[i] = a[i].rec
      /\ y \in Seq(Records) /\ Len(y) = m /\ \A i \in 1..m : y[i] = b[i].rec
      /\ z \in Seq(Records) /\ Len(z) = n + m /\ \A i \in 1..n + m : z[i] = c[i].rec
  BY <1>1, RecsIs
<1> HIDE DEF x, y, z, n, m
<1>3. /\ x \o y \in Seq(Records) /\ Len(x \o y) = n + m
      /\ \A i \in 1..n + m : (x \o y)[i] = IF i <= n THEN x[i] ELSE y[i - n]
  BY <1>2, ConcatProperties
<1>4. ASSUME NEW i \in 1..n + m PROVE z[i] = (x \o y)[i]
  <2>1. CASE i <= n
    <3>1. i \in 1..n
      BY <1>1, <2>1
    <3>2. i \in 1..n + m
      OBVIOUS
    <3>3. z[i] = a[i].rec
      BY <1>1, <1>2, <2>1, <3>2
    <3>4. (x \o y)[i] = x[i]
      BY <1>3, <2>1, <3>2
    <3>5. x[i] = a[i].rec
      BY <1>2, <3>1
    <3> QED BY <3>3, <3>4, <3>5
  <2>2. CASE ~(i <= n)
    <3>1. i - n \in 1..m
      BY <1>1, <2>2
    <3>2. i \in 1..n + m
      OBVIOUS
    <3>3. z[i] = b[i - n].rec
      BY <1>1, <1>2, <2>2, <3>2
    <3>4. (x \o y)[i] = y[i - n]
      BY <1>3, <2>2, <3>2
    <3>5. y[i - n] = b[i - n].rec
      BY <1>2, <3>1
    <3> QED BY <3>3, <3>4, <3>5
  <2> QED BY <2>1, <2>2
<1>5. z = x \o y
  <2> DEFINE w == x \o y
  <2> HIDE DEF w
  <2>1. /\ z \in Seq(Records) /\ w \in Seq(Records) /\ Len(z) = Len(w)
        /\ \A i \in 1..Len(z) : z[i] = w[i]
    BY <1>2, <1>3, <1>4 DEF w
  <2>2. z = w
    BY <2>1, SeqEqual
  <2> QED BY <2>2 DEF w
<1> QED BY <1>5 DEF x, y, z, c

\* The front and the back of two sequences in one.
LEMMA FrontAndBack ==
    ASSUME NEW S, NEW a \in Seq(S), NEW b \in Seq(S)
    PROVE  /\ SubSeq(a \o b, 1, Len(a)) = a
           /\ SubSeq(a \o b, Len(a) + 1, Len(a \o b)) = b
<1> DEFINE c == a \o b
           n == Len(a)
           m == Len(b)
           x == SubSeq(c, 1, n)
           y == SubSeq(c, n + 1, Len(c))
<1>1. /\ c \in Seq(S) /\ Len(c) = n + m /\ n \in Nat /\ m \in Nat
      /\ \A i \in 1..n + m : c[i] = IF i <= n THEN a[i] ELSE b[i - n]
  BY ConcatProperties, LenProperties
<1> HIDE DEF c, n, m
<1>2. x = a
  <2>1. /\ x \in Seq(S) /\ Len(x) = n /\ \A i \in 1..n : x[i] = c[i]
    <3>1. /\ x \in Seq(S) /\ Len(x) = IF 1 <= n THEN n - 1 + 1 ELSE 0
          /\ \A i \in 1..n - 1 + 1 : x[i] = c[1 + i - 1]
      BY <1>1, SubSeqProperties
    <3>2. \A i \in 1..n : i \in 1..n - 1 + 1 /\ 1 + i - 1 = i
      BY <1>1
    <3> QED BY <1>1, <3>1, <3>2
  <2>2. \A i \in 1..n : c[i] = a[i]
    <3> SUFFICES ASSUME NEW i \in 1..n PROVE c[i] = a[i]
      OBVIOUS
    <3>1. i \in 1..n + m /\ i <= n
      BY <1>1
    <3> QED BY <1>1, <3>1
  <2> HIDE DEF x
  <2> QED BY <2>1, <2>2, SeqEqual DEF n
<1>3. y = b
  <2>1. /\ y \in Seq(S) /\ Len(y) = m /\ \A i \in 1..m : y[i] = c[n + i]
    <3>1. /\ y \in Seq(S)
          /\ Len(y) = IF n + 1 <= Len(c) THEN Len(c) - (n + 1) + 1 ELSE 0
          /\ \A i \in 1..Len(c) - (n + 1) + 1 : y[i] = c[n + 1 + i - 1]
      BY <1>1, SubSeqProperties
    <3>2. Len(c) - (n + 1) + 1 = m /\ (n + 1 <= Len(c) <=> m # 0)
      BY <1>1
    <3>3. \A i \in 1..m : n + 1 + i - 1 = n + i
      BY <1>1
    <3> QED BY <1>1, <3>1, <3>2, <3>3
  <2>2. \A i \in 1..m : c[n + i] = b[i]
    <3> SUFFICES ASSUME NEW i \in 1..m PROVE c[n + i] = b[i]
      OBVIOUS
    <3>1. n + i \in 1..n + m /\ ~(n + i <= n) /\ (n + i) - n = i
      BY <1>1
    <3> QED BY <1>1, <3>1
  <2> HIDE DEF y
  <2> QED BY <2>1, <2>2, SeqEqual DEF m
<1> QED BY <1>2, <1>3 DEF x, y, c, n, m

\* What the log is made of, read off the invariant.
LogIs ==
    /\ Flat(segs) \in Seq(RecordRows) /\ pending \in Seq(RecordRows)
    /\ Held = Recs(Flat(segs) \o pending) /\ Held \in Seq(Records)
    /\ Len(AllRows) = Len(Flat(segs)) /\ Len(Held) = Len(Flat(segs) \o pending)

LEMMA LogIsThat == StoreInv => LogIs
<1> SUFFICES ASSUME StoreInv PROVE LogIs
  OBVIOUS
<1>1. Flat(segs) \in Seq(RecordRows) /\ pending \in Seq(RecordRows)
  BY InvFacts, RowsInTyped
<1>2. AllRows = Flat(segs)
  BY DEF AllRows, Flat, RowsIn
<1>3. Held = Recs(Flat(segs)) \o Recs(pending)
  BY <1>2 DEF Held, Recs
<1>4. Held = Recs(Flat(segs) \o pending)
  BY <1>1, <1>3, RecsJoin
<1>5. Flat(segs) \o pending \in Seq(RecordRows)
  BY <1>1, ConcatProperties
<1> QED BY <1>1, <1>2, <1>4, <1>5, RecsIs DEF LogIs

LEMMA LogStaysThat == (StoreInv => LogIs)'
BY LogIsThat, PTL

LEMMA AppendIsPromised ==
    ASSUME LogIs, LogIs', NEW row \in RecordRows, OneMore(row) PROVE Promise!AppendRecord
<1> DEFINE all == Flat(segs) \o pending
           one == <<row>>
           rec == row.rec
<1>1. /\ Held = Recs(all) /\ Held' = Recs(all \o one) /\ all \in Seq(RecordRows)
      /\ Flat(segs) \in Seq(RecordRows) /\ Held \in Seq(Records)
  BY ConcatProperties DEF LogIs, OneMore
<1>2. one \in Seq(RecordRows) /\ Len(one) = 1 /\ one[1] = row /\ rec \in Records
  BY DEF RecordRows
<1> HIDE DEF all, one, rec
<1>3. Recs(one) = <<rec>>
  BY <1>2, RecsIs DEF rec
<1>4. Held' = Append(Held, rec)
  <2>1. Held' = Held \o <<rec>>
    BY <1>1, <1>2, <1>3, RecsJoin
  <2> QED BY <1>1, <1>2, <2>1, AppendIsConcat
<1>5. Len(AllRows)' \in {Len(AllRows), Len(Held'), Len(Held)}
  <2>1. /\ Len(AllRows) = Len(Flat(segs)) /\ Len(Held) = Len(all)
        /\ Len(AllRows)' = Len(Flat(segs'))
    BY DEF LogIs, all
  <2>2. Len(Held') = Len(all \o one)
    BY DEF LogIs, OneMore, all, one
  <2>3. Flat(segs') \in {Flat(segs), all, all \o one}
    BY DEF OneMore, all, one
  <2> QED BY <2>1, <2>2, <2>3
<1> QED BY <1>2, <1>4, <1>5 DEF Promise!AppendRecord

LEMMA SyncIsPromised == ASSUME LogIs, LogIs', Synced PROVE Promise!Sync
<1>1. Flat(segs') = Flat(segs) \o pending /\ Flat(segs') \o pending' = Flat(segs')
  BY ConcatEmptySeq DEF LogIs, Synced
<1>2. Held' = Held /\ Len(AllRows)' = Len(Held)
  BY <1>1 DEF LogIs
<1> QED BY <1>2 DEF Promise!Sync

LEMMA DropIsPromised ==
    ASSUME LogIs, LogIs', pending = <<>>, pending' = <<>>, segs[1].rows \in Seq(RecordRows),
           Flat(segs) = segs[1].rows \o Flat(segs')
    PROVE  Promise!DropOldest \/ UNCHANGED <<Held, Len(AllRows)>>
<1> DEFINE a == segs[1].rows
           b == Flat(segs')
           n == Len(a)
           x == Recs(a)
           y == Recs(b)
<1>1. a \in Seq(RecordRows) /\ b \in Seq(RecordRows) /\ Flat(segs) = a \o b
  BY DEF LogIs
<1>2. Flat(segs) \o pending = a \o b /\ b \o pending' = b
  BY <1>1, ConcatEmptySeq DEF LogIs
<1>3. Held = Recs(a \o b) /\ Held' = Recs(b)
  BY <1>2 DEF LogIs
<1>4. Len(AllRows) = Len(a \o b) /\ Len(AllRows)' = Len(b)
  BY <1>1 DEF LogIs
<1> HIDE DEF a, b
<1>5. /\ x \in Seq(Records) /\ y \in Seq(Records) /\ Len(x) = n /\ Len(y) = Len(b)
      /\ n \in Nat /\ Len(b) \in Nat /\ Len(a \o b) = n + Len(b)
  BY <1>1, RecsIs, LenProperties, ConcatProperties
<1>6. Held = x \o y /\ Held' = y
  BY <1>1, <1>3, RecsJoin
<1> HIDE DEF x, y, n
<1>7. Held' = SubSeq(Held, n + 1, Len(Held))
  BY <1>5, <1>6, FrontAndBack
<1>8. Len(AllRows)' = Len(AllRows) - n
  BY <1>4, <1>5
<1>9. CASE n = 0
  <2>1. x = <<>>
    BY <1>5, <1>9, EmptySeq
  <2>2. x \o y = y
    BY <1>5, <2>1, ConcatEmptySeq
  <2> QED BY <1>4, <1>5, <1>6, <1>9, <2>2
<1>10. CASE n # 0
  <2>1. n \in 1..Len(AllRows)
    BY <1>4, <1>5, <1>10
  <2> QED BY <1>7, <1>8, <2>1 DEF Promise!DropOldest
<1> QED BY <1>9, <1>10

LEMMA CrashIsPromised ==
    ASSUME LogIs, LogIs', segs' = segs, pending' = <<>> PROVE Promise!LoseTail
<1> DEFINE a == Flat(segs)
           x == Recs(a)
           y == Recs(pending)
<1>1. a \in Seq(RecordRows) /\ pending \in Seq(RecordRows) /\ Held = Recs(a \o pending)
      /\ Len(AllRows) = Len(a)
  BY DEF LogIs
<1>2. Held' = Recs(a \o <<>>) /\ Len(AllRows)' = Len(a)
  BY DEF LogIs
<1> HIDE DEF a
<1>3. x \in Seq(Records) /\ y \in Seq(Records) /\ Len(x) = Len(a) /\ Held = x \o y
  BY <1>1, RecsIs, RecsJoin
<1>4. Held' = x
  BY <1>1, <1>2, ConcatEmptySeq
<1> HIDE DEF x, y
<1>5. Held' = SubSeq(Held, 1, Len(AllRows))
  BY <1>1, <1>3, <1>4, FrontAndBack
<1> QED BY <1>1, <1>2, <1>5 DEF Promise!LoseTail

LEMMA FailIsPromised ==
    ASSUME LogIs, LogIs', Failed
    PROVE  Promise!LogNext \/ UNCHANGED <<Held, Len(AllRows)>>
<1>1. CASE segs' = segs /\ pending' = pending
  BY <1>1 DEF Held, AllRows
<1>2. CASE segs' = segs /\ pending' = <<>>
  BY <1>2, CrashIsPromised DEF Promise!LogNext
<1>3. CASE Synced
  BY <1>3, SyncIsPromised DEF Promise!LogNext
<1>4. CASE \E row \in RecordRows : OneMore(row)
  BY <1>4, AppendIsPromised DEF Promise!LogNext
<1> QED BY <1>1, <1>2, <1>3, <1>4 DEF Failed

\* The records in the files and in the open transaction are the durable log the
\* reader was promised, whatever the files, days, commits and failed calls: it
\* grows at its end, only a crash or a rolled-back transaction loses records
\* and only unsynced ones, and retention removes only the oldest.
THEOREM StoreKeepsPromise == StoreSpec => StoreIsALog
<1>1. StoreInit => Promise!LogInit
  <2> SUFFICES ASSUME StoreInit PROVE Promise!LogInit
    OBVIOUS
  <2>1. LogIs /\ segs = <<>> /\ pending = <<>>
    BY StoreInitIs, LogIsThat DEF StoreInit
  <2>2. Flat(segs) = <<>>
    BY <2>1, RowsInTyped, EmptySeq
  <2>3. Len(AllRows) = 0 /\ Len(Held) = 0 /\ Held \in Seq(Records)
    BY <2>1, <2>2 DEF LogIs
  <2> QED BY <2>3, EmptySeq DEF Promise!LogInit
<1>2. StoreInv /\ StoreInv' /\ [StoreNext]_storeVars => [Promise!LogNext]_(Promise!logVars)
  <2> SUFFICES ASSUME StoreInv, StoreInv', [StoreNext]_storeVars
               PROVE  Promise!LogNext \/ UNCHANGED <<Held, Len(AllRows)>>
    BY DEF Promise!logVars
  <2>1. LogIs
    BY LogIsThat
  <2>2. LogIs'
    BY LogStaysThat
  <2>3. CASE AppendRow
    <3>1. PICK row \in RecordRows : OneMore(row)
      BY <2>3, AppendKeeps
    <3> QED BY <2>1, <2>2, <3>1, AppendIsPromised DEF Promise!LogNext
  <2>4. CASE Flush
    BY <2>1, <2>2, <2>4, FlushKeeps, SyncIsPromised DEF Promise!LogNext
  <2>5. CASE PruneRecords
    BY <2>1, <2>2, <2>5, PruneRecordsKeeps, SyncIsPromised DEF Promise!LogNext
  <2>6. CASE PruneRemoves
    BY <2>1, <2>2, <2>6, PruneRemovesKeeps, DropIsPromised DEF Promise!LogNext
  <2>7. CASE StoreDies
    BY <2>1, <2>2, <2>7, StoreDiesKeeps, CrashIsPromised DEF Promise!LogNext
  <2>8. CASE AppendFails
    BY <2>1, <2>2, <2>8, AppendFailsKeeps, FailIsPromised
  <2>9. CASE FlushFails
    BY <2>1, <2>2, <2>9, FlushFailsKeeps, FailIsPromised
  <2>10. CASE DayTurns \/ UNCHANGED storeVars
    <3>1. segs' = segs /\ pending' = pending
      BY <2>10 DEF DayTurns, storeVars
    <3> QED BY <3>1 DEF Held, AllRows
  <2> QED BY <2>3, <2>4, <2>5, <2>6, <2>7, <2>8, <2>9, <2>10 DEF StoreNext
<1> QED BY <1>1, <1>2, OneLogAlways, PTL DEF StoreSpec, StoreIsALog, Promise!LogSpec

-------------------------------------------------------------------------------
(***************************************************************************)
(* The hedge of the carry engine.                                          *)
(***************************************************************************)
\* The short that is not somebody else's.
Own == short - alien

PairBooks == {"FLAT", "OPENING", "HEDGED", "UNWINDING", "HALTED", "OFF", "REFUSED"}
Places == {"idle", "order", "answer", "confirm", "unwind", "reread", "evidence",
           "margin", "size", "cover", "decide", "trimmed"}
Jobs == Covers \cup Sales \cup {"buySpot", "sellPerp", "none"}
Pairs == [spot : Nat, perp : Nat]
Tasks == [at : Places, job : Jobs, qty : Nat, got : Nat \cup {Unknown}, keep : Nat,
          seen : BOOLEAN, viewed : BOOLEAN]

PairTypeOK ==
    /\ style \in {"ACQUIRE", "OVERLAY"} /\ book \in PairBooks /\ pair \in Pairs
    /\ ledger \in [book : PairBooks, pair : Pairs]
    /\ task \in Tasks /\ loose \in [job : Jobs, qty : Nat]
    /\ short \in Nat /\ was \in Nat /\ coin \in Nat /\ alien \in Nat /\ troubles \in Nat
    /\ unwritten \in BOOLEAN /\ verified \in BOOLEAN
    /\ doubt \in BOOLEAN /\ guessed \in BOOLEAN
    /\ alien <= short

Ordering(jobs) == task.at \in {"order", "answer"} /\ task.job \in jobs

\* Which place of the thread goes with which state of the book.
Placed ==
    /\ book \in {"FLAT", "HALTED", "OFF", "REFUSED"} => task = NoTask
    /\ book = "OPENING" => Ordering({"buySpot", "sellPerp"}) /\ pair = NoPair
    /\ book = "HEDGED" =>
          \/ task.at \in {"idle", "confirm", "margin", "size", "cover", "decide", "evidence", "trimmed"}
          \/ Ordering({"trimPerp", "buyPerp"})
    /\ book = "UNWINDING" =>
          \/ task.at \in {"unwind", "reread", "evidence"}
          \/ Ordering({"closePerp", "sellSpot", "saveSpot", "dumpSpot"})
    /\ book = "FLAT" => pair = NoPair
    /\ Ordering({"buySpot", "sellSpot", "saveSpot", "dumpSpot"}) \/ task.at = "evidence" => Acquire
    /\ Ordering({"trimPerp", "buyPerp"}) \/ task.at = "trimmed" => ~Acquire

\* What an answer can say, and where an order may be lost.
PairAnswers ==
    /\ task.at = "answer" => task.got <= task.qty /\ (task.got = Unknown => doubt)
    /\ task.at \in {"reread", "trimmed"} => task.got \in 1 .. task.qty
    /\ Ordering({"trimPerp", "buyPerp"}) \/ task.at = "trimmed" => task.qty <= pair.perp
    /\ Ordering({"buyPerp"}) => task.qty = pair.perp - pair.spot
    /\ loose # NoOrder =>
          /\ doubt
          /\ \/ book \in {"HALTED", "OFF"}
             \/ task.at = "answer" /\ task.got = Unknown /\ loose.job = task.job

GotFilled == Most(task.got, 0)

\* What the engine's own short cannot exceed, wherever the thread is.
OwnKnown ==
    /\ book = "FLAT" => Own = 0
    /\ book = "HALTED" /\ ~doubt => Own <= pair.perp
    /\ book = "OPENING" => \/ Own = 0
                           \/ task.at = "answer" /\ task.job = "sellPerp"
                                /\ (task.got # Unknown => Own <= task.got)
    /\ book \in {"HEDGED", "UNWINDING"} => Own <= pair.perp
    /\ (task.at = "answer" /\ task.job \in Covers) \/ task.at \in {"reread", "trimmed"} =>
          /\ Own = 0 \/ Own <= pair.perp - GotFilled
          /\ task.got > 0 => Own <= was
    /\ Ordering({"sellSpot"}) => Own <= task.keep
    /\ Ordering({"saveSpot", "dumpSpot"}) => Own = 0

\* The coin behind an ACQUIRE pair, at each place.
CoinKnown ==
    /\ book = "FLAT" \/ ledger.book = "FLAT" => coin = 0
    /\ book = "HALTED" /\ ~doubt => coin <= pair.spot
    /\ book \in {"HEDGED", "UNWINDING"} /\ ~Ordering(Sales) =>
          coin = pair.spot /\ pair.perp \in 1 .. pair.spot
    /\ book = "HEDGED" => pair.spot = pair.perp
    /\ ledger.book = "HEDGED" => ledger.pair.spot = ledger.pair.perp /\ ledger.pair.perp > 0
    /\ book \in {"OPENING", "HEDGED", "UNWINDING"} \/ loose.job = "buySpot" => ledger.book # "FLAT"
    /\ Ordering({"buySpot"}) /\ task.at = "order" => coin = 0
    /\ Ordering({"buySpot"}) /\ task.at = "answer" /\ task.got # Unknown => coin = task.got
    /\ Ordering({"sellPerp"}) => coin = task.keep /\ task.qty = task.keep /\ task.keep > 0
    /\ Ordering({"sellSpot", "saveSpot"}) =>
          /\ task.at = "order" => coin = pair.spot
          /\ task.at = "answer" /\ task.got # Unknown => coin = pair.spot - task.got
          /\ task.at = "answer" /\ task.got = Unknown => coin <= pair.spot
          /\ task.qty <= pair.spot
    /\ Ordering({"sellSpot"}) => task.qty > 0
    /\ Ordering({"dumpSpot"}) =>
          /\ task.keep = task.qty
          /\ task.at = "order" => coin = task.keep
          /\ task.at = "answer" /\ task.got # Unknown => coin = task.keep - task.got

\* No sale that is out, or about to go out, can uncover the short.
CoverKept ==
    /\ Own <= coin
    /\ task.at = "order" /\ task.job \in {"sellSpot", "sellPerp"} => Own + task.qty <= coin
    /\ loose.job \in Sales \cup {"sellPerp"} => Own + loose.qty <= coin

LedgerKnown ==
    /\ ledger.book = "FLAT" => ledger.pair = NoPair
    /\ ledger.book = "HALTED" => book \in {"HALTED", "OFF", "REFUSED"}
    /\ ledger.book = "HALTED" /\ book = "HALTED" => ledger.pair = pair

PairInv ==
    /\ PairTypeOK /\ Placed /\ PairAnswers /\ LedgerKnown
    /\ ~guessed => OwnKnown
    /\ Acquire => CoinKnown
    /\ Acquire /\ ~guessed => CoverKept

-------------------------------------------------------------------------------
(***************************************************************************)
(* Arithmetic of the proportional sale.                                    *)
(***************************************************************************)

LEMMA Quotient ==
    ASSUME NEW x \in Nat, NEW y \in Nat \ {0}
    PROVE  /\ x \div y \in Nat
           /\ y * (x \div y) <= x
           /\ x < y * (x \div y) + y
BY SMTT(30)

\* A floor of a quotient is no more than a bound whose multiple covers the dividend.
LEMMA QuotientBound ==
    ASSUME NEW x \in Nat, NEW y \in Nat \ {0}, NEW b \in Nat, x <= y * b
    PROVE  x \div y \in Nat /\ x \div y <= b
<1> DEFINE q == x \div y
<1>1. q \in Nat /\ y * q <= x
  BY Quotient
<1> HIDE DEF q
<1>2. ASSUME q > b PROVE FALSE
  <2>1. q >= b + 1 
    BY <1>1, <1>2
  <2>2. y * (b + 1) <= y * q
    BY <1>1, <2>1
  <2>3. y * (b + 1) = y * b + y
    OBVIOUS
  <2> QED
    BY <1>1, <2>2, <2>3
<1>3. q <= b
  BY <1>1, <1>2
<1> QED
  BY <1>1, <1>3 DEF q

\* Sold by what a read shows is left: at least one coin stays for each lot left.
LEMMA ProportionOfRead ==
    ASSUME NEW spot \in Nat, NEW perp \in 1 .. spot, NEW left \in Nat, left <= perp
    PROVE  /\ (spot * (perp - left)) \div perp \in Nat
           /\ (spot * (perp - left)) \div perp <= spot - left
<1>1. perp * (spot - left) - spot * (perp - left) = left * (spot - perp)
  OBVIOUS
<1>2. left * (spot - perp) >= 0
  OBVIOUS
<1>3. spot * (perp - left) \in Nat /\ spot * (perp - left) <= perp * (spot - left)
  BY <1>1, <1>2
<1> QED
  BY <1>3, QuotientBound

\* Sold by the fills of an order: never more than there is, and with an order no
\* smaller than the position a coin stays for each lot not filled.
LEMMA ProportionOfFill ==
    ASSUME NEW spot \in Nat, NEW perp \in 1 .. spot,
           NEW qty \in Nat \ {0}, NEW got \in 0 .. qty
    PROVE  /\ (spot * got) \div qty \in Nat
           /\ (spot * got) \div qty <= spot
           /\ perp <= qty /\ got <= perp => (spot * got) \div qty <= spot - (perp - got)
<1>1. spot * got \in Nat /\ spot * got <= qty * spot
  OBVIOUS
<1>2. (spot * got) \div qty \in Nat /\ (spot * got) \div qty <= spot
  BY <1>1, QuotientBound
<1>3. ASSUME perp <= qty, got <= perp PROVE (spot * got) \div qty <= spot - (perp - got)
  <2> DEFINE b == spot - (perp - got)
  <2>1. b \in Nat
    BY <1>3
  <2>2. perp * b - spot * got = (spot - perp) * (perp - got)
    OBVIOUS
  <2>3. (spot - perp) * (perp - got) >= 0
    BY <1>3
  <2>4. perp * b <= qty * b
    BY <1>3, <2>1
  <2>5. spot * got <= qty * b
    BY <2>1, <2>2, <2>3, <2>4
  <2> HIDE DEF b
  <2>6. (spot * got) \div qty <= b
    BY <1>1, <2>1, <2>5, QuotientBound
  <2> QED
    BY <2>6 DEF b
<1> QED
  BY <1>2, <1>3

-------------------------------------------------------------------------------
(***************************************************************************)
(* Ways a step ends.                                                       *)
(***************************************************************************)

LEMMA PairTypes ==
    /\ NoTask \in Tasks /\ NoPair \in Pairs /\ NoOrder \in [job : Jobs, qty : Nat]
    /\ NoOrder.job = "none" /\ NoTask.at = "idle" /\ NoTask.job = "none"
    /\ \A x \in Nat, y \in Nat : Legs(x, y) \in Pairs /\ Legs(x, y).spot = x /\ Legs(x, y).perp = y
    /\ NoPair.spot = 0 /\ NoPair.perp = 0
BY DEF NoTask, NoPair, NoOrder, Legs, Tasks, Pairs, Jobs, Places, Covers, Sales, Unknown

LEMMA MostLeast ==
    ASSUME NEW a \in Int, NEW b \in Int
    PROVE  /\ Least(a, b) \in Int /\ Least(a, b) <= a /\ Least(a, b) <= b
           /\ Least(a, b) = a \/ Least(a, b) = b
           /\ Most(a, b) \in Int /\ Most(a, b) >= a /\ Most(a, b) >= b
           /\ Most(a, b) = a \/ Most(a, b) = b
BY DEF Least, Most

LEMMA OwnIs ==
    ASSUME PairTypeOK
    PROVE  Own \in Nat /\ Own <= short
BY DEF PairTypeOK, Own

\* The book stops, on the ledger or not.
LEMMA HaltedKeeps ==
    ASSUME PairInv,
           book' = "HALTED", task' = NoTask, pair' \in Pairs,
           ledger' \in {ledger, [book |-> "HALTED", pair |-> pair']},
           ledger.book # "HALTED",
           troubles' \in Nat, unwritten' \in BOOLEAN, verified' \in BOOLEAN,
           guessed' \in BOOLEAN, guessed => guessed',
           UNCHANGED <<style, market, doubt>>,
           ~guessed' /\ ~doubt => Own <= pair'.perp,
           Acquire /\ ~doubt => coin <= pair'.spot
    PROVE  PairInv'
<1> USE DEF PairInv, market
<1>1. PairTypeOK'
  BY PairTypes DEF PairTypeOK, PairBooks
<1>2. Own' = Own /\ Acquire' = Acquire
  BY DEF Own, Acquire
<1>3. task'.at = "idle" /\ task'.job = "none" /\ Unknown = -1
  BY PairTypes DEF Unknown
<1>4. Placed' /\ PairAnswers' /\ LedgerKnown'
  BY <1>3 DEF Placed, PairAnswers, LedgerKnown, Ordering
<1>5. ~guessed' => OwnKnown'
  BY <1>2, <1>3 DEF OwnKnown, Ordering, Covers
<1>6. Acquire => CoinKnown'
  BY <1>2, <1>3 DEF CoinKnown, Ordering
<1>7. Acquire /\ ~guessed' => CoverKept'
  BY <1>2, <1>3 DEF CoverKept
<1> QED
  BY <1>1, <1>2, <1>4, <1>5, <1>6, <1>7

LEMMA HaltKeeps ==
    ASSUME PairInv, NEW p \in Pairs, NEW n \in Nat, Halt(p, n),
           book \notin {"HALTED", "OFF", "REFUSED"},
           UNCHANGED <<style, verified, market, doubt>>,
           guessed' \in BOOLEAN, guessed => guessed',
           ~guessed' /\ ~doubt => Own <= p.perp,
           Acquire /\ ~doubt => coin <= p.spot
    PROVE  PairInv'
<1>1. /\ book' = "HALTED" /\ pair' = p /\ task' = NoTask
      /\ ledger' \in {ledger, [book |-> "HALTED", pair |-> p]}
      /\ troubles' \in Nat /\ unwritten' \in BOOLEAN /\ verified' \in BOOLEAN
  <2>1. troubles \in Nat /\ unwritten \in BOOLEAN /\ verified \in BOOLEAN
    BY DEF PairInv, PairTypeOK
  <2>2. ASSUME NEW k \in Nat, Pay(k) PROVE troubles' \in Nat
    BY <2>1, <2>2 DEF Pay
  <2>3. troubles' \in Nat
    BY <2>2 DEF Halt
  <2>4. unwritten' \in BOOLEAN /\ verified' \in BOOLEAN
    BY <2>1 DEF Halt
  <2> QED
    BY <2>3, <2>4 DEF Halt
<1>2. ledger.book # "HALTED"
  BY DEF PairInv, LedgerKnown
<1> QED
  BY <1>1, <1>2, HaltedKeeps

\* The book is flat: on the ledger, or over an older one that is not.
LEMMA FlatKeeps ==
    ASSUME PairInv,
           book' = "FLAT", pair' = NoPair, task' = NoTask,
           ledger' \in {ledger, [book |-> "FLAT", pair |-> NoPair]},
           ledger.book # "HALTED", loose = NoOrder,
           troubles' \in Nat, unwritten' \in BOOLEAN, verified' \in BOOLEAN,
           guessed' \in BOOLEAN, guessed => guessed',
           UNCHANGED <<style, market, doubt>>,
           ~guessed' => Own = 0,
           Acquire => coin = 0
    PROVE  PairInv'
<1> USE DEF PairInv, market
<1>1. PairTypeOK'
  BY PairTypes DEF PairTypeOK, PairBooks
<1>2. Own' = Own /\ Acquire' = Acquire
  BY DEF Own, Acquire
<1>3. task'.at = "idle" /\ task'.job = "none" /\ loose'.job = "none" /\ Unknown = -1
  BY PairTypes DEF Unknown
<1>4. Placed' /\ PairAnswers' /\ LedgerKnown'
  BY <1>3 DEF Placed, PairAnswers, LedgerKnown, Ordering
<1>5. ~guessed' => OwnKnown'
  BY <1>2, <1>3 DEF OwnKnown, Ordering, Covers
<1>6. Acquire => CoinKnown'
  BY <1>2, <1>3 DEF CoinKnown, Ordering
<1>7. Acquire /\ ~guessed' => CoverKept'
  BY <1>2, <1>3 DEF CoverKept, Sales
<1> QED
  BY <1>1, <1>2, <1>4, <1>5, <1>6, <1>7

\* A held pair at rest, on the ledger.
LEMMA HeldKeeps ==
    ASSUME PairInv,
           book' = "HEDGED", pair' \in Pairs, task' \in Tasks,
           task'.at \in {"idle", "confirm"},
           ledger' = [book |-> "HEDGED", pair |-> pair'], loose = NoOrder,
           troubles' \in Nat, unwritten' \in BOOLEAN, verified' \in BOOLEAN,
           UNCHANGED <<style, market, doubt, guessed>>,
           ~guessed => Own <= pair'.perp,
           Acquire => coin = pair'.spot /\ pair'.spot = pair'.perp /\ pair'.perp > 0
    PROVE  PairInv'
<1> USE DEF PairInv, market
<1>1. PairTypeOK'
  BY PairTypes DEF PairTypeOK, PairBooks
<1>2. Own' = Own /\ Acquire' = Acquire
  BY DEF Own, Acquire
<1>3. loose'.job = "none" /\ Unknown = -1
  BY PairTypes DEF Unknown
<1>4. Placed' /\ PairAnswers' /\ LedgerKnown'
  BY <1>3 DEF Placed, PairAnswers, LedgerKnown, Ordering
<1>5. ~guessed' => OwnKnown'
  BY <1>2, <1>3 DEF OwnKnown, Ordering, Covers
<1>6. Acquire => CoinKnown'
  BY <1>2, <1>3 DEF CoinKnown, Ordering, Pairs
<1>7. Acquire /\ ~guessed' => CoverKept'
  BY <1>2, <1>3 DEF CoverKept, Sales, Pairs
<1> QED
  BY <1>1, <1>2, <1>4, <1>5, <1>6, <1>7

LEMMA MoveTypes ==
    ASSUME PairTypeOK, book' \in PairBooks, pair' \in Pairs, task' \in Tasks, troubles' \in Nat,
           guessed' \in BOOLEAN, verified' \in BOOLEAN,
           UNCHANGED <<style, ledger, unwritten, market, doubt>>
    PROVE  PairTypeOK' /\ Own' = Own /\ Acquire' = Acquire
BY DEF PairTypeOK, market, Own, Acquire

LEMMA PayTypes ==
    ASSUME PairTypeOK, NEW n \in Nat, Pay(n)
    PROVE  troubles' \in Nat
BY DEF PairTypeOK, Pay

LEMMA ReadTypes ==
    ASSUME PairTypeOK, NEW r \in ShortReads
    PROVE  /\ r.n \in Nat /\ r.v \in Nat \cup {Unread}
           /\ r.v # Unread => r.v >= short \/ r.v >= was
<1>1. short \in Nat /\ was \in Nat
  BY DEF PairTypeOK
<1>2. Lagging \subseteq Nat /\ \A x \in Lagging : x >= short \/ x >= was
  BY <1>1 DEF Lagging, Least, Most
<1> QED
  BY <1>1, <1>2 DEF ShortReads, Unread

-------------------------------------------------------------------------------
(***************************************************************************)
(* Opening.                                                                *)
(***************************************************************************)

LEMMA OpeningKeeps ==
    ASSUME PairInv, OpenPair
    PROVE  PairInv'
<1>1. /\ book = "FLAT" /\ task = NoTask /\ short = 0 /\ pair = NoPair
      /\ PairTypeOK /\ PairSize \in Nat \ {0} /\ loose = NoOrder /\ ledger.book # "HALTED"
      /\ task.at = "idle"
  BY PairAssumption, PairTypes DEF OpenPair, Ready, PairInv, Placed, PairAnswers, LedgerKnown
<1>2. UNCHANGED <<style, verified, coin, short, loose, alien, doubt, guessed>> /\ was' = short
  BY DEF OpenPair, observers
<1>3. Own = 0 /\ Own' = 0 /\ Acquire' = Acquire /\ (Acquire => coin = 0)
  BY <1>1, <1>2 DEF Own, PairInv, PairTypeOK, CoinKnown, Acquire
<1>4. CASE Acquire /\ OpeningMark
  <2>1. ASSUME book' = "OPENING", task' = Order("buySpot", PairSize, 0), pair' = NoPair,
               ledger' = [book |-> "OPENING", pair |-> NoPair],
               troubles' \in Nat, unwritten' = unwritten
        PROVE  PairInv'
    <3>1. /\ task' \in Tasks /\ task'.at = "order" /\ task'.job = "buySpot"
          /\ task'.qty = PairSize /\ task'.got = 0
      BY <1>1, <2>1 DEF Order, PairTypeOK, Tasks, Places, Jobs, Covers, Sales
    <3>2. PairTypeOK'
      BY <1>1, <1>2, <2>1, <3>1 DEF PairTypeOK, PairBooks
    <3>3. Placed' /\ PairAnswers' /\ LedgerKnown'
      BY <1>1, <1>2, <1>3, <1>4, <2>1, <3>1
      DEF PairInv, Placed, PairAnswers, LedgerKnown, Ordering, Unknown
    <3>4. OwnKnown'
      BY <1>3, <2>1, <3>1 DEF OwnKnown, Ordering, Covers
    <3>5. CoinKnown'
      BY <1>1, <1>2, <1>3, <1>4, <2>1, <3>1, PairTypes DEF PairInv, CoinKnown, Ordering, Sales
    <3>6. CoverKept'
      BY <1>1, <1>2, <1>3, <1>4, <3>1, PairTypes DEF CoverKept, Sales
    <3> QED
      BY <3>2, <3>3, <3>4, <3>5, <3>6 DEF PairInv
  <2>2. ASSUME book' = "HALTED", task' = NoTask, pair' = NoPair, ledger' = ledger,
               troubles' \in Nat, unwritten' = unwritten
        PROVE  PairInv'
    <3>1. PairTypeOK'
      BY <1>1, <1>2, <2>2, PairTypes DEF PairTypeOK, PairBooks
    <3>2. task'.at = "idle" /\ loose'.job = "none"
      BY <1>1, <1>2, <2>2, PairTypes
    <3>3. Placed' /\ PairAnswers' /\ LedgerKnown'
      BY <1>1, <1>2, <2>2, <3>2 DEF PairInv, Placed, PairAnswers, LedgerKnown, Ordering
    <3>4. OwnKnown'
      BY <1>3, <2>2, <3>2, PairTypes DEF OwnKnown, Ordering, Covers
    <3>5. CoinKnown'
      BY <1>1, <1>2, <1>3, <1>4, <2>2, <3>2, PairTypes DEF PairInv, CoinKnown, Ordering, Sales
    <3>6. CoverKept'
      BY <1>1, <1>2, <1>3, <1>4, <3>2, PairTypes DEF CoverKept, Sales
    <3> QED
      BY <3>1, <3>3, <3>4, <3>5, <3>6 DEF PairInv
  <2>3. 0 \in Nat /\ 1 \in Nat
    OBVIOUS
  <2> QED
    BY <1>1, <1>4, <2>1, <2>2, <2>3, PayTypes DEF OpeningMark, WriteLedger
<1>5. CASE /\ ~Acquire /\ coin > 0 /\ Pay(0)
           /\ book' = "OPENING" /\ task' = Order("sellPerp", Least(PairSize, coin), 0)
           /\ UNCHANGED <<pair, ledger, unwritten>>
  <2>1. Least(PairSize, coin) \in Nat /\ troubles' \in Nat
    BY <1>1, <1>5, PayTypes DEF Least, PairTypeOK
  <2>2. /\ task' \in Tasks /\ task'.at = "order" /\ task'.job = "sellPerp" /\ task'.got = 0
    BY <1>1, <1>5, <2>1 DEF Order, PairTypeOK, Tasks, Places, Jobs, Covers, Sales
  <2>3. PairTypeOK'
    BY <1>1, <1>2, <1>5, <2>1, <2>2 DEF PairTypeOK, PairBooks
  <2>4. Placed' /\ PairAnswers' /\ LedgerKnown'
    BY <1>1, <1>2, <1>3, <1>5, <2>2 DEF PairInv, Placed, PairAnswers, LedgerKnown, Ordering, Unknown
  <2>5. OwnKnown'
    BY <1>3, <1>5, <2>2 DEF OwnKnown, Ordering, Covers
  <2> QED
    BY <1>3, <1>5, <2>3, <2>4, <2>5 DEF PairInv
<1> QED
  BY <1>4, <1>5 DEF OpenPair

LEMMA OrphanKeeps ==
    ASSUME PairInv, Orphan
    PROVE  PairInv'
<1>1. /\ book = "FLAT" /\ Halt(NoPair, 0) /\ UNCHANGED <<style, verified, market, doubt, guessed>>
      /\ guessed \in BOOLEAN
  BY DEF Orphan, Ready, observers, PairInv, PairTypeOK
<1>2. (~guessed => Own <= NoPair.perp) /\ (Acquire => coin <= NoPair.spot)
  BY <1>1, PairTypes DEF PairInv, OwnKnown, CoinKnown
<1> QED
  BY <1>1, <1>2, HaltKeeps, PairTypes

\* Where the thread is tells the state of the book, and that no order is astray.
LEMMA PlaceTells ==
    ASSUME PairInv, task.at # "idle"
    PROVE  /\ book \in {"OPENING", "HEDGED", "UNWINDING"} /\ ledger.book # "HALTED"
           /\ Ordering({"buySpot", "sellPerp"}) => book = "OPENING"
           /\ Ordering({"trimPerp", "buyPerp"}) => book = "HEDGED"
           /\ task.at \in {"confirm", "margin", "size", "cover", "decide", "trimmed"} => book = "HEDGED"
           /\ Ordering({"closePerp", "sellSpot", "saveSpot", "dumpSpot"}) => book = "UNWINDING"
           /\ task.at \in {"unwind", "reread"} => book = "UNWINDING"
           /\ task.at = "evidence" => book \in {"HEDGED", "UNWINDING"}
           /\ task.at # "answer" \/ task.got # Unknown => loose = NoOrder
           /\ task.at = "answer" /\ task.got = Unknown => doubt
<1>1. book \in {"OPENING", "HEDGED", "UNWINDING"}
  BY PairTypes DEF PairInv, PairTypeOK, Placed, PairBooks
<1> QED
  BY <1>1 DEF PairInv, Placed, PairAnswers, LedgerKnown, Ordering

LEMMA BoughtSpotKeeps ==
    ASSUME PairInv, BoughtSpot
    PROVE  PairInv'
<1>1. /\ task.at = "answer" /\ task.job = "buySpot"
      /\ UNCHANGED <<style, verified, market, doubt, guessed>>
      /\ PairTypeOK /\ Ordering({"buySpot"}) /\ Unknown = -1
  BY DEF BoughtSpot, Answered, observers, PairInv, Ordering, Unknown
<1>2. /\ book = "OPENING" /\ pair = NoPair /\ ledger.book # "HALTED" /\ Acquire
      /\ task.got # Unknown => loose = NoOrder
      /\ task.got = Unknown => doubt
      /\ task.got \in Nat \cup {Unknown} /\ task \in Tasks
      /\ guessed \in BOOLEAN /\ verified \in BOOLEAN
  BY <1>1, PlaceTells DEF PairInv, Ordering, PairTypeOK, Tasks, Placed
<1>3. (~guessed => Own = 0) /\ (task.got # Unknown => coin = task.got) /\ Own \in Nat
  BY <1>1, <1>2, OwnIs DEF PairInv, OwnKnown, CoinKnown
<1>4. CASE task.got = Unknown /\ Halt(NoPair, 0)
  BY <1>1, <1>2, <1>4, HaltKeeps, PairTypes
<1>5. CASE task.got = 0 /\ Refuse
  <2>1. /\ book' = "FLAT" /\ pair' = NoPair /\ task' = NoTask
        /\ ledger' \in {ledger, [book |-> "FLAT", pair |-> NoPair]}
        /\ unwritten' = unwritten
    BY <1>5 DEF Refuse
  <2>2. troubles' \in Nat /\ unwritten' \in BOOLEAN
    BY <1>1, <1>5, PayTypes DEF Refuse, PairTypeOK
  <2> QED
    BY <1>1, <1>2, <1>3, <1>5, <2>1, <2>2, FlatKeeps
<1>6. CASE task.got > 0 /\ Halt(Legs(task.got, 0), 1)
  BY <1>1, <1>2, <1>3, <1>6, HaltKeeps, PairTypes
<1>7. CASE task.got > 0 /\ Onward(Order("sellPerp", task.got, task.got)) /\ Pay(0)
  <2>0. task.got \in Nat
    BY <1>1, <1>2, <1>7
  <2>1. /\ task' \in Tasks /\ task'.at = "order" /\ task'.job = "sellPerp" /\ task'.got = 0
        /\ task'.qty = task.got /\ task'.keep = task.got
    BY <1>2, <1>7, <2>0 DEF Onward, Order, Tasks, Places, Jobs, Covers, Sales
  <2>2. /\ troubles' \in Nat /\ task.got \in Nat /\ loose = NoOrder /\ loose.job = "none"
        /\ UNCHANGED <<book, pair, ledger, unwritten>> /\ book' \in PairBooks /\ pair' \in Pairs
    BY <1>1, <1>2, <1>7, PayTypes, PairTypes DEF Onward, PairTypeOK
  <2>91. PairTypeOK' /\ Own' = Own /\ Acquire' = Acquire
    BY <1>1, <1>2, <1>3, <1>7, <2>1, <2>2, MoveTypes
  <2>92. Placed' /\ PairAnswers' /\ LedgerKnown'
    BY <1>1, <1>2, <1>3, <1>7, <2>1, <2>2, <2>91 DEF PairInv, Placed, PairAnswers, LedgerKnown, Ordering, market, PairTypeOK
  <2>93. ~guessed' => OwnKnown'
    BY <1>1, <1>2, <1>3, <1>7, <2>1, <2>2, <2>91 DEF PairInv, Placed, PairAnswers, OwnKnown, Ordering, Covers, GotFilled, Most, market, PairTypeOK, Pairs
  <2>94. Acquire => CoinKnown'
    BY <1>1, <1>2, <1>3, <1>7, <2>1, <2>2, <2>91 DEF PairInv, Placed, PairAnswers, CoinKnown, Ordering, Sales, market, PairTypeOK, Pairs
  <2>95. Acquire /\ ~guessed' => CoverKept'
    BY <1>1, <1>2, <1>3, <1>7, <2>1, <2>2, <2>91 DEF PairInv, Placed, PairAnswers, OwnKnown, CoinKnown, CoverKept, Ordering, Sales, market, PairTypeOK
  <2> QED
    BY <2>91, <2>92, <2>93, <2>94, <2>95 DEF PairInv

<1> QED
  BY <1>1, <1>4, <1>5, <1>6, <1>7 DEF BoughtSpot

LEMMA SoldPerpKeeps ==
    ASSUME PairInv, SoldPerp
    PROVE  PairInv'
<1>1. /\ task.at = "answer" /\ task.job = "sellPerp"
      /\ UNCHANGED <<style, verified, market, doubt, guessed>>
      /\ PairTypeOK /\ Ordering({"sellPerp"}) /\ Unknown = -1
  BY DEF SoldPerp, Answered, observers, PairInv, Ordering, Unknown
<1>2. /\ book = "OPENING" /\ pair = NoPair /\ ledger.book # "HALTED"
      /\ task.got # Unknown => loose = NoOrder
      /\ task.got = Unknown => doubt
      /\ task.got \in Nat \cup {Unknown} /\ task \in Tasks /\ task.keep \in Nat
      /\ guessed \in BOOLEAN /\ verified \in BOOLEAN /\ unwritten \in BOOLEAN /\ task.got <= task.qty
  BY <1>1, PlaceTells DEF PairInv, Ordering, PairTypeOK, Tasks, Placed, PairAnswers
<1>3. /\ ~guessed /\ task.got # Unknown => Own <= task.got
      /\ Acquire => coin = task.keep /\ task.qty = task.keep /\ task.keep > 0 /\ ledger.book # "FLAT"
      /\ Own \in Nat
  BY <1>1, <1>2, OwnIs DEF PairInv, OwnKnown, CoinKnown
<1>4. ASSUME NEW n \in Nat, NEW p \in Pairs, NEW next \in Tasks, next.at \in {"idle", "confirm"},
             task.got \in Nat,
             WriteLedger("HEDGED", p, next, n), p.perp = task.got,
             Acquire => p.spot = task.keep /\ p.perp = task.keep
      PROVE  PairInv'
  <2>1. troubles' \in Nat /\ n + 1 \in Nat
    BY <1>1, <1>4, PayTypes DEF WriteLedger
  <2>2. CASE /\ book' = "HEDGED" /\ ledger' = [book |-> "HEDGED", pair |-> p] /\ task' = next
             /\ pair' = p /\ unwritten' = unwritten
    BY <1>1, <1>2, <1>3, <1>4, <2>1, <2>2, HeldKeeps
  <2>3. CASE /\ book' = "HALTED" /\ task' = NoTask /\ pair' = p /\ UNCHANGED <<ledger, unwritten>>
    BY <1>1, <1>2, <1>3, <1>4, <2>1, <2>3, HaltedKeeps
  <2> QED
    BY <1>4, <2>2, <2>3 DEF WriteLedger
<1>5. CASE Acquire /\ PairedUp
  <2>1. CASE task.got = Unknown /\ Halt(Legs(task.keep, 0), 0)
    BY <1>1, <1>2, <1>3, <2>1, HaltKeeps, PairTypes
  <2>2. CASE /\ task.got = 0 /\ Pay(0)
             /\ book' = "UNWINDING" /\ task' = Order("dumpSpot", task.keep, task.keep)
             /\ UNCHANGED <<pair, ledger, unwritten>>
    <3>1. /\ task' \in Tasks /\ task'.at = "order" /\ task'.job = "dumpSpot" /\ task'.got = 0
          /\ task'.qty = task.keep /\ task'.keep = task.keep
      BY <1>1, <1>2, <2>2 DEF Order, Tasks, Places, Jobs, Covers, Sales
    <3>2. /\ troubles' \in Nat /\ loose = NoOrder /\ loose.job = "none" /\ Acquire
          /\ book' \in PairBooks /\ pair' \in Pairs /\ pair.perp = 0
          /\ UNCHANGED <<pair, ledger, unwritten>>
      BY <1>1, <1>2, <1>5, <2>2, PayTypes, PairTypes DEF PairBooks
    <3>91. PairTypeOK' /\ Own' = Own /\ Acquire' = Acquire
      BY <1>1, <1>2, <1>3, <2>2, <3>1, <3>2, MoveTypes
    <3>92. Placed' /\ PairAnswers' /\ LedgerKnown'
      BY <1>1, <1>2, <1>3, <2>2, <3>1, <3>2, <3>91 DEF PairInv, Placed, PairAnswers, LedgerKnown, Ordering, market, PairTypeOK
    <3>93. ~guessed' => OwnKnown'
      BY <1>1, <1>2, <1>3, <2>2, <3>1, <3>2, <3>91 DEF PairInv, Placed, PairAnswers, OwnKnown, Ordering, Covers, GotFilled, Most, market, PairTypeOK, Pairs
    <3>94. Acquire => CoinKnown'
      BY <1>1, <1>2, <1>3, <2>2, <3>1, <3>2, <3>91 DEF PairInv, Placed, PairAnswers, CoinKnown, Ordering, Sales, market, PairTypeOK, Pairs
    <3>95. Acquire /\ ~guessed' => CoverKept'
      BY <1>1, <1>2, <1>3, <2>2, <3>1, <3>2, <3>91 DEF PairInv, Placed, PairAnswers, OwnKnown, CoinKnown, CoverKept, Ordering, Sales, market, PairTypeOK
    <3> QED
      BY <3>91, <3>92, <3>93, <3>94, <3>95 DEF PairInv

  <2>3. CASE task.got \in 1 .. task.keep - 1 /\ StartUnwind(Legs(task.keep, task.got))
    <3>1. /\ task' \in Tasks /\ task'.at = "unwind" /\ task'.job = "none" /\ task'.got = 0
      BY <1>1, <2>3 DEF StartUnwind, NoTask, Tasks, Places, Jobs, PairTypeOK
    <3>2. /\ troubles' \in Nat /\ loose = NoOrder /\ loose.job = "none" /\ Acquire
          /\ book' = "UNWINDING" /\ book' \in PairBooks /\ UNCHANGED <<ledger, unwritten>>
      BY <1>1, <1>2, <1>5, <2>3, PayTypes, PairTypes DEF StartUnwind, PairBooks
    <3>3. pair' \in Pairs /\ pair'.spot = task.keep /\ pair'.perp = task.got
      BY <1>2, <2>3, PairTypes DEF StartUnwind
    <3>91. PairTypeOK' /\ Own' = Own /\ Acquire' = Acquire
      BY <1>1, <1>2, <1>3, <2>3, <3>1, <3>2, <3>3, MoveTypes
    <3>92. Placed' /\ PairAnswers' /\ LedgerKnown'
      BY <1>1, <1>2, <1>3, <2>3, <3>1, <3>2, <3>3, <3>91 DEF PairInv, Placed, PairAnswers, LedgerKnown, Ordering, market, PairTypeOK
    <3>93. ~guessed' => OwnKnown'
      BY <1>1, <1>2, <1>3, <2>3, <3>1, <3>2, <3>3, <3>91 DEF PairInv, Placed, PairAnswers, OwnKnown, Ordering, Covers, GotFilled, Most, market, PairTypeOK, Pairs
    <3>94. Acquire => CoinKnown'
      BY <1>1, <1>2, <1>3, <2>3, <3>1, <3>2, <3>3, <3>91 DEF PairInv, Placed, PairAnswers, CoinKnown, Ordering, Sales, market, PairTypeOK, Pairs
    <3>95. Acquire /\ ~guessed' => CoverKept'
      BY <1>1, <1>2, <1>3, <2>3, <3>1, <3>2, <3>3, <3>91 DEF PairInv, Placed, PairAnswers, OwnKnown, CoinKnown, CoverKept, Ordering, Sales, market, PairTypeOK
    <3> QED
      BY <3>91, <3>92, <3>93, <3>94, <3>95 DEF PairInv

  <2>4. CASE /\ task.got = task.keep
             /\ WriteLedger("HEDGED", Legs(task.keep, task.keep), [NoTask EXCEPT !.at = "confirm"], 0)
    <3> DEFINE next == [NoTask EXCEPT !.at = "confirm"]
               p == Legs(task.keep, task.keep)
    <3>1. next \in Tasks /\ next.at = "confirm"
      BY DEF NoTask, Tasks, Places, Jobs
    <3>2. p \in Pairs /\ p.spot = task.keep /\ p.perp = task.keep /\ task.got \in Nat
      BY <1>2, <2>4, PairTypes
    <3>3. WriteLedger("HEDGED", p, next, 0) /\ task.got = task.keep
      BY <2>4
    <3> HIDE DEF next, p
    <3> QED
      BY <1>4, <3>1, <3>2, <3>3
  <2> QED
    BY <1>5, <2>1, <2>2, <2>3, <2>4 DEF PairedUp
<1>6. CASE ~Acquire /\ task.got = Unknown /\ Halt(NoPair, 0)
  BY <1>1, <1>2, <1>6, HaltKeeps, PairTypes
<1>7. CASE ~Acquire /\ task.got = 0 /\ Refuse
  <2>1. /\ book' = "FLAT" /\ pair' = NoPair /\ task' = NoTask
        /\ ledger' \in {ledger, [book |-> "FLAT", pair |-> NoPair]}
        /\ unwritten' = unwritten
    BY <1>7 DEF Refuse
  <2>2. troubles' \in Nat /\ unwritten' \in BOOLEAN
    BY <1>1, <1>7, PayTypes DEF Refuse, PairTypeOK
  <2> QED
    BY <1>1, <1>2, <1>3, <1>7, <2>1, <2>2, FlatKeeps
<1>8. CASE ~Acquire /\ task.got > 0 /\ WriteLedger("HEDGED", Legs(task.got, task.got), NoTask, 0)
  BY <1>1, <1>2, <1>4, <1>8, PairTypes
<1> QED
  BY <1>5, <1>6, <1>7, <1>8 DEF SoldPerp

LEMMA ConfirmOpenKeeps ==
    ASSUME PairInv, ConfirmOpen
    PROVE  PairInv'
<1>1. /\ task.at = "confirm" /\ task' = NoTask /\ PairTypeOK
      /\ UNCHANGED <<book, pair, ledger, unwritten, style, market, doubt, guessed>>
  BY DEF ConfirmOpen, Onward, observers, PairInv
<1>2. /\ book = "HEDGED" /\ loose = NoOrder /\ loose.job = "none"
      /\ task' \in Tasks /\ task'.at = "idle" /\ task'.job = "none"
      /\ book' \in PairBooks /\ pair' \in Pairs /\ guessed' \in BOOLEAN
  BY <1>1, PlaceTells, PairTypes DEF PairTypeOK
<1>3. troubles' \in Nat /\ verified' \in BOOLEAN
  BY <1>1, PayTypes DEF ConfirmOpen, PairTypeOK
<1>91. PairTypeOK' /\ Own' = Own /\ Acquire' = Acquire
  BY <1>1, <1>2, <1>3, MoveTypes
<1>92. Placed' /\ PairAnswers' /\ LedgerKnown'
  BY <1>1, <1>2, <1>3, <1>91 DEF PairInv, Placed, PairAnswers, LedgerKnown, Ordering, market, PairTypeOK
<1>93. ~guessed' => OwnKnown'
  BY <1>1, <1>2, <1>3, <1>91 DEF PairInv, Placed, PairAnswers, OwnKnown, Ordering, Covers, GotFilled, Most, market, PairTypeOK, Pairs
<1>94. Acquire => CoinKnown'
  BY <1>1, <1>2, <1>3, <1>91 DEF PairInv, Placed, PairAnswers, CoinKnown, Ordering, Sales, market, PairTypeOK, Pairs
<1>95. Acquire /\ ~guessed' => CoverKept'
  BY <1>1, <1>2, <1>3, <1>91 DEF PairInv, Placed, PairAnswers, OwnKnown, CoinKnown, CoverKept, Ordering, Sales, market, PairTypeOK
<1> QED
  BY <1>91, <1>92, <1>93, <1>94, <1>95 DEF PairInv

LEMMA DumpedSpotKeeps ==
    ASSUME PairInv, DumpedSpot
    PROVE  PairInv'
<1>1. /\ task.at = "answer" /\ task.job = "dumpSpot"
      /\ UNCHANGED <<style, verified, market, doubt, guessed>>
      /\ PairTypeOK /\ Ordering({"dumpSpot"}) /\ Unknown = -1
  BY DEF DumpedSpot, Answered, observers, PairInv, Ordering, Unknown
<1>2. /\ book = "UNWINDING" /\ ledger.book # "HALTED" /\ Acquire
      /\ task.got # Unknown => loose = NoOrder
      /\ task.got = Unknown => doubt
      /\ task.got \in Nat \cup {Unknown} /\ task.keep \in Nat /\ task.got <= task.qty
      /\ guessed \in BOOLEAN /\ verified \in BOOLEAN /\ unwritten \in BOOLEAN
  BY <1>1, PlaceTells DEF PairInv, Ordering, PairTypeOK, Tasks, Placed, PairAnswers
<1>3. /\ ~guessed => Own = 0
      /\ task.keep = task.qty
      /\ task.got # Unknown => coin = task.keep - task.got
      /\ Own \in Nat /\ coin \in Nat
  BY <1>1, <1>2, OwnIs DEF PairInv, OwnKnown, CoinKnown, Ordering, PairTypeOK
<1>4. CASE task.got = task.keep /\ WriteLedger("FLAT", NoPair, NoTask, 0)
  <2>1. troubles' \in Nat
    BY <1>1, <1>4, PayTypes DEF WriteLedger
  <2>2. loose = NoOrder /\ coin = 0
    BY <1>1, <1>2, <1>3, <1>4
  <2>3. CASE /\ book' = "FLAT" /\ ledger' = [book |-> "FLAT", pair |-> NoPair] /\ task' = NoTask
             /\ pair' = NoPair /\ unwritten' = unwritten
    BY <1>1, <1>2, <1>3, <2>1, <2>2, <2>3, FlatKeeps
  <2>4. CASE /\ book' = "HALTED" /\ task' = NoTask /\ pair' = NoPair /\ UNCHANGED <<ledger, unwritten>>
    BY <1>1, <1>2, <1>3, <2>1, <2>2, <2>4, HaltedKeeps, PairTypes
  <2> QED
    BY <1>4, <2>3, <2>4 DEF WriteLedger
<1>5. CASE task.got # task.keep /\ Halt(DumpLeft(task.keep - Most(task.got, 0)), 0)
  <2>1. task.keep - Most(task.got, 0) \in Nat /\ (task.got # Unknown => Most(task.got, 0) = task.got)
    BY <1>1, <1>2, <1>3 DEF Most
  <2>2. /\ DumpLeft(task.keep - Most(task.got, 0)) \in Pairs
        /\ DumpLeft(task.keep - Most(task.got, 0)).spot = task.keep - Most(task.got, 0)
        /\ DumpLeft(task.keep - Most(task.got, 0)).perp = 0
    BY <2>1, PairTypes DEF DumpLeft
  <2> QED
    BY <1>1, <1>2, <1>3, <1>5, <2>1, <2>2, HaltKeeps
<1> QED
  BY <1>4, <1>5 DEF DumpedSpot

-------------------------------------------------------------------------------
(***************************************************************************)
(* Closing.                                                                *)
(***************************************************************************)

LEMMA WriteFlatKeeps ==
    ASSUME PairInv, NEW n \in Nat, WriteLedger("FLAT", NoPair, NoTask, n),
           ledger.book # "HALTED", loose = NoOrder,
           UNCHANGED <<style, verified, market, doubt>>,
           guessed' \in BOOLEAN, guessed => guessed',
           ~guessed' => Own = 0, Acquire => coin = 0
    PROVE  PairInv'
<1>1. /\ pair' = NoPair /\ task' = NoTask /\ unwritten' = unwritten
      /\ \/ book' = "FLAT" /\ ledger' = [book |-> "FLAT", pair |-> NoPair]
         \/ book' = "HALTED" /\ ledger' = ledger
  BY DEF WriteLedger
<1>2. troubles' \in Nat /\ unwritten' \in BOOLEAN /\ verified' \in BOOLEAN
  <2>1. n + 1 \in Nat
    OBVIOUS
  <2> QED
    BY <1>1, <2>1, PayTypes DEF WriteLedger, PairInv, PairTypeOK
<1>3. CASE book' = "FLAT"
  BY <1>1, <1>2, <1>3, FlatKeeps
<1>4. CASE book' = "HALTED"
  BY <1>1, <1>2, <1>4, HaltedKeeps, PairTypes DEF PairInv, PairTypeOK
<1> QED
  BY <1>1, <1>3, <1>4

LEMMA WriteHeldKeeps ==
    ASSUME PairInv, NEW n \in Nat, NEW p \in Pairs, WriteLedger("HEDGED", p, NoTask, n),
           ledger.book # "HALTED", loose = NoOrder,
           UNCHANGED <<style, verified, market, doubt, guessed>>,
           ~guessed => Own <= p.perp,
           Acquire => coin = p.spot /\ p.spot = p.perp /\ p.perp > 0
    PROVE  PairInv'
<1>1. /\ pair' = p /\ task' = NoTask /\ unwritten' = unwritten
      /\ \/ book' = "HEDGED" /\ ledger' = [book |-> "HEDGED", pair |-> p]
         \/ book' = "HALTED" /\ ledger' = ledger
  BY DEF WriteLedger
<1>2. /\ troubles' \in Nat /\ unwritten' \in BOOLEAN /\ verified' \in BOOLEAN
      /\ guessed' \in BOOLEAN /\ coin \in Nat
  <2>1. n + 1 \in Nat
    OBVIOUS
  <2> QED
    BY <1>1, <2>1, PayTypes DEF WriteLedger, PairInv, PairTypeOK
<1>3. CASE book' = "HEDGED"
  BY <1>1, <1>2, <1>3, HeldKeeps, PairTypes
<1>4. CASE book' = "HALTED"
  BY <1>1, <1>2, <1>4, HaltedKeeps
<1> QED
  BY <1>1, <1>3, <1>4

LEMMA SizeCloseKeeps ==
    ASSUME PairInv, SizeClose
    PROVE  PairInv'
<1>1. /\ task.at = "unwind" /\ PairTypeOK
      /\ UNCHANGED <<book, pair, ledger, unwritten, style, verified, market, doubt, guessed>>
  BY DEF SizeClose, Onward, observers, PairInv
<1>2. /\ book = "UNWINDING" /\ loose = NoOrder /\ loose.job = "none" /\ task \in Tasks
      /\ book' \in PairBooks /\ pair' \in Pairs /\ guessed' \in BOOLEAN /\ verified' \in BOOLEAN
      /\ pair.perp \in Nat
  BY <1>1, PlaceTells, PairTypes DEF PairTypeOK, Pairs
<1>3. PICK r \in ShortReads :
        Pay(r.n) /\ task' = Order("closePerp", IF r.v > 0 THEN r.v ELSE pair.perp, 0)
  BY DEF SizeClose, Onward
<1>4. troubles' \in Nat /\ (r.v > 0 => r.v \in Nat)
  BY <1>1, <1>3, PayTypes, ReadTypes DEF Unread
<1>5. /\ task' \in Tasks /\ task'.at = "order" /\ task'.job = "closePerp" /\ task'.got = 0
  BY <1>2, <1>3, <1>4 DEF Order, Tasks, Places, Jobs, Covers, Sales
<1>91. PairTypeOK' /\ Own' = Own /\ Acquire' = Acquire
  BY <1>1, <1>2, <1>4, <1>5, MoveTypes
<1>92. Placed' /\ PairAnswers' /\ LedgerKnown'
  BY <1>1, <1>2, <1>4, <1>5, <1>91 DEF PairInv, Placed, PairAnswers, LedgerKnown, Ordering, market, PairTypeOK
<1>93. ~guessed' => OwnKnown'
  BY <1>1, <1>2, <1>4, <1>5, <1>91 DEF PairInv, Placed, PairAnswers, OwnKnown, Ordering, Covers, GotFilled, Most, market, PairTypeOK, Pairs
<1>94. Acquire => CoinKnown'
  BY <1>1, <1>2, <1>4, <1>5, <1>91 DEF PairInv, Placed, PairAnswers, CoinKnown, Ordering, Sales, market, PairTypeOK, Pairs
<1>95. Acquire /\ ~guessed' => CoverKept'
  BY <1>1, <1>2, <1>4, <1>5, <1>91 DEF PairInv, Placed, PairAnswers, OwnKnown, CoinKnown, CoverKept, Ordering, Sales, market, PairTypeOK
<1> QED
  BY <1>91, <1>92, <1>93, <1>94, <1>95 DEF PairInv

LEMMA ClosedPerpKeeps ==
    ASSUME PairInv, ClosedPerp
    PROVE  PairInv'
<1>1. /\ task.at = "answer" /\ task.job = "closePerp"
      /\ UNCHANGED <<style, verified, market, doubt, guessed>>
      /\ PairTypeOK /\ Ordering({"closePerp"}) /\ Unknown = -1
  BY DEF ClosedPerp, Answered, observers, PairInv, Ordering, Unknown
<1>2. /\ book = "UNWINDING" /\ ledger.book # "HALTED"
      /\ task.got # Unknown => loose = NoOrder
      /\ task.got = Unknown => doubt
      /\ task.got \in Nat \cup {Unknown} /\ task.got <= task.qty
      /\ guessed \in BOOLEAN /\ verified \in BOOLEAN /\ pair \in Pairs /\ task \in Tasks
  BY <1>1, PlaceTells DEF PairInv, Ordering, PairTypeOK, Tasks, PairAnswers
<1>3. /\ ~guessed => Own <= pair.perp
      /\ Acquire => coin = pair.spot
      /\ Own \in Nat
  BY <1>1, <1>2, OwnIs DEF PairInv, OwnKnown, CoinKnown, Ordering, Sales
<1>4. CASE task.got \in {0, Unknown} /\ Halt(pair, 0)
  BY <1>1, <1>2, <1>3, <1>4, HaltKeeps DEF Pairs
<1>5. CASE task.got = 0 /\ Acquire /\ Onward(Step("evidence")) /\ Pay(0)
  <2>1. /\ task' \in Tasks /\ task'.at = "evidence" /\ task'.got = 0 /\ task'.job = "closePerp"
    BY <1>1, <1>2, <1>5 DEF Onward, Step, Tasks, Places
  <2>2. /\ troubles' \in Nat /\ loose = NoOrder /\ loose.job = "none"
        /\ UNCHANGED <<book, pair, ledger, unwritten>> /\ book' \in PairBooks
    BY <1>1, <1>2, <1>5, PayTypes, PairTypes DEF Onward, PairTypeOK
  <2>91. PairTypeOK' /\ Own' = Own /\ Acquire' = Acquire
    BY <1>1, <1>2, <1>3, <1>5, <2>1, <2>2, MoveTypes
  <2>92. Placed' /\ PairAnswers' /\ LedgerKnown'
    BY <1>1, <1>2, <1>3, <1>5, <2>1, <2>2, <2>91 DEF PairInv, Placed, PairAnswers, LedgerKnown, Ordering, market, PairTypeOK
  <2>93. ~guessed' => OwnKnown'
    BY <1>1, <1>2, <1>3, <1>5, <2>1, <2>2, <2>91 DEF PairInv, Placed, PairAnswers, OwnKnown, Ordering, Covers, GotFilled, Most, market, PairTypeOK, Pairs
  <2>94. Acquire => CoinKnown'
    BY <1>1, <1>2, <1>3, <1>5, <2>1, <2>2, <2>91 DEF PairInv, Placed, PairAnswers, CoinKnown, Ordering, Sales, market, PairTypeOK, Pairs
  <2>95. Acquire /\ ~guessed' => CoverKept'
    BY <1>1, <1>2, <1>3, <1>5, <2>1, <2>2, <2>91 DEF PairInv, Placed, PairAnswers, OwnKnown, CoinKnown, CoverKept, Ordering, Sales, market, PairTypeOK
  <2> QED
    BY <2>91, <2>92, <2>93, <2>94, <2>95 DEF PairInv

<1>6. CASE task.got > 0 /\ Onward(Step("reread")) /\ Pay(0)
  <2>1. /\ task' \in Tasks /\ task'.at = "reread" /\ task'.got = task.got /\ task'.qty = task.qty
        /\ task'.job = "closePerp"
    BY <1>1, <1>2, <1>6 DEF Onward, Step, Tasks, Places
  <2>2. /\ troubles' \in Nat /\ loose = NoOrder /\ loose.job = "none" /\ task.got \in Nat
        /\ UNCHANGED <<book, pair, ledger, unwritten>> /\ book' \in PairBooks
    BY <1>1, <1>2, <1>6, PayTypes, PairTypes DEF Onward, PairTypeOK
  <2>91. PairTypeOK' /\ Own' = Own /\ Acquire' = Acquire
    BY <1>1, <1>2, <1>3, <1>6, <2>1, <2>2, MoveTypes
  <2>92. Placed' /\ PairAnswers' /\ LedgerKnown'
    BY <1>1, <1>2, <1>3, <1>6, <2>1, <2>2, <2>91 DEF PairInv, Placed, PairAnswers, LedgerKnown, Ordering, market, PairTypeOK
  <2>93. ~guessed' => OwnKnown'
    BY <1>1, <1>2, <1>3, <1>6, <2>1, <2>2, <2>91 DEF PairInv, Placed, PairAnswers, OwnKnown, Ordering, Covers, GotFilled, Most, market, PairTypeOK, Pairs
  <2>94. Acquire => CoinKnown'
    BY <1>1, <1>2, <1>3, <1>6, <2>1, <2>2, <2>91 DEF PairInv, Placed, PairAnswers, CoinKnown, Ordering, Sales, market, PairTypeOK, Pairs
  <2>95. Acquire /\ ~guessed' => CoverKept'
    BY <1>1, <1>2, <1>3, <1>6, <2>1, <2>2, <2>91 DEF PairInv, Placed, PairAnswers, OwnKnown, CoinKnown, CoverKept, Ordering, Sales, market, PairTypeOK
  <2> QED
    BY <2>91, <2>92, <2>93, <2>94, <2>95 DEF PairInv

<1> QED
  BY <1>4, <1>5, <1>6 DEF ClosedPerp

LEMMA RereadKeeps ==
    ASSUME PairInv, RereadShort
    PROVE  PairInv'
<1> DEFINE byFills == task.qty - task.got
<1>1. /\ task.at = "reread" /\ PairTypeOK
      /\ UNCHANGED <<style, verified, market, doubt>>
  BY DEF RereadShort, PairInv
<1>2. PICK r \in ShortReads :
        /\ \/ Acquire /\ AcquireClosed(r, ShortLeft(byFills, r.v))
           \/ ~Acquire /\ OverlayClosed(r, byFills, ShortLeft(byFills, r.v))
        /\ guessed' = (guessed \/ (r.v = Unread /\ task.qty < pair.perp))
  BY DEF RereadShort
<1> DEFINE left == ShortLeft(byFills, r.v)
<1>3. /\ book = "UNWINDING" /\ ledger.book # "HALTED" /\ loose = NoOrder /\ loose.job = "none"
      /\ task.got \in 1 .. task.qty /\ task.qty \in Nat \ {0}
      /\ guessed \in BOOLEAN /\ verified \in BOOLEAN /\ pair \in Pairs /\ task \in Tasks
      /\ ~Ordering(Sales) /\ short \in Nat /\ was \in Nat
  BY <1>1, PlaceTells, PairTypes DEF PairInv, Ordering, PairTypeOK, Tasks, PairAnswers
<1>4. /\ guessed' \in BOOLEAN /\ (guessed => guessed')
      /\ ~guessed' /\ r.v = Unread => pair.perp <= task.qty
      /\ pair.perp \in Nat /\ pair.spot \in Nat
  <2>1. pair.perp \in Nat /\ pair.spot \in Nat
    BY <1>3 DEF Pairs
  <2>2. guessed' = (guessed \/ (r.v = Unread /\ task.qty < pair.perp))
    BY <1>2
  <2>3. guessed' \in BOOLEAN /\ (guessed => guessed')
    BY <2>2
  <2>4. ~guessed' /\ r.v = Unread => ~(task.qty < pair.perp)
    BY <2>2
  <2> QED
    BY <1>3, <2>1, <2>3, <2>4
<1>5. /\ Acquire => coin = pair.spot /\ pair.perp \in 1 .. pair.spot
      /\ Own \in Nat /\ Own <= short
      /\ ~guessed => Own <= pair.perp /\ (Own = 0 \/ Own <= pair.perp - task.got) /\ Own <= was
  BY <1>1, <1>3, OwnIs DEF PairInv, OwnKnown, CoinKnown, GotFilled, Most
<1>6. r.n \in Nat /\ r.v \in Nat \cup {-1} /\ Unread = -1 /\ (r.v # Unread => r.v >= short \/ r.v >= was)
  BY <1>1, ReadTypes DEF Unread
<1>7. byFills \in Nat /\ left \in Nat /\ left >= byFills /\ left >= r.v
      /\ (r.v = Unread => left = byFills)
  BY <1>3, <1>6 DEF ShortLeft, Most
<1>8. ~guessed' => Own <= left
  BY <1>3, <1>4, <1>5, <1>6, <1>7
<1>90. \/ Acquire /\ AcquireClosed(r, left)
       \/ ~Acquire /\ OverlayClosed(r, byFills, left)
  BY <1>2
<1> HIDE DEF left
<1>9. ASSUME Acquire, AcquireClosed(r, left) PROVE PairInv'
  <2> DEFINE sell == SpotToSell(r, left)
             kept == Least(left, pair.perp)
  <2>1. kept \in Nat /\ kept <= pair.perp /\ (kept = left \/ kept = pair.perp)
    BY <1>4, <1>7 DEF Least
  <2>2. sell \in Nat /\ sell <= pair.spot
    <3>1. CASE r.v = Unread
      <4>1. (pair.spot * task.got) \div task.qty \in Nat
            /\ (pair.spot * task.got) \div task.qty <= pair.spot
        BY <1>3, <1>4, <1>5, <1>9, ProportionOfFill, SMTT(30)
      <4> QED
        BY <3>1, <4>1 DEF SpotToSell
    <3>2. CASE r.v # Unread
      <4>1. (pair.spot * (pair.perp - kept)) \div pair.perp \in Nat
            /\ (pair.spot * (pair.perp - kept)) \div pair.perp <= pair.spot - kept
        BY <1>4, <1>5, <1>9, <2>1, ProportionOfRead
      <4> QED
        BY <1>4, <2>1, <3>2, <4>1 DEF SpotToSell
    <3> QED
      BY <3>1, <3>2
  <2>3. ~guessed' => Own + sell <= pair.spot
    <3> SUFFICES ASSUME ~guessed' PROVE Own + sell <= pair.spot
      OBVIOUS
    <3>1. CASE r.v = Unread /\ Own > 0
      <4>1. Own <= pair.perp - task.got /\ task.got <= pair.perp /\ pair.perp <= task.qty
        BY <1>3, <1>4, <1>5, <3>1
      <4>2. (pair.spot * task.got) \div task.qty <= pair.spot - (pair.perp - task.got)
        BY <1>3, <1>4, <1>5, <1>9, <4>1, ProportionOfFill, SMTT(30)
      <4>3. sell <= pair.spot - (pair.perp - task.got)
        BY <3>1, <4>2 DEF SpotToSell
      <4> HIDE DEF sell
      <4> QED
        BY <1>3, <1>4, <1>5, <2>2, <4>1, <4>3
    <3>2. CASE r.v # Unread
      <4>1. (pair.spot * (pair.perp - kept)) \div pair.perp <= pair.spot - kept
        BY <1>4, <1>5, <1>9, <2>1, ProportionOfRead
      <4>2. sell <= pair.spot - kept
        BY <3>2, <4>1 DEF SpotToSell
      <4>3. Own <= kept
        BY <1>4, <1>5, <1>8, <2>1
      <4> HIDE DEF sell, kept
      <4> QED
        BY <1>4, <1>5, <2>1, <2>2, <4>2, <4>3
    <3>3. CASE Own = 0
      <4> HIDE DEF sell
      <4> QED
        BY <1>4, <2>2, <3>3
    <3> QED
      BY <1>5, <3>1, <3>2, <3>3
  <2>30. \/ sell > 0 /\ Onward(Order("sellSpot", sell, left)) /\ Pay(r.n)
         \/ Halt(Legs(pair.spot, left), r.n)
    <3>1. IF SpotToSell(r, left) > 0
          THEN Onward(Order("sellSpot", SpotToSell(r, left), left)) /\ Pay(r.n)
          ELSE Halt(Legs(pair.spot, left), r.n)
      BY <1>9 DEF AcquireClosed
    <3> QED
      BY <3>1
  <2> HIDE DEF sell
  <2>4. CASE sell > 0 /\ Onward(Order("sellSpot", sell, left)) /\ Pay(r.n)
    <3>1. /\ task' \in Tasks /\ task'.at = "order" /\ task'.job = "sellSpot" /\ task'.got = 0
          /\ task'.qty = sell /\ task'.keep = left
      BY <1>3, <1>7, <2>2, <2>4 DEF Onward, Order, Tasks, Places, Jobs, Covers, Sales
    <3>2. /\ troubles' \in Nat /\ UNCHANGED <<book, pair, ledger, unwritten>> /\ book' \in PairBooks
          /\ pair' \in Pairs
      BY <1>1, <1>3, <1>6, <2>4, PayTypes DEF Onward, PairTypeOK
    <3>91. PairTypeOK' /\ Own' = Own /\ Acquire' = Acquire
      BY <1>1, <1>3, <1>4, <1>5, <1>8, <1>9, <2>2, <2>3, <2>4, <3>1, <3>2, MoveTypes
    <3>92. Placed' /\ PairAnswers' /\ LedgerKnown'
      BY <1>1, <1>3, <1>4, <1>5, <1>8, <1>9, <2>2, <2>3, <2>4, <3>1, <3>2, <3>91 DEF PairInv, Placed, PairAnswers, LedgerKnown, Ordering, market, PairTypeOK
    <3>93. ~guessed' => OwnKnown'
      BY <1>1, <1>3, <1>4, <1>5, <1>8, <1>9, <2>2, <2>3, <2>4, <3>1, <3>2, <3>91 DEF PairInv, Placed, PairAnswers, OwnKnown, Ordering, Covers, GotFilled, Most, market, PairTypeOK, Pairs
    <3>94. Acquire => CoinKnown'
      BY <1>1, <1>3, <1>4, <1>5, <1>8, <1>9, <2>2, <2>3, <2>4, <3>1, <3>2, <3>91 DEF PairInv, Placed, PairAnswers, CoinKnown, Ordering, Sales, market, PairTypeOK, Pairs
    <3>95. Acquire /\ ~guessed' => CoverKept'
      BY <1>1, <1>3, <1>4, <1>5, <1>8, <1>9, <2>2, <2>3, <2>4, <3>1, <3>2, <3>91 DEF PairInv, Placed, PairAnswers, OwnKnown, CoinKnown, CoverKept, Ordering, Sales, market, PairTypeOK
    <3> QED
      BY <3>91, <3>92, <3>93, <3>94, <3>95 DEF PairInv

  <2>5. CASE Halt(Legs(pair.spot, left), r.n)
    <3> DEFINE p == Legs(pair.spot, left)
    <3>1. p \in Pairs /\ p.spot = pair.spot /\ p.perp = left
      BY <1>4, <1>7, PairTypes
    <3>2. Halt(p, r.n) /\ r.n \in Nat /\ book \notin {"HALTED", "OFF", "REFUSED"}
      BY <1>3, <1>6, <2>5
    <3> HIDE DEF p
    <3>3. (~guessed' /\ ~doubt => Own <= p.perp) /\ (Acquire /\ ~doubt => coin <= p.spot)
      BY <1>4, <1>5, <1>8, <3>1
    <3> QED
      BY <1>1, <1>4, <3>1, <3>2, <3>3, HaltKeeps
  <2> QED
    BY <2>30, <2>4, <2>5
<1>10. ASSUME ~Acquire, OverlayClosed(r, byFills, left) PROVE PairInv'
  <2>1. CASE /\ r.v = Unread
             /\ Halt(IF byFills > 0 THEN [pair EXCEPT !.perp = byFills] ELSE pair, r.n)
    <3> DEFINE p == IF byFills > 0 THEN [pair EXCEPT !.perp = byFills] ELSE pair
    <3>1. p \in Pairs /\ (p.perp = byFills \/ p.perp = pair.perp)
      BY <1>3, <1>7 DEF Pairs
    <3>2. ~guessed' => Own <= p.perp
      BY <1>3, <1>4, <1>5, <1>7, <1>8, <2>1, <3>1
    <3>3. Halt(p, r.n)
      BY <2>1
    <3> HIDE DEF p
    <3> QED
      BY <1>1, <1>3, <1>4, <1>6, <1>10, <3>1, <3>2, <3>3, HaltKeeps
  <2>2. CASE r.v # Unread /\ left > 0 /\ Halt(Legs(Least(left, pair.spot), left), r.n)
    <3>1. Least(left, pair.spot) \in Nat
      BY <1>4, <1>7 DEF Least
    <3> QED
      BY <1>1, <1>3, <1>4, <1>6, <1>7, <1>8, <1>10, <2>2, <3>1, HaltKeeps, PairTypes
  <2>3. CASE r.v # Unread /\ left = 0 /\ WriteLedger("FLAT", NoPair, NoTask, r.n)
    BY <1>1, <1>3, <1>4, <1>5, <1>6, <1>8, <1>10, <2>3, WriteFlatKeeps
  <2> QED
    BY <1>10, <2>1, <2>2, <2>3 DEF OverlayClosed
<1> QED
  BY <1>9, <1>10, <1>90

LEMMA SoldSpotKeeps ==
    ASSUME PairInv, SoldSpot
    PROVE  PairInv'
<1> DEFINE left == Legs(pair.spot - Most(task.got, 0), task.keep)
<1>1. /\ task.at = "answer" /\ task.job = "sellSpot"
      /\ UNCHANGED <<style, verified, market, doubt, guessed>>
      /\ PairTypeOK /\ Ordering({"sellSpot"}) /\ Unknown = -1
      /\ IF left = NoPair THEN WriteLedger("FLAT", NoPair, NoTask, 0) ELSE Halt(left, 0)
  BY DEF SoldSpot, Answered, observers, PairInv, Ordering, Unknown
<1>2. /\ book = "UNWINDING" /\ ledger.book # "HALTED" /\ Acquire
      /\ task.got # Unknown => loose = NoOrder
      /\ task.got = Unknown => doubt
      /\ task.got \in Nat \cup {Unknown} /\ task.got <= task.qty /\ task.keep \in Nat
      /\ guessed \in BOOLEAN /\ verified \in BOOLEAN /\ pair.spot \in Nat
  BY <1>1, PlaceTells DEF PairInv, Ordering, PairTypeOK, Tasks, PairAnswers, Pairs, Placed
<1>3. /\ ~guessed => Own <= task.keep
      /\ task.got # Unknown => coin = pair.spot - task.got
      /\ task.qty <= pair.spot /\ task.qty > 0
      /\ Own \in Nat /\ coin \in Nat
  BY <1>1, <1>2, OwnIs DEF PairInv, OwnKnown, CoinKnown, Ordering, PairTypeOK
<1>4. pair.spot - Most(task.got, 0) \in Nat /\ (task.got # Unknown => Most(task.got, 0) = task.got)
      /\ (task.got = Unknown => Most(task.got, 0) = 0)
  BY <1>1, <1>2, <1>3 DEF Most, PairTypeOK, Tasks
<1>5. left \in Pairs /\ left.spot = pair.spot - Most(task.got, 0) /\ left.perp = task.keep
  BY <1>2, <1>4, PairTypes
<1> HIDE DEF left
<1>6. CASE left = NoPair
  <2>1. task.keep = 0 /\ task.got # Unknown /\ coin = 0
    BY <1>1, <1>2, <1>3, <1>4, <1>5, <1>6, PairTypes DEF PairTypeOK, Tasks
  <2>2. WriteLedger("FLAT", NoPair, NoTask, 0) /\ loose = NoOrder /\ (~guessed => Own = 0)
    BY <1>1, <1>2, <1>3, <1>6, <2>1
  <2> QED
    BY <1>1, <1>2, <2>1, <2>2, WriteFlatKeeps
<1>7. CASE left # NoPair
  <2>1. Halt(left, 0)
    BY <1>1, <1>7
  <2> QED
    BY <1>1, <1>2, <1>3, <1>4, <1>5, <2>1, HaltKeeps
<1> QED
  BY <1>6, <1>7

LEMMA LookForCloseKeeps ==
    ASSUME PairInv, LookForClose
    PROVE  PairInv'
<1>1. /\ task.at = "evidence" /\ PairTypeOK
      /\ UNCHANGED <<style, verified, market, doubt, guessed>>
  BY DEF LookForClose, observers, PairInv
<1>2. /\ book \in {"HEDGED", "UNWINDING"} /\ ledger.book # "HALTED" /\ loose = NoOrder
      /\ loose.job = "none" /\ Acquire /\ ~Ordering(Sales) /\ task \in Tasks
      /\ guessed \in BOOLEAN /\ verified \in BOOLEAN /\ pair \in Pairs
      /\ pair.spot \in Nat /\ coin \in Nat /\ short \in Nat
  BY <1>1, PlaceTells, PairTypes DEF PairInv, Ordering, PairTypeOK, Placed, Pairs
<1>3. /\ ~guessed => Own <= pair.perp
      /\ coin = pair.spot /\ ledger.book # "FLAT"
      /\ Own \in Nat /\ Own <= short
  BY <1>1, <1>2, OwnIs DEF PairInv, OwnKnown, CoinKnown
<1>4. CASE Halt(pair, 0) \/ Halt(pair, 1)
  BY <1>1, <1>2, <1>3, <1>4, HaltKeeps
<1>5. CASE /\ ConfirmedClosed /\ Pay(0)
           /\ book' = "UNWINDING" /\ task' = Order("saveSpot", Least(pair.spot, coin), 0)
           /\ UNCHANGED <<pair, ledger, unwritten>>
  <2>1. Least(pair.spot, coin) = coin
    BY <1>2, <1>3 DEF Least
  <2>2. /\ task' \in Tasks /\ task'.at = "order" /\ task'.job = "saveSpot" /\ task'.got = 0
        /\ task'.qty = coin
    BY <1>2, <1>5, <2>1 DEF Order, Tasks, Places, Jobs, Covers, Sales
  <2>3. /\ troubles' \in Nat /\ book' \in PairBooks /\ book' = "UNWINDING" /\ pair' \in Pairs
        /\ UNCHANGED <<pair, ledger, unwritten>> /\ Own = 0
    BY <1>1, <1>2, <1>3, <1>5, PayTypes DEF PairBooks, ConfirmedClosed
  <2>91. PairTypeOK' /\ Own' = Own /\ Acquire' = Acquire
    BY <1>1, <1>2, <1>3, <2>2, <2>3, MoveTypes
  <2>92. Placed' /\ PairAnswers' /\ LedgerKnown'
    BY <1>1, <1>2, <1>3, <2>2, <2>3, <2>91 DEF PairInv, Placed, PairAnswers, LedgerKnown, Ordering, market, PairTypeOK
  <2>93. ~guessed' => OwnKnown'
    BY <1>1, <1>2, <1>3, <2>2, <2>3, <2>91 DEF PairInv, Placed, PairAnswers, OwnKnown, Ordering, Covers, GotFilled, Most, market, PairTypeOK, Pairs
  <2>94. Acquire => CoinKnown'
    BY <1>1, <1>2, <1>3, <2>2, <2>3, <2>91 DEF PairInv, Placed, PairAnswers, CoinKnown, Ordering, Sales, market, PairTypeOK, Pairs
  <2>95. Acquire /\ ~guessed' => CoverKept'
    BY <1>1, <1>2, <1>3, <2>2, <2>3, <2>91 DEF PairInv, Placed, PairAnswers, OwnKnown, CoinKnown, CoverKept, Ordering, Sales, market, PairTypeOK
  <2> QED
    BY <2>91, <2>92, <2>93, <2>94, <2>95 DEF PairInv

<1> QED
  BY <1>4, <1>5 DEF LookForClose

LEMMA SavedSpotKeeps ==
    ASSUME PairInv, SavedSpot
    PROVE  PairInv'
<1>1. /\ task.at = "answer" /\ task.job = "saveSpot"
      /\ UNCHANGED <<style, verified, market, doubt, guessed>>
      /\ PairTypeOK /\ Ordering({"saveSpot"}) /\ Unknown = -1
      /\ Halt(Legs(pair.spot - Most(task.got, 0), 0), 0)
  BY DEF SavedSpot, Answered, observers, PairInv, Ordering, Unknown
<1>2. /\ book = "UNWINDING" /\ Acquire
      /\ task.got = Unknown => doubt
      /\ task.got \in Nat \cup {Unknown} /\ task.got <= task.qty
      /\ guessed \in BOOLEAN /\ verified \in BOOLEAN /\ pair.spot \in Nat
  BY <1>1, PlaceTells DEF PairInv, Ordering, PairTypeOK, Tasks, PairAnswers, Pairs, Placed
<1>3. /\ ~guessed => Own = 0
      /\ task.got # Unknown => coin = pair.spot - task.got
      /\ task.qty <= pair.spot
  BY <1>1, <1>2 DEF PairInv, OwnKnown, CoinKnown, Ordering
<1>4. pair.spot - Most(task.got, 0) \in Nat /\ (task.got # Unknown => Most(task.got, 0) = task.got)
  BY <1>1, <1>2, <1>3 DEF Most, PairTypeOK, Tasks
<1> QED
  BY <1>1, <1>2, <1>3, <1>4, HaltKeeps, PairTypes

-------------------------------------------------------------------------------
(***************************************************************************)
(* The tick of a held pair.                                                *)
(***************************************************************************)

\* What holds at the places of a tick where no order is out.
LEMMA TickFacts ==
    ASSUME PairInv, task.at \in {"margin", "size", "cover", "decide"}
    PROVE  /\ PairTypeOK /\ book = "HEDGED" /\ ledger.book # "HALTED" /\ loose = NoOrder
           /\ loose.job = "none" /\ ~Ordering(Sales) /\ task \in Tasks
           /\ guessed \in BOOLEAN /\ verified \in BOOLEAN /\ pair \in Pairs /\ book \in PairBooks
           /\ pair.spot \in Nat /\ pair.perp \in Nat /\ coin \in Nat /\ Own \in Nat
           /\ ~guessed => Own <= pair.perp
           /\ Acquire => coin = pair.spot /\ pair.spot = pair.perp /\ pair.perp > 0
<1>1. /\ PairTypeOK /\ book = "HEDGED" /\ ledger.book # "HALTED" /\ loose = NoOrder
      /\ loose.job = "none" /\ ~Ordering(Sales) /\ task \in Tasks
      /\ guessed \in BOOLEAN /\ verified \in BOOLEAN /\ pair \in Pairs /\ book \in PairBooks
      /\ pair.spot \in Nat /\ pair.perp \in Nat /\ coin \in Nat
  BY PlaceTells, PairTypes DEF PairInv, Ordering, PairTypeOK, Pairs
<1> QED
  BY <1>1, OwnIs DEF PairInv, OwnKnown, CoinKnown

LEMMA PairTickMoves ==
    ASSUME PairInv, task.at \in {"margin", "size", "cover", "decide"},
           NEW next \in Tasks, next.at \in {"idle", "margin", "size", "cover", "decide", "evidence"},
           next.at = "evidence" => Acquire,
           Onward(next), troubles' \in Nat, verified' \in BOOLEAN,
           UNCHANGED <<style, market, doubt, guessed>>
    PROVE  PairInv'
<1>1. task' = next /\ UNCHANGED <<book, pair, ledger, unwritten>>
  BY DEF Onward
<1>2. book' \in PairBooks /\ pair' \in Pairs /\ guessed' \in BOOLEAN
  BY <1>1, TickFacts
<1>91. PairTypeOK' /\ Own' = Own /\ Acquire' = Acquire
  BY <1>1, <1>2, TickFacts, MoveTypes
<1>92. Placed' /\ PairAnswers' /\ LedgerKnown'
  BY <1>1, <1>2, TickFacts, <1>91 DEF PairInv, Placed, PairAnswers, LedgerKnown, Ordering, market, PairTypeOK
<1>93. ~guessed' => OwnKnown'
  BY <1>1, <1>2, TickFacts, <1>91 DEF PairInv, Placed, PairAnswers, OwnKnown, Ordering, Covers, GotFilled, Most, market, PairTypeOK, Pairs
<1>94. Acquire => CoinKnown'
  BY <1>1, <1>2, TickFacts, <1>91 DEF PairInv, Placed, PairAnswers, CoinKnown, Ordering, Sales, market, PairTypeOK, Pairs
<1>95. Acquire /\ ~guessed' => CoverKept'
  BY <1>1, <1>2, TickFacts, <1>91 DEF PairInv, Placed, PairAnswers, OwnKnown, CoinKnown, CoverKept, Ordering, Sales, market, PairTypeOK
<1> QED
  BY <1>91, <1>92, <1>93, <1>94, <1>95 DEF PairInv

LEMMA TickUnwinds ==
    ASSUME PairInv, task.at \in {"margin", "decide"}, StartUnwind(pair),
           UNCHANGED <<style, verified, market, doubt, guessed>>
    PROVE  PairInv'
<1>1. /\ task' \in Tasks /\ task'.at = "unwind" /\ task'.job = "none" /\ task'.got = 0
  BY TickFacts DEF StartUnwind, NoTask, Tasks, Places, Jobs
<1>2. /\ troubles' \in Nat /\ book' = "UNWINDING" /\ book' \in PairBooks
      /\ UNCHANGED <<pair, ledger, unwritten>> /\ pair' \in Pairs
      /\ guessed' \in BOOLEAN /\ verified' \in BOOLEAN
  BY TickFacts, PayTypes DEF StartUnwind, PairBooks
<1>91. PairTypeOK' /\ Own' = Own /\ Acquire' = Acquire
  BY <1>1, <1>2, TickFacts, MoveTypes
<1>92. Placed' /\ PairAnswers' /\ LedgerKnown'
  BY <1>1, <1>2, TickFacts, <1>91 DEF PairInv, Placed, PairAnswers, LedgerKnown, Ordering, market, PairTypeOK
<1>93. ~guessed' => OwnKnown'
  BY <1>1, <1>2, TickFacts, <1>91 DEF PairInv, Placed, PairAnswers, OwnKnown, Ordering, Covers, GotFilled, Most, market, PairTypeOK, Pairs
<1>94. Acquire => CoinKnown'
  BY <1>1, <1>2, TickFacts, <1>91 DEF PairInv, Placed, PairAnswers, CoinKnown, Ordering, Sales, market, PairTypeOK, Pairs
<1>95. Acquire /\ ~guessed' => CoverKept'
  BY <1>1, <1>2, TickFacts, <1>91 DEF PairInv, Placed, PairAnswers, OwnKnown, CoinKnown, CoverKept, Ordering, Sales, market, PairTypeOK
<1> QED
  BY <1>91, <1>92, <1>93, <1>94, <1>95 DEF PairInv

LEMMA TickHalts ==
    ASSUME PairInv, task.at \in {"margin", "size", "cover", "decide"},
           NEW n \in Nat, Halt(pair, n),
           UNCHANGED <<style, verified, market, doubt, guessed>>
    PROVE  PairInv'
BY TickFacts, HaltKeeps

LEMMA CheckMarginKeeps ==
    ASSUME PairInv, CheckMargin
    PROVE  PairInv'
<1>1. task.at = "margin" /\ UNCHANGED <<style, verified, market, doubt, guessed>>
  BY DEF CheckMargin, observers
<1>2. MarginUnread \in Nat /\ verified' \in BOOLEAN /\ task \in Tasks /\ PairTypeOK
  BY <1>1, TickFacts DEF MarginUnread
<1>3. /\ Step("size") \in Tasks /\ Step("size").at = "size"
      /\ [Step("evidence") EXCEPT !.seen = verified] \in Tasks
      /\ [Step("evidence") EXCEPT !.seen = verified].at = "evidence"
  BY <1>1, <1>2 DEF Step, Tasks, Places
<1>4. CASE Onward(IF task.viewed THEN Step("size") ELSE NoTask) /\ Pay(0)
  BY <1>1, <1>2, <1>3, <1>4, PairTickMoves, PayTypes, PairTypes
<1>5. CASE StartUnwind(pair)
  BY <1>1, <1>5, TickUnwinds
<1>6. CASE Halt(pair, MarginUnread)
  BY <1>1, <1>2, <1>6, TickHalts
<1>7. CASE Acquire /\ Onward([Step("evidence") EXCEPT !.seen = verified]) /\ Pay(MarginUnread)
  BY <1>1, <1>2, <1>3, <1>7, PairTickMoves, PayTypes
<1> QED
  BY <1>4, <1>5, <1>6, <1>7 DEF CheckMargin

LEMMA CheckSizeKeeps ==
    ASSUME PairInv, CheckSize
    PROVE  PairInv'
<1>1. task.at = "size" /\ UNCHANGED <<style, market, doubt, guessed>> /\ PairTypeOK
      /\ task \in Tasks /\ verified \in BOOLEAN
  BY TickFacts DEF CheckSize, observers
<1>2. PICK r \in ShortReads :
        \/ r.v = Unread /\ Halt(pair, r.n) /\ UNCHANGED <<verified, closed>>
        \/ /\ r.v # Unread /\ SizeAgrees(r.v)
           /\ Onward(Step(AfterSize)) /\ Pay(r.n)
           /\ verified' = TRUE /\ closed' = 0
        \/ /\ r.v # Unread /\ ~SizeAgrees(r.v)
           /\ IF Acquire /\ r.v = 0
              THEN Onward([Step("evidence") EXCEPT !.seen = verified]) /\ Pay(r.n)
              ELSE Halt(pair, r.n)
           /\ UNCHANGED <<verified, closed>>
  BY DEF CheckSize
<1>3. r.n \in Nat
  BY <1>1, ReadTypes
<1>4. /\ Step(AfterSize) \in Tasks /\ Step(AfterSize).at \in {"margin", "decide", "cover"}
      /\ [Step("evidence") EXCEPT !.seen = verified] \in Tasks
      /\ [Step("evidence") EXCEPT !.seen = verified].at = "evidence"
  BY <1>1 DEF Step, Tasks, Places, AfterSize
<1>5. CASE Halt(pair, r.n) /\ UNCHANGED verified
  BY <1>1, <1>3, <1>5, TickHalts
<1>6. CASE Onward(Step(AfterSize)) /\ Pay(r.n) /\ verified' = TRUE
  BY <1>1, <1>3, <1>4, <1>6, PairTickMoves, PayTypes
<1>7. CASE /\ Acquire /\ Onward([Step("evidence") EXCEPT !.seen = verified]) /\ Pay(r.n)
           /\ UNCHANGED verified
  BY <1>1, <1>3, <1>4, <1>7, PairTickMoves, PayTypes
<1> QED
  BY <1>2, <1>5, <1>6, <1>7

LEMMA CheckCoverKeeps ==
    ASSUME PairInv, CheckCover
    PROVE  PairInv'
<1>1. task.at = "cover" /\ UNCHANGED <<style, verified, market, doubt, guessed>> /\ PairTypeOK
  BY DEF CheckCover, observers, PairInv
<1>2. /\ task \in Tasks /\ verified' \in BOOLEAN /\ book = "HEDGED" /\ pair.perp \in Nat
      /\ coin \in Nat
  BY <1>1, TickFacts
<1>3. CASE Halt(pair, 1)
  BY <1>1, <1>3, TickHalts
<1>4. CASE coin >= pair.perp /\ Onward(Step("decide")) /\ Pay(0)
  <2>1. Step("decide") \in Tasks /\ Step("decide").at = "decide"
    BY <1>2 DEF Step, Tasks, Places
  <2> QED
    BY <1>1, <1>2, <1>4, <2>1, PairTickMoves, PayTypes
<1>5. CASE coin < pair.perp /\ Onward(Order("trimPerp", pair.perp - coin, coin)) /\ Pay(0)
  <2>1. /\ task' \in Tasks /\ task'.at = "order" /\ task'.job = "trimPerp" /\ task'.got = 0
        /\ task'.qty = pair.perp - coin
    <3>1. pair.perp - coin \in Nat
      BY <1>2, <1>5
    <3> QED
      BY <1>2, <1>5, <3>1 DEF Onward, Order, Tasks, Places, Jobs, Covers, Sales
  <2>2. /\ troubles' \in Nat /\ UNCHANGED <<book, pair, ledger, unwritten>>
        /\ book' \in PairBooks /\ pair' \in Pairs /\ guessed' \in BOOLEAN /\ ~Acquire
    BY <1>1, <1>5, TickFacts, PayTypes DEF Onward
  <2>91. PairTypeOK' /\ Own' = Own /\ Acquire' = Acquire
    BY <1>1, <1>2, <2>1, <2>2, TickFacts, MoveTypes
  <2>92. Placed' /\ PairAnswers' /\ LedgerKnown'
    BY <1>1, <1>2, <2>1, <2>2, TickFacts, <2>91 DEF PairInv, Placed, PairAnswers, LedgerKnown, Ordering, market, PairTypeOK
  <2>93. ~guessed' => OwnKnown'
    BY <1>1, <1>2, <2>1, <2>2, TickFacts, <2>91 DEF PairInv, Placed, PairAnswers, OwnKnown, Ordering, Covers, GotFilled, Most, market, PairTypeOK, Pairs
  <2>94. Acquire => CoinKnown'
    BY <1>1, <1>2, <2>1, <2>2, TickFacts, <2>91 DEF PairInv, Placed, PairAnswers, CoinKnown, Ordering, Sales, market, PairTypeOK, Pairs
  <2>95. Acquire /\ ~guessed' => CoverKept'
    BY <1>1, <1>2, <2>1, <2>2, TickFacts, <2>91 DEF PairInv, Placed, PairAnswers, OwnKnown, CoinKnown, CoverKept, Ordering, Sales, market, PairTypeOK
  <2> QED
    BY <2>91, <2>92, <2>93, <2>94, <2>95 DEF PairInv

<1> QED
  BY <1>3, <1>4, <1>5 DEF CheckCover

LEMMA TrimmedFacts ==
    ASSUME PairInv, Answered("trimPerp")
    PROVE  /\ PairTypeOK /\ book = "HEDGED" /\ ledger.book # "HALTED" /\ ~Acquire
           /\ task.at = "answer" /\ task.job = "trimPerp" /\ Unknown = -1
           /\ task.got # Unknown => loose = NoOrder
           /\ task.got \in Nat \cup {Unknown} /\ task.got <= task.qty /\ task \in Tasks
           /\ task.qty <= pair.perp /\ task.qty \in Nat
           /\ guessed \in BOOLEAN /\ verified \in BOOLEAN /\ pair \in Pairs
           /\ pair.perp \in Nat /\ pair.spot \in Nat /\ Own \in Nat
           /\ ~guessed => Own <= pair.perp /\ (Own = 0 \/ Own <= pair.perp - GotFilled)
           /\ ~guessed /\ task.got > 0 => Own <= was
<1>1. task.at = "answer" /\ task.job = "trimPerp" /\ Ordering({"trimPerp", "buyPerp"})
  BY DEF Answered, Ordering
<1>2. /\ PairTypeOK /\ book = "HEDGED" /\ ledger.book # "HALTED" /\ ~Acquire /\ Unknown = -1
      /\ task.got # Unknown => loose = NoOrder
      /\ task.got \in Nat \cup {Unknown} /\ task.got <= task.qty /\ task \in Tasks
      /\ task.qty <= pair.perp /\ task.qty \in Nat
      /\ guessed \in BOOLEAN /\ verified \in BOOLEAN /\ pair \in Pairs
      /\ pair.perp \in Nat /\ pair.spot \in Nat
  BY <1>1, PlaceTells DEF PairInv, PairTypeOK, Placed, PairAnswers, Tasks, Pairs, Unknown
<1> QED
  BY <1>1, <1>2, OwnIs DEF PairInv, OwnKnown, Covers

LEMMA TrimmedPerpKeeps ==
    ASSUME PairInv, TrimmedPerp
    PROVE  PairInv'
<1>1. /\ Answered("trimPerp") /\ UNCHANGED <<style, verified, market, doubt, guessed>>
      /\ IF task.got <= 0 THEN Halt(pair, 0) ELSE Onward(Step("trimmed")) /\ Pay(0)
  BY DEF TrimmedPerp, observers
<1>2. CASE task.got <= 0
  <2>1. Halt(pair, 0)
    BY <1>1, <1>2
  <2> QED
    BY <1>1, <2>1, TrimmedFacts, HaltKeeps
<1>3. CASE ~(task.got <= 0)
  <2>1. task.got > 0 /\ task.got \in Nat /\ Onward(Step("trimmed")) /\ Pay(0)
    BY <1>1, <1>3, TrimmedFacts
  <2>2. /\ task' \in Tasks /\ task'.at = "trimmed" /\ task'.job = "trimPerp"
        /\ task'.got = task.got /\ task'.qty = task.qty
    BY <1>1, <2>1, TrimmedFacts DEF Onward, Step, Tasks, Places
  <2>3. /\ troubles' \in Nat /\ UNCHANGED <<book, pair, ledger, unwritten>> /\ loose = NoOrder
        /\ loose.job = "none" /\ book' \in PairBooks /\ pair' \in Pairs /\ guessed' \in BOOLEAN
        /\ verified' \in BOOLEAN
    BY <1>1, <2>1, TrimmedFacts, PayTypes, PairTypes DEF Onward, PairTypeOK
  <2>91. PairTypeOK' /\ Own' = Own /\ Acquire' = Acquire
    BY <1>1, <2>1, <2>2, <2>3, TrimmedFacts, MoveTypes
  <2>92. Placed' /\ PairAnswers' /\ LedgerKnown'
    BY <1>1, <2>1, <2>2, <2>3, TrimmedFacts, <2>91 DEF PairInv, Placed, PairAnswers, LedgerKnown, Ordering, market, PairTypeOK
  <2>93. ~guessed' => OwnKnown'
    BY <1>1, <2>1, <2>2, <2>3, TrimmedFacts, <2>91 DEF PairInv, Placed, PairAnswers, OwnKnown, Ordering, Covers, GotFilled, Most, market, PairTypeOK, Pairs
  <2>94. Acquire => CoinKnown'
    BY <1>1, <2>1, <2>2, <2>3, TrimmedFacts, <2>91 DEF PairInv, Placed, PairAnswers, CoinKnown, Ordering, Sales, market, PairTypeOK, Pairs
  <2>95. Acquire /\ ~guessed' => CoverKept'
    BY <1>1, <2>1, <2>2, <2>3, TrimmedFacts, <2>91 DEF PairInv, Placed, PairAnswers, OwnKnown, CoinKnown, CoverKept, Ordering, Sales, market, PairTypeOK
  <2> QED
    BY <2>91, <2>92, <2>93, <2>94, <2>95 DEF PairInv

<1> QED
  BY <1>2, <1>3

LEMMA ConfirmTrimKeeps ==
    ASSUME PairInv, ConfirmTrim
    PROVE  PairInv'
<1> DEFINE byFills == pair.perp - task.got
<1>1. /\ task.at = "trimmed" /\ UNCHANGED <<style, verified, market, doubt, guessed>>
      /\ PairTypeOK
  BY DEF ConfirmTrim, observers, PairInv
<1>2. PICK r \in ShortReads :
        \/ r.v = Unread /\ Halt(IF byFills > 0 THEN [pair EXCEPT !.perp = byFills] ELSE pair, r.n)
        \/ r.v # Unread /\ ShortLeft(byFills, r.v) = 0 /\ WriteLedger("FLAT", NoPair, NoTask, r.n)
        \/ /\ r.v # Unread /\ ShortLeft(byFills, r.v) > task.keep + 1
           /\ Halt(Legs(task.keep, ShortLeft(byFills, r.v)), r.n)
        \/ /\ r.v # Unread /\ ShortLeft(byFills, r.v) \in 1 .. task.keep + 1
           /\ WriteLedger("HEDGED", Legs(Least(ShortLeft(byFills, r.v), task.keep),
                                         ShortLeft(byFills, r.v)), NoTask, r.n)
  BY DEF ConfirmTrim
<1>3. /\ book = "HEDGED" /\ ledger.book # "HALTED" /\ loose = NoOrder /\ ~Acquire
      /\ task.got \in 1 .. task.qty /\ task.qty \in Nat /\ task.qty <= pair.perp /\ task.keep \in Nat
      /\ guessed \in BOOLEAN /\ verified \in BOOLEAN /\ pair \in Pairs
      /\ pair.perp \in Nat /\ pair.spot \in Nat /\ short \in Nat /\ was \in Nat
  BY <1>1, PlaceTells DEF PairInv, PairTypeOK, Placed, PairAnswers, Tasks, Pairs
<1>4. /\ Own \in Nat /\ Own <= short
      /\ ~guessed => Own <= pair.perp /\ (Own = 0 \/ Own <= pair.perp - task.got) /\ Own <= was
  BY <1>1, <1>3, OwnIs DEF PairInv, OwnKnown, GotFilled, Most
<1>5. r.n \in Nat /\ r.v \in Nat \cup {-1} /\ Unread = -1 /\ (r.v # Unread => r.v >= short \/ r.v >= was)
  BY <1>1, ReadTypes DEF Unread
<1> DEFINE left == ShortLeft(byFills, r.v)
<1>6. /\ byFills \in Nat /\ left \in Nat /\ left >= byFills /\ left >= r.v
  BY <1>3, <1>5 DEF ShortLeft, Most
<1>7. ~guessed => Own <= left /\ (Own <= byFills \/ Own = 0)
  BY <1>3, <1>4, <1>5, <1>6
<1>8. \/ r.v = Unread /\ Halt(IF byFills > 0 THEN [pair EXCEPT !.perp = byFills] ELSE pair, r.n)
      \/ r.v # Unread /\ left = 0 /\ WriteLedger("FLAT", NoPair, NoTask, r.n)
      \/ Halt(Legs(task.keep, left), r.n)
      \/ WriteLedger("HEDGED", Legs(Least(left, task.keep), left), NoTask, r.n)
  BY <1>2
<1> HIDE DEF left
<1>9. CASE Halt(IF byFills > 0 THEN [pair EXCEPT !.perp = byFills] ELSE pair, r.n)
  <2> DEFINE p == IF byFills > 0 THEN [pair EXCEPT !.perp = byFills] ELSE pair
  <2>1. p \in Pairs /\ (p.perp = byFills \/ p.perp = pair.perp)
        /\ (byFills = 0 => p.perp = pair.perp) /\ (byFills > 0 => p.perp = byFills)
    BY <1>3, <1>6 DEF Pairs
  <2>2. ~guessed => Own <= p.perp
    BY <1>3, <1>4, <1>6, <1>7, <2>1
  <2>3. Halt(p, r.n)
    BY <1>9
  <2> HIDE DEF p
  <2> QED
    BY <1>1, <1>3, <1>5, <2>1, <2>2, <2>3, HaltKeeps
<1>10. CASE left = 0 /\ WriteLedger("FLAT", NoPair, NoTask, r.n)
  BY <1>1, <1>3, <1>4, <1>5, <1>7, <1>10, WriteFlatKeeps
<1>11. CASE Halt(Legs(task.keep, left), r.n)
  BY <1>1, <1>3, <1>5, <1>6, <1>7, <1>11, HaltKeeps, PairTypes
<1>12. CASE WriteLedger("HEDGED", Legs(Least(left, task.keep), left), NoTask, r.n)
  <2>1. Least(left, task.keep) \in Nat
    BY <1>3, <1>6 DEF Least
  <2> QED
    BY <1>1, <1>3, <1>5, <1>6, <1>7, <1>12, <2>1, WriteHeldKeeps, PairTypes, SMTT(30)
<1> QED
  BY <1>8, <1>9, <1>10, <1>11, <1>12

LEMMA DecisionKeeps ==
    ASSUME PairInv, Decision
    PROVE  PairInv'
<1>1. task.at = "decide" /\ UNCHANGED <<style, verified, market, doubt, guessed>> /\ PairTypeOK
  BY DEF Decision, observers, PairInv
<1>2. CASE /\ pair.perp > pair.spot
           /\ Onward(Order("buyPerp", pair.perp - pair.spot, 0)) /\ Pay(0)
  <2>1. /\ task' \in Tasks /\ task'.at = "order" /\ task'.job = "buyPerp" /\ task'.got = 0
        /\ task'.qty = pair.perp - pair.spot
    <3>1. pair.perp - pair.spot \in Nat /\ task \in Tasks
      BY <1>1, <1>2, TickFacts
    <3> QED
      BY <1>2, <3>1 DEF Onward, Order, Tasks, Places, Jobs, Covers, Sales
  <2>2. /\ troubles' \in Nat /\ UNCHANGED <<book, pair, ledger, unwritten>>
        /\ book' \in PairBooks /\ pair' \in Pairs /\ guessed' \in BOOLEAN /\ verified' \in BOOLEAN
        /\ ~Acquire
    BY <1>1, <1>2, TickFacts, PayTypes DEF Onward
  <2>91. PairTypeOK' /\ Own' = Own /\ Acquire' = Acquire
    BY <1>1, <2>1, <2>2, TickFacts, MoveTypes
  <2>92. Placed' /\ PairAnswers' /\ LedgerKnown'
    BY <1>1, <2>1, <2>2, TickFacts, <2>91 DEF PairInv, Placed, PairAnswers, LedgerKnown, Ordering, market, PairTypeOK
  <2>93. ~guessed' => OwnKnown'
    BY <1>1, <2>1, <2>2, TickFacts, <2>91 DEF PairInv, Placed, PairAnswers, OwnKnown, Ordering, Covers, GotFilled, Most, market, PairTypeOK, Pairs
  <2>94. Acquire => CoinKnown'
    BY <1>1, <2>1, <2>2, TickFacts, <2>91 DEF PairInv, Placed, PairAnswers, CoinKnown, Ordering, Sales, market, PairTypeOK, Pairs
  <2>95. Acquire /\ ~guessed' => CoverKept'
    BY <1>1, <2>1, <2>2, TickFacts, <2>91 DEF PairInv, Placed, PairAnswers, OwnKnown, CoinKnown, CoverKept, Ordering, Sales, market, PairTypeOK
  <2> QED
    BY <2>91, <2>92, <2>93, <2>94, <2>95 DEF PairInv

<1>3. CASE pair.perp = pair.spot /\ WriteLedger("HEDGED", pair, NoTask, 0)
  BY <1>1, <1>3, TickFacts, WriteHeldKeeps
<1>4. CASE pair.perp = pair.spot /\ StartUnwind(pair)
  BY <1>1, <1>4, TickUnwinds
<1> QED
  BY <1>2, <1>3, <1>4 DEF Decision

LEMMA RebalancedFacts ==
    ASSUME PairInv, Answered("buyPerp")
    PROVE  /\ PairTypeOK /\ book = "HEDGED" /\ ledger.book # "HALTED" /\ ~Acquire
           /\ task.at = "answer" /\ task.job = "buyPerp" /\ Unknown = -1
           /\ task.got # Unknown => loose = NoOrder
           /\ task.got \in Nat \cup {Unknown} /\ task.got <= task.qty /\ task \in Tasks
           /\ task.qty <= pair.perp /\ task.qty \in Nat
           /\ guessed \in BOOLEAN /\ verified \in BOOLEAN /\ pair \in Pairs
           /\ pair.perp \in Nat /\ pair.spot \in Nat /\ Own \in Nat
           /\ ~guessed => Own <= pair.perp /\ (Own = 0 \/ Own <= pair.perp - GotFilled)
           /\ ~guessed /\ task.got > 0 => Own <= was
<1>1. task.at = "answer" /\ task.job = "buyPerp" /\ Ordering({"trimPerp", "buyPerp"})
  BY DEF Answered, Ordering
<1>2. /\ PairTypeOK /\ book = "HEDGED" /\ ledger.book # "HALTED" /\ ~Acquire /\ Unknown = -1
      /\ task.got # Unknown => loose = NoOrder
      /\ task.got \in Nat \cup {Unknown} /\ task.got <= task.qty /\ task \in Tasks
      /\ task.qty <= pair.perp /\ task.qty \in Nat
      /\ guessed \in BOOLEAN /\ verified \in BOOLEAN /\ pair \in Pairs
      /\ pair.perp \in Nat /\ pair.spot \in Nat
  BY <1>1, PlaceTells DEF PairInv, PairTypeOK, Placed, PairAnswers, Tasks, Pairs, Unknown
<1> QED
  BY <1>1, <1>2, OwnIs DEF PairInv, OwnKnown, Covers

LEMMA RebalancedKeeps ==
    ASSUME PairInv, Rebalanced
    PROVE  PairInv'
<1>1. /\ Answered("buyPerp") /\ UNCHANGED <<style, verified, market, doubt, guessed>>
      /\ IF task.got <= 0 THEN Halt(pair, 0)
         ELSE WriteLedger("HEDGED", [pair EXCEPT !.perp = @ - task.got], NoTask, 0)
  BY DEF Rebalanced, observers
<1>2. CASE task.got <= 0
  <2>1. Halt(pair, 0)
    BY <1>1, <1>2
  <2> QED
    BY <1>1, <2>1, RebalancedFacts, HaltKeeps
<1>3. CASE ~(task.got <= 0)
  <2> DEFINE p == [pair EXCEPT !.perp = @ - task.got]
  <2>1. task.got > 0 /\ task.got \in Nat /\ task.got <= pair.perp /\ GotFilled = task.got
    BY <1>1, <1>3, RebalancedFacts DEF GotFilled, Most
  <2>2. p \in Pairs /\ p.perp = pair.perp - task.got
    BY <1>1, <2>1, RebalancedFacts DEF Pairs
  <2>3. WriteLedger("HEDGED", p, NoTask, 0)
    BY <1>1, <1>3
  <2>4. ~guessed => Own <= p.perp
    BY <1>1, <2>1, <2>2, RebalancedFacts
  <2> HIDE DEF p
  <2> QED
    BY <1>1, <2>1, <2>2, <2>3, <2>4, RebalancedFacts, WriteHeldKeeps
<1> QED
  BY <1>2, <1>3

-------------------------------------------------------------------------------
(***************************************************************************)
(* Orders and the venue.                                                   *)
(***************************************************************************)

\* What a trade of ours does to the own short and to the coin.
LEMMA TradedOwn ==
    ASSUME PairTypeOK, NEW job \in Jobs, NEW d \in Nat, d <= Room(job), Traded(job, d)
    PROVE  /\ short' \in Nat /\ was' \in Nat /\ coin' \in Nat /\ alien' \in Nat /\ alien' <= short'
           /\ job = "sellPerp" => Own' = Own + d /\ coin' = coin
           /\ job \in Covers => /\ Own' = 0 \/ Own' = Own - d
                                /\ Own' <= Own /\ coin' = coin
                                /\ d > 0 => was' = short
           /\ job \in Sales => Own' = Own /\ coin' = coin - d
           /\ job = "buySpot" => Own' = Own /\ coin' = coin + d
           /\ job = "none" => Own' = Own /\ coin' = coin
<1>1. short \in Nat /\ was \in Nat /\ coin \in Nat /\ alien \in Nat /\ alien <= short
  BY DEF PairTypeOK
<1>2. CASE job = "sellPerp"
  BY <1>1, <1>2 DEF Traded, Own, Least, Covers, Sales
<1>3. CASE job \in Covers
  BY <1>1, <1>3 DEF Traded, Own, Least, Covers, Sales, Room
<1>4. CASE job \in Sales
  BY <1>1, <1>4 DEF Traded, Own, Least, Covers, Sales, Room
<1>5. CASE job = "buySpot"
  BY <1>1, <1>5 DEF Traded, Own, Least, Covers, Sales
<1>6. CASE job = "none"
  BY <1>1, <1>6 DEF Traded, Own, Least, Covers, Sales
<1> QED
  BY <1>2, <1>3, <1>4, <1>5, <1>6 DEF Jobs

\* The facts of an order about to be sent, and the books it can belong to.
LEMMA OrderFacts ==
    ASSUME PairInv, task.at = "order"
    PROVE  /\ PairTypeOK /\ loose = NoOrder /\ loose.job = "none"
           /\ book \in {"OPENING", "HEDGED", "UNWINDING"} /\ book \in PairBooks /\ ledger.book # "HALTED"
           /\ task \in Tasks /\ task.qty \in Nat /\ task.keep \in Nat /\ task.job \in Jobs
           /\ task.job \in {"buySpot", "sellPerp", "trimPerp", "buyPerp", "closePerp",
                            "sellSpot", "saveSpot", "dumpSpot"}
           /\ task.job \in {"buySpot", "sellPerp"} <=> book = "OPENING"
           /\ task.job \in {"trimPerp", "buyPerp"} <=> book = "HEDGED"
           /\ task.job \in {"closePerp", "sellSpot", "saveSpot", "dumpSpot"} <=> book = "UNWINDING"
           /\ Own \in Nat /\ Own <= short /\ coin \in Nat
<1>1. /\ book \in {"OPENING", "HEDGED", "UNWINDING"} /\ ledger.book # "HALTED" /\ loose = NoOrder
      /\ loose.job = "none"
  BY PlaceTells, PairTypes
<1>2. PairTypeOK /\ task \in Tasks /\ task.qty \in Nat /\ task.keep \in Nat /\ task.job \in Jobs
      /\ coin \in Nat /\ book \in PairBooks
  BY DEF PairInv, PairTypeOK, Tasks
<1>3. /\ book = "OPENING" => task.job \in {"buySpot", "sellPerp"}
      /\ book = "HEDGED" => task.job \in {"trimPerp", "buyPerp"}
      /\ book = "UNWINDING" => task.job \in {"closePerp", "sellSpot", "saveSpot", "dumpSpot"}
  BY DEF PairInv, Placed, Ordering
<1>4. /\ task.job \in {"buySpot", "sellPerp"} => book = "OPENING"
      /\ task.job \in {"trimPerp", "buyPerp"} => book = "HEDGED"
      /\ task.job \in {"closePerp", "sellSpot", "saveSpot", "dumpSpot"} => book = "UNWINDING"
  BY <1>1, <1>3
<1>5. task.job \in {"buySpot", "sellPerp", "trimPerp", "buyPerp", "closePerp",
                    "sellSpot", "saveSpot", "dumpSpot"}
  BY <1>1, <1>3
<1> QED
  BY <1>1, <1>2, <1>3, <1>4, <1>5, OwnIs

LEMMA SentKeeps ==
    ASSUME PairInv, task.at = "order", task' \in Tasks,
           task'.at = "answer", task'.job = task.job, task'.qty = task.qty, task'.keep = task.keep,
           NEW d \in Nat, d <= task.qty, task'.got = d, d <= Room(task.job), Traded(task.job, d),
           troubles' \in Nat, verified' \in BOOLEAN,
           UNCHANGED <<style, book, pair, ledger, unwritten, loose, doubt, guessed>>
    PROVE  PairInv'
<1>1. PairTypeOK' /\ Acquire' = Acquire
  BY OrderFacts, TradedOwn DEF PairTypeOK, Acquire
<1>2. Placed' /\ PairAnswers' /\ LedgerKnown'
  <2>1. Placed'
    BY <1>1, OrderFacts DEF PairInv, Placed, Ordering
  <2>2. PairAnswers'
    BY OrderFacts DEF PairInv, PairAnswers, Ordering, Unknown
  <2> QED
    BY <2>1, <2>2, OrderFacts DEF PairInv, LedgerKnown
<1>3. ~guessed' => OwnKnown'
  BY OrderFacts, TradedOwn
  DEF PairInv, OwnKnown, Ordering, Covers, Sales, GotFilled, Most, PairTypeOK, Pairs, Unknown
<1>4. Acquire => CoinKnown'
  BY OrderFacts, TradedOwn
  DEF PairInv, CoinKnown, Ordering, Covers, Sales, PairTypeOK, Pairs, Unknown, Placed
<1>5. Acquire /\ ~guessed' => CoverKept'
  BY OrderFacts, TradedOwn
  DEF PairInv, OwnKnown, CoinKnown, CoverKept, Ordering, Covers, Sales, PairTypeOK, Unknown
<1> QED
  BY <1>1, <1>2, <1>3, <1>4, <1>5 DEF PairInv

LEMMA LostKeeps ==
    ASSUME PairInv, task.at = "order", task' \in Tasks,
           task'.at = "answer", task'.job = task.job, task'.qty = task.qty, task'.keep = task.keep,
           task'.got = Unknown, task.qty <= Room(task.job),
           loose' = [job |-> task.job, qty |-> task.qty], doubt' = TRUE,
           troubles' \in Nat, verified' \in BOOLEAN,
           UNCHANGED <<style, book, pair, ledger, unwritten, short, was, coin, alien, guessed>>
    PROVE  PairInv'
<1>1. PairTypeOK' /\ Acquire' = Acquire /\ Own' = Own
  BY OrderFacts DEF PairTypeOK, Acquire, Own
<1>2. loose'.job = task.job /\ loose'.qty = task.qty /\ Unknown = -1
  BY DEF Unknown
<1>3. Placed' /\ PairAnswers' /\ LedgerKnown'
  <2>1. Placed'
    BY <1>1, OrderFacts DEF PairInv, Placed, Ordering
  <2>2. PairAnswers'
    BY <1>2, OrderFacts DEF PairInv, PairAnswers, Ordering, PairTypeOK, Pairs
  <2> QED
    BY <2>1, <2>2, OrderFacts DEF PairInv, LedgerKnown
<1>4. ~guessed' => OwnKnown'
  BY <1>1, <1>2, OrderFacts
  DEF PairInv, OwnKnown, Ordering, Covers, Sales, GotFilled, Most, PairTypeOK, Pairs
<1>5. Acquire => CoinKnown'
  BY <1>1, <1>2, OrderFacts DEF PairInv, CoinKnown, Ordering, Covers, Sales, PairTypeOK, Pairs, Placed
<1>6. Acquire /\ ~guessed' => CoverKept'
  BY <1>1, <1>2, OrderFacts
  DEF PairInv, OwnKnown, CoinKnown, CoverKept, Ordering, Covers, Sales, PairTypeOK, Room
<1> QED
  BY <1>1, <1>3, <1>4, <1>5, <1>6 DEF PairInv

LEMMA SendOrderKeeps ==
    ASSUME PairInv, SendOrder
    PROVE  PairInv'
<1>1. /\ task.at = "order" /\ task \in Tasks /\ PairTypeOK /\ task.qty \in Nat
      /\ UNCHANGED <<style, book, pair, ledger, unwritten, guessed>>
      /\ Room(task.job) \in Nat
  BY PairAssumption, OrderFacts DEF SendOrder, PairTypeOK, Room
<1>2. verified' \in BOOLEAN
  BY <1>1 DEF SendOrder, PairTypeOK
<1>3. ASSUME NEW d \in Nat, NEW n \in Nat, d <= task.qty, d <= Room(task.job), Fills(d, n)
      PROVE  PairInv'
  <2>1. /\ task' \in Tasks /\ task'.at = "answer" /\ task'.job = task.job
        /\ task'.qty = task.qty /\ task'.keep = task.keep /\ task'.got = d
    BY <1>1, <1>3 DEF Fills, Tasks, Places
  <2>2. troubles' \in Nat /\ Traded(task.job, d) /\ UNCHANGED <<loose, doubt>>
    BY <1>1, <1>3, PayTypes DEF Fills
  <2> QED
    BY <1>1, <1>2, <1>3, <2>1, <2>2, SentKeeps
<1>4. ASSUME /\ task.qty <= Room(task.job) /\ Pay(1)
             /\ loose' = [job |-> task.job, qty |-> task.qty]
             /\ doubt' = TRUE
             /\ task' = [task EXCEPT !.at = "answer", !.got = Unknown]
             /\ UNCHANGED <<short, was, coin, alien>>
      PROVE  PairInv'
  <2>1. /\ task' \in Tasks /\ task'.at = "answer" /\ task'.job = task.job
        /\ task'.qty = task.qty /\ task'.keep = task.keep /\ task'.got = Unknown
    BY <1>1, <1>4 DEF Tasks, Places
  <2>2. troubles' \in Nat
    BY <1>1, <1>4, PayTypes
  <2> QED
    BY <1>1, <1>2, <1>4, <2>1, <2>2, LostKeeps
<1>5. \/ task.qty <= Room(task.job) /\ Fills(task.qty, 0)
      \/ task.qty <= Room(task.job) /\ \E d \in 0 .. task.qty - 1 : Fills(d, 1)
      \/ Fills(0, 0)
      \/ /\ task.qty <= Room(task.job) /\ Pay(1)
         /\ loose' = [job |-> task.job, qty |-> task.qty]
         /\ doubt' = TRUE
         /\ task' = [task EXCEPT !.at = "answer", !.got = Unknown]
         /\ UNCHANGED <<short, was, coin, alien>>
  BY DEF SendOrder
<1>6. CASE task.qty <= Room(task.job) /\ Fills(task.qty, 0)
  BY <1>1, <1>3, <1>6
<1>7. CASE task.qty <= Room(task.job) /\ \E d \in 0 .. task.qty - 1 : Fills(d, 1)
  <2>1. PICK d \in 0 .. task.qty - 1 : Fills(d, 1)
    BY <1>7
  <2>2. d \in Nat /\ d <= task.qty /\ d <= Room(task.job)
    BY <1>1, <1>7
  <2> QED
    BY <1>3, <2>1, <2>2
<1>8. CASE Fills(0, 0)
  BY <1>1, <1>3, <1>8
<1> QED
  BY <1>4, <1>5, <1>6, <1>7, <1>8

LEMMA OwnNext ==
    ASSUME short' \in Nat, alien' \in Nat, alien' <= short'
    PROVE  Own' \in Nat
<1>1. \A a, b \in Nat : a <= b => b - a \in Nat
  OBVIOUS
<1> QED
  BY <1>1 DEF Own

LEMMA LooseEndsKeeps ==
    ASSUME PairInv, LooseEnds
    PROVE  PairInv'
<1>1. /\ loose # NoOrder /\ loose' = NoOrder
      /\ UNCHANGED <<style, book, pair, ledger, unwritten, task, verified, troubles, doubt, guessed>>
      /\ PairTypeOK /\ loose.job \in Jobs /\ loose.qty \in Nat /\ Room(loose.job) \in Nat
  BY PairAssumption DEF LooseEnds, engineMemory, observers, PairInv, PairTypeOK, Room
<1>2. PICK d \in 0 .. Least(loose.qty, Room(loose.job)) : Traded(loose.job, d)
  BY DEF LooseEnds
<1>3. d \in Nat /\ d <= loose.qty /\ d <= Room(loose.job)
  BY <1>1 DEF Least
<1>4. /\ short' \in Nat /\ was' \in Nat /\ coin' \in Nat /\ alien' \in Nat /\ alien' <= short'
      /\ loose.job = "sellPerp" => Own' = Own + d /\ coin' = coin
      /\ loose.job \in Covers => Own' <= Own /\ (Own' = 0 \/ Own' = Own - d) /\ coin' = coin
      /\ loose.job \in Sales => Own' = Own /\ coin' = coin - d
      /\ loose.job = "buySpot" => Own' = Own /\ coin' = coin + d
      /\ loose.job = "none" => Own' = Own /\ coin' = coin
  BY <1>1, <1>2, <1>3, TradedOwn
<1>5. /\ doubt
      /\ \/ book \in {"HALTED", "OFF"}
         \/ task.at = "answer" /\ task.got = Unknown /\ loose.job = task.job
      /\ loose'.job = "none" /\ Own \in Nat /\ coin \in Nat /\ Unknown = -1
      /\ book \notin {"FLAT", "REFUSED"} /\ pair \in Pairs /\ task \in Tasks
      /\ task.at = "idle" => book \in {"HALTED", "OFF"}
  BY <1>1, OwnIs, PairTypes DEF PairInv, PairAnswers, PairTypeOK, Unknown, Placed
<1>6. PairTypeOK' /\ Acquire' = Acquire
  BY <1>1, <1>4, PairTypes DEF PairTypeOK, Acquire
<1>61. Own' \in Nat
  BY <1>4, OwnNext
<1>7. Placed' /\ PairAnswers' /\ LedgerKnown'
  BY <1>1, <1>6 DEF PairInv, Placed, PairAnswers, LedgerKnown, Ordering
<1>8. ~guessed' => OwnKnown'
  <2> SUFFICES ASSUME ~guessed PROVE OwnKnown'
    BY <1>1
  <2>1. OwnKnown /\ Placed
    BY DEF PairInv
  <2>2. book \in {"OPENING", "HEDGED", "UNWINDING"} =>
          task.at = "answer" /\ task.got = Unknown /\ loose.job = task.job
    BY <1>5
  <2>3. GotFilled' = GotFilled /\ (task.got = Unknown => GotFilled = 0)
    BY <1>1, <1>5 DEF GotFilled, Most
  <2>4. task.at \in {"idle", "answer"}
    BY <1>5, <2>1, PairTypes DEF Placed
  <2>5. loose.job = "sellPerp" => book \notin {"HEDGED", "UNWINDING"}
    BY <2>1, <2>2 DEF Placed, Ordering
  <2>6. \/ Own' <= Own /\ (Own' = 0 \/ Own' <= Own)
        \/ loose.job = "sellPerp"
    BY <1>3, <1>4, <1>5, <1>1 DEF Jobs
  <2>7. task.job = "sellPerp" /\ task.at = "answer" => loose.job = "sellPerp"
    BY <2>1, <1>5, PairTypes DEF Placed
  <2>8. book' = "OPENING" => \/ Own' = 0
                             \/ task'.at = "answer" /\ task'.job = "sellPerp"
                                  /\ (task'.got # Unknown => Own' <= task'.got)
    BY <1>1, <1>5, <2>1, <2>2, <2>6, <1>61 DEF OwnKnown
  <2>9. book' \in {"HEDGED", "UNWINDING"} => Own' <= pair'.perp
    BY <1>1, <1>5, <2>1, <2>5, <2>6, <1>61 DEF OwnKnown, Pairs
  <2>10. task.at = "answer" => loose.job = task.job /\ task.got = Unknown
    BY <2>1, <1>5, PairTypes DEF Placed
  <2>11. task.at = "answer" /\ task.job \in Covers =>
           Own' = 0 \/ Own' <= pair.perp - GotFilled
    BY <1>5, <2>1, <2>3, <2>6, <2>10, <1>61 DEF OwnKnown, Pairs, Covers
  <2>12. Ordering({"sellSpot"}) => Own' <= task.keep
    BY <1>5, <2>1, <2>4, <2>6, <2>10, <1>61 DEF OwnKnown, Ordering, Tasks
  <2>13. Ordering({"saveSpot", "dumpSpot"}) => Own' = 0
    BY <1>5, <2>1, <2>4, <2>6, <2>10, <1>61 DEF OwnKnown, Ordering
  <2> QED
    BY <1>1, <1>5, <2>3, <2>4, <2>8, <2>9, <2>10, <2>11, <2>12, <2>13 DEF OwnKnown, Ordering
<1>9. Acquire => CoinKnown'
  <2> SUFFICES ASSUME Acquire PROVE CoinKnown'
    OBVIOUS
  <2>1. CoinKnown
    BY DEF PairInv
  <2>2. ledger.book = "FLAT" => coin' = 0
    BY <1>1, <1>3, <1>4, <1>5, <2>1 DEF CoinKnown, Room, Covers, Sales, Jobs
  <2>3. /\ task.at = "answer" /\ loose.job \in Sales => coin' <= coin
        /\ task.at = "answer" /\ loose.job \in Covers \cup {"sellPerp"} => coin' = coin
    BY <1>3, <1>4, <1>5
  <2>4. task.at \in {"answer", "idle"} /\ (task.at = "answer" => task.got = Unknown /\ loose.job = task.job)
    BY <1>5, PairTypes DEF PairInv, Placed
  <2>5. book \in {"HEDGED", "UNWINDING"} => task.at = "answer"
    BY <1>5, <2>4
  <2>6. book \in {"HEDGED", "UNWINDING"} /\ ~Ordering(Sales) =>
          coin' = pair.spot /\ pair.perp \in 1 .. pair.spot
    <3>1. book \in {"HEDGED", "UNWINDING"} /\ ~Ordering(Sales) => task.job \in Covers
      BY <2>5 DEF PairInv, Placed, Ordering, Sales, Covers
    <3> QED
      BY <2>1, <2>3, <2>4, <2>5, <3>1 DEF CoinKnown
  <2>7. Ordering({"sellSpot", "saveSpot"}) => coin' <= coin /\ coin <= pair.spot
    BY <1>4, <1>5, <2>1, <2>3, <2>4 DEF CoinKnown, Ordering, Sales
  <2>8. Ordering({"sellPerp"}) => coin' = coin
    BY <2>3, <2>4 DEF Ordering
  <2> QED
    BY <1>1, <1>4, <1>5, <2>1, <2>2, <2>4, <2>6, <2>7, <2>8 DEF CoinKnown, Ordering, Sales, Pairs
<1>10. Acquire /\ ~guessed' => CoverKept'
  <2> SUFFICES ASSUME Acquire, ~guessed PROVE CoverKept'
    BY <1>1
  <2>1. CoverKept /\ Placed
    BY DEF PairInv
  <2>2. task.at # "order"
    BY <1>5, <2>1, PairTypes DEF Placed
  <2>3. loose.job \in Sales \cup {"sellPerp"} => Own' <= coin'
    BY <1>1, <1>3, <1>4, <1>5, <2>1 DEF CoverKept
  <2>4. loose.job \notin Sales \cup {"sellPerp"} => Own' <= coin'
    BY <1>1, <1>3, <1>4, <1>5, <1>61, <2>1 DEF CoverKept, Jobs
  <2> QED
    BY <1>1, <1>5, <2>2, <2>3, <2>4 DEF CoverKept, Sales
<1> QED
  BY <1>1, <1>6, <1>7, <1>8, <1>9, <1>10 DEF PairInv

\* Others, and the passing of time, never add to the own short.
LEMMA OthersKeep ==
    ASSUME PairInv,
           UNCHANGED <<style, book, pair, ledger, unwritten, verified, loose, doubt, guessed>>,
           task' = task, troubles' \in Nat,
           short' \in Nat, was' = short, alien' \in Nat, alien' <= short',
           Own' = 0 \/ Own' <= Own, Own' <= Own,
           coin' \in Nat, Acquire => coin' = coin
    PROVE  PairInv'
<1>1. PairTypeOK /\ Own \in Nat /\ Own <= short
  BY OwnIs DEF PairInv
<1>2. PairTypeOK' /\ Acquire' = Acquire
  BY <1>1 DEF PairTypeOK, Acquire
<1>21. Own' \in Nat
  BY OwnNext
<1>3. Own' \in Nat /\ task \in Tasks /\ pair \in Pairs /\ Unknown = -1 /\ short \in Nat
  BY <1>1, <1>21 DEF PairTypeOK, Unknown
<1>4. Placed' /\ PairAnswers' /\ LedgerKnown'
  BY <1>2 DEF PairInv, Placed, PairAnswers, LedgerKnown, Ordering
<1>5. ~guessed' => OwnKnown'
  <2> SUFFICES ASSUME ~guessed PROVE OwnKnown'
    OBVIOUS
  <2>1. OwnKnown /\ GotFilled' = GotFilled /\ GotFilled \in Int
    BY <1>3 DEF PairInv, GotFilled, Most, Tasks
  <2> HIDE DEF GotFilled
  <2>2. pair.perp \in Nat /\ task.keep \in Nat /\ task.got \in Int
    BY <1>3 DEF Pairs, Tasks
  <2>3. Own' <= was'
    BY <1>1, <1>3
  <2> QED
    BY <1>1, <1>3, <2>1, <2>2, <2>3 DEF OwnKnown, Ordering
<1>6. Acquire => CoinKnown'
  BY <1>2 DEF PairInv, CoinKnown, Ordering
<1>7. Acquire /\ ~guessed' => CoverKept'
  BY <1>1, <1>2, <1>3 DEF PairInv, CoverKept, PairTypeOK, Tasks
<1> QED
  BY <1>2, <1>4, <1>5, <1>6, <1>7 DEF PairInv

LEMMA OthersCloseKeeps ==
    ASSUME PairInv, OthersClose
    PROVE  PairInv'
<1>1. /\ PairTypeOK /\ short \in Nat /\ alien \in Nat /\ alien <= short /\ coin \in Nat
  BY DEF PairInv, PairTypeOK
<1>2. PICK d \in 1 .. short : short' = short - d /\ alien' = Least(alien, short - d)
  BY DEF OthersClose
<1>3. /\ short' \in Nat /\ alien' \in Nat /\ alien' <= short' /\ Own' <= Own
  BY <1>1, <1>2 DEF Least, Own
<1>4. /\ UNCHANGED <<style, book, pair, ledger, unwritten, verified, loose, doubt, guessed>>
      /\ task' = task /\ was' = short /\ coin' = coin
  BY DEF OthersClose, engineMemory, observers
<1>5. troubles' \in Nat
  BY <1>1, PayTypes DEF OthersClose
<1> QED
  BY <1>1, <1>3, <1>4, <1>5, OthersKeep

LEMMA OthersSellKeeps ==
    ASSUME PairInv, OthersSell
    PROVE  PairInv'
<1>1. /\ PairTypeOK /\ short \in Nat /\ alien \in Nat /\ alien <= short /\ coin \in Nat
  BY DEF PairInv, PairTypeOK
<1>2. /\ short' \in Nat /\ alien' \in Nat /\ alien' <= short' /\ Own' <= Own
  BY <1>1 DEF OthersSell, Own
<1>3. /\ UNCHANGED <<style, book, pair, ledger, unwritten, verified, loose, doubt, guessed>>
      /\ task' = task /\ was' = short /\ coin' = coin
  BY DEF OthersSell, engineMemory, observers
<1>4. troubles' \in Nat
  BY <1>1, PayTypes DEF OthersSell
<1> QED
  BY <1>1, <1>2, <1>3, <1>4, OthersKeep

\* The overlay's coin bounds nothing that the invariant says.
LEMMA ClientMovesKeeps ==
    ASSUME PairInv, ClientMoves
    PROVE  PairInv'
<1>1. /\ UNCHANGED <<style, book, pair, ledger, unwritten, task, verified, short, was, loose, alien,
                      doubt, guessed>>
      /\ coin' \in Nat /\ ~Acquire /\ PairTypeOK
  BY DEF ClientMoves, engineMemory, observers, PairInv
<1>2. troubles' \in Nat
  BY <1>1, PayTypes DEF ClientMoves
<1>3. PairTypeOK' /\ Own' = Own /\ ~Acquire'
  BY <1>1, <1>2 DEF PairTypeOK, Own, Acquire
<1>4. Placed' /\ PairAnswers' /\ LedgerKnown' /\ (~guessed' => OwnKnown')
  BY <1>1, <1>3 DEF PairInv, Placed, PairAnswers, LedgerKnown, OwnKnown, Ordering, GotFilled
<1> QED
  BY <1>3, <1>4 DEF PairInv

LEMMA HeldTickKeeps ==
    ASSUME PairInv, NEW viewed \in BOOLEAN, HeldTick(viewed)
    PROVE  PairInv'
<1>1. /\ book = "HEDGED" /\ task = NoTask /\ was' = short /\ PairTypeOK
      /\ UNCHANGED <<style, book, pair, ledger, unwritten, verified, short, coin, loose, alien,
                      troubles, doubt, guessed>>
      /\ task' = [NoTask EXCEPT !.at = IF viewed THEN "margin" ELSE "size", !.viewed = viewed]
  BY DEF HeldTick, Ready, Onward, observers, PairInv
<1>2. /\ task' \in Tasks /\ task'.at \in {"margin", "size"} /\ task'.job = "none" /\ task'.got = 0
  BY <1>1 DEF NoTask, Tasks, Places, Jobs
<1>3. /\ loose = NoOrder /\ loose.job = "none" /\ task.at = "idle" /\ short \in Nat /\ pair \in Pairs
      /\ Own \in Nat
  BY <1>1, PairTypes, OwnIs DEF PairInv, PairAnswers, PairTypeOK
<1>4. PairTypeOK' /\ Own' = Own /\ Acquire' = Acquire
  BY <1>1, <1>2 DEF PairTypeOK, Own, Acquire
<1>5. Placed' /\ PairAnswers' /\ LedgerKnown'
  BY <1>1, <1>2, <1>3, <1>4 DEF PairInv, Placed, PairAnswers, LedgerKnown, Ordering
<1>6. ~guessed' => OwnKnown'
  BY <1>1, <1>2, <1>3, <1>4 DEF PairInv, OwnKnown, Ordering
<1>7. Acquire => CoinKnown'
  BY <1>1, <1>2, <1>3, <1>4 DEF PairInv, CoinKnown, Ordering
<1>8. Acquire /\ ~guessed' => CoverKept'
  BY <1>1, <1>2, <1>3, <1>4 DEF PairInv, CoverKept, Sales
<1> QED
  BY <1>4, <1>5, <1>6, <1>7, <1>8 DEF PairInv

-------------------------------------------------------------------------------
(***************************************************************************)
(* The process.                                                            *)
(***************************************************************************)

LEMMA RetryHaltKeeps ==
    ASSUME PairInv, RetryHalt
    PROVE  PairInv'
<1>1. /\ book = "HALTED" /\ task = NoTask
      /\ ledger' = [book |-> "HALTED", pair |-> pair] /\ unwritten' = FALSE
      /\ UNCHANGED <<style, book, pair, verified, task, short, was, coin, loose, alien, troubles,
                      doubt, guessed>>
  BY DEF RetryHalt, Ready, market, observers
<1>2. PairTypeOK' /\ Own' = Own /\ Acquire' = Acquire
  BY <1>1 DEF PairInv, PairTypeOK, Own, Acquire, PairBooks
<1>3. Placed' /\ PairAnswers' /\ LedgerKnown'
  BY <1>1, <1>2 DEF PairInv, Placed, PairAnswers, LedgerKnown, Ordering
<1>4. (~guessed' => OwnKnown') /\ (Acquire /\ ~guessed' => CoverKept')
  BY <1>1, <1>2 DEF PairInv, OwnKnown, CoverKept, Ordering, GotFilled
<1>5. Acquire => CoinKnown'
  BY <1>1, <1>2 DEF PairInv, CoinKnown, Ordering
<1> QED
  BY <1>2, <1>3, <1>4, <1>5 DEF PairInv

LEMMA DiesKeeps ==
    ASSUME PairInv, Dies
    PROVE  PairInv'
<1>1. /\ book' = "OFF" /\ pair' = NoPair /\ task' = NoTask /\ unwritten' = FALSE /\ verified' = FALSE
      /\ UNCHANGED <<style, ledger, short, was, coin, loose, alien, doubt, guessed>>
      /\ PairTypeOK
  BY DEF Dies, market, observers, PairInv
<1>2. troubles' \in Nat /\ task'.at = "idle"
  BY <1>1, PayTypes, PairTypes DEF Dies
<1>3. PairTypeOK' /\ Own' = Own /\ Acquire' = Acquire
  BY <1>1, <1>2, PairTypes DEF PairTypeOK, Own, Acquire, PairBooks
<1>4. Placed' /\ PairAnswers' /\ LedgerKnown'
  BY <1>1, <1>2, <1>3 DEF PairInv, Placed, PairAnswers, LedgerKnown, Ordering
<1>5. (~guessed' => OwnKnown') /\ (Acquire /\ ~guessed' => CoverKept')
  BY <1>1, <1>2, <1>3 DEF PairInv, OwnKnown, CoverKept, Ordering
<1>6. Acquire => CoinKnown'
  BY <1>1, <1>2, <1>3 DEF PairInv, CoinKnown, Ordering
<1> QED
  BY <1>3, <1>4, <1>5, <1>6 DEF PairInv

\* A start adopts only a ledger the venue agrees with.
LEMMA StartsKeeps ==
    ASSUME PairInv, Starts
    PROVE  PairInv'
<1>1. /\ book = "OFF" /\ loose = NoOrder /\ loose.job = "none" /\ was' = short
      /\ UNCHANGED <<style, ledger, unwritten, task, short, coin, loose, alien, troubles, doubt, guessed>>
      /\ PairTypeOK /\ task = NoTask /\ task.at = "idle"
      /\ IF StartAgrees
         THEN /\ pair' = ledger.pair
              /\ book' = IF pair' = NoPair THEN "FLAT" ELSE "HEDGED"
              /\ verified' = (pair' # NoPair)
         ELSE book' = "REFUSED" /\ UNCHANGED <<pair, verified>>
  BY PairTypes DEF Starts, observers, PairInv, Placed
<1>2. Own' = Own /\ Acquire' = Acquire /\ Own \in Nat /\ Own <= short /\ ledger.pair \in Pairs
      /\ short \in Nat /\ coin \in Nat
  BY <1>1, OwnIs DEF Own, Acquire, PairTypeOK
<1>3. CASE ~StartAgrees
  <2>1. book' = "REFUSED" /\ UNCHANGED <<pair, verified>>
    BY <1>1, <1>3
  <2>2. PairTypeOK'
    BY <1>1, <2>1 DEF PairTypeOK, PairBooks
  <2>3. Placed' /\ PairAnswers' /\ LedgerKnown'
    BY <1>1, <1>2, <2>1 DEF PairInv, Placed, PairAnswers, LedgerKnown, Ordering
  <2>4. (~guessed' => OwnKnown') /\ (Acquire /\ ~guessed' => CoverKept')
    BY <1>1, <1>2, <2>1 DEF PairInv, OwnKnown, CoverKept, Ordering
  <2>5. Acquire => CoinKnown'
    BY <1>1, <1>2, <2>1 DEF PairInv, CoinKnown, Ordering
  <2> QED
    BY <1>2, <2>2, <2>3, <2>4, <2>5 DEF PairInv
<1>4. CASE StartAgrees
  <2>1. /\ pair' = ledger.pair
        /\ pair' = NoPair => book' = "FLAT" /\ ledger.pair.perp = 0
        /\ pair' # NoPair => book' = "HEDGED" /\ ledger.book = "HEDGED"
        /\ ledger.pair.perp = short
        /\ ledger.book \in {"FLAT", "HEDGED"}
        /\ Acquire /\ ledger.pair # NoPair => coin = ledger.pair.spot
        /\ verified' = (pair' # NoPair)
    BY <1>1, <1>4, PairTypes DEF StartAgrees, PairInv, LedgerKnown
  <2>2. verified' \in BOOLEAN
    BY <2>1
  <2>3. PairTypeOK'
    BY <1>1, <1>2, <2>1, <2>2 DEF PairTypeOK, PairBooks
  <2>4. Placed' /\ PairAnswers' /\ LedgerKnown'
    BY <1>1, <1>2, <2>1 DEF PairInv, Placed, PairAnswers, LedgerKnown, Ordering
  <2>5. OwnKnown'
    BY <1>1, <1>2, <2>1 DEF OwnKnown, Ordering
  <2>6. Acquire => CoinKnown'
    <3>1. Acquire /\ ledger.book = "HEDGED" => ledger.pair # NoPair
      BY PairTypes DEF PairInv, CoinKnown
    <3> QED
      BY <1>1, <1>2, <2>1, <3>1 DEF PairInv, CoinKnown, Ordering, Pairs
  <2>7. Acquire /\ ~guessed' => CoverKept'
    BY <1>1, <1>2 DEF PairInv, CoverKept, Sales
  <2> QED
    BY <1>2, <2>3, <2>4, <2>5, <2>6, <2>7 DEF PairInv
<1> QED
  BY <1>3, <1>4

-------------------------------------------------------------------------------
(***************************************************************************)
(* The theorems.                                                           *)
(***************************************************************************)

LEMMA PairInvInit == PairInit => PairInv
<1> SUFFICES ASSUME PairInit PROVE PairInv
  OBVIOUS
<1>1. /\ book = "FLAT" /\ pair = NoPair /\ ledger = [book |-> "FLAT", pair |-> NoPair]
      /\ task = NoTask /\ loose = NoOrder /\ Own = 0 /\ (Acquire => coin = 0)
      /\ task.at = "idle" /\ loose.job = "none"
  BY PairTypes DEF PairInit, Own
<1>15. /\ style \in {"ACQUIRE", "OVERLAY"} /\ pair \in Pairs /\ task \in Tasks
       /\ loose \in [job : Jobs, qty : Nat]
  BY <1>1, PairTypes DEF PairInit
<1>16. coin \in Nat /\ troubles \in Nat /\ short = 0 /\ was = 0 /\ alien = 0
  BY PairAssumption DEF PairInit
<1>17. ledger \in [book : PairBooks, pair : Pairs] /\ book \in PairBooks
  BY <1>1, <1>15 DEF PairBooks
<1>2. PairTypeOK
  <2>1. /\ unwritten \in BOOLEAN /\ verified \in BOOLEAN /\ doubt \in BOOLEAN
        /\ guessed \in BOOLEAN
    BY DEF PairInit
  <2> QED
    BY <1>15, <1>16, <1>17, <2>1 DEF PairTypeOK
<1>3. Placed /\ PairAnswers /\ LedgerKnown
  BY <1>1 DEF Placed, PairAnswers, LedgerKnown, Ordering
<1>4. OwnKnown /\ (Acquire => CoinKnown) /\ (Acquire => CoverKept)
  BY <1>1, <1>2 DEF OwnKnown, CoinKnown, CoverKept, Ordering, Sales, PairTypeOK
<1> QED
  BY <1>2, <1>3, <1>4 DEF PairInv

LEMMA ThreadKeeps ==
    ASSUME PairInv, PairThread
    PROVE  PairInv'
BY SendOrderKeeps, BoughtSpotKeeps, SoldPerpKeeps, ConfirmOpenKeeps, DumpedSpotKeeps,
   SizeCloseKeeps, ClosedPerpKeeps, RereadKeeps, SoldSpotKeeps, LookForCloseKeeps, SavedSpotKeeps,
   CheckMarginKeeps, CheckSizeKeeps, CheckCoverKeeps, TrimmedPerpKeeps, ConfirmTrimKeeps,
   DecisionKeeps, RebalancedKeeps DEF PairThread

LEMMA PairInvStep == PairInv /\ [PairNext]_pairVars => PairInv'
<1> SUFFICES ASSUME PairInv, [PairNext]_pairVars PROVE PairInv'
  OBVIOUS
<1>1. CASE PairThread
  BY <1>1, ThreadKeeps
<1>2. CASE OpenPair \/ Orphan
  BY <1>2, OpeningKeeps, OrphanKeeps
<1>3. CASE ViewedTick \/ BlindTick
  BY <1>3, HeldTickKeeps DEF ViewedTick, BlindTick
<1>4. CASE RetryHalt \/ Dies \/ Starts
  BY <1>4, RetryHaltKeeps, DiesKeeps, StartsKeeps
<1>5. CASE LooseEnds \/ OthersClose \/ OthersSell \/ ClientMoves
  BY <1>5, LooseEndsKeeps, OthersCloseKeeps, OthersSellKeeps, ClientMovesKeeps
<1>6. CASE UNCHANGED pairVars
  BY <1>6 DEF pairVars, PairInv, PairTypeOK, Placed, PairAnswers, LedgerKnown, OwnKnown, CoinKnown,
              CoverKept, Own, Acquire, Ordering, GotFilled
<1> QED
  BY <1>1, <1>2, <1>3, <1>4, <1>5, <1>6 DEF PairNext

\* Wherever the thread is and whatever the venue's list shows, the own short and the
\* coin stay within what the engine can compute (carry_engine.py:2837-2895).
THEOREM PairInvariant == PairSpec => []PairInv
BY PairInvInit, PairInvStep, PTL DEF PairSpec

\* For a hedge of any size, through any number of faults, restarts and trades of
\* others, the engine's own short is never left without its coin, unless a close was
\* sized by a list that lagged and could not be confirmed (carry_engine.py:2837-2861).
THEOREM NeverNaked == PairSpec => []NeverNakedShort
<1>1. PairInv => NeverNakedShort
  BY DEF PairInv, PairTypeOK, CoverKept, NeverNakedShort, NoSpotSoldAhead, Own, Acquire
<1> QED
  BY <1>1, PairInvariant, PTL

\* A book at rest forgets nothing: what the venue holds of its own is in a halted
\* book's position, and a flat book holds nothing (carry_engine.py:1924-1928, 2160-2163).
THEOREM NothingIsForgotten == PairSpec => []ExposureIsKnown
<1>1. PairInv => ExposureIsKnown
  <2> SUFFICES ASSUME PairInv, book \in {"FLAT", "HALTED"}, ~guessed, book = "HALTED" => ~doubt
               PROVE  /\ short <= pair.perp + alien
                      /\ Acquire => coin <= pair.spot
                      /\ ledger.book = book => ledger.pair = pair
    BY DEF ExposureIsKnown
  <2>1. Own <= pair.perp /\ (Acquire => coin <= pair.spot)
    BY PairTypes DEF PairInv, OwnKnown, CoinKnown, Placed
  <2> QED
    BY <2>1 DEF PairInv, PairTypeOK, LedgerKnown, Own, Pairs, Placed
<1> QED
  BY <1>1, PairInvariant, PTL

-------------------------------------------------------------------------------
(***************************************************************************)
(* The records side by side.                                               *)
(***************************************************************************)

\* The order log and its broker: the broker's own invariant where it is the
\* broker that moves, and typed rows under any evidence.
OrdersTyped == TypeOK /\ LogInv /\ (part = "broker" => BrokerInv)

LEMMA OrdersTypedInit == MCInit => OrdersTyped
<1> SUFFICES ASSUME MCInit PROVE OrdersTyped
  OBVIOUS
<1>1. LogInit /\ VenueInit /\ blind \subseteq Links
      /\ mode = "trading" /\ call = Idle /\ todo = {}
      /\ (part = "broker" => blind = {})
  BY DEF MCInit
<1>2. part = "broker" => BrokerInv
  BY <1>1, InitBroker DEF Init
<1>3. LogInv /\ call \in Calls
  BY <1>1, LogInit_LogInv, IdleFits
<1>4. VenueTypeOK
  <2>1. /\ [st |-> "none", cum |-> 0, qty |-> 0, seen |-> FALSE, dark |-> 0,
            refused |-> FALSE] \in VenueRows
        /\ [out |-> {}, back |-> {}, qty |-> 0] \in Nets
        /\ 0 \in 0..Window
    BY WindowAssumption DEF VenueRows, Nets
  <2> QED
    BY <1>1, <2>1 DEF VenueInit, VenueTypeOK
<1> QED
  BY <1>1, <1>2, <1>3, <1>4 DEF OrdersTyped, TypeOK, LogInv

LEMMA OrdersTypedStep == OrdersTyped /\ [MCNext]_mcVars => OrdersTyped'
<1> SUFFICES ASSUME OrdersTyped, [MCNext]_mcVars PROVE OrdersTyped'
  OBVIOUS
<1>1. CASE OrdersMove /\ UNCHANGED part
  <2>1. LogNext /\ part = "orders" /\ UNCHANGED <<venue, net, age, mode, call, todo, blind, part>>
    BY <1>1 DEF OrdersMove
  <2>2. LogInv'
    BY <2>1, LogNext_LogInv DEF OrdersTyped
  <2> QED
    BY <2>1, <2>2 DEF OrdersTyped, TypeOK, VenueTypeOK, LogInv
<1>2. CASE BrokerMoves /\ UNCHANGED part
  <2>1. BrokerInv' /\ part' = "broker"
    BY <1>2, NextBroker DEF BrokerMoves, OrdersTyped
  <2> QED
    BY <2>1 DEF OrdersTyped, BrokerInv
<1>3. CASE UNCHANGED <<vars, part>>
  <2>1. UNCHANGED vars /\ UNCHANGED part
    BY <1>3
  <2>2. BrokerInv => BrokerInv'
    BY <2>1, NextBroker
  <2> QED
    BY <2>1, <2>2 DEF OrdersTyped, vars, TypeOK, VenueTypeOK, LogInv, LogTypeOK
<1> QED
  BY <1>1, <1>2, <1>3 DEF MCNext, mcVars, PairMoves, FilesMove, ReplayMoves

\* Whatever happens to them, the records of orders, days and replays stay well-formed,
\* and the files in the order of their days whatever the clock does (md_store.py:296):
\* for any number of orders, quantities, copies, days, records and products.
THEOREM RecordsTyped == MCSpec => []RecordsTypeOK
<1>1. MCSpec => StoreSpec
  <2>1. MCInit => StoreInit
    BY DEF MCInit
  <2>2. [MCNext]_mcVars => [StoreNext]_storeVars
    BY DEF MCNext, mcVars, OrdersMove, BrokerMoves, PairMoves, FilesMove, ReplayMoves
  <2> QED
    BY <2>1, <2>2, PTL DEF MCSpec, StoreSpec
<1>2. MCSpec => ReplaySpec
  <2>1. MCInit => ReplayInit
    BY DEF MCInit
  <2>2. [MCNext]_mcVars => [ReplayNext]_replayVars
    BY DEF MCNext, mcVars, OrdersMove, BrokerMoves, PairMoves, FilesMove, ReplayMoves
  <2> QED
    BY <2>1, <2>2, PTL DEF MCSpec, ReplaySpec
<1>3. MCSpec => []TypeOK
  <2>1. OrdersTyped => TypeOK
    BY DEF OrdersTyped
  <2> QED
    BY <2>1, OrdersTypedInit, OrdersTypedStep, PTL DEF MCSpec
<1>4. ReplayInv => ReplayTypeOK
  BY DEF ReplayInv
<1> QED
  BY <1>1, <1>2, <1>3, <1>4, StoreTyped, ReplayInvariant, PTL DEF RecordsTypeOK
===============================================================================
