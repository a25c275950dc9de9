------------------------------ MODULE MarketFeed ------------------------------
(***************************************************************************)
(* One public market stream: md_feed.StreamWorker on one WebSocket to the  *)
(* venue, with the market state it feeds (MarketBook) and time.            *)
(*                                                                         *)
(* The worker connects, subscribes to the book and the ticker, pings, and  *)
(* on every sign of trouble asks for a fresh book or reconnects.  The      *)
(* venue restarts its numbering, skips, repeats and garbles frames, lets   *)
(* the book topic die, refuses a subscription; the socket breaks or goes   *)
(* dead without saying so.  Faults are counted: MaxFaults bounds them.     *)
(*                                                                         *)
(* Time is a number of receive timeouts.  Every stamp of the code is kept  *)
(* as an age, saturated one above the bound it is compared with.  The      *)
(* engine's lock makes a frame's parse and application one step; the other *)
(* stream's thread shows here as StoreGapHeals, the one record of its that *)
(* touches this product.                                                   *)
(*                                                                         *)
(* Definitions named Broken... are defects the code does not have, kept    *)
(* to show that the properties would notice them.                          *)
(***************************************************************************)
EXTENDS MarketBook, Sequences, SequencesExt

CONSTANTS
    PingInterval, PongTimeout, Silence, ResyncTimeout, BookSilence, MaxBackoff,
    MaxFaults,      \* bound: faults of the venue and the network
    MaxUpdates,     \* bound: book updates of the venue
    MaxGaps,        \* bound: store gaps healed by the other stream
    Capacity,       \* bound: frames in flight beyond which the venue waits
    Prompt          \* whether everything in flight arrives before time passes

ASSUME FeedTimings ==
    /\ {PingInterval, PongTimeout, Silence, ResyncTimeout, BookSilence, MaxBackoff}
            \subseteq Nat \ {0}
    /\ {MaxFaults, MaxUpdates, MaxGaps, Capacity} \subseteq Nat
    /\ Prompt \in BOOLEAN

VARIABLES
    history,    \* every state the venue's book was in, by sequence number
    topics,     \* what the venue publishes to this connection
    up, down,   \* bytes in flight to the venue and to the worker
    link,       \* the socket: "open", "broken" (an error) or "dead" (silence)
    budget,     \* faults, updates and gaps still to come
    ws,         \* the worker holds a socket
    market,     \* the engine's state for this product
    resync,     \* a fresh book has been asked for and has not come
    asked,      \* was the book resubscribed on this connection: "never",
                \* "since" its last update, or "before" it
    age,        \* the worker's stamps, as ages
    backoff,    \* time left before the next attempt
    stepped     \* the worker has run since the clock moved

venueVars == <<history, topics>>
workerVars == <<ws, resync, asked, backoff>>
feedVars == <<history, topics, up, down, link, budget, ws, market, resync, asked,
              age, backoff, stepped>>

-------------------------------------------------------------------------------
(* The venue.                                                              *)

NoFrame == [kind |-> "none", u |-> 0, seq |-> 0, levels |-> {}, changes |-> {}, onTick |-> TRUE]
Frame(kind) == [NoFrame EXCEPT !.kind = kind]

Seq0 == Len(history)
Now == Last(history)

SnapshotFrame(state, seq) ==
    [Frame("snapshot") EXCEPT !.u = state.u, !.seq = seq, !.levels = state.levels]

DeltaFrame(state, seq, changes) ==
    [Frame("delta") EXCEPT !.u = state.u, !.seq = seq, !.changes = changes]

Silent == [book |-> FALSE, ticker |-> FALSE]

Spend(what) == budget[what] > 0 /\ budget' = [budget EXCEPT ![what] = @ - 1]

Room == Len(down) < Capacity

\* One level appears or goes: the venue's own book is never crossed.
VenueUpdate ==
    /\ Room /\ Spend("updates")
    /\ \E level \in Levels :
          LET change == [level |-> level, present |-> level \notin Now.levels]
              next == [u |-> Now.u + 1, levels |-> Changed(Now.levels, {change})]
          IN  /\ ~Crossed(next.levels)
              /\ history' = Append(history, next)
              /\ down' = IF topics.book
                         THEN Append(down, DeltaFrame(next, Seq0 + 1, {change}))
                         ELSE down
    /\ UNCHANGED <<topics, up, link, workerVars, market, age, stepped>>

\* The venue restarts: its update ids start again with a snapshot.
VenueRestart ==
    /\ Room /\ Spend("updates")
    /\ LET next == [u |-> 1, levels |-> Now.levels]
       IN  /\ history' = Append(history, next)
           /\ down' = IF topics.book THEN Append(down, SnapshotFrame(next, Seq0 + 1)) ELSE down
    /\ UNCHANGED <<topics, up, link, workerVars, market, age, stepped>>

VenueTicker ==
    /\ Room /\ topics.ticker
    /\ Prompt => ~stepped
    /\ \A i \in DOMAIN down : down[i].kind # "ticker"
    /\ down' = Append(down, Frame("ticker"))
    /\ UNCHANGED <<venueVars, up, link, budget, workerVars, market, age, stepped>>

VenueAnswers ==
    CASE Head(up) = "subscribe" ->
            /\ topics' = [book |-> TRUE, ticker |-> TRUE]
            /\ down' = down \o <<SnapshotFrame(Now, Seq0), Frame("tickerSnapshot")>>
      [] Head(up) = "subscribeBook" ->
            /\ topics' = [topics EXCEPT !.book = TRUE]
            /\ down' = Append(down, SnapshotFrame(Now, Seq0))
      [] Head(up) = "unsubscribeBook" ->
            /\ topics' = [topics EXCEPT !.book = FALSE]
            /\ down' = down
      [] Head(up) = "ping" ->
            /\ topics' = topics
            /\ down' = Append(down, Frame("pong"))

VenueHears ==
    /\ link = "open" /\ up # <<>>
    /\ up' = Tail(up)
    /\ VenueAnswers
    /\ UNCHANGED <<history, link, budget, workerVars, market, age, stepped>>

\* The venue refuses to publish the book again.
VenueRefuses ==
    /\ link = "open" /\ up # <<>> /\ Head(up) = "subscribeBook"
    /\ Spend("faults")
    /\ up' = Tail(up)
    /\ down' = Append(down, Frame("refused"))
    /\ UNCHANGED <<venueVars, link, workerVars, market, age, stepped>>

\* The book topic dies while everything else goes on.
BookTopicDies ==
    /\ topics.book /\ Spend("faults")
    /\ topics' = [topics EXCEPT !.book = FALSE]
    /\ UNCHANGED <<history, up, down, link, workerVars, market, age, stepped>>

\* A frame is skipped, repeated late, or cannot be parsed.  A venue that
\* restarts its numbering says so once: that frame is neither skipped nor
\* repeated (it is taken at its word), and no snapshot of the numbering it
\* left is repeated afterwards (the code could not tell either).
FrameSkipped ==
    /\ down # <<>> /\ Head(down).kind = "delta" /\ Spend("faults")
    /\ down' = Tail(down)
    /\ UNCHANGED <<venueVars, up, link, workerVars, market, age, stepped>>

RestartedSince(seq) == \E r \in DOMAIN history : r > seq /\ history[r].u = 1

FrameRepeated ==
    /\ down # <<>> /\ Head(down).kind \in BookFrames /\ Head(down).u # 1
    /\ Head(down).kind = "snapshot" => ~RestartedSince(Head(down).seq)
    /\ Spend("faults")
    /\ down' = Append(down, Head(down))
    /\ UNCHANGED <<venueVars, up, link, workerVars, market, age, stepped>>

FrameGarbled ==
    /\ down # <<>> /\ Head(down).kind \in BookFrames /\ Spend("faults")
    /\ down' = <<Frame("garbled")>> \o Tail(down)
    /\ UNCHANGED <<venueVars, up, link, workerVars, market, age, stepped>>

\* The tick the book is checked against is not the one this frame was quoted on.
FrameOffTick ==
    /\ down # <<>> /\ Head(down).kind \in BookFrames /\ Spend("faults")
    /\ down' = <<[Head(down) EXCEPT !.onTick = FALSE]>> \o Tail(down)
    /\ UNCHANGED <<venueVars, up, link, workerVars, market, age, stepped>>

\* The connection breaks with an error, or stops carrying anything.
LinkFails ==
    /\ ws /\ link = "open" /\ Spend("faults")
    /\ link' \in {"broken", "dead"}
    /\ up' = <<>> /\ down' = IF link' = "dead" THEN <<>> ELSE down
    /\ topics' = Silent
    /\ UNCHANGED <<history, workerVars, market, age, stepped>>

-------------------------------------------------------------------------------
(* The worker's stamps.                                                    *)

Bound ==
    [ping |-> PingInterval, pong |-> PingInterval + PongTimeout + 1, frame |-> Silence + 1,
     resync |-> ResyncTimeout + 1, book |-> BookSilence + 1, attempt |-> BookSilence + 1,
     blind |-> BookSilence + ResyncTimeout + 3]

Stamps == DOMAIN Bound

Fresh == [s \in Stamps |-> 0]

\* The stamps in use: the others are set before they are read.
Running ==
    IF ws THEN Stamps \ ((IF resync THEN {} ELSE {"resync"})
                            \cup (IF market.book.synced THEN {} ELSE {"book"}))
    ELSE {}

Older(s) == IF s \in Running /\ age[s] < Bound[s] THEN age[s] + 1 ELSE age[s]

Stamped(stamps) == [s \in Stamps |-> IF s \in stamps THEN 0 ELSE age[s]]

-------------------------------------------------------------------------------
(* The worker, one iteration of its loop.                                  *)

Closed == ws' = FALSE /\ up' = <<>> /\ down' = <<>> /\ topics' = Silent

\* _drop: the socket is closed, the market is told, a retry is scheduled.
Drop ==
    /\ Closed
    /\ market' = Offline(market)
    /\ resync' = FALSE /\ asked' = "never"
    /\ backoff' \in 1..MaxBackoff
    /\ age' = Fresh
    /\ link' = "broken"

Connect ==
    /\ ~ws /\ backoff = 0
    /\ ws' = TRUE /\ link' = "open"
    /\ market' = Online(market)
    /\ resync' = FALSE /\ asked' = "never"
    /\ up' = <<"subscribe">>
    /\ age' = Fresh
    /\ stepped' = TRUE
    /\ UNCHANGED <<venueVars, down, budget, backoff>>

\* connect() raises, or the subscription cannot be sent.
ConnectFails ==
    /\ ~ws /\ backoff = 0 /\ Spend("faults")
    /\ market' = Offline(market)
    /\ backoff' \in 1..MaxBackoff
    /\ stepped' = TRUE
    /\ UNCHANGED <<venueVars, up, down, link, ws, resync, asked, age>>

Waits ==
    /\ ~ws /\ backoff > 0 /\ ~stepped
    /\ stepped' = TRUE
    /\ UNCHANGED <<venueVars, up, down, link, budget, workerVars, market, age>>

PingDue == age.ping >= PingInterval

\* Nothing has come of a ping, of anything, or of a request for the book.
HeartbeatLost == age.pong > PingInterval + PongTimeout
StaleFeed == age.frame > Silence

BrokenResyncTimedOut == FALSE

ResyncTimedOut == resync /\ age.resync > ResyncTimeout

BrokenBookQuiet == FALSE

\* _book_liveness: how long the book has been silent, or, unsynced, how long
\* ago it was last asked for.
BookQuiet ==
    /\ ~resync
    /\ IF market.book.synced THEN age.book > BookSilence ELSE age.attempt > BookSilence

AskedInVain ==
    IF market.book.synced THEN asked = "since" ELSE asked # "never"

BookDead == BookQuiet /\ AskedInVain /\ age.attempt > BookSilence

MustDrop ==
    \/ PingDue /\ link = "broken"
    \/ HeartbeatLost
    \/ StaleFeed
    \/ ResyncTimedOut
    \/ BookDead

\* _resubscribe_book, with what is left of the bytes and the market.
Resubscribe(sent, left, told, stamps) ==
    IF link = "broken"
    THEN Drop
    ELSE /\ up' = IF link = "dead" THEN up ELSE sent \o <<"unsubscribeBook", "subscribeBook">>
         /\ down' = left
         /\ market' = BookInvalidated(told)
         /\ resync' = TRUE /\ asked' = "since"
         /\ age' = Stamped(stamps \cup {"resync", "attempt", "book"})
         /\ UNCHANGED <<topics, link, ws, backoff>>

Pinged == IF PingDue /\ link = "open" THEN Append(up, "ping") ELSE up
PingStamp == IF PingDue THEN {"ping"} ELSE {}

\* A frame was read: it is logged and applied, and may ask for a fresh book.
Hear(ev) ==
    LET told == Ingest(market, ev)
        taken == ev.kind \in BookFrames /\ ApplyBook(market.book, ev).status \in TakenStatuses
        stamps == PingStamp \cup {"frame"}
                    \cup (IF ev.kind = "pong" THEN {"pong"} ELSE {})
                    \cup (IF taken THEN {"book", "blind"} ELSE {})
                    \cup (IF told.book.synced THEN {"resync"} ELSE {"book"})
    IN  IF Alarm(market, ev) /\ ~resync
        THEN Resubscribe(Pinged, Tail(down), told, stamps)
        ELSE /\ market' = told
             /\ down' = Tail(down)
             /\ up' = Pinged
             /\ age' = Stamped(stamps)
             /\ resync' = (resync /\ ~told.book.synced)
             /\ asked' = IF taken /\ asked = "since" THEN "before" ELSE asked
             /\ UNCHANGED <<topics, link, ws, backoff>>

Idle ==
    /\ ~stepped
    /\ up' = Pinged
    /\ age' = Stamped(PingStamp)
    /\ UNCHANGED <<topics, down, link, ws, market, resync, asked, backoff>>

Receive ==
    \/ link = "broken" /\ down = <<>> /\ Drop
    \/ down # <<>> /\ Hear(Head(down))
    \/ link # "broken" /\ down = <<>> /\ Idle

Step ==
    /\ ws
    /\ \/ MustDrop /\ Drop
       \/ /\ ~MustDrop /\ BookQuiet /\ ~AskedInVain
          /\ Resubscribe(Pinged, down, market, PingStamp)
       \/ ~MustDrop /\ ~(BookQuiet /\ ~AskedInVain) /\ Receive
    /\ stepped' = TRUE
    /\ UNCHANGED <<history, budget>>

\* A record of the other stream finds the log writable again and marks the gap.
StoreGapHeals ==
    /\ Spend("gaps")
    /\ market' = AfterStoreGap(market)
    /\ age' = Stamped({"book"})
    /\ UNCHANGED <<venueVars, up, down, link, workerVars, stepped>>

Tick ==
    /\ stepped
    /\ Prompt /\ link = "open" => up = <<>> /\ down = <<>>
    /\ stepped' = FALSE
    /\ age' = [s \in Stamps |-> Older(s)]
    /\ backoff' = IF backoff > 0 THEN backoff - 1 ELSE 0
    /\ UNCHANGED <<venueVars, up, down, link, budget, ws, market, resync, asked>>

-------------------------------------------------------------------------------
FeedInit ==
    /\ history = <<[u |-> 1, levels |-> {}]>>
    /\ topics = Silent
    /\ up = <<>> /\ down = <<>>
    /\ link = "broken"
    /\ budget = [faults |-> MaxFaults, updates |-> MaxUpdates, gaps |-> MaxGaps]
    /\ ws = FALSE
    /\ market = OfflineMarket
    /\ resync = FALSE /\ asked = "never"
    /\ age = Fresh
    /\ backoff = 0
    /\ stepped = FALSE

Faults ==
    \/ VenueRefuses \/ BookTopicDies \/ FrameSkipped \/ FrameRepeated
    \/ FrameGarbled \/ FrameOffTick \/ LinkFails

Venue == VenueUpdate \/ VenueRestart \/ VenueTicker \/ VenueHears

Worker == Connect \/ ConnectFails \/ Waits \/ Step

FeedNext == Venue \/ Faults \/ Worker \/ StoreGapHeals \/ Tick

-------------------------------------------------------------------------------
\* A book that calls itself synced is, level for level, the book the venue had
\* at the update it names - whatever was skipped, repeated, garbled, restarted
\* or asked for again on the way (md_book.py:9-14: never "patched" over) - and no
\* repeated or late frame takes it back to an earlier one.
BookIsTheVenues ==
    LET book == market.book
    IN  book.synced =>
            /\ book.seq \in DOMAIN history
            /\ history[book.seq] = [u |-> book.u, levels |-> book.levels]

BookIsTrue ==
    /\ []BookIsTheVenues
    /\ [][market.book.synced /\ market'.book.synced => market'.book.seq >= market.book.seq]_feedVars

\* A connection on which no book frame is taken is never kept: within one
\* silence and one resync timeout the worker has reconnected, whatever else
\* the connection carries (md_feed.py:_book_liveness).
TroubleIsActedOn ==
    ws => age.blind <= BookSilence + ResyncTimeout + 2

\* What the exit side of a held pair needs of this stream (_MONITOR_NEEDS).
Usable == market.connected /\ market.book.synced /\ market.ticker

\* When the faults are over the stream always comes back: connected, with a
\* synced book and a ticker to read marks from.  A store gap is the exception:
\* it resets a ticker that nobody asks for again (md_engine.py:155-159).
FeedHeals == []<>(Usable \/ budget.gaps < MaxGaps)

\* The worker's thread runs, time passes, and a venue that is reached answers.
FeedFairness ==
    /\ WF_feedVars(Connect) /\ WF_feedVars(Waits) /\ WF_feedVars(Step)
    /\ WF_feedVars(VenueHears) /\ WF_feedVars(VenueTicker) /\ WF_feedVars(Tick)

FeedSpec == FeedInit /\ [][FeedNext]_feedVars /\ FeedFairness
===============================================================================
