--------------------------- MODULE MarketFeed_proofs ---------------------------
(***************************************************************************)
(* Theorems about the public stream and the store it fills, for any        *)
(* levels, any bounds on updates, faults and gaps, any capacity of the     *)
(* queues and any delays.                                                  *)
(*                                                                         *)
(* That a book the store calls synced is one the venue had cannot be seen  *)
(* from the store alone: it depends on every frame still on its way.  The  *)
(* inductive invariant, BookFollows, therefore follows the venue's history *)
(* along the pipe:                                                         *)
(*   - inside one numbering the venue's numbers only rise (Counts), every  *)
(*     frame on its way says what the venue's book was at its place in     *)
(*     that history (FramesTrue), and so does a synced book (BookTrue);    *)
(*   - a restart of the numbering is never slipped past the store: before  *)
(*     a delta of the new numbering is read, the store has seen a snapshot *)
(*     of it or does not trust its book (RestartsKnown, TopicKnown), and   *)
(*     no snapshot takes it back (NumberingsInOrder, RestartsLast).        *)
(* It is stated over plain values (the venue's history, the subscription,  *)
(* the pipe, the book), so that each thing that can happen to the pipe is  *)
(* one lemma, and each action of the model is an instance of one or two.   *)
(***************************************************************************)
EXTENDS MarketFeed, SequenceTheorems, TLAPS

-------------------------------------------------------------------------------
(* What the variables can hold.                                            *)

Requests == {"subscribe", "subscribeBook", "unsubscribeBook", "ping"}

Kinds == {"none", "snapshot", "delta", "tickerSnapshot", "ticker", "pong", "refused", "garbled"}

BookStates == [u : Nat \ {0}, levels : SUBSET Levels]

FrameSet ==
    [kind : Kinds, u : Nat, seq : Nat, levels : SUBSET Levels,
     changes : SUBSET [level : Levels, present : BOOLEAN], onTick : BOOLEAN]

BookSet == [levels : SUBSET Levels, u : Nat, seq : Nat, synced : BOOLEAN]

MarketSet == [connected : BOOLEAN, book : BookSet, ticker : BOOLEAN]

FeedTyped ==
    /\ history \in Seq(BookStates) /\ history # <<>>
    /\ topics \in [book : BOOLEAN, ticker : BOOLEAN]
    /\ up \in Seq(Requests)
    /\ down \in Seq(FrameSet)
    /\ link \in {"open", "broken", "dead"}
    /\ budget \in [{"faults", "updates", "gaps"} -> Nat]
    /\ ws \in BOOLEAN
    /\ market \in MarketSet
    /\ resync \in BOOLEAN
    /\ asked \in {"never", "since", "before"}
    /\ age \in [Stamps -> Nat]
    /\ backoff \in 0..MaxBackoff
    /\ stepped \in BOOLEAN

-------------------------------------------------------------------------------
(* Sequences.                                                              *)

LEMMA TailFacts ==
    ASSUME NEW S, NEW q \in Seq(S), q # <<>>
    PROVE  /\ Len(q) \in Nat \ {0} /\ DOMAIN q = 1..Len(q)
           /\ Head(q) = q[1] /\ Head(q) \in S
           /\ Tail(q) \in Seq(S) /\ Len(Tail(q)) = Len(q) - 1
           /\ DOMAIN Tail(q) = 1..(Len(q) - 1)
           /\ \A i \in 1..(Len(q) - 1) : Tail(q)[i] = q[i + 1]
  BY HeadTailProperties, EmptySeq, LenProperties, ElementOfSeq

LEMMA AppendFacts ==
    ASSUME NEW S, NEW q \in Seq(S), NEW e \in S
    PROVE  /\ Len(q) \in Nat /\ DOMAIN q = 1..Len(q)
           /\ Append(q, e) \in Seq(S) /\ Append(q, e) # <<>>
           /\ Len(Append(q, e)) = Len(q) + 1
           /\ DOMAIN Append(q, e) = 1..(Len(q) + 1)
           /\ Append(q, e)[Len(q) + 1] = e
           /\ \A i \in 1..Len(q) : Append(q, e)[i] = q[i]
  BY AppendProperties, LenProperties

\* Another element in the place of the first.
LEMMA HeadReplaced ==
    ASSUME NEW S, NEW q \in Seq(S), q # <<>>, NEW e \in S
    PROVE  /\ <<e>> \o Tail(q) \in Seq(S)
           /\ Len(<<e>> \o Tail(q)) = Len(q)
           /\ DOMAIN (<<e>> \o Tail(q)) = 1..Len(q)
           /\ (<<e>> \o Tail(q))[1] = e
           /\ \A i \in 2..Len(q) : (<<e>> \o Tail(q))[i] = q[i]
<1> DEFINE one == <<e>>  rest == Tail(q)  all == one \o rest
<1>1. /\ Len(q) \in Nat \ {0} /\ rest \in Seq(S) /\ Len(rest) = Len(q) - 1
      /\ \A i \in 1..(Len(q) - 1) : rest[i] = q[i + 1]
  BY TailFacts
<1>2. one \in Seq(S) /\ Len(one) = 1 /\ one[1] = e
  OBVIOUS
<1> HIDE DEF one, rest
<1>3. /\ all \in Seq(S) /\ Len(all) = Len(one) + Len(rest)
      /\ \A i \in 1..(Len(one) + Len(rest)) :
            all[i] = IF i <= Len(one) THEN one[i] ELSE rest[i - Len(one)]
  BY <1>1, <1>2, ConcatProperties
<1>4. Len(all) = Len(q) /\ DOMAIN all = 1..Len(q)
  BY <1>1, <1>2, <1>3, LenProperties
<1>5. all[1] = e
  BY <1>1, <1>2, <1>3
<1>6. ASSUME NEW i \in 2..Len(q) PROVE all[i] = q[i]
  <2>1. i - 1 \in 1..(Len(q) - 1) /\ (i - 1) + 1 = i /\ ~(i <= 1)
    BY <1>1
  <2>2. all[i] = rest[i - 1]
    BY <2>1, <1>1, <1>2, <1>3
  <2> QED
    BY <2>1, <2>2, <1>1
<1> QED
  BY <1>3, <1>4, <1>5, <1>6 DEF one, rest

-------------------------------------------------------------------------------
(* Frames and the book.                                                    *)

\* What becomes of a book `b' that hears the frame `f'.
Moves(b, f, b2) ==
    b2.synced =>
        \/ /\ b2 = b /\ f.kind # "garbled"
           /\ f.kind = "snapshot" => b.seq >= f.seq
        \/ /\ f.kind = "snapshot"
           /\ b2.u = f.u /\ b2.seq = f.seq /\ b2.levels = f.levels
           /\ b.synced => f.u = 1 \/ f.seq >= b.seq
        \/ /\ f.kind = "delta" /\ b.synced
           /\ f.u = b.u + 1 /\ f.seq > b.seq
           /\ b2.u = f.u /\ b2.seq = f.seq /\ b2.levels = Changed(b.levels, f.changes)

LEMMA ChangedTyped ==
    ASSUME NEW l \in SUBSET Levels, NEW c \in SUBSET [level : Levels, present : BOOLEAN]
    PROVE  Changed(l, c) \in SUBSET Levels
  BY DEF Changed

LEMMA ApplyTyped ==
    ASSUME NEW b \in BookSet, NEW f \in FrameSet, f.kind \in BookFrames
    PROVE  ApplyBook(b, f).book \in BookSet /\ Moves(b, f, ApplyBook(b, f).book)
<1>1. CASE f.kind = "snapshot"
  <2>1. ApplyBook(b, f) = ApplySnapshot(b, f)
    BY <1>1 DEF ApplyBook
  <2>2. CASE StaleSnapshot(b, f) /\ f.seq = b.seq /\ f.u = b.u
    <3>1. ApplyBook(b, f).book = b
      BY <2>1, <2>2 DEF ApplySnapshot, Result
    <3> QED
      BY <1>1, <2>2, <3>1 DEF Moves, FrameSet, BookSet
  <2>3. CASE StaleSnapshot(b, f) /\ f.seq < b.seq
    <3>1. ApplyBook(b, f).book = b
      BY <2>1, <2>3 DEF ApplySnapshot, Result, FrameSet, BookSet
    <3> QED
      BY <1>1, <2>3, <3>1 DEF Moves, FrameSet, BookSet
  <2>4. CASE ~f.onTick /\ ~(StaleSnapshot(b, f) /\ f.seq = b.seq /\ f.u = b.u)
                /\ ~(StaleSnapshot(b, f) /\ f.seq < b.seq)
    <3>1. ApplyBook(b, f).book = [b EXCEPT !.synced = FALSE]
      BY <2>1, <2>4 DEF ApplySnapshot, Result, Invalidated
    <3> QED
      BY <3>1 DEF Moves, BookSet
  <2>5. CASE f.onTick /\ ~(StaleSnapshot(b, f) /\ f.seq = b.seq /\ f.u = b.u)
                /\ ~(StaleSnapshot(b, f) /\ f.seq < b.seq)
    <3>1. ApplyBook(b, f).book = [levels |-> f.levels, u |-> f.u, seq |-> f.seq, synced |-> TRUE]
      BY <2>1, <2>5 DEF ApplySnapshot, Result
    <3>2. ApplyBook(b, f).book \in BookSet
      BY <3>1 DEF BookSet, FrameSet
    <3>3. b.synced => f.u = 1 \/ f.seq >= b.seq
      BY <2>5 DEF StaleSnapshot, BookSet, FrameSet
    <3> QED
      BY <1>1, <3>1, <3>2, <3>3 DEF Moves
  <2> QED
    BY <2>2, <2>3, <2>4, <2>5
<1>2. CASE f.kind = "delta"
  <2>1. ApplyBook(b, f) = ApplyDelta(b, f)
    BY <1>2 DEF ApplyBook
  <2> DEFINE levels == Changed(b.levels, f.changes)
  <2>2. CASE ~b.synced
    <3>1. ApplyBook(b, f).book = b
      BY <2>1, <2>2 DEF ApplyDelta, Result
    <3> QED
      BY <2>2, <3>1 DEF Moves
  <2>3. CASE b.synced /\ f.u = b.u + 1 /\ f.seq > b.seq /\ f.onTick
    <3>1. ApplyDelta(b, f) = NextDelta(b, f)
      BY <2>3 DEF ApplyDelta, BookSet, FrameSet
    <3>2. CASE Flaw(b, f, levels) = "NONE"
      <4>1. ApplyBook(b, f).book = [levels |-> levels, u |-> f.u, seq |-> f.seq, synced |-> TRUE]
        BY <2>1, <3>1, <3>2 DEF NextDelta, Result
      <4>2. levels \in SUBSET Levels
        BY ChangedTyped DEF BookSet, FrameSet
      <4> HIDE DEF levels
      <4>3. ApplyBook(b, f).book \in BookSet
        BY <4>1, <4>2 DEF BookSet, FrameSet
      <4> QED
        BY <1>2, <2>3, <4>1, <4>3 DEF Moves, levels
    <3>3. CASE Flaw(b, f, levels) # "NONE"
      <4>1. ApplyBook(b, f).book = [b EXCEPT !.synced = FALSE]
        BY <2>1, <3>1, <3>3 DEF NextDelta, Result, Invalidated
      <4> QED
        BY <4>1 DEF Moves, BookSet
    <3> QED
      BY <3>2, <3>3
  <2>4. CASE b.synced /\ ~(f.u = b.u + 1 /\ f.seq > b.seq /\ f.onTick)
    <3>1. ApplyBook(b, f).book = b \/ ApplyBook(b, f).book = [b EXCEPT !.synced = FALSE]
      BY <2>1, <2>4 DEF ApplyDelta, NextDelta, Flaw, Result, Invalidated, BookSet, FrameSet
    <3> QED
      BY <1>2, <3>1 DEF Moves, BookSet
  <2> QED
    BY <2>2, <2>3, <2>4
<1> QED
  BY <1>1, <1>2 DEF BookFrames

\* What one frame leaves of the market.
LEMMA IngestTyped ==
    ASSUME NEW m \in MarketSet, NEW f \in FrameSet
    PROVE  Ingest(m, f) \in MarketSet /\ Moves(m.book, f, Ingest(m, f).book)
<1>0. m.book \in BookSet
  BY DEF MarketSet
<1>1. CASE f.kind \in BookFrames
  <2> DEFINE b == ApplyBook(m.book, f).book
  <2>1. b \in BookSet /\ Moves(m.book, f, b)
    BY <1>0, <1>1, ApplyTyped
  <2>2. Ingest(m, f) = [m EXCEPT !.book = b]
    BY <1>1 DEF Ingest, BookFrames, TickerFrames
  <2> HIDE DEF b
  <2> QED
    BY <2>1, <2>2 DEF MarketSet
<1>2. CASE f.kind = "garbled"
  <2>1. Ingest(m, f) = [m EXCEPT !.book = [m.book EXCEPT !.synced = FALSE]]
    BY <1>2 DEF Ingest, BookFrames, TickerFrames, BookInvalidated, Invalidated
  <2> QED
    BY <1>0, <2>1 DEF MarketSet, BookSet, Moves
<1>3. CASE f.kind \in TickerFrames
  <2>1. Ingest(m, f) = [m EXCEPT !.ticker = m.ticker \/ f.kind = "tickerSnapshot"]
    BY <1>3 DEF Ingest, BookFrames, TickerFrames, TickerHeard
  <2>2. f.kind # "snapshot" /\ f.kind # "garbled"
    BY <1>3 DEF TickerFrames
  <2> QED
    BY <2>1, <2>2 DEF MarketSet, Moves
<1>4. CASE ~(f.kind \in BookFrames) /\ f.kind # "garbled" /\ ~(f.kind \in TickerFrames)
  <2>1. Ingest(m, f) = m
    BY <1>4 DEF Ingest
  <2> QED
    BY <1>4, <2>1 DEF Moves, BookFrames
<1> QED
  BY <1>1, <1>2, <1>3, <1>4

-------------------------------------------------------------------------------
(* The venue's book, the frames on their way and the worker's book, apart  *)
(* from everything else: `h' is the history, `t' whether the book topic is *)
(* alive, `q' the frames in flight and `b' the worker's book.              *)

Restarts(h) == {r \in 1..Len(h) : h[r].u = 1}

\* Between two restarts the update ids grow.
Counts(h) ==
    \A i, j \in 1..Len(h) :
        i < j /\ (\A r \in (i + 1)..j : h[r].u # 1) => h[i].u < h[j].u

\* A frame says what the venue's book was.
SnapshotTrue(h, f) ==
    f.seq \in 1..Len(h) /\ h[f.seq].u = f.u /\ h[f.seq].levels = f.levels

DeltaTrue(h, f) ==
    /\ f.seq \in 2..Len(h)
    /\ h[f.seq].u = f.u /\ f.u = h[f.seq - 1].u + 1
    /\ h[f.seq].levels = Changed(h[f.seq - 1].levels, f.changes)

FrameTrue(h, f) ==
    /\ f.kind = "snapshot" => SnapshotTrue(h, f)
    /\ f.kind = "delta" => DeltaTrue(h, f)

FramesTrue(h, q) == \A j \in 1..Len(q) : FrameTrue(h, q[j])

\* Only the next frame is known to be garbled.
GarbledNext(q) == \A j \in 1..Len(q) : q[j].kind = "garbled" => j = 1

\* A snapshot is never of an older numbering than a frame it comes after.
NumberingsInOrder(h, q) ==
    \A i, j \in 1..Len(q) :
        i < j /\ q[i].kind \in BookFrames /\ q[j].kind = "snapshot" =>
            \A r \in Restarts(h) : r <= q[i].seq => r <= q[j].seq

\* The restart `r' is known to the book before the frame at `j' is read: a
\* snapshot since then comes before it, or the book has one already or is
\* not trusted.
Known(q, b, j, r) ==
    \/ \E m \in 1..Len(q) : m < j /\ q[m].kind = "snapshot" /\ r <= q[m].seq
    \/ /\ \A m \in 1..Len(q) : m < j => q[m].kind # "snapshot"
       /\ b.synced => r <= b.seq \/ (1 < j /\ q[1].kind = "garbled")

RestartsKnown(h, q, b) ==
    \A j \in 1..Len(q) : q[j].kind = "delta" =>
        \A r \in Restarts(h) : r < q[j].seq => Known(q, b, j, r)

TopicKnown(h, t, q, b) ==
    t => \A r \in Restarts(h) : Known(q, b, Len(q) + 1, r)

\* The frame of a restart comes after everything older.
RestartsLast(q, b) ==
    \A j \in 1..Len(q) : q[j].kind = "snapshot" /\ q[j].u = 1 =>
        /\ b.synced => b.seq <= q[j].seq
        /\ \A i \in 1..Len(q) : i < j /\ q[i].kind \in BookFrames => q[i].seq <= q[j].seq

BookTrue(h, b) ==
    b.synced => b.seq \in 1..Len(h) /\ h[b.seq].u = b.u /\ h[b.seq].levels = b.levels

Typed(h, t, q, b) ==
    /\ h \in Seq(BookStates) /\ h # <<>>
    /\ t \in BOOLEAN /\ q \in Seq(FrameSet) /\ b \in BookSet

Follows(h, t, q, b) ==
    /\ Counts(h) /\ FramesTrue(h, q) /\ GarbledNext(q) /\ NumberingsInOrder(h, q)
    /\ RestartsKnown(h, q, b) /\ TopicKnown(h, t, q, b)
    /\ RestartsLast(q, b) /\ BookTrue(h, b)

USE DEF Typed

\* Nothing in flight and a book no better than before.
LEMMA FollowsEmpty ==
    ASSUME NEW h, NEW t, NEW q, NEW b, NEW b2, Typed(h, t, q, b), Follows(h, t, q, b),
           b2 = b \/ ~b2.synced
    PROVE  Follows(h, FALSE, <<>>, b2)
<1>1. Len(<<>>) = 0 /\ 1..0 = {}
  OBVIOUS
<1> QED
  BY <1>1 DEF Follows, FramesTrue, GarbledNext, NumberingsInOrder, RestartsKnown, TopicKnown,
              RestartsLast, BookTrue

\* The same frames, and a topic and a book no better than before.
LEMMA FollowsQuiet ==
    ASSUME NEW h, NEW t, NEW q, NEW b, NEW t2, NEW b2,
           Typed(h, t, q, b), Follows(h, t, q, b),
           t2 => t, b2 = b \/ ~b2.synced
    PROVE  Follows(h, t2, q, b2)
<1>1. ASSUME NEW j, NEW r, Known(q, b, j, r)
      PROVE  Known(q, b2, j, r)
  BY <1>1 DEF Known
<1>2. RestartsKnown(h, q, b2) /\ TopicKnown(h, t2, q, b2)
  BY <1>1 DEF Follows, RestartsKnown, TopicKnown
<1> QED
  BY <1>2 DEF Follows, RestartsLast, BookTrue

\* What is known before a frame stays known when frames are added after it.
LEMMA KnownAppended ==
    ASSUME NEW q \in Seq(FrameSet), NEW f \in FrameSet, NEW b, NEW r,
           NEW j \in 1..(Len(q) + 1), Known(q, b, j, r)
    PROVE  Known(Append(q, f), b, j, r)
<1> DEFINE a == Append(q, f)
<1>1. /\ Len(q) \in Nat /\ Len(a) = Len(q) + 1
      /\ \A i \in 1..Len(q) : a[i] = q[i]
  BY AppendFacts
<1> HIDE DEF a
<1> SUFFICES Known(a, b, j, r)
  BY DEF a
<1>2. CASE \E m \in 1..Len(q) : m < j /\ q[m].kind = "snapshot" /\ r <= q[m].seq
  BY <1>1, <1>2 DEF Known
<1>3. CASE /\ \A m \in 1..Len(q) : m < j => q[m].kind # "snapshot"
           /\ b.synced => r <= b.seq \/ (1 < j /\ q[1].kind = "garbled")
  <2>1. \A m \in 1..Len(a) : m < j => m \in 1..Len(q)
    BY <1>1
  <2>2. 1 < j => 1 \in 1..Len(q)
    BY <1>1
  <2> QED
    BY <1>1, <1>3, <2>1, <2>2 DEF Known
<1> QED
  BY <1>2, <1>3 DEF Known

\* A frame that is not of the book is sent.
LEMMA FollowsPlain ==
    ASSUME NEW h, NEW t, NEW q, NEW b, NEW f \in FrameSet,
           Typed(h, t, q, b), Follows(h, t, q, b),
           ~(f.kind \in BookFrames), f.kind # "garbled"
    PROVE  Follows(h, t, Append(q, f), b)
<1> DEFINE a == Append(q, f)
<1>1. /\ Len(q) \in Nat /\ Len(a) = Len(q) + 1 /\ a[Len(q) + 1] = f
      /\ \A i \in 1..Len(q) : a[i] = q[i]
  BY AppendFacts
<1>2. f.kind # "snapshot" /\ f.kind # "delta"
  BY DEF BookFrames
<1>k. ASSUME NEW r, NEW j \in 1..(Len(q) + 1), Known(q, b, j, r)
      PROVE  Known(a, b, j, r)
  BY <1>k, KnownAppended
<1> HIDE DEF a
<1>3. \A j \in 1..Len(a) : j \in 1..Len(q) \/ j = Len(q) + 1
  BY <1>1
<1>4. FramesTrue(h, a) /\ GarbledNext(a)
  BY <1>1, <1>2, <1>3 DEF Follows, FramesTrue, FrameTrue, GarbledNext
<1>5. NumberingsInOrder(h, a)
  <2> SUFFICES ASSUME NEW i \in 1..Len(a), NEW j \in 1..Len(a), i < j,
                      a[i].kind \in BookFrames, a[j].kind = "snapshot"
               PROVE  \A r \in Restarts(h) : r <= a[i].seq => r <= a[j].seq
    BY DEF NumberingsInOrder
  <2>1. i \in 1..Len(q) /\ j \in 1..Len(q)
    BY <1>1, <1>2, <1>3
  <2> QED
    BY <1>1, <2>1 DEF Follows, NumberingsInOrder
<1>6. RestartsKnown(h, a, b)
  BY <1>1, <1>2, <1>3, <1>k DEF Follows, RestartsKnown
<1>7. TopicKnown(h, t, a, b)
  <2> SUFFICES ASSUME t, NEW r \in Restarts(h)
               PROVE  Known(a, b, Len(q) + 2, r)
    BY <1>1 DEF TopicKnown
  <2>1. Known(a, b, Len(q) + 1, r)
    BY <1>1, <1>k DEF Follows, TopicKnown
  <2>2. \A m \in 1..Len(a) : m < Len(q) + 2 /\ a[m].kind = "snapshot" => m < Len(q) + 1
    BY <1>1, <1>2, <1>3
  <2> QED
    BY <1>1, <2>1, <2>2 DEF Known
<1>8. RestartsLast(a, b)
  <2> SUFFICES ASSUME NEW j \in 1..Len(a), a[j].kind = "snapshot", a[j].u = 1
               PROVE  /\ b.synced => b.seq <= a[j].seq
                      /\ \A i \in 1..Len(a) :
                            i < j /\ a[i].kind \in BookFrames => a[i].seq <= a[j].seq
    BY DEF RestartsLast
  <2>1. j \in 1..Len(q)
    BY <1>1, <1>2, <1>3
  <2>2. \A i \in 1..Len(a) : i < j => i \in 1..Len(q)
    BY <1>1, <2>1
  <2> QED
    BY <1>1, <2>1, <2>2 DEF Follows, RestartsLast
<1>9. Follows(h, t, a, b)
  BY <1>4, <1>5, <1>6, <1>7, <1>8 DEF Follows
<1> QED
  BY <1>9 DEF a

\* A frame's place in what was sent before it.
LEMMA AppendedOrder ==
    ASSUME NEW h, NEW q \in Seq(FrameSet), NEW b, NEW f \in FrameSet,
           FramesTrue(h, q), GarbledNext(q), NumberingsInOrder(h, q), RestartsLast(q, b),
           f.kind \in BookFrames, FrameTrue(h, f),
           f.kind = "snapshot" =>
                /\ \A r \in Restarts(h) : r <= f.seq
                /\ f.u = 1 => f.seq = Len(h) /\ (b.synced => b.seq <= Len(h))
    PROVE  LET a == Append(q, f) IN
           /\ FramesTrue(h, a) /\ GarbledNext(a)
           /\ NumberingsInOrder(h, a) /\ RestartsLast(a, b)
<1> DEFINE a == Append(q, f)
<1>1. /\ Len(q) \in Nat /\ Len(a) = Len(q) + 1 /\ a[Len(q) + 1] = f
      /\ \A i \in 1..Len(q) : a[i] = q[i]
  BY AppendFacts
<1> HIDE DEF a
<1> SUFFICES /\ FramesTrue(h, a) /\ GarbledNext(a)
             /\ NumberingsInOrder(h, a) /\ RestartsLast(a, b)
  BY DEF a
<1>2. f.kind # "garbled"
  BY DEF BookFrames
<1>3. \A j \in 1..Len(a) : j \in 1..Len(q) \/ j = Len(q) + 1
  BY <1>1
<1>4. FramesTrue(h, a) /\ GarbledNext(a)
  BY <1>1, <1>2, <1>3 DEF FramesTrue, GarbledNext
<1>5. NumberingsInOrder(h, a)
  <2> SUFFICES ASSUME NEW i \in 1..Len(a), NEW j \in 1..Len(a), i < j,
                      a[i].kind \in BookFrames, a[j].kind = "snapshot",
                      NEW r \in Restarts(h), r <= a[i].seq
               PROVE  r <= a[j].seq
    BY DEF NumberingsInOrder
  <2>1. i \in 1..Len(q)
    BY <1>1
  <2>2. CASE j \in 1..Len(q)
    BY <1>1, <2>1, <2>2 DEF NumberingsInOrder
  <2>3. CASE j = Len(q) + 1
    BY <1>1, <2>3
  <2> QED
    BY <1>3, <2>2, <2>3
<1>6. RestartsLast(a, b)
  <2> SUFFICES ASSUME NEW j \in 1..Len(a), a[j].kind = "snapshot", a[j].u = 1
               PROVE  /\ b.synced => b.seq <= a[j].seq
                      /\ \A i \in 1..Len(a) :
                            i < j /\ a[i].kind \in BookFrames => a[i].seq <= a[j].seq
    BY DEF RestartsLast
  <2>2. CASE j \in 1..Len(q)
    <3>1. \A i \in 1..Len(a) : i < j => i \in 1..Len(q)
      BY <1>1, <2>2
    <3> QED
      BY <1>1, <2>2, <3>1 DEF RestartsLast
  <2>3. CASE j = Len(q) + 1
    <3>1. f.kind = "snapshot" /\ f.u = 1 /\ a[j] = f /\ f.seq = Len(h)
      BY <1>1, <2>3
    <3>2. ASSUME NEW i \in 1..Len(a), i < j, a[i].kind \in BookFrames
          PROVE  a[i].seq <= Len(h)
      <4>1. i \in 1..Len(q) /\ a[i] = q[i]
        BY <1>1, <2>3, <3>2
      <4>2. q[i].seq \in 1..Len(h)
        BY <4>1, <3>2 DEF FramesTrue, FrameTrue, SnapshotTrue, DeltaTrue, BookFrames
      <4> QED
        BY <4>1, <4>2
    <3> QED
      BY <3>1, <3>2
  <2> QED
    BY <1>3, <2>2, <2>3
<1> QED
  BY <1>4, <1>5, <1>6

\* A delta is sent, and every restart before it is known by then.
LEMMA FollowsDelta ==
    ASSUME NEW h, NEW t, NEW q, NEW b, NEW f \in FrameSet,
           Typed(h, t, q, b), Follows(h, t, q, b),
           f.kind = "delta", DeltaTrue(h, f),
           \A r \in Restarts(h) : r < f.seq => Known(q, b, Len(q) + 1, r)
    PROVE  Follows(h, t, Append(q, f), b)
<1> DEFINE a == Append(q, f)
<1>1. /\ Len(q) \in Nat /\ Len(a) = Len(q) + 1 /\ a[Len(q) + 1] = f
      /\ \A i \in 1..Len(q) : a[i] = q[i]
  BY AppendFacts
<1>2. /\ FramesTrue(h, a) /\ GarbledNext(a)
      /\ NumberingsInOrder(h, a) /\ RestartsLast(a, b)
  BY AppendedOrder DEF Follows, BookFrames, FrameTrue
<1>k. ASSUME NEW r, NEW j \in 1..(Len(q) + 1), Known(q, b, j, r)
      PROVE  Known(a, b, j, r)
  BY <1>k, KnownAppended
<1> HIDE DEF a
<1> SUFFICES Follows(h, t, a, b)
  BY DEF a
<1>3. \A j \in 1..Len(a) : j \in 1..Len(q) \/ j = Len(q) + 1
  BY <1>1
<1>6. RestartsKnown(h, a, b)
  <2> SUFFICES ASSUME NEW j \in 1..Len(a), a[j].kind = "delta",
                      NEW r \in Restarts(h), r < a[j].seq
               PROVE  Known(a, b, j, r)
    BY DEF RestartsKnown
  <2>1. CASE j \in 1..Len(q)
    BY <1>1, <1>k, <2>1 DEF Follows, RestartsKnown
  <2>2. CASE j = Len(q) + 1
    BY <1>1, <1>k, <2>2
  <2> QED
    BY <1>3, <2>1, <2>2
<1>7. TopicKnown(h, t, a, b)
  <2> SUFFICES ASSUME t, NEW r \in Restarts(h)
               PROVE  Known(a, b, Len(q) + 2, r)
    BY <1>1 DEF TopicKnown
  <2>1. Known(a, b, Len(q) + 1, r)
    BY <1>1, <1>k DEF Follows, TopicKnown
  <2>2. \A m \in 1..Len(a) : m < Len(q) + 2 /\ a[m].kind = "snapshot" => m < Len(q) + 1
    BY <1>1, <1>3
  <2> QED
    BY <1>1, <2>1, <2>2 DEF Known
<1> QED
  BY <1>2, <1>6, <1>7 DEF Follows

\* A snapshot that is of the numbering in force is sent, and the topic with it.
LEMMA FollowsSnapshot ==
    ASSUME NEW h, NEW t, NEW q, NEW b, NEW f \in FrameSet,
           Typed(h, t, q, b), Follows(h, t, q, b),
           f.kind = "snapshot", SnapshotTrue(h, f),
           \A r \in Restarts(h) : r <= f.seq,
           f.u = 1 => f.seq = Len(h)
    PROVE  Follows(h, TRUE, Append(q, f), b)
<1> DEFINE a == Append(q, f)
<1>1. /\ Len(q) \in Nat /\ Len(a) = Len(q) + 1 /\ a[Len(q) + 1] = f
      /\ \A i \in 1..Len(q) : a[i] = q[i]
  BY AppendFacts
<1>0. b.synced => b.seq <= Len(h)
  BY DEF Follows, BookTrue
<1>2. /\ FramesTrue(h, a) /\ GarbledNext(a)
      /\ NumberingsInOrder(h, a) /\ RestartsLast(a, b)
  BY <1>0, AppendedOrder DEF Follows, BookFrames, FrameTrue
<1>k. ASSUME NEW r, NEW j \in 1..(Len(q) + 1), Known(q, b, j, r)
      PROVE  Known(a, b, j, r)
  BY <1>k, KnownAppended
<1> HIDE DEF a
<1> SUFFICES Follows(h, TRUE, a, b)
  BY DEF a
<1>3. \A j \in 1..Len(a) : j \in 1..Len(q) \/ j = Len(q) + 1
  BY <1>1
<1>6. RestartsKnown(h, a, b)
  <2> SUFFICES ASSUME NEW j \in 1..Len(a), a[j].kind = "delta",
                      NEW r \in Restarts(h), r < a[j].seq
               PROVE  Known(a, b, j, r)
    BY DEF RestartsKnown
  <2>1. j \in 1..Len(q)
    BY <1>1, <1>3
  <2> QED
    BY <1>1, <1>k, <2>1 DEF Follows, RestartsKnown
<1>7. TopicKnown(h, TRUE, a, b)
  <2> SUFFICES ASSUME NEW r \in Restarts(h)
               PROVE  Known(a, b, Len(q) + 2, r)
    BY <1>1 DEF TopicKnown
  <2>1. Len(q) + 1 \in 1..Len(a) /\ Len(q) + 1 < Len(q) + 2
    BY <1>1
  <2> QED
    BY <1>1, <2>1 DEF Known
<1> QED
  BY <1>2, <1>6, <1>7 DEF Follows

\* The history goes on: what was true of it stays true.
LEMMA HistoryKept ==
    ASSUME NEW h \in Seq(BookStates), NEW s \in BookStates, NEW f, FrameTrue(h, f)
    PROVE  FrameTrue(Append(h, s), f)
<1> DEFINE g == Append(h, s)
<1>1. /\ Len(h) \in Nat /\ Len(g) = Len(h) + 1
      /\ \A i \in 1..Len(h) : g[i] = h[i]
  BY AppendFacts
<1> HIDE DEF g
<1> SUFFICES FrameTrue(g, f)
  BY DEF g
<1>2. f.kind = "snapshot" => SnapshotTrue(g, f)
  BY <1>1 DEF FrameTrue, SnapshotTrue
<1>3. ASSUME f.kind = "delta" PROVE DeltaTrue(g, f)
  <2>1. DeltaTrue(h, f)
    BY <1>3 DEF FrameTrue
  <2>2. f.seq \in 1..Len(h) /\ f.seq - 1 \in 1..Len(h) /\ f.seq \in 2..Len(g)
    BY <1>1, <2>1 DEF DeltaTrue
  <2> QED
    BY <1>1, <2>1, <2>2 DEF DeltaTrue
<1> QED
  BY <1>2, <1>3 DEF FrameTrue

\* The venue's book changes, or its numbering starts again: then the topic
\* knows of it only with the frame that says so.
LEMMA FollowsHistory ==
    ASSUME NEW h, NEW t, NEW q, NEW b, NEW s \in BookStates,
           Typed(h, t, q, b), Follows(h, t, q, b),
           s.u = 1 \/ s.u = h[Len(h)].u + 1
    PROVE  Follows(Append(h, s), s.u # 1 /\ t, q, b)
<1> DEFINE g == Append(h, s)
<1>1. /\ Len(h) \in Nat /\ Len(g) = Len(h) + 1 /\ g[Len(h) + 1] = s
      /\ \A i \in 1..Len(h) : g[i] = h[i]
  BY AppendFacts
<1>0. Len(h) \in 1..Len(h)
  BY <1>1, EmptySeq, LenProperties
<1>2. \A f : FrameTrue(h, f) => FrameTrue(g, f)
  BY HistoryKept
<1> HIDE DEF g
<1> SUFFICES Follows(g, s.u # 1 /\ t, q, b)
  BY DEF g
<1>t. /\ \A i \in 1..Len(h) : h[i] \in BookStates
      /\ \A i \in 1..Len(q) : q[i] \in FrameSet
      /\ Len(q) \in Nat
  BY ElementOfSeq, LenProperties
<1>n. /\ \A i \in 1..Len(h) : h[i].u \in Nat \ {0}
      /\ \A i \in 1..Len(q) : q[i].seq \in Nat
      /\ s.u \in Nat \ {0}
  BY <1>t DEF BookStates, FrameSet
<1>3. \A i \in 1..Len(g) : i \in 1..Len(h) \/ i = Len(h) + 1
  BY <1>1
<1>4. Counts(g)
  <2> SUFFICES ASSUME NEW i \in 1..Len(g), NEW j \in 1..Len(g), i < j,
                      \A r \in (i + 1)..j : g[r].u # 1
               PROVE  g[i].u < g[j].u
    BY DEF Counts
  <2>1. i \in 1..Len(h)
    BY <1>1
  <2>2. CASE j \in 1..Len(h)
    <3>1. \A r \in (i + 1)..j : r \in 1..Len(h)
      BY <1>1, <2>1, <2>2
    <3> QED
      BY <1>1, <2>1, <2>2, <3>1 DEF Follows, Counts
  <2>3. CASE j = Len(h) + 1
    <3>1. j \in (i + 1)..j
      BY <1>1, <2>1, <2>3
    <3>2. s.u = h[Len(h)].u + 1
      BY <1>1, <2>3, <3>1
    <3>3. CASE i = Len(h)
      BY <1>0, <1>1, <1>n, <2>3, <3>2, <3>3
    <3>4. CASE i < Len(h)
      <4>1. \A r \in (i + 1)..Len(h) : r \in (i + 1)..j /\ r \in 1..Len(h)
        BY <1>1, <2>1, <2>3
      <4>2. h[i].u < h[Len(h)].u
        BY <1>0, <1>1, <2>1, <3>4, <4>1 DEF Follows, Counts
      <4> QED
        BY <1>0, <1>1, <1>n, <2>1, <2>3, <3>2, <4>2
    <3> QED
      BY <1>1, <2>1, <3>3, <3>4
  <2> QED
    BY <1>3, <2>2, <2>3
<1>5. FramesTrue(g, q) /\ GarbledNext(q)
  BY <1>2 DEF Follows, FramesTrue
<1>6. \A r \in Restarts(g) : r \in Restarts(h) \/ (r = Len(h) + 1 /\ s.u = 1)
  BY <1>1, <1>3 DEF Restarts
<1>7. \A j \in 1..Len(q) : q[j].kind \in BookFrames => q[j].seq <= Len(h)
  BY DEF Follows, FramesTrue, FrameTrue, SnapshotTrue, DeltaTrue, BookFrames
<1>8. NumberingsInOrder(g, q)
  <2> SUFFICES ASSUME NEW i \in 1..Len(q), NEW j \in 1..Len(q), i < j,
                      q[i].kind \in BookFrames, q[j].kind = "snapshot",
                      NEW r \in Restarts(g), r <= q[i].seq
               PROVE  r <= q[j].seq
    BY DEF NumberingsInOrder
  <2>1. r \in Restarts(h)
    BY <1>1, <1>6, <1>7, <1>n
  <2> QED
    BY <2>1 DEF Follows, NumberingsInOrder
<1>9. RestartsKnown(g, q, b)
  <2> SUFFICES ASSUME NEW j \in 1..Len(q), q[j].kind = "delta",
                      NEW r \in Restarts(g), r < q[j].seq
               PROVE  Known(q, b, j, r)
    BY DEF RestartsKnown
  <2>0. q[j].kind \in BookFrames
    BY DEF BookFrames
  <2>1. r \in Restarts(h)
    BY <2>0, <1>1, <1>6, <1>7, <1>n
  <2> QED
    BY <2>1 DEF Follows, RestartsKnown
<1>10. TopicKnown(g, s.u # 1 /\ t, q, b)
  BY <1>6 DEF Follows, TopicKnown
<1>11. BookTrue(g, b)
  BY <1>1 DEF Follows, BookTrue
<1> QED
  BY <1>4, <1>5, <1>8, <1>9, <1>10, <1>11 DEF Follows

\* The delta that continues the book continues the venue's own book.
LEMMA DeltaContinues ==
    ASSUME NEW h, NEW t, NEW q, NEW b, Typed(h, t, q, b), Follows(h, t, q, b),
           q # <<>>, q[1].kind = "delta", b.synced,
           q[1].u = b.u + 1, q[1].seq > b.seq
    PROVE  b.seq = q[1].seq - 1
<1> DEFINE f == q[1]
<1>0. 1 \in 1..Len(q) /\ f \in FrameSet
  BY TailFacts
<1> HIDE DEF f
<1>1. f.kind = "delta" /\ f.u = b.u + 1 /\ f.seq > b.seq
  BY DEF f
<1>2. /\ f.seq \in 2..Len(h) /\ f.u = h[f.seq - 1].u + 1
      /\ b.seq \in 1..Len(h) /\ h[b.seq].u = b.u
      /\ Len(h) \in Nat
  BY <1>0, <1>1, LenProperties DEF Follows, FramesTrue, FrameTrue, DeltaTrue, BookTrue, f
<1>3. f.seq - 1 \in 1..Len(h) /\ b.seq <= f.seq - 1
  BY <1>1, <1>2
<1>4. ASSUME b.seq < f.seq - 1 PROVE FALSE
  <2>1. ASSUME NEW r \in (b.seq + 1)..(f.seq - 1) PROVE h[r].u # 1
    <3>1. r \in 1..Len(h) /\ r < f.seq /\ ~(r <= b.seq)
      BY <1>2, <1>3
    <3>2. SUFFICES ASSUME r \in Restarts(h) PROVE FALSE
      BY <3>1 DEF Restarts
    <3>3. Known(q, b, 1, r)
      BY <1>0, <1>1, <3>1, <3>2 DEF Follows, RestartsKnown, f
    <3> QED
      BY <3>1, <3>3 DEF Known
  <2>2. h[b.seq].u < h[f.seq - 1].u
    BY <1>2, <1>3, <1>4, <2>1 DEF Follows, Counts
  <2>3. h[f.seq - 1].u = b.u
    <3>1. h[f.seq - 1] \in BookStates
      BY <1>3, ElementOfSeq
    <3>2. h[f.seq - 1].u \in Nat /\ b.u \in Nat
      BY <3>1 DEF BookStates, BookSet
    <3> QED
      BY <1>1, <1>2, <3>2
  <2>4. b.u \in Nat
    BY DEF BookSet
  <2> QED
    BY <1>2, <2>2, <2>3, <2>4
<1> QED
  BY <1>1, <1>2, <1>3, <1>4 DEF f

LEMMA HeardBookTrue ==
    ASSUME NEW h, NEW t, NEW q, NEW b, NEW b2, Typed(h, t, q, b), Follows(h, t, q, b),
           q # <<>>, Moves(b, q[1], b2)
    PROVE  BookTrue(h, b2)
<1>0. 1 \in 1..Len(q)
  BY TailFacts
<1>1. FrameTrue(h, q[1]) /\ BookTrue(h, b)
  BY <1>0 DEF Follows, FramesTrue
<1> SUFFICES ASSUME b2.synced PROVE BookTrue(h, b2)
  BY DEF BookTrue
<1>2. CASE b2 = b
  BY <1>1, <1>2
<1>3. CASE /\ q[1].kind = "snapshot"
           /\ b2.u = q[1].u /\ b2.seq = q[1].seq /\ b2.levels = q[1].levels
  BY <1>1, <1>3 DEF FrameTrue, SnapshotTrue, BookTrue
<1>4. CASE /\ q[1].kind = "delta" /\ b.synced
           /\ q[1].u = b.u + 1 /\ q[1].seq > b.seq
           /\ b2.u = q[1].u /\ b2.seq = q[1].seq /\ b2.levels = Changed(b.levels, q[1].changes)
  <2>1. b.seq = q[1].seq - 1
    BY <1>4, DeltaContinues
  <2>2. DeltaTrue(h, q[1])
    BY <1>1, <1>4 DEF FrameTrue
  <2>3. h[b.seq].levels = b.levels
    BY <1>1, <1>4 DEF BookTrue
  <2>4. q[1].seq \in 1..Len(h)
    BY <2>2 DEF DeltaTrue
  <2> QED
    BY <1>4, <2>1, <2>2, <2>3, <2>4 DEF DeltaTrue, BookTrue
<1> QED
  BY <1>2, <1>3, <1>4 DEF Moves

\* What was known before a later frame is known when the first has been heard.
LEMMA KnownHeard ==
    ASSUME NEW h, NEW t, NEW q, NEW b, NEW b2 \in BookSet,
           Typed(h, t, q, b), NumberingsInOrder(h, q),
           q # <<>>, Moves(b, q[1], b2),
           NEW r \in Restarts(h), NEW j \in 2..(Len(q) + 1), Known(q, b, j, r)
    PROVE  Known(Tail(q), b2, j - 1, r)
<1> DEFINE z == Tail(q)  f == q[1]
<1>1. /\ Len(q) \in Nat \ {0} /\ Len(z) = Len(q) - 1 /\ f \in FrameSet
      /\ \A i \in 1..(Len(q) - 1) : z[i] = q[i + 1]
  BY TailFacts
<1>m. Moves(b, f, b2)
  OBVIOUS
<1> HIDE DEF z
<1> SUFFICES Known(z, b2, j - 1, r)
  BY DEF z
<1>n. r \in Nat /\ f.seq \in Nat /\ b.seq \in Nat /\ b2.seq \in Nat
  BY <1>1, LenProperties DEF Restarts, FrameSet, BookSet
<1>2. CASE \E m \in 2..Len(q) : m < j /\ q[m].kind = "snapshot" /\ r <= q[m].seq
  <2>1. PICK m \in 2..Len(q) : m < j /\ q[m].kind = "snapshot" /\ r <= q[m].seq
    BY <1>2
  <2>2. m - 1 \in 1..Len(z) /\ m - 1 < j - 1 /\ z[m - 1] = q[m]
    <3>1. m - 1 \in 1..(Len(q) - 1) /\ (m - 1) + 1 = m /\ m - 1 < j - 1
      BY <1>1, <2>1
    <3> QED
      BY <1>1, <3>1
  <2> QED
    BY <2>1, <2>2 DEF Known
<1>3. CASE /\ \A m \in 2..Len(q) : m < j => q[m].kind # "snapshot"
           /\ b2.synced => r <= b2.seq
  <2>1. ASSUME NEW m \in 1..Len(z), m < j - 1 PROVE z[m].kind # "snapshot"
    <3>1. m + 1 \in 2..Len(q) /\ m + 1 < j /\ m \in 1..(Len(q) - 1)
      BY <1>1, <2>1
    <3> QED
      BY <1>1, <1>3, <3>1
  <2> QED
    BY <1>3, <2>1 DEF Known
<1>4. CASE ~\E m \in 2..Len(q) : m < j /\ q[m].kind = "snapshot"
  <2>1. b2.synced => r <= b2.seq
    <3>1. CASE f.kind = "snapshot"
      <4>1. r <= f.seq
        BY <1>1, <1>4, <3>1 DEF Known
      <4> QED
        BY <1>m, <1>n, <3>1, <4>1 DEF Moves
    <3>2. CASE f.kind # "snapshot"
      <4>1. b.synced => r <= b.seq \/ f.kind = "garbled"
        BY <1>1, <1>4, <3>2 DEF Known
      <4> QED
        BY <1>m, <1>n, <3>2, <4>1 DEF Moves
    <3> QED
      BY <3>1, <3>2
  <2> QED
    BY <1>3, <1>4, <2>1
<1>5. CASE \E m \in 2..Len(q) : m < j /\ q[m].kind = "snapshot"
  <2>1. PICK m \in 2..Len(q) : m < j /\ q[m].kind = "snapshot"
    BY <1>5
  <2>2. CASE \E k \in 2..Len(q) : k < j /\ q[k].kind = "snapshot" /\ r <= q[k].seq
    BY <1>2, <2>2
  <2>3. CASE f.kind = "snapshot" /\ r <= f.seq
    <3>1. 1 \in 1..Len(q) /\ m \in 1..Len(q) /\ 1 < m /\ f.kind \in BookFrames
      BY <1>1, <2>1, <2>3 DEF BookFrames
    <3>2. r <= q[m].seq
      BY <2>1, <2>3, <3>1 DEF NumberingsInOrder
    <3> QED
      BY <1>2, <2>1, <3>2
  <2>4. \E k \in 1..Len(q) : k < j /\ q[k].kind = "snapshot" /\ r <= q[k].seq
    <3>1. m \in 1..Len(q)
      BY <1>1
    <3> QED
      BY <2>1, <3>1 DEF Known
  <2>5. \A k \in 1..Len(q) : k = 1 \/ k \in 2..Len(q)
    BY <1>1
  <2> QED
    BY <2>2, <2>3, <2>4, <2>5
<1> QED
  BY <1>4, <1>5

\* The worker reads the next frame.
LEMMA FollowsHeard ==
    ASSUME NEW h, NEW t, NEW q, NEW b, NEW b2 \in BookSet,
           Typed(h, t, q, b), Follows(h, t, q, b),
           q # <<>>, Moves(b, q[1], b2)
    PROVE  Follows(h, t, Tail(q), b2)
<1> DEFINE z == Tail(q)
<1>1. /\ Len(q) \in Nat \ {0} /\ Len(z) = Len(q) - 1 /\ q[1] \in FrameSet
      /\ \A i \in 1..(Len(q) - 1) : z[i] = q[i + 1]
  BY TailFacts
<1>k. ASSUME NEW r \in Restarts(h), NEW j \in 2..(Len(q) + 1), Known(q, b, j, r)
      PROVE  Known(z, b2, j - 1, r)
  BY <1>k, KnownHeard DEF Follows
<1> HIDE DEF z
<1> SUFFICES Follows(h, t, z, b2)
  BY DEF z
<1>2. \A j \in 1..Len(z) : j + 1 \in 2..Len(q) /\ j + 1 \in 1..Len(q) /\ z[j] = q[j + 1]
                             /\ j + 1 # 1 /\ (j + 1) - 1 = j
  BY <1>1
<1>3. FramesTrue(h, z) /\ GarbledNext(z)
  BY <1>2 DEF Follows, FramesTrue, GarbledNext
<1>4. NumberingsInOrder(h, z)
  <2> SUFFICES ASSUME NEW i \in 1..Len(z), NEW j \in 1..Len(z), i < j,
                      z[i].kind \in BookFrames, z[j].kind = "snapshot",
                      NEW r \in Restarts(h), r <= z[i].seq
               PROVE  r <= z[j].seq
    BY DEF NumberingsInOrder
  <2>1. i + 1 < j + 1
    BY <1>1
  <2> QED
    BY <1>2, <2>1 DEF Follows, NumberingsInOrder
<1>5. RestartsKnown(h, z, b2)
  <2> SUFFICES ASSUME NEW j \in 1..Len(z), z[j].kind = "delta",
                      NEW r \in Restarts(h), r < z[j].seq
               PROVE  Known(z, b2, j, r)
    BY DEF RestartsKnown
  <2>1. Known(q, b, j + 1, r)
    BY <1>2 DEF Follows, RestartsKnown
  <2>2. j + 1 \in 2..(Len(q) + 1)
    BY <1>1
  <2> QED
    BY <1>k, <1>2, <2>1, <2>2
<1>6. TopicKnown(h, t, z, b2)
  <2> SUFFICES ASSUME t, NEW r \in Restarts(h)
               PROVE  Known(z, b2, Len(z) + 1, r)
    BY DEF TopicKnown
  <2>1. Known(q, b, Len(q) + 1, r)
    BY DEF Follows, TopicKnown
  <2>2. Len(q) + 1 \in 2..(Len(q) + 1) /\ (Len(q) + 1) - 1 = Len(z) + 1
    BY <1>1
  <2>3. Known(z, b2, (Len(q) + 1) - 1, r)
    BY <1>k, <2>1, <2>2
  <2> QED
    BY <2>2, <2>3
<1>7. RestartsLast(z, b2)
  <2> SUFFICES ASSUME NEW j \in 1..Len(z), z[j].kind = "snapshot", z[j].u = 1
               PROVE  /\ b2.synced => b2.seq <= z[j].seq
                      /\ \A i \in 1..Len(z) :
                            i < j /\ z[i].kind \in BookFrames => z[i].seq <= z[j].seq
    BY DEF RestartsLast
  <2>1. /\ b.synced => b.seq <= q[j + 1].seq
        /\ \A i \in 1..Len(q) :
              i < j + 1 /\ q[i].kind \in BookFrames => q[i].seq <= q[j + 1].seq
    BY <1>2 DEF Follows, RestartsLast
  <2>2. 1 \in 1..Len(q) /\ 1 < j + 1
    BY <1>1
  <2>3. q[1].kind \in BookFrames => q[1].seq <= q[j + 1].seq
    BY <2>1, <2>2
  <2>4. b2.synced => b2.seq <= z[j].seq
    BY <1>2, <2>1, <2>3 DEF Moves, BookFrames
  <2>5. ASSUME NEW i \in 1..Len(z), i < j, z[i].kind \in BookFrames
        PROVE  z[i].seq <= z[j].seq
    <3>1. i + 1 < j + 1
      BY <1>1, <2>5
    <3> QED
      BY <1>2, <2>1, <2>5, <3>1
  <2> QED
    BY <2>4, <2>5
<1>8. BookTrue(h, b2)
  BY HeardBookTrue
<1> QED
  BY <1>3, <1>4, <1>5, <1>6, <1>7, <1>8 DEF Follows

\* What is known stays known when the next frame is garbled.
LEMMA KnownGarbled ==
    ASSUME NEW h, NEW t, NEW q, NEW b, NEW e \in FrameSet,
           Typed(h, t, q, b), NumberingsInOrder(h, q),
           q # <<>>, q[1].kind \in BookFrames, e.kind = "garbled",
           NEW r \in Restarts(h), NEW j \in 2..(Len(q) + 1), Known(q, b, j, r)
    PROVE  Known(<<e>> \o Tail(q), b, j, r)
<1> DEFINE z == <<e>> \o Tail(q)
<1>1. Len(z) = Len(q) /\ z[1] = e /\ \A i \in 2..Len(q) : z[i] = q[i]
  BY HeadReplaced
<1>0. Len(q) \in Nat \ {0}
  BY TailFacts
<1> HIDE DEF z
<1> SUFFICES Known(z, b, j, r)
  BY DEF z
<1>2. 1 \in 1..Len(q) /\ \A m \in 1..Len(q) : m = 1 \/ m \in 2..Len(q)
  BY <1>0
<1>3. \A m \in 2..Len(q) : m \in 1..Len(q) /\ 1 < m
  BY <1>0
<1>4. CASE \E m \in 2..Len(q) : m < j /\ q[m].kind = "snapshot" /\ r <= q[m].seq
  BY <1>1, <1>3, <1>4 DEF Known
<1>5. CASE \A m \in 2..Len(q) : m < j => q[m].kind # "snapshot"
  <2>1. \A m \in 1..Len(z) : m < j => z[m].kind # "snapshot"
    BY <1>1, <1>2, <1>5
  <2>2. 1 < j
    BY <1>0
  <2> QED
    BY <1>1, <2>1, <2>2 DEF Known
<1>6. CASE \E m \in 2..Len(q) : m < j /\ q[m].kind = "snapshot"
  <2>1. PICK m \in 2..Len(q) : m < j /\ q[m].kind = "snapshot"
    BY <1>6
  <2>2. \E k \in 1..Len(q) : k < j /\ q[k].kind = "snapshot" /\ r <= q[k].seq
    BY <1>3, <2>1 DEF Known
  <2>3. CASE r <= q[1].seq
    <3>1. r <= q[m].seq
      BY <1>2, <1>3, <2>1, <2>3 DEF NumberingsInOrder
    <3> QED
      BY <1>4, <2>1, <3>1
  <2> QED
    BY <1>2, <1>4, <2>2, <2>3
<1> QED
  BY <1>5, <1>6

LEMMA FollowsGarbled ==
    ASSUME NEW h, NEW t, NEW q, NEW b, NEW e \in FrameSet,
           Typed(h, t, q, b), Follows(h, t, q, b),
           q # <<>>, q[1].kind \in BookFrames, e.kind = "garbled"
    PROVE  Follows(h, t, <<e>> \o Tail(q), b)
<1> DEFINE z == <<e>> \o Tail(q)
<1>1. Len(z) = Len(q) /\ z[1] = e /\ \A i \in 2..Len(q) : z[i] = q[i]
  BY HeadReplaced
<1>0. Len(q) \in Nat \ {0}
  BY TailFacts
<1>k. ASSUME NEW r \in Restarts(h), NEW j \in 2..(Len(q) + 1), Known(q, b, j, r)
      PROVE  Known(z, b, j, r)
  BY <1>k, KnownGarbled DEF Follows
<1> HIDE DEF z
<1> SUFFICES Follows(h, t, z, b)
  BY DEF z
<1>2. e.kind # "snapshot" /\ e.kind # "delta" /\ ~(e.kind \in BookFrames)
  BY DEF BookFrames
<1>3. \A j \in 1..Len(z) : z[j].kind # "garbled" \/ z[j] = e \/ j # 1 =>
            (j = 1 \/ (j \in 2..Len(q) /\ j \in 1..Len(q)))
  BY <1>0, <1>1
<1>4. \A j \in 1..Len(z) : z[j].kind \in BookFrames \cup {"snapshot", "delta"} =>
            j \in 2..Len(q) /\ j \in 1..Len(q) /\ z[j] = q[j] /\ j \in 2..(Len(q) + 1)
  BY <1>0, <1>1, <1>2
<1>5. FramesTrue(h, z)
  BY <1>4 DEF Follows, FramesTrue, FrameTrue
<1>6. GarbledNext(z)
  BY <1>0, <1>1 DEF Follows, GarbledNext
<1>7. NumberingsInOrder(h, z)
  BY <1>4 DEF Follows, NumberingsInOrder
<1>8. RestartsKnown(h, z, b)
  BY <1>k, <1>4 DEF Follows, RestartsKnown
<1>9. TopicKnown(h, t, z, b)
  <2>1. Len(q) + 1 \in 2..(Len(q) + 1)
    BY <1>0
  <2> QED
    BY <1>k, <1>1, <2>1 DEF Follows, TopicKnown
<1>10. RestartsLast(z, b)
  BY <1>4 DEF Follows, RestartsLast
<1> QED
  BY <1>5, <1>6, <1>7, <1>8, <1>9, <1>10 DEF Follows

\* Frames that differ only in their tick are the same frames.
LEMMA FollowsOffTick ==
    ASSUME NEW h, NEW t, NEW q, NEW b, NEW e \in FrameSet,
           Typed(h, t, q, b), Follows(h, t, q, b), q # <<>>,
           e.kind = q[1].kind, e.u = q[1].u, e.seq = q[1].seq,
           e.levels = q[1].levels, e.changes = q[1].changes
    PROVE  Follows(h, t, <<e>> \o Tail(q), b)
<1> DEFINE z == <<e>> \o Tail(q)
<1>1. Len(z) = Len(q) /\ z[1] = e /\ \A i \in 2..Len(q) : z[i] = q[i]
  BY HeadReplaced
<1>0. Len(q) \in Nat \ {0}
  BY TailFacts
<1> HIDE DEF z
<1> SUFFICES Follows(h, t, z, b)
  BY DEF z
<1>2. \A j \in 1..Len(q) :
         /\ z[j].kind = q[j].kind /\ z[j].u = q[j].u /\ z[j].seq = q[j].seq
         /\ z[j].levels = q[j].levels /\ z[j].changes = q[j].changes
  <2> SUFFICES ASSUME NEW j \in 1..Len(q)
               PROVE  /\ z[j].kind = q[j].kind /\ z[j].u = q[j].u /\ z[j].seq = q[j].seq
                      /\ z[j].levels = q[j].levels /\ z[j].changes = q[j].changes
    OBVIOUS
  <2>1. j = 1 \/ j \in 2..Len(q)
    BY <1>0
  <2> QED
    BY <1>1, <2>1
<1>3. \A j, r : j \in 1..(Len(q) + 1) /\ Known(q, b, j, r) => Known(z, b, j, r)
  <2> SUFFICES ASSUME NEW j \in 1..(Len(q) + 1), NEW r, Known(q, b, j, r)
               PROVE  Known(z, b, j, r)
    OBVIOUS
  <2>1. 1 \in 1..Len(q)
    BY <1>0
  <2> QED
    BY <1>1, <1>2, <2>1 DEF Known
<1>5. FramesTrue(h, z)
  BY <1>1, <1>2 DEF Follows, FramesTrue, FrameTrue, SnapshotTrue, DeltaTrue
<1>6. GarbledNext(z)
  BY <1>1, <1>2 DEF Follows, GarbledNext
<1>7. NumberingsInOrder(h, z)
  BY <1>1, <1>2 DEF Follows, NumberingsInOrder
<1>8. RestartsKnown(h, z, b)
  <2>1. \A j \in 1..Len(q) : j \in 1..(Len(q) + 1)
    BY <1>0
  <2> QED
    BY <1>1, <1>2, <1>3, <2>1 DEF Follows, RestartsKnown
<1>9. TopicKnown(h, t, z, b)
  <2>1. Len(q) + 1 \in 1..(Len(q) + 1)
    BY <1>0
  <2> QED
    BY <1>1, <1>3, <2>1 DEF Follows, TopicKnown
<1>10. RestartsLast(z, b)
  BY <1>1, <1>2 DEF Follows, RestartsLast
<1> QED
  BY <1>5, <1>6, <1>7, <1>8, <1>9, <1>10 DEF Follows

\* The next frame comes a second time, after those in flight.
LEMMA FollowsRepeated ==
    ASSUME NEW h, NEW t, NEW q, NEW b, Typed(h, t, q, b), Follows(h, t, q, b),
           q # <<>>, q[1].kind \in BookFrames, q[1].u # 1,
           q[1].kind = "snapshot" => \A r \in Restarts(h) : r <= q[1].seq
    PROVE  Follows(h, t, Append(q, q[1]), b)
<1>1. q[1] \in FrameSet /\ 1 \in 1..Len(q) /\ Len(q) \in Nat
  BY TailFacts
<1>2. FrameTrue(h, q[1])
  BY <1>1 DEF Follows, FramesTrue
<1>3. CASE q[1].kind = "snapshot"
  <2>1. Follows(h, TRUE, Append(q, q[1]), b)
    BY <1>1, <1>2, <1>3, FollowsSnapshot DEF FrameTrue
  <2>2. Append(q, q[1]) \in Seq(FrameSet)
    BY <1>1, AppendFacts
  <2>3. Typed(h, TRUE, Append(q, q[1]), b) /\ (t => TRUE)
    BY <2>2
  <2> HIDE DEF Typed
  <2> QED
    BY <2>1, <2>3, FollowsQuiet
<1>4. CASE q[1].kind = "delta"
  <2>1. ASSUME NEW r \in Restarts(h), r < q[1].seq
        PROVE  Known(q, b, Len(q) + 1, r)
    <3>1. Known(q, b, 1, r)
      BY <1>1, <1>4, <2>1 DEF Follows, RestartsKnown
    <3>2. b.synced => r <= b.seq
      BY <3>1 DEF Known
    <3>3. \A m \in 1..Len(q) : m = 1 \/ 1 < m
      BY <1>1
    <3>4. r <= q[1].seq
      BY <1>1, <2>1 DEF Restarts, FrameSet
    <3>5. \A m \in 1..Len(q) : q[m].kind = "snapshot" => r <= q[m].seq
      BY <1>1, <1>4, <3>3, <3>4 DEF Follows, NumberingsInOrder
    <3>6. \A m \in 1..Len(q) : m < Len(q) + 1
      BY <1>1
    <3> QED
      BY <3>2, <3>5, <3>6 DEF Known
  <2> QED
    BY <1>1, <1>2, <1>4, <2>1, FollowsDelta DEF FrameTrue
<1> QED
  BY <1>3, <1>4 DEF BookFrames

-------------------------------------------------------------------------------
(* What the helpers of the model give.                                     *)

Names == {"ping", "pong", "frame", "resync", "book", "attempt", "blind"}

LEMMA StampFacts ==
    /\ Stamps = Names
    /\ Bound.resync = ResyncTimeout + 1 /\ Bound.book = BookSilence + 1
    /\ Bound.attempt = BookSilence + 1 /\ Bound.blind = BookSilence + ResyncTimeout + 3
    /\ \A s \in Names : Bound[s] \in Nat
    /\ {PingInterval, PongTimeout, Silence, ResyncTimeout, BookSilence, MaxBackoff} \subseteq Nat
  BY FeedTimings DEF Stamps, Bound, Names

LEMMA FreshTyped == Fresh \in [Stamps -> Nat]
  BY DEF Fresh

LEMMA StampedTyped == ASSUME FeedTyped, NEW x PROVE Stamped(x) \in [Stamps -> Nat]
  BY DEF Stamped, FeedTyped

LEMMA FramesTyped ==
    /\ NoFrame \in FrameSet
    /\ \A k \in Kinds : Frame(k) \in FrameSet /\ Frame(k).kind = k
    /\ \A s \in BookStates, n \in Nat :
          /\ SnapshotFrame(s, n) \in FrameSet
          /\ SnapshotFrame(s, n).kind = "snapshot" /\ SnapshotFrame(s, n).seq = n
          /\ SnapshotFrame(s, n).u = s.u /\ SnapshotFrame(s, n).levels = s.levels
    /\ \A s \in BookStates, n \in Nat, c \in SUBSET [level : Levels, present : BOOLEAN] :
          /\ DeltaFrame(s, n, c) \in FrameSet
          /\ DeltaFrame(s, n, c).kind = "delta" /\ DeltaFrame(s, n, c).seq = n
          /\ DeltaFrame(s, n, c).u = s.u /\ DeltaFrame(s, n, c).changes = c
<1>1. /\ NoFrame \in FrameSet
      /\ \A k \in Kinds : Frame(k) \in FrameSet /\ Frame(k).kind = k
  BY DEF NoFrame, FrameSet, Kinds, Frame
<1>2. ASSUME NEW s \in BookStates, NEW n \in Nat
      PROVE  /\ SnapshotFrame(s, n) \in FrameSet
             /\ SnapshotFrame(s, n).kind = "snapshot" /\ SnapshotFrame(s, n).seq = n
             /\ SnapshotFrame(s, n).u = s.u /\ SnapshotFrame(s, n).levels = s.levels
  BY DEF SnapshotFrame, Frame, NoFrame, FrameSet, Kinds, BookStates
<1>3. ASSUME NEW s \in BookStates, NEW n \in Nat,
             NEW c \in SUBSET [level : Levels, present : BOOLEAN]
      PROVE  /\ DeltaFrame(s, n, c) \in FrameSet
             /\ DeltaFrame(s, n, c).kind = "delta" /\ DeltaFrame(s, n, c).seq = n
             /\ DeltaFrame(s, n, c).u = s.u /\ DeltaFrame(s, n, c).changes = c
  BY DEF DeltaFrame, Frame, NoFrame, FrameSet, Kinds, BookStates
<1> QED
  BY <1>1, <1>2, <1>3

LEMMA NowTyped ==
    ASSUME FeedTyped
    PROVE  /\ Now = history[Len(history)] /\ Now \in BookStates
           /\ Seq0 = Len(history) /\ Seq0 \in Nat \ {0}
           /\ Seq0 \in 1..Len(history)
<1>1. Len(history) \in Nat \ {0} /\ DOMAIN history = 1..Len(history)
  BY EmptySeq, LenProperties DEF FeedTyped
<1>2. history[Len(history)] \in BookStates
  BY <1>1, ElementOfSeq DEF FeedTyped
<1> QED
  BY <1>1, <1>2 DEF Now, Last, Seq0

LEMMA SpentTyped ==
    ASSUME FeedTyped, NEW what \in {"faults", "updates", "gaps"}, Spend(what)
    PROVE  budget' \in [{"faults", "updates", "gaps"} -> Nat]
  BY DEF FeedTyped, Spend

\* A market with its book invalidated, and offline or online.
LEMMA MarketsTyped ==
    ASSUME NEW m \in MarketSet
    PROVE  /\ BookInvalidated(m) \in MarketSet /\ ~BookInvalidated(m).book.synced
           /\ Offline(m) \in MarketSet /\ ~Offline(m).book.synced
           /\ Online(m) \in MarketSet /\ ~Online(m).book.synced
           /\ AfterStoreGap(m) \in MarketSet /\ ~AfterStoreGap(m).book.synced
<1>1. m.book \in BookSet
  BY DEF MarketSet
<1>2. Invalidated(m.book) \in BookSet /\ ~Invalidated(m.book).synced
  BY <1>1 DEF Invalidated, BookSet
<1> HIDE DEF Typed
<1>3. BookInvalidated(m) \in MarketSet /\ ~BookInvalidated(m).book.synced
  BY <1>2 DEF BookInvalidated, MarketSet
<1>4. Offline(m) \in MarketSet /\ ~Offline(m).book.synced
  BY <1>2 DEF Offline, MarketSet
<1>5. Online(m) \in MarketSet /\ ~Online(m).book.synced
  BY <1>2 DEF Online, MarketSet
<1>6. AfterStoreGap(m) \in MarketSet /\ ~AfterStoreGap(m).book.synced
  BY <1>2 DEF AfterStoreGap, MarketSet
<1> QED
  BY <1>3, <1>4, <1>5, <1>6

LEMMA PingedTyped ==
    ASSUME FeedTyped
    PROVE  /\ Pinged \in Seq(Requests)
           /\ Pinged \o <<"unsubscribeBook", "subscribeBook">> \in Seq(Requests)
<1>1. Pinged \in Seq(Requests)
  BY AppendFacts DEF Pinged, FeedTyped, Requests
<1>2. <<"unsubscribeBook", "subscribeBook">> \in Seq(Requests)
  BY DEF Requests
<1> HIDE DEF Requests
<1> QED
  BY <1>1, <1>2, ConcatProperties

-------------------------------------------------------------------------------
(* The types hold.                                                         *)

LEMMA InitTyped == FeedInit => FeedTyped
<1> SUFFICES ASSUME FeedInit PROVE FeedTyped
  OBVIOUS
<1>1. history \in Seq(BookStates) /\ history # <<>>
  <2>1. [u |-> 1, levels |-> {}] \in BookStates
    BY DEF BookStates
  <2> QED
    BY <2>1 DEF FeedInit
<1>2. market \in MarketSet
  BY DEF FeedInit, OfflineMarket, NoBook, MarketSet, BookSet
<1>3. budget \in [{"faults", "updates", "gaps"} -> Nat]
  BY FeedTimings DEF FeedInit
<1>4. age \in [Stamps -> Nat]
  BY FreshTyped DEF FeedInit
<1>5. backoff \in 0..MaxBackoff
  BY StampFacts DEF FeedInit
<1>6. up \in Seq(Requests) /\ down \in Seq(FrameSet)
  BY DEF FeedInit
<1> QED
  BY <1>1, <1>2, <1>3, <1>4, <1>5, <1>6 DEF FeedInit, FeedTyped, Silent

LEMMA DropTyped ==
    ASSUME FeedTyped, Drop
    PROVE  /\ topics' \in [book : BOOLEAN, ticker : BOOLEAN] /\ topics' = Silent
           /\ up' \in Seq(Requests) /\ down' = <<>> /\ down' \in Seq(FrameSet)
           /\ link' = "broken" /\ ws' = FALSE
           /\ market' \in MarketSet /\ ~market'.book.synced
           /\ resync' = FALSE /\ asked' = "never"
           /\ age' \in [Stamps -> Nat] /\ backoff' \in 0..MaxBackoff
<1>1. market' \in MarketSet /\ ~market'.book.synced
  BY MarketsTyped DEF FeedTyped, Drop
<1>2. backoff' \in 0..MaxBackoff
  BY StampFacts DEF Drop
<1>3. age' \in [Stamps -> Nat]
  BY FreshTyped DEF Drop
<1>4. up' \in Seq(Requests) /\ down' = <<>> /\ down' \in Seq(FrameSet)
  BY DEF Drop, Closed
<1> QED
  BY <1>1, <1>2, <1>3, <1>4 DEF Drop, Closed, Silent

LEMMA ResubscribeTyped ==
    ASSUME FeedTyped, NEW sent, NEW left \in Seq(FrameSet), NEW told \in MarketSet, NEW stamps,
           sent \o <<"unsubscribeBook", "subscribeBook">> \in Seq(Requests),
           Resubscribe(sent, left, told, stamps)
    PROVE  /\ topics' \in [book : BOOLEAN, ticker : BOOLEAN]
           /\ up' \in Seq(Requests) /\ down' \in Seq(FrameSet)
           /\ link' \in {"open", "broken", "dead"} /\ ws' \in BOOLEAN
           /\ market' \in MarketSet /\ resync' \in BOOLEAN
           /\ asked' \in {"never", "since", "before"}
           /\ age' \in [Stamps -> Nat] /\ backoff' \in 0..MaxBackoff
<1>1. CASE link = "broken"
  <2>1. Drop
    BY <1>1 DEF Resubscribe
  <2> QED
    BY <2>1, DropTyped
<1>2. CASE link # "broken"
  <2>1. up' \in Seq(Requests)
    BY <1>2 DEF Resubscribe, FeedTyped
  <2>2. market' \in MarketSet
    BY <1>2, MarketsTyped DEF Resubscribe
  <2>3. age' \in [Stamps -> Nat]
    BY <1>2, StampedTyped DEF Resubscribe
  <2> QED
    BY <1>2, <2>1, <2>2, <2>3 DEF Resubscribe, FeedTyped
<1> QED
  BY <1>1, <1>2

LEMMA HearTyped ==
    ASSUME FeedTyped, down # <<>>, Hear(Head(down))
    PROVE  /\ topics' \in [book : BOOLEAN, ticker : BOOLEAN]
           /\ up' \in Seq(Requests) /\ down' \in Seq(FrameSet)
           /\ link' \in {"open", "broken", "dead"} /\ ws' \in BOOLEAN
           /\ market' \in MarketSet /\ resync' \in BOOLEAN
           /\ asked' \in {"never", "since", "before"}
           /\ age' \in [Stamps -> Nat] /\ backoff' \in 0..MaxBackoff
<1> DEFINE ev == Head(down)
           told == Ingest(market, ev)
           taken == ev.kind \in BookFrames /\ ApplyBook(market.book, ev).status \in TakenStatuses
           stamps == PingStamp \cup {"frame"}
                       \cup (IF ev.kind = "pong" THEN {"pong"} ELSE {})
                       \cup (IF taken THEN {"book", "blind"} ELSE {})
                       \cup (IF told.book.synced THEN {"resync"} ELSE {"book"})
<1>1. ev \in FrameSet /\ Tail(down) \in Seq(FrameSet)
  BY TailFacts DEF FeedTyped
<1>2. told \in MarketSet
  BY <1>1, IngestTyped DEF FeedTyped
<1>3. \/ Resubscribe(Pinged, Tail(down), told, stamps)
      \/ /\ market' = told /\ down' = Tail(down) /\ up' = Pinged
         /\ age' = Stamped(stamps)
         /\ resync' = (resync /\ ~told.book.synced)
         /\ asked' = IF taken /\ asked = "since" THEN "before" ELSE asked
         /\ UNCHANGED <<topics, link, ws, backoff>>
  BY DEF Hear
<1> HIDE DEF ev, told, taken, stamps
<1>4. CASE Resubscribe(Pinged, Tail(down), told, stamps)
  BY <1>1, <1>2, <1>4, PingedTyped, ResubscribeTyped
<1>5. CASE /\ market' = told /\ down' = Tail(down) /\ up' = Pinged
           /\ age' = Stamped(stamps)
           /\ resync' = (resync /\ ~told.book.synced)
           /\ asked' = IF taken /\ asked = "since" THEN "before" ELSE asked
           /\ UNCHANGED <<topics, link, ws, backoff>>
  <2>1. age' \in [Stamps -> Nat]
    BY <1>5, StampedTyped
  <2>2. up' \in Seq(Requests)
    BY <1>5, PingedTyped
  <2> QED
    BY <1>1, <1>2, <1>5, <2>1, <2>2 DEF FeedTyped
<1> QED
  BY <1>3, <1>4, <1>5

LEMMA StepTyped == FeedTyped /\ Step => FeedTyped'
<1> SUFFICES ASSUME FeedTyped, Step PROVE FeedTyped'
  OBVIOUS
<1> DEFINE Rest == /\ topics' \in [book : BOOLEAN, ticker : BOOLEAN]
                   /\ up' \in Seq(Requests) /\ down' \in Seq(FrameSet)
                   /\ link' \in {"open", "broken", "dead"} /\ ws' \in BOOLEAN
                   /\ market' \in MarketSet /\ resync' \in BOOLEAN
                   /\ asked' \in {"never", "since", "before"}
                   /\ age' \in [Stamps -> Nat] /\ backoff' \in 0..MaxBackoff
<1>1. ASSUME Drop PROVE Rest
  BY <1>1, DropTyped
<1>2. ASSUME Resubscribe(Pinged, down, market, PingStamp) PROVE Rest
  BY <1>2, PingedTyped, ResubscribeTyped DEF FeedTyped
<1>3. ASSUME Receive PROVE Rest
  <2>1. ASSUME down # <<>>, Hear(Head(down)) PROVE Rest
    BY <2>1, HearTyped
  <2>2. ASSUME Idle PROVE Rest
    <3>1. age' \in [Stamps -> Nat]
      BY <2>2, StampedTyped DEF Idle
    <3>2. up' \in Seq(Requests)
      BY <2>2, PingedTyped DEF Idle
    <3> QED
      BY <2>2, <3>1, <3>2 DEF Idle, FeedTyped
  <2> HIDE DEF Rest
  <2> QED
    BY <1>1, <1>3, <2>1, <2>2 DEF Receive
<1>4. Rest
  BY <1>1, <1>2, <1>3 DEF Step
<1> QED
  BY <1>4 DEF Step, FeedTyped

LEMMA VenueTyped == FeedTyped /\ Venue => FeedTyped'
<1> SUFFICES ASSUME FeedTyped, Venue PROVE FeedTyped'
  OBVIOUS
<1>0. /\ Now \in BookStates /\ Seq0 + 1 \in Nat /\ Seq0 \in Nat
  BY NowTyped
<1>1. CASE VenueUpdate
  <2>1. PICK level \in Levels :
          LET change == [level |-> level, present |-> level \notin Now.levels]
              next == [u |-> Now.u + 1, levels |-> Changed(Now.levels, {change})]
          IN  /\ history' = Append(history, next)
              /\ down' = IF topics.book
                         THEN Append(down, DeltaFrame(next, Seq0 + 1, {change}))
                         ELSE down
    BY <1>1 DEF VenueUpdate
  <2> DEFINE change == [level |-> level, present |-> level \notin Now.levels]
             next == [u |-> Now.u + 1, levels |-> Changed(Now.levels, {change})]
  <2>2. {change} \in SUBSET [level : Levels, present : BOOLEAN]
    OBVIOUS
  <2>3. Now.u + 1 \in Nat \ {0} /\ Now.levels \in SUBSET Levels
    BY <1>0 DEF BookStates
  <2>4. next \in BookStates
    BY <2>2, <2>3, ChangedTyped DEF BookStates
  <2>5. DeltaFrame(next, Seq0 + 1, {change}) \in FrameSet
    BY <1>0, <2>2, <2>4, FramesTyped
  <2>6. /\ history' = Append(history, next)
        /\ down' = IF topics.book THEN Append(down, DeltaFrame(next, Seq0 + 1, {change})) ELSE down
    BY <2>1
  <2> HIDE DEF change, next
  <2>7. /\ history' \in Seq(BookStates) /\ history' # <<>> /\ down' \in Seq(FrameSet)
    BY <2>4, <2>5, <2>6, AppendFacts DEF FeedTyped
  <2>8. budget' \in [{"faults", "updates", "gaps"} -> Nat]
    BY <1>1, SpentTyped DEF VenueUpdate
  <2> QED
    BY <1>1, <2>7, <2>8 DEF VenueUpdate, workerVars, FeedTyped
<1>2. CASE VenueRestart
  <2> DEFINE next == [u |-> 1, levels |-> Now.levels]
  <2>1. next \in BookStates
    BY <1>0 DEF BookStates
  <2>2. SnapshotFrame(next, Seq0 + 1) \in FrameSet
    BY <1>0, <2>1, FramesTyped
  <2>3. /\ history' = Append(history, next)
        /\ down' = IF topics.book THEN Append(down, SnapshotFrame(next, Seq0 + 1)) ELSE down
    BY <1>2 DEF VenueRestart
  <2> HIDE DEF next
  <2>4. /\ history' \in Seq(BookStates) /\ history' # <<>> /\ down' \in Seq(FrameSet)
    BY <2>1, <2>2, <2>3, AppendFacts DEF FeedTyped
  <2>5. budget' \in [{"faults", "updates", "gaps"} -> Nat]
    BY <1>2, SpentTyped DEF VenueRestart
  <2> QED
    BY <1>2, <2>4, <2>5 DEF VenueRestart, workerVars, FeedTyped
<1>3. CASE VenueTicker
  <2>1. Frame("ticker") \in FrameSet
    BY FramesTyped DEF Kinds
  <2>2. down' \in Seq(FrameSet)
    BY <1>3, <2>1, AppendFacts DEF VenueTicker, FeedTyped
  <2> QED
    BY <1>3, <2>2 DEF VenueTicker, venueVars, workerVars, FeedTyped
<1>4. CASE VenueHears
  <2>1. Head(up) \in Requests /\ Tail(up) \in Seq(Requests)
    BY <1>4, TailFacts DEF VenueHears, FeedTyped
  <2>2. /\ SnapshotFrame(Now, Seq0) \in FrameSet /\ Frame("tickerSnapshot") \in FrameSet
        /\ Frame("pong") \in FrameSet
    BY <1>0, FramesTyped DEF Kinds
  <2>3. VenueAnswers
    BY <1>4 DEF VenueHears
  <2>4. topics' \in [book : BOOLEAN, ticker : BOOLEAN] /\ down' \in Seq(FrameSet)
    <3>1. CASE Head(up) = "subscribe"
      <4>1. /\ topics' = [book |-> TRUE, ticker |-> TRUE]
            /\ down' = down \o <<SnapshotFrame(Now, Seq0), Frame("tickerSnapshot")>>
        BY <2>3, <3>1 DEF VenueAnswers
      <4>2. <<SnapshotFrame(Now, Seq0), Frame("tickerSnapshot")>> \in Seq(FrameSet)
        BY <2>2
      <4> QED
        BY <4>1, <4>2, ConcatProperties DEF FeedTyped
    <3>2. CASE Head(up) = "subscribeBook"
      <4>1. /\ topics' = [topics EXCEPT !.book = TRUE]
            /\ down' = Append(down, SnapshotFrame(Now, Seq0))
        BY <2>3, <3>2 DEF VenueAnswers
      <4> QED
        BY <2>2, <4>1, AppendFacts DEF FeedTyped
    <3>3. CASE Head(up) = "unsubscribeBook"
      BY <2>3, <3>3 DEF VenueAnswers, FeedTyped
    <3>4. CASE Head(up) = "ping"
      <4>1. topics' = topics /\ down' = Append(down, Frame("pong"))
        BY <2>3, <3>4 DEF VenueAnswers
      <4> QED
        BY <2>2, <4>1, AppendFacts DEF FeedTyped
    <3> QED
      BY <2>1, <3>1, <3>2, <3>3, <3>4 DEF Requests
  <2> QED
    BY <1>4, <2>1, <2>4 DEF VenueHears, workerVars, FeedTyped
<1> QED
  BY <1>1, <1>2, <1>3, <1>4 DEF Venue

LEMMA FaultsTyped == FeedTyped /\ Faults => FeedTyped'
<1> SUFFICES ASSUME FeedTyped, Faults PROVE FeedTyped'
  OBVIOUS
<1>0. /\ Frame("refused") \in FrameSet /\ Frame("garbled") \in FrameSet
  BY FramesTyped DEF Kinds
<1>b. ASSUME Spend("faults") PROVE budget' \in [{"faults", "updates", "gaps"} -> Nat]
  BY <1>b, SpentTyped
<1>1. CASE VenueRefuses
  <2>1. Tail(up) \in Seq(Requests)
    BY <1>1, TailFacts DEF VenueRefuses, FeedTyped
  <2>2. down' \in Seq(FrameSet)
    BY <1>0, <1>1, AppendFacts DEF VenueRefuses, FeedTyped
  <2> QED
    BY <1>b, <1>1, <2>1, <2>2 DEF VenueRefuses, venueVars, workerVars, FeedTyped
<1>2. CASE BookTopicDies
  BY <1>b, <1>2 DEF BookTopicDies, workerVars, FeedTyped
<1>3. CASE FrameSkipped
  <2>1. down' \in Seq(FrameSet)
    BY <1>3, TailFacts DEF FrameSkipped, FeedTyped
  <2> QED
    BY <1>b, <1>3, <2>1 DEF FrameSkipped, venueVars, workerVars, FeedTyped
<1>4. CASE FrameRepeated
  <2>1. Head(down) \in FrameSet
    BY <1>4, TailFacts DEF FrameRepeated, FeedTyped
  <2>2. down' \in Seq(FrameSet)
    BY <1>4, <2>1, AppendFacts DEF FrameRepeated, FeedTyped
  <2> QED
    BY <1>b, <1>4, <2>2 DEF FrameRepeated, venueVars, workerVars, FeedTyped
<1>5. CASE FrameGarbled
  <2>1. down' \in Seq(FrameSet)
    BY <1>0, <1>5, HeadReplaced DEF FrameGarbled, FeedTyped
  <2> QED
    BY <1>b, <1>5, <2>1 DEF FrameGarbled, venueVars, workerVars, FeedTyped
<1>6. CASE FrameOffTick
  <2>1. Head(down) \in FrameSet
    BY <1>6, TailFacts DEF FrameOffTick, FeedTyped
  <2>2. [Head(down) EXCEPT !.onTick = FALSE] \in FrameSet
    BY <2>1 DEF FrameSet
  <2>3. down' \in Seq(FrameSet)
    BY <1>6, <2>2, HeadReplaced DEF FrameOffTick, FeedTyped
  <2> QED
    BY <1>b, <1>6, <2>3 DEF FrameOffTick, venueVars, workerVars, FeedTyped
<1>7. CASE LinkFails
  <2>1. down' \in Seq(FrameSet) /\ up' \in Seq(Requests)
    BY <1>7 DEF LinkFails, FeedTyped
  <2>2. topics' \in [book : BOOLEAN, ticker : BOOLEAN]
    BY <1>7 DEF LinkFails, Silent
  <2> QED
    BY <1>b, <1>7, <2>1, <2>2 DEF LinkFails, workerVars, FeedTyped
<1> QED
  BY <1>1, <1>2, <1>3, <1>4, <1>5, <1>6, <1>7 DEF Faults

LEMMA TypedNext == FeedTyped /\ [FeedNext]_feedVars => FeedTyped'
<1> SUFFICES ASSUME FeedTyped, [FeedNext]_feedVars PROVE FeedTyped'
  OBVIOUS
<1>1. CASE Connect
  <2>1. market' \in MarketSet
    BY <1>1, MarketsTyped DEF Connect, FeedTyped
  <2>2. up' \in Seq(Requests)
    BY <1>1 DEF Connect, Requests
  <2> QED
    BY <1>1, <2>1, <2>2, FreshTyped DEF Connect, venueVars, FeedTyped
<1>2. CASE ConnectFails
  <2>1. market' \in MarketSet
    BY <1>2, MarketsTyped DEF ConnectFails, FeedTyped
  <2>2. backoff' \in 0..MaxBackoff
    BY <1>2, StampFacts DEF ConnectFails
  <2>3. budget' \in [{"faults", "updates", "gaps"} -> Nat]
    BY <1>2, SpentTyped DEF ConnectFails
  <2> QED
    BY <1>2, <2>1, <2>2, <2>3 DEF ConnectFails, venueVars, FeedTyped
<1>3. CASE Waits
  BY <1>3 DEF Waits, venueVars, workerVars, FeedTyped
<1>4. CASE StoreGapHeals
  <2>1. market' \in MarketSet
    BY <1>4, MarketsTyped DEF StoreGapHeals, FeedTyped
  <2>2. age' \in [Stamps -> Nat]
    BY <1>4, StampedTyped DEF StoreGapHeals
  <2>3. budget' \in [{"faults", "updates", "gaps"} -> Nat]
    BY <1>4, SpentTyped DEF StoreGapHeals
  <2> QED
    BY <1>4, <2>1, <2>2, <2>3 DEF StoreGapHeals, venueVars, workerVars, FeedTyped
<1>5. CASE Tick
  <2>1. age' \in [Stamps -> Nat]
    <3>1. ASSUME NEW s \in Stamps PROVE Older(s) \in Nat
      <4>1. age[s] \in Nat
        BY DEF FeedTyped
      <4> QED
        BY <4>1 DEF Older
    <3>2. age' = [s \in Stamps |-> Older(s)]
      BY <1>5 DEF Tick
    <3> QED
      BY <3>1, <3>2
  <2>2. backoff' \in 0..MaxBackoff
    <3>1. backoff \in 0..MaxBackoff /\ MaxBackoff \in Nat
      BY StampFacts DEF FeedTyped
    <3>2. backoff' = IF backoff > 0 THEN backoff - 1 ELSE 0
      BY <1>5 DEF Tick
    <3> QED
      BY <3>1, <3>2
  <2> QED
    BY <1>5, <2>1, <2>2 DEF Tick, venueVars, FeedTyped
<1>6. CASE UNCHANGED feedVars
  BY <1>6 DEF feedVars, FeedTyped
<1> QED
  BY <1>1, <1>2, <1>3, <1>4, <1>5, <1>6, StepTyped, VenueTyped, FaultsTyped
     DEF FeedNext, Worker

-------------------------------------------------------------------------------
(* Every step keeps what the book needs.                                   *)

BookFollows == Follows(history, topics.book, down, market.book)

LEMMA FollowsTyped == FeedTyped => Typed(history, topics.book, down, market.book)
  BY DEF FeedTyped, MarketSet

LEMMA TwoAppended ==
    ASSUME NEW q \in Seq(FrameSet), NEW x \in FrameSet, NEW y \in FrameSet
    PROVE  q \o <<x, y>> = Append(Append(q, x), y)
<1> DEFINE two == <<x, y>>  one == Append(q, x)  l == q \o two  r == Append(one, y)
<1>1. two \in Seq(FrameSet) /\ Len(two) = 2 /\ two[1] = x /\ two[2] = y
  OBVIOUS
<1>2. /\ Len(q) \in Nat /\ one \in Seq(FrameSet) /\ Len(one) = Len(q) + 1
      /\ one[Len(q) + 1] = x /\ \A i \in 1..Len(q) : one[i] = q[i]
  BY AppendFacts
<1> HIDE DEF two, one
<1>3. /\ r \in Seq(FrameSet) /\ Len(r) = Len(one) + 1
      /\ r[Len(one) + 1] = y /\ \A i \in 1..Len(one) : r[i] = one[i]
  BY <1>2, AppendFacts
<1>4. /\ l \in Seq(FrameSet) /\ Len(l) = Len(q) + Len(two)
      /\ \A i \in 1..(Len(q) + Len(two)) :
            l[i] = IF i <= Len(q) THEN q[i] ELSE two[i - Len(q)]
  BY <1>1, ConcatProperties
<1> HIDE DEF l, r
<1>5. Len(l) = Len(r) /\ Len(l) = Len(q) + 2
  BY <1>1, <1>2, <1>3, <1>4
<1>6. ASSUME NEW i \in 1..Len(l) PROVE l[i] = r[i]
  <2>1. CASE i \in 1..Len(q)
    <3>1. i <= Len(q) /\ i \in 1..Len(one) /\ i \in 1..(Len(q) + Len(two))
      BY <1>1, <1>2, <2>1
    <3> QED
      BY <1>2, <1>3, <1>4, <2>1, <3>1
  <2>2. CASE i = Len(q) + 1
    <3>1. /\ ~(i <= Len(q)) /\ i \in 1..Len(one) /\ i \in 1..(Len(q) + Len(two))
          /\ i - Len(q) = 1
      BY <1>1, <1>2, <2>2
    <3> QED
      BY <1>1, <1>2, <1>3, <1>4, <2>2, <3>1
  <2>3. CASE i = Len(q) + 2
    <3>1. /\ ~(i <= Len(q)) /\ i = Len(one) + 1 /\ i \in 1..(Len(q) + Len(two))
          /\ i - Len(q) = 2
      BY <1>1, <1>2, <2>3
    <3> QED
      BY <1>1, <1>3, <1>4, <3>1
  <2> QED
    BY <1>2, <1>5, <2>1, <2>2, <2>3
<1>7. l = r
  BY <1>3, <1>4, <1>5, <1>6, SeqEqual
<1> QED
  BY <1>7 DEF l, r, two, one

LEMMA InitFollows == FeedInit => BookFollows
<1> SUFFICES ASSUME FeedInit PROVE BookFollows
  OBVIOUS
<1>1. down = <<>> /\ ~topics.book /\ ~market.book.synced /\ Len(history) = 1
  BY DEF FeedInit, Silent, OfflineMarket, NoBook
<1>2. Len(down) = 0 /\ 1..0 = {} /\ 1..1 = {1}
  BY <1>1
<1>3. Counts(history)
  BY <1>1, <1>2 DEF Counts
<1> QED
  BY <1>1, <1>2, <1>3
     DEF BookFollows, Follows, FramesTrue, GarbledNext, NumberingsInOrder, RestartsKnown, TopicKnown,
         RestartsLast, BookTrue

\* The venue sends the book it has now.
LEMMA NowSent ==
    ASSUME FeedTyped, BookFollows
    PROVE  Follows(history, TRUE, Append(down, SnapshotFrame(Now, Seq0)), market.book)
<1> DEFINE f == SnapshotFrame(Now, Seq0)
<1>1. /\ Now = history[Len(history)] /\ Now \in BookStates
      /\ Seq0 = Len(history) /\ Seq0 \in Nat /\ Seq0 \in 1..Len(history)
  BY NowTyped
<1>2. /\ f \in FrameSet /\ f.kind = "snapshot" /\ f.seq = Seq0 /\ f.u = Now.u
      /\ f.levels = Now.levels
  BY <1>1, FramesTyped
<1> HIDE DEF f
<1>3. SnapshotTrue(history, f)
  BY <1>1, <1>2 DEF SnapshotTrue
<1>4. \A r \in Restarts(history) : r <= f.seq
  BY <1>1, <1>2 DEF Restarts
<1>5. Typed(history, topics.book, down, market.book) /\ Follows(history, topics.book, down, market.book)
  BY FollowsTyped DEF BookFollows
<1>6. Follows(history, TRUE, Append(down, f), market.book)
  <2> HIDE DEF Typed
  <2> QED
    BY <1>1, <1>2, <1>3, <1>4, <1>5, FollowsSnapshot
<1> QED
  BY <1>6 DEF f

LEMMA VenueFollows == FeedTyped /\ BookFollows /\ Venue => BookFollows'
<1> SUFFICES ASSUME FeedTyped, BookFollows, Venue PROVE BookFollows'
  OBVIOUS
<1>0. /\ Now = history[Len(history)] /\ Now \in BookStates
      /\ Seq0 = Len(history) /\ Seq0 \in Nat \ {0} /\ Seq0 \in 1..Len(history)
  BY NowTyped
<1>t. /\ history \in Seq(BookStates) /\ topics.book \in BOOLEAN /\ down \in Seq(FrameSet)
      /\ market.book \in BookSet
  BY FollowsTyped
<1>f. Typed(history, topics.book, down, market.book) /\ Follows(history, topics.book, down, market.book)
  BY FollowsTyped DEF BookFollows
<1> HIDE DEF Typed
<1>1. CASE VenueUpdate
  <2>1. PICK level \in Levels :
          LET change == [level |-> level, present |-> level \notin Now.levels]
              next == [u |-> Now.u + 1, levels |-> Changed(Now.levels, {change})]
          IN  /\ history' = Append(history, next)
              /\ down' = IF topics.book
                         THEN Append(down, DeltaFrame(next, Seq0 + 1, {change}))
                         ELSE down
    BY <1>1 DEF VenueUpdate
  <2> DEFINE change == [level |-> level, present |-> level \notin Now.levels]
             next == [u |-> Now.u + 1, levels |-> Changed(Now.levels, {change})]
             f == DeltaFrame(next, Seq0 + 1, {change})
             h == Append(history, next)
  <2>2. {change} \in SUBSET [level : Levels, present : BOOLEAN]
    OBVIOUS
  <2>3. Now.u \in Nat \ {0} /\ Now.levels \in SUBSET Levels
    BY <1>0 DEF BookStates
  <2>a. Changed(Now.levels, {change}) \in SUBSET Levels
    BY <2>2, <2>3, ChangedTyped
  <2>b. next.u = Now.u + 1 /\ next.levels = Changed(Now.levels, {change})
    OBVIOUS
  <2> HIDE DEF change
  <2>c. next \in BookStates
    BY <2>a, <2>3 DEF BookStates
  <2> HIDE DEF next
  <2>4. next \in BookStates /\ next.u = Now.u + 1 /\ next.u # 1
        /\ next.levels = Changed(Now.levels, {change})
    BY <2>b, <2>c, <2>3
  <2>5. /\ f \in FrameSet /\ f.kind = "delta" /\ f.seq = Seq0 + 1 /\ f.u = next.u
        /\ f.changes = {change}
    BY <1>0, <2>2, <2>4, FramesTyped
  <2> HIDE DEF f
  <2>6. history' = h /\ down' = IF topics.book THEN Append(down, f) ELSE down
    BY <2>1 DEF change, next, f
  <2>7. /\ h \in Seq(BookStates) /\ h # <<>> /\ Len(h) = Seq0 + 1
        /\ h[Seq0 + 1] = next /\ h[Seq0] = Now
    BY <1>0, <1>t, <2>4, AppendFacts
  <2>8. Follows(h, topics.book, down, market.book)
    <3>1. Follows(h, next.u # 1 /\ topics.book, down, market.book)
      BY <1>0, <1>f, <2>4, FollowsHistory
    <3> QED
      BY <1>t, <2>4, <3>1
  <2> HIDE DEF h
  <2>9. Typed(h, topics.book, down, market.book)
    BY <1>f, <2>7 DEF Typed
  <2>10. ASSUME topics.book PROVE Follows(h, topics.book, Append(down, f), market.book)
    <3>1. DeltaTrue(h, f)
      <4>1. f.seq \in 2..Len(h) /\ f.seq - 1 = Seq0
        BY <1>0, <2>5, <2>7
      <4> QED
        BY <2>4, <2>5, <2>7, <4>1 DEF DeltaTrue
    <3>2. \A r \in Restarts(h) : Known(down, market.book, Len(down) + 1, r)
      BY <2>8, <2>10 DEF Follows, TopicKnown
    <3> QED
      BY <2>5, <2>8, <2>9, <3>1, <3>2, FollowsDelta
  <2>11. topics' = topics /\ market' = market
    BY <1>1 DEF VenueUpdate
  <2> QED
    BY <2>6, <2>8, <2>10, <2>11 DEF BookFollows
<1>2. CASE VenueRestart
  <2> DEFINE next == [u |-> 1, levels |-> Now.levels]
             f == SnapshotFrame(next, Seq0 + 1)
             h == Append(history, next)
  <2>1. next \in BookStates /\ next.u = 1
    BY <1>0 DEF BookStates
  <2>2. /\ f \in FrameSet /\ f.kind = "snapshot" /\ f.seq = Seq0 + 1 /\ f.u = next.u
        /\ f.levels = next.levels
    BY <1>0, <2>1, FramesTyped
  <2>3. history' = h /\ down' = IF topics.book THEN Append(down, f) ELSE down
    BY <1>2 DEF VenueRestart
  <2> HIDE DEF next, f
  <2>4. /\ h \in Seq(BookStates) /\ h # <<>> /\ Len(h) = Seq0 + 1
        /\ h[Seq0 + 1] = next
    BY <1>0, <1>t, <2>1, AppendFacts
  <2>5. Follows(h, FALSE, down, market.book)
    <3>1. Follows(h, next.u # 1 /\ topics.book, down, market.book)
      BY <1>0, <1>f, <2>1, FollowsHistory
    <3>2. (next.u # 1 /\ topics.book) = FALSE
      BY <2>1
    <3> QED
      BY <3>1, <3>2
  <2> HIDE DEF h
  <2>6. Typed(h, FALSE, down, market.book)
    BY <1>f, <2>4 DEF Typed
  <2>7. Follows(h, TRUE, Append(down, f), market.book)
    <3>1. SnapshotTrue(h, f)
      BY <1>0, <2>2, <2>4 DEF SnapshotTrue
    <3>2. \A r \in Restarts(h) : r <= f.seq
      BY <1>0, <2>2, <2>4 DEF Restarts
    <3> QED
      BY <2>2, <2>4, <2>5, <2>6, <3>1, <3>2, FollowsSnapshot
  <2>8. topics' = topics /\ market' = market
    BY <1>2 DEF VenueRestart
  <2>9. topics.book = TRUE \/ topics.book = FALSE
    BY <1>t
  <2> QED
    BY <2>3, <2>5, <2>7, <2>8, <2>9 DEF BookFollows
<1>3. CASE VenueTicker
  <2>1. Frame("ticker") \in FrameSet /\ Frame("ticker").kind = "ticker"
    BY FramesTyped DEF Kinds
  <2>2. ~("ticker" \in BookFrames)
    BY DEF BookFrames
  <2>3. Follows(history, topics.book, Append(down, Frame("ticker")), market.book)
    BY <1>f, <2>1, <2>2, FollowsPlain
  <2> QED
    BY <1>3, <2>3 DEF VenueTicker, venueVars, BookFollows
<1>4. CASE VenueHears
  <2>0. Head(up) \in Requests
    BY <1>4, TailFacts DEF VenueHears, FeedTyped
  <2>1. VenueAnswers /\ history' = history /\ market' = market
    BY <1>4 DEF VenueHears
  <2>2. /\ Frame("tickerSnapshot") \in FrameSet /\ Frame("tickerSnapshot").kind = "tickerSnapshot"
        /\ Frame("pong") \in FrameSet /\ Frame("pong").kind = "pong"
        /\ SnapshotFrame(Now, Seq0) \in FrameSet
    BY <1>0, FramesTyped DEF Kinds
  <2>3. ~("tickerSnapshot" \in BookFrames) /\ ~("pong" \in BookFrames)
    BY DEF BookFrames
  <2>4. Follows(history, TRUE, Append(down, SnapshotFrame(Now, Seq0)), market.book)
    BY NowSent
  <2>5. CASE Head(up) = "subscribe"
    <3>1. /\ topics' = [book |-> TRUE, ticker |-> TRUE]
          /\ down' = down \o <<SnapshotFrame(Now, Seq0), Frame("tickerSnapshot")>>
      BY <2>1, <2>5 DEF VenueAnswers
    <3>2. down' = Append(Append(down, SnapshotFrame(Now, Seq0)), Frame("tickerSnapshot"))
      BY <1>t, <2>2, <3>1, TwoAppended
    <3>3. Typed(history, TRUE, Append(down, SnapshotFrame(Now, Seq0)), market.book)
      BY <1>f, <2>2, AppendFacts DEF Typed
    <3>4. Follows(history, TRUE, down', market.book)
      BY <2>2, <2>3, <2>4, <3>2, <3>3, FollowsPlain
    <3> QED
      BY <2>1, <3>1, <3>4 DEF BookFollows
  <2>6. CASE Head(up) = "subscribeBook"
    <3>1. /\ topics' = [topics EXCEPT !.book = TRUE]
          /\ down' = Append(down, SnapshotFrame(Now, Seq0))
      BY <2>1, <2>6 DEF VenueAnswers
    <3>2. topics'.book = TRUE
      BY <3>1 DEF FeedTyped
    <3> QED
      BY <2>1, <2>4, <3>1, <3>2 DEF BookFollows
  <2>7. CASE Head(up) = "unsubscribeBook"
    <3>1. topics' = [topics EXCEPT !.book = FALSE] /\ down' = down
      BY <2>1, <2>7 DEF VenueAnswers
    <3>2. topics'.book = FALSE
      BY <3>1 DEF FeedTyped
    <3>3. Follows(history, FALSE, down, market.book)
      BY <1>f, FollowsQuiet
    <3> QED
      BY <2>1, <3>1, <3>2, <3>3 DEF BookFollows
  <2>8. CASE Head(up) = "ping"
    <3>1. topics' = topics /\ down' = Append(down, Frame("pong"))
      BY <2>1, <2>8 DEF VenueAnswers
    <3>2. Follows(history, topics.book, Append(down, Frame("pong")), market.book)
      BY <1>f, <2>2, <2>3, FollowsPlain
    <3> QED
      BY <2>1, <3>1, <3>2 DEF BookFollows
  <2> QED
    BY <2>0, <2>5, <2>6, <2>7, <2>8 DEF Requests
<1> QED
  BY <1>1, <1>2, <1>3, <1>4 DEF Venue

LEMMA FaultsFollow == FeedTyped /\ BookFollows /\ Faults => BookFollows'
<1> SUFFICES ASSUME FeedTyped, BookFollows, Faults PROVE BookFollows'
  OBVIOUS
<1>t. /\ history \in Seq(BookStates) /\ topics.book \in BOOLEAN /\ down \in Seq(FrameSet)
      /\ market.book \in BookSet
  BY FollowsTyped
<1>f. Typed(history, topics.book, down, market.book) /\ Follows(history, topics.book, down, market.book)
  BY FollowsTyped DEF BookFollows
<1> HIDE DEF Typed
<1>0. /\ Frame("refused") \in FrameSet /\ Frame("refused").kind = "refused"
      /\ Frame("garbled") \in FrameSet /\ Frame("garbled").kind = "garbled"
      /\ ~("refused" \in BookFrames)
  BY FramesTyped DEF Kinds, BookFrames
<1>h. ASSUME down # <<>> PROVE Head(down) = down[1] /\ Head(down) \in FrameSet
  BY <1>h, <1>t, TailFacts
<1>1. CASE VenueRefuses
  <2>1. Follows(history, topics.book, Append(down, Frame("refused")), market.book)
    BY <1>f, <1>0, FollowsPlain
  <2> QED
    BY <1>1, <2>1 DEF VenueRefuses, venueVars, BookFollows
<1>2. CASE BookTopicDies
  <2>1. topics'.book = FALSE
    BY <1>2 DEF BookTopicDies, FeedTyped
  <2>2. Follows(history, FALSE, down, market.book)
    BY <1>f, FollowsQuiet
  <2> QED
    BY <1>2, <2>1, <2>2 DEF BookTopicDies, BookFollows
<1>3. CASE FrameSkipped
  <2>1. down # <<>> /\ down[1].kind = "delta" /\ down' = Tail(down)
    BY <1>3, <1>h DEF FrameSkipped
  <2>2. Moves(market.book, down[1], market.book)
    BY <2>1 DEF Moves
  <2>3. Follows(history, topics.book, Tail(down), market.book)
    BY <1>f, <1>t, <2>1, <2>2, FollowsHeard
  <2> QED
    BY <1>3, <2>1, <2>3 DEF FrameSkipped, venueVars, BookFollows
<1>4. CASE FrameRepeated
  <2>1. /\ down # <<>> /\ down[1].kind \in BookFrames /\ down[1].u # 1
        /\ down[1].kind = "snapshot" => ~RestartedSince(down[1].seq)
        /\ down' = Append(down, down[1])
    BY <1>4, <1>h DEF FrameRepeated
  <2>2. down[1].seq \in Nat
    BY <1>h, <2>1 DEF FrameSet
  <2>3. ~RestartedSince(down[1].seq) => \A r \in Restarts(history) : r <= down[1].seq
    BY <1>t, <2>2, LenProperties DEF RestartedSince, Restarts
  <2>4. Follows(history, topics.book, Append(down, down[1]), market.book)
    BY <1>f, <2>1, <2>3, FollowsRepeated
  <2> QED
    BY <1>4, <2>1, <2>4 DEF FrameRepeated, venueVars, BookFollows
<1>5. CASE FrameGarbled
  <2>1. /\ down # <<>> /\ down[1].kind \in BookFrames
        /\ down' = <<Frame("garbled")>> \o Tail(down)
    BY <1>5, <1>h DEF FrameGarbled
  <2>2. Follows(history, topics.book, <<Frame("garbled")>> \o Tail(down), market.book)
    BY <1>f, <1>0, <2>1, FollowsGarbled
  <2> QED
    BY <1>5, <2>1, <2>2 DEF FrameGarbled, venueVars, BookFollows
<1>6. CASE FrameOffTick
  <2> DEFINE e == [down[1] EXCEPT !.onTick = FALSE]
  <2>1. down # <<>> /\ down' = <<e>> \o Tail(down)
    BY <1>6, <1>h DEF FrameOffTick
  <2>2. /\ e \in FrameSet /\ e.kind = down[1].kind /\ e.u = down[1].u /\ e.seq = down[1].seq
        /\ e.levels = down[1].levels /\ e.changes = down[1].changes
    BY <1>h, <2>1 DEF FrameSet
  <2> HIDE DEF e
  <2>3. Follows(history, topics.book, <<e>> \o Tail(down), market.book)
    BY <1>f, <2>1, <2>2, FollowsOffTick
  <2> QED
    BY <1>6, <2>1, <2>3 DEF FrameOffTick, venueVars, BookFollows
<1>7. CASE LinkFails
  <2>1. /\ topics'.book = FALSE /\ history' = history /\ market' = market
        /\ down' = <<>> \/ down' = down
    BY <1>7 DEF LinkFails, Silent
  <2>2. Follows(history, FALSE, down, market.book) /\ Follows(history, FALSE, <<>>, market.book)
    BY <1>f, FollowsQuiet, FollowsEmpty
  <2> QED
    BY <2>1, <2>2 DEF BookFollows
<1> QED
  BY <1>1, <1>2, <1>3, <1>4, <1>5, <1>6, <1>7 DEF Faults

\* What one iteration of the worker does to the frames and the book.
Reads ==
    \/ /\ topics'.book = FALSE /\ down' = <<>> /\ ~market'.book.synced
    \/ /\ topics' = topics /\ down' = down
       /\ market'.book = market.book \/ ~market'.book.synced
    \/ /\ topics' = topics /\ down # <<>> /\ down' = Tail(down)
       /\ Moves(market.book, down[1], market'.book)

LEMMA StepReads == FeedTyped /\ Step => history' = history /\ Reads
<1> SUFFICES ASSUME FeedTyped, Step PROVE history' = history /\ Reads
  OBVIOUS
<1>0. history' = history
  BY DEF Step
<1>1. ASSUME Drop PROVE Reads
  BY <1>1, DropTyped DEF Reads, Silent
<1>2. ASSUME NEW sent, NEW left, NEW told \in MarketSet, NEW stamps,
             Resubscribe(sent, left, told, stamps), ~Drop
      PROVE  topics' = topics /\ down' = left /\ ~market'.book.synced
  BY <1>2, MarketsTyped DEF Resubscribe
<1>3. ASSUME Resubscribe(Pinged, down, market, PingStamp) PROVE Reads
  BY <1>1, <1>2, <1>3 DEF Reads, FeedTyped
<1>4. ASSUME Idle PROVE Reads
  BY <1>4 DEF Idle, Reads
<1>5. ASSUME down # <<>>, Hear(Head(down)) PROVE Reads
  <2> DEFINE ev == Head(down)
             told == Ingest(market, ev)
             taken == ev.kind \in BookFrames /\ ApplyBook(market.book, ev).status \in TakenStatuses
             stamps == PingStamp \cup {"frame"}
                         \cup (IF ev.kind = "pong" THEN {"pong"} ELSE {})
                         \cup (IF taken THEN {"book", "blind"} ELSE {})
                         \cup (IF told.book.synced THEN {"resync"} ELSE {"book"})
  <2>1. ev \in FrameSet /\ ev = down[1]
    BY <1>5, TailFacts DEF FeedTyped
  <2>2. told \in MarketSet /\ Moves(market.book, ev, told.book)
    BY <2>1, IngestTyped DEF FeedTyped
  <2>3. \/ Resubscribe(Pinged, Tail(down), told, stamps)
        \/ market' = told /\ down' = Tail(down) /\ topics' = topics
    BY <1>5 DEF Hear
  <2> HIDE DEF ev, told, taken, stamps
  <2>4. CASE Resubscribe(Pinged, Tail(down), told, stamps)
    <3>1. CASE Drop
      BY <1>1, <3>1
    <3>2. CASE ~Drop
      <4>1. topics' = topics /\ down' = Tail(down) /\ ~market'.book.synced
        BY <1>2, <2>2, <2>4, <3>2
      <4> QED
        BY <1>5, <4>1 DEF Reads, Moves
    <3> QED
      BY <3>1, <3>2
  <2>5. CASE market' = told /\ down' = Tail(down) /\ topics' = topics
    BY <1>5, <2>1, <2>2, <2>5 DEF Reads
  <2> QED
    BY <2>3, <2>4, <2>5
<1> QED
  BY <1>0, <1>1, <1>3, <1>4, <1>5 DEF Step, Receive

LEMMA WorkerReads ==
    FeedTyped /\ (Worker \/ StoreGapHeals \/ Tick) => history' = history /\ Reads
<1> SUFFICES ASSUME FeedTyped, Worker \/ StoreGapHeals \/ Tick PROVE history' = history /\ Reads
  OBVIOUS
<1>1. CASE Connect
  BY <1>1, MarketsTyped DEF Connect, venueVars, Reads, FeedTyped
<1>2. CASE ConnectFails
  BY <1>2, MarketsTyped DEF ConnectFails, venueVars, Reads, FeedTyped
<1>3. CASE Waits
  BY <1>3 DEF Waits, venueVars, Reads
<1>4. CASE StoreGapHeals
  BY <1>4, MarketsTyped DEF StoreGapHeals, venueVars, Reads, FeedTyped
<1>5. CASE Tick
  BY <1>5 DEF Tick, venueVars, Reads
<1> QED
  BY <1>1, <1>2, <1>3, <1>4, <1>5, StepReads DEF Worker

LEMMA ReadsFollow ==
    ASSUME FeedTyped, FeedTyped', BookFollows, history' = history, Reads
    PROVE  BookFollows'
<1>f. Typed(history, topics.book, down, market.book) /\ Follows(history, topics.book, down, market.book)
  BY FollowsTyped DEF BookFollows
<1>t. market'.book \in BookSet
  BY DEF FeedTyped, MarketSet
<1> HIDE DEF Typed
<1>1. CASE topics'.book = FALSE /\ down' = <<>> /\ ~market'.book.synced
  <2>1. Follows(history, FALSE, <<>>, market'.book)
    BY <1>1, <1>f, FollowsEmpty
  <2> QED
    BY <1>1, <2>1 DEF BookFollows
<1>2. CASE /\ topics' = topics /\ down' = down
           /\ market'.book = market.book \/ ~market'.book.synced
  <2>1. Follows(history, topics.book, down, market'.book)
    BY <1>2, <1>f, FollowsQuiet
  <2> QED
    BY <1>2, <2>1 DEF BookFollows
<1>3. CASE /\ topics' = topics /\ down # <<>> /\ down' = Tail(down)
           /\ Moves(market.book, down[1], market'.book)
  <2>1. Follows(history, topics.book, Tail(down), market'.book)
    BY <1>3, <1>f, <1>t, FollowsHeard
  <2> QED
    BY <1>3, <2>1 DEF BookFollows
<1> QED
  BY <1>1, <1>2, <1>3 DEF Reads

LEMMA FollowsNext == FeedTyped /\ BookFollows /\ [FeedNext]_feedVars => BookFollows'
<1> SUFFICES ASSUME FeedTyped, BookFollows, [FeedNext]_feedVars PROVE BookFollows'
  OBVIOUS
<1>1. FeedTyped'
  BY TypedNext
<1>2. CASE Worker \/ StoreGapHeals \/ Tick
  BY <1>1, <1>2, WorkerReads, ReadsFollow
<1>3. CASE UNCHANGED feedVars
  BY <1>3 DEF feedVars, BookFollows
<1> QED
  BY <1>2, <1>3, VenueFollows, FaultsFollow DEF FeedNext

-------------------------------------------------------------------------------
(* Time.  Without a request for a fresh book the connection has been blind *)
(* no longer than the stamp that will ask for one; with a request, no      *)
(* longer than that and the time the request has been out.                 *)

Late == IF stepped THEN 0 ELSE 1

TimesAgree ==
    ws =>
        /\ market.book.synced => ~resync /\ asked # "since" /\ age.blind <= age.book
        /\ ~resync => age.blind <= age.attempt /\ age.blind <= BookSilence + Late
        /\ resync => /\ age.resync <= ResyncTimeout + Late
                     /\ age.blind <= BookSilence + 1 + age.resync

LEMMA AgeTyped ==
    ASSUME FeedTyped
    PROVE  /\ age.blind \in Nat /\ age.book \in Nat /\ age.attempt \in Nat /\ age.resync \in Nat
           /\ BookSilence \in Nat /\ ResyncTimeout \in Nat
           /\ Late \in {0, 1}
  BY StampFacts DEF FeedTyped, Names, Late

LEMMA StampedFacts ==
    ASSUME NEW x
    PROVE  /\ Stamped(x).blind = IF "blind" \in x THEN 0 ELSE age.blind
           /\ Stamped(x).book = IF "book" \in x THEN 0 ELSE age.book
           /\ Stamped(x).attempt = IF "attempt" \in x THEN 0 ELSE age.attempt
           /\ Stamped(x).resync = IF "resync" \in x THEN 0 ELSE age.resync
  BY StampFacts DEF Stamped, Names

\* A book that a frame leaves synced without being taken was synced before.
LEMMA Untaken ==
    ASSUME NEW m \in MarketSet, NEW f \in FrameSet, Ingest(m, f).book.synced,
           ~(f.kind \in BookFrames /\ ApplyBook(m.book, f).status \in TakenStatuses)
    PROVE  m.book.synced
<1>0. m.book \in BookSet
  BY DEF MarketSet
<1>1. CASE f.kind \in BookFrames
  <2>0. ApplyBook(m.book, f).book.synced /\ ApplyBook(m.book, f).book \in BookSet
    <3>1. Ingest(m, f) = [m EXCEPT !.book = ApplyBook(m.book, f).book]
      BY <1>1 DEF Ingest, BookFrames, TickerFrames
    <3> QED
      BY <1>0, <1>1, <3>1, ApplyTyped DEF MarketSet
  <2>1. CASE f.kind = "snapshot"
    <3>1. ApplyBook(m.book, f) = ApplySnapshot(m.book, f)
      BY <2>1 DEF ApplyBook
    <3>2. StaleSnapshot(m.book, f)
      <4> SUFFICES ASSUME ~StaleSnapshot(m.book, f) PROVE FALSE
        OBVIOUS
      <4>1. CASE f.onTick
        BY <1>1, <3>1, <4>1 DEF ApplySnapshot, Result, TakenStatuses
      <4>2. CASE ~f.onTick
        <5>1. ApplyBook(m.book, f).book = [m.book EXCEPT !.synced = FALSE]
          BY <3>1, <4>2 DEF ApplySnapshot, Result, Invalidated
        <5> QED
          BY <1>0, <2>0, <5>1 DEF BookSet
      <4> QED
        BY <4>1, <4>2
    <3> QED
      BY <3>2 DEF StaleSnapshot
  <2>2. CASE f.kind = "delta"
    <3>1. SUFFICES ASSUME ~m.book.synced PROVE FALSE
      OBVIOUS
    <3>2. ApplyBook(m.book, f).book = m.book
      BY <2>2, <3>1 DEF ApplyBook, ApplyDelta, Result
    <3> QED
      BY <2>0, <3>1, <3>2
  <2> QED
    BY <1>1, <2>1, <2>2 DEF BookFrames
<1>2. CASE ~(f.kind \in BookFrames)
  <2>1. Moves(m.book, f, Ingest(m, f).book)
    BY IngestTyped
  <2> QED
    BY <1>2, <2>1 DEF Moves, BookFrames
<1> QED
  BY <1>1, <1>2

LEMMA StepTimes == FeedTyped /\ TimesAgree /\ Step => TimesAgree'
<1> SUFFICES ASSUME FeedTyped, TimesAgree, Step PROVE TimesAgree'
  OBVIOUS
<1>a. /\ age.blind \in Nat /\ age.book \in Nat /\ age.attempt \in Nat /\ age.resync \in Nat
      /\ BookSilence \in Nat /\ ResyncTimeout \in Nat /\ Late \in {0, 1}
  BY AgeTyped
<1>0. ws /\ Late' = 0
  BY DEF Step, Late
<1>i. /\ market.book.synced => ~resync /\ asked # "since" /\ age.blind <= age.book
      /\ ~resync => age.blind <= age.attempt /\ age.blind <= BookSilence + 1
      /\ resync => age.blind <= BookSilence + 1 + age.resync
  BY <1>0, <1>a DEF TimesAgree
<1>p. "blind" \notin PingStamp /\ "book" \notin PingStamp /\ "attempt" \notin PingStamp
      /\ "resync" \notin PingStamp
  BY DEF PingStamp
<1>1. ASSUME Drop PROVE TimesAgree'
  BY <1>1, DropTyped DEF TimesAgree
<1>2. ASSUME NEW sent, NEW left, NEW told \in MarketSet, NEW stamps,
             Resubscribe(sent, left, told, stamps), ~resync
      PROVE  TimesAgree'
  <2>1. CASE link = "broken"
    BY <1>1, <1>2, <2>1 DEF Resubscribe
  <2>2. CASE link # "broken"
    <3>1. /\ market' = BookInvalidated(told) /\ resync' = TRUE
          /\ age' = Stamped(stamps \cup {"resync", "attempt", "book"})
      BY <1>2, <2>2 DEF Resubscribe
    <3>2. ~market'.book.synced
      BY <3>1, MarketsTyped
    <3>3. age'.resync = 0 /\ (age'.blind = 0 \/ age'.blind = age.blind)
      BY <3>1, StampedFacts
    <3> QED
      BY <1>0, <1>2, <1>a, <1>i, <3>1, <3>2, <3>3 DEF TimesAgree
  <2> QED
    BY <2>1, <2>2
<1>3. ASSUME BookQuiet, Resubscribe(Pinged, down, market, PingStamp) PROVE TimesAgree'
  <2>1. ~resync /\ market \in MarketSet
    BY <1>3 DEF BookQuiet, FeedTyped
  <2> QED
    BY <1>2, <1>3, <2>1
<1>4. ASSUME ~MustDrop, ~(BookQuiet /\ ~AskedInVain)
      PROVE  /\ ~resync => age.blind <= BookSilence
             /\ resync => age.resync <= ResyncTimeout
  <2>1. resync => age.resync <= ResyncTimeout
    BY <1>4, <1>a DEF MustDrop, ResyncTimedOut
  <2>2. ASSUME ~resync, market.book.synced PROVE age.blind <= BookSilence
    <3>1. ~AskedInVain
      BY <1>i, <2>2 DEF AskedInVain
    <3>2. age.book <= BookSilence
      BY <1>4, <1>a, <2>2, <3>1 DEF BookQuiet
    <3> QED
      BY <1>a, <1>i, <2>2, <3>2
  <2>3. ASSUME ~resync, ~market.book.synced PROVE age.blind <= BookSilence
    <3>1. age.attempt <= BookSilence
      BY <1>4, <1>a, <2>3 DEF BookQuiet, MustDrop, BookDead
    <3> QED
      BY <1>a, <1>i, <2>3, <3>1
  <2> QED
    BY <2>1, <2>2, <2>3
<1>5. ASSUME ~MustDrop, ~(BookQuiet /\ ~AskedInVain), Idle PROVE TimesAgree'
  <2>1. /\ age'.blind = age.blind /\ age'.book = age.book /\ age'.attempt = age.attempt
        /\ age'.resync = age.resync
    BY <1>5, <1>p, StampedFacts DEF Idle
  <2>2. ws' = ws /\ market' = market /\ resync' = resync /\ asked' = asked
    BY <1>5 DEF Idle
  <2> QED
    BY <1>0, <1>4, <1>5, <1>a, <1>i, <2>1, <2>2 DEF TimesAgree
<1>6. ASSUME ~MustDrop, ~(BookQuiet /\ ~AskedInVain), down # <<>>, Hear(Head(down))
      PROVE  TimesAgree'
  <2> DEFINE ev == Head(down)
             told == Ingest(market, ev)
             taken == ev.kind \in BookFrames /\ ApplyBook(market.book, ev).status \in TakenStatuses
             stamps == PingStamp \cup {"frame"}
                         \cup (IF ev.kind = "pong" THEN {"pong"} ELSE {})
                         \cup (IF taken THEN {"book", "blind"} ELSE {})
                         \cup (IF told.book.synced THEN {"resync"} ELSE {"book"})
  <2>1. ev \in FrameSet
    BY <1>6, TailFacts DEF FeedTyped
  <2>2. told \in MarketSet
    BY <2>1, IngestTyped DEF FeedTyped
  <2>3. told.book.synced /\ ~taken => market.book.synced
    BY <2>1, Untaken DEF FeedTyped
  <2>4. /\ "blind" \in stamps <=> taken
        /\ "book" \in stamps <=> (taken \/ ~told.book.synced)
        /\ "attempt" \notin stamps
        /\ "resync" \in stamps <=> told.book.synced
    BY <1>p
  <2>5. \/ Resubscribe(Pinged, Tail(down), told, stamps) /\ ~resync
        \/ /\ market' = told /\ age' = Stamped(stamps)
           /\ resync' = (resync /\ ~told.book.synced)
           /\ asked' = IF taken /\ asked = "since" THEN "before" ELSE asked
           /\ ws' = ws
    BY <1>6 DEF Hear
  <2> HIDE DEF ev, told, taken, stamps
  <2>6. CASE Resubscribe(Pinged, Tail(down), told, stamps) /\ ~resync
    BY <1>2, <2>2, <2>6
  <2>7. CASE /\ market' = told /\ age' = Stamped(stamps)
             /\ resync' = (resync /\ ~told.book.synced)
             /\ asked' = IF taken /\ asked = "since" THEN "before" ELSE asked
             /\ ws' = ws
    <3>1. /\ age'.blind = IF taken THEN 0 ELSE age.blind
          /\ age'.book = IF taken \/ ~told.book.synced THEN 0 ELSE age.book
          /\ age'.attempt = age.attempt
          /\ age'.resync = IF told.book.synced THEN 0 ELSE age.resync
      BY <2>4, <2>7, StampedFacts
    <3>2. /\ ~resync => age.blind <= BookSilence
          /\ resync => age.resync <= ResyncTimeout
      BY <1>4, <1>6
    <3>3. ASSUME market'.book.synced
          PROVE  ~resync' /\ asked' # "since" /\ age'.blind <= age'.book
      <4>1. CASE taken
        <5>1. asked' # "since" /\ ~resync'
          BY <2>7, <3>3, <4>1
        <5>2. age'.blind = 0 /\ age'.book = 0
          BY <3>1, <4>1
        <5> QED
          BY <5>1, <5>2
      <4>2. CASE ~taken
        <5>1. market.book.synced /\ told.book.synced /\ asked' = asked
          BY <2>3, <2>7, <3>3, <4>2
        <5>2. age'.blind = age.blind /\ age'.book = age.book
          BY <3>1, <4>2, <5>1
        <5> QED
          BY <1>i, <2>7, <5>1, <5>2
      <4> QED
        BY <4>1, <4>2
    <3>4. ASSUME ~resync' PROVE age'.blind <= age'.attempt /\ age'.blind <= BookSilence
      <4>1. taken \/ ~resync
        BY <1>i, <2>3, <2>7, <3>4
      <4> QED
        BY <1>a, <1>i, <3>1, <3>2, <4>1
    <3>5. ASSUME resync' PROVE /\ age'.resync <= ResyncTimeout
                               /\ age'.blind <= BookSilence + 1 + age'.resync
      <4>1. resync /\ ~told.book.synced
        BY <2>7, <3>5
      <4> QED
        BY <1>a, <1>i, <3>1, <3>2, <4>1
    <3> QED
      BY <1>0, <1>a, <3>3, <3>4, <3>5 DEF TimesAgree
  <2> QED
    BY <2>5, <2>6, <2>7
<1> QED
  BY <1>1, <1>3, <1>5, <1>6 DEF Step, Receive

LEMMA TickTimes == FeedTyped /\ TimesAgree /\ Tick => TimesAgree'
<1> SUFFICES ASSUME FeedTyped, TimesAgree, Tick, ws PROVE TimesAgree'
  BY DEF Tick, TimesAgree
<1>a. /\ age.blind \in Nat /\ age.book \in Nat /\ age.attempt \in Nat /\ age.resync \in Nat
      /\ BookSilence \in Nat /\ ResyncTimeout \in Nat
  BY AgeTyped
<1>1. /\ ws' = ws /\ market' = market /\ resync' = resync /\ asked' = asked
      /\ age' = [s \in Stamps |-> Older(s)]
      /\ Late = 0 /\ Late' = 1
  BY DEF Tick, Late
<1>2. /\ "blind" \in Running /\ "attempt" \in Running
      /\ resync => "resync" \in Running
      /\ market.book.synced => "book" \in Running
  BY StampFacts DEF Running, Names
<1>3. /\ Bound.resync = ResyncTimeout + 1 /\ Bound.book = BookSilence + 1
      /\ Bound.attempt = BookSilence + 1 /\ Bound.blind = BookSilence + ResyncTimeout + 3
      /\ age'.blind = Older("blind") /\ age'.book = Older("book")
      /\ age'.attempt = Older("attempt") /\ age'.resync = Older("resync")
  BY <1>1, StampFacts DEF Names
<1>4. /\ age'.blind <= age.blind + 1 /\ age'.blind \in Nat
      /\ age'.attempt \in Nat
      /\ age'.attempt >= age.attempt + 1 \/ age'.attempt >= BookSilence + 1
      /\ market.book.synced => age'.book >= age.book + 1 \/ age'.book >= BookSilence + 1
      /\ age'.book \in Nat /\ age'.resync \in Nat
      /\ resync => \/ age'.resync = age.resync + 1
                   \/ age'.resync = age.resync /\ age.resync >= ResyncTimeout + 1
  <2>1. /\ age'.blind <= age.blind + 1 /\ age'.blind \in Nat
    BY <1>a, <1>2, <1>3 DEF Older
  <2>2. /\ age'.attempt \in Nat
        /\ age'.attempt >= age.attempt + 1 \/ age'.attempt >= BookSilence + 1
    BY <1>a, <1>2, <1>3 DEF Older
  <2>3. /\ age'.book \in Nat
        /\ market.book.synced => age'.book >= age.book + 1 \/ age'.book >= BookSilence + 1
    BY <1>a, <1>2, <1>3 DEF Older
  <2>4. /\ age'.resync \in Nat
        /\ resync => \/ age'.resync = age.resync + 1
                     \/ age'.resync = age.resync /\ age.resync >= ResyncTimeout + 1
    BY <1>a, <1>2, <1>3 DEF Older
  <2> QED
    BY <2>1, <2>2, <2>3, <2>4
<1>5. /\ market.book.synced => ~resync /\ asked # "since" /\ age.blind <= age.book
      /\ ~resync => age.blind <= age.attempt /\ age.blind <= BookSilence
      /\ resync => /\ age.resync <= ResyncTimeout
                   /\ age.blind <= BookSilence + 1 + age.resync
  BY <1>1, <1>a DEF TimesAgree
<1>6. market'.book.synced => ~resync' /\ asked' # "since" /\ age'.blind <= age'.book
  BY <1>1, <1>a, <1>4, <1>5
<1>7. ~resync' => age'.blind <= age'.attempt /\ age'.blind <= BookSilence + 1
  BY <1>1, <1>a, <1>4, <1>5
<1>8. resync' => /\ age'.resync <= ResyncTimeout + 1
                 /\ age'.blind <= BookSilence + 1 + age'.resync
  BY <1>1, <1>a, <1>4, <1>5
<1> QED
  BY <1>1, <1>6, <1>7, <1>8 DEF TimesAgree

LEMMA TimesNext == FeedTyped /\ TimesAgree /\ [FeedNext]_feedVars => TimesAgree'
<1> SUFFICES ASSUME FeedTyped, TimesAgree, [FeedNext]_feedVars PROVE TimesAgree'
  OBVIOUS
<1>q. ASSUME UNCHANGED <<ws, resync, asked, market, age, stepped>> PROVE TimesAgree'
  BY <1>q DEF TimesAgree, Late
<1>1. CASE Connect
  <2>1. /\ ~market'.book.synced /\ resync' = FALSE
    BY <1>1, MarketsTyped DEF Connect, FeedTyped
  <2>2. age'.blind = 0 /\ age'.attempt = 0 /\ BookSilence \in Nat /\ Late' = 0
    BY <1>1, StampFacts DEF Connect, Fresh, Names, Late
  <2> QED
    BY <2>1, <2>2 DEF TimesAgree
<1>2. CASE ConnectFails \/ Waits
  BY <1>2 DEF ConnectFails, Waits, workerVars, TimesAgree
<1>3. CASE StoreGapHeals
  <2>1. ~market'.book.synced
    BY <1>3, MarketsTyped DEF StoreGapHeals, FeedTyped
  <2>2. /\ age'.blind = age.blind /\ age'.attempt = age.attempt /\ age'.resync = age.resync
    BY <1>3, StampedFacts DEF StoreGapHeals
  <2>3. ws' = ws /\ resync' = resync /\ Late' = Late
    BY <1>3 DEF StoreGapHeals, workerVars, Late
  <2> QED
    BY <2>1, <2>2, <2>3 DEF TimesAgree
<1>4. CASE Venue
  BY <1>4, <1>q DEF Venue, VenueUpdate, VenueRestart, VenueTicker, VenueHears, workerVars
<1>5. CASE Faults
  BY <1>5, <1>q DEF Faults, VenueRefuses, BookTopicDies, FrameSkipped, FrameRepeated, FrameGarbled,
                    FrameOffTick, LinkFails, workerVars
<1>6. CASE UNCHANGED feedVars
  BY <1>6, <1>q DEF feedVars
<1> QED
  BY <1>1, <1>2, <1>3, <1>4, <1>5, <1>6, StepTimes, TickTimes DEF FeedNext, Worker

-------------------------------------------------------------------------------
(* What the runs check.                                                    *)

FeedInvariant == FeedTyped /\ BookFollows /\ TimesAgree

LEMMA InvariantHolds == FeedSpec => []FeedInvariant
<1>1. FeedInit => FeedInvariant
  BY InitTyped, InitFollows DEF FeedInvariant, FeedInit, TimesAgree
<1>2. FeedInvariant /\ [FeedNext]_feedVars => FeedInvariant'
  BY TypedNext, FollowsNext, TimesNext DEF FeedInvariant
<1> QED
  BY <1>1, <1>2, PTL DEF FeedSpec

\* The synced book: level for level what the venue had.
LEMMA FollowsIsTrue == FeedInvariant => BookIsTheVenues
<1> SUFFICES ASSUME FeedInvariant, market.book.synced
             PROVE  /\ market.book.seq \in DOMAIN history
                    /\ history[market.book.seq] = [u |-> market.book.u, levels |-> market.book.levels]
  BY DEF BookIsTheVenues
<1> DEFINE b == market.book
<1>1. /\ history \in Seq(BookStates)
      /\ b.seq \in 1..Len(history) /\ history[b.seq].u = b.u /\ history[b.seq].levels = b.levels
  BY DEF FeedInvariant, FeedTyped, BookFollows, Follows, BookTrue
<1>2. b.seq \in DOMAIN history /\ history[b.seq] \in BookStates
  BY <1>1, LenProperties, ElementOfSeq
<1> QED
  BY <1>1, <1>2 DEF BookStates

\* No step takes a synced book back.
LEMMA NeverBack ==
    FeedInvariant /\ FeedInvariant' /\ [FeedNext]_feedVars =>
        [market.book.synced /\ market'.book.synced => market'.book.seq >= market.book.seq]_feedVars
<1> SUFFICES ASSUME FeedInvariant, FeedInvariant', FeedNext, market.book.synced, market'.book.synced
             PROVE  market'.book.seq >= market.book.seq
  OBVIOUS
<1>t. FeedTyped /\ market.book \in BookSet /\ market.book.seq \in Nat
  BY DEF FeedInvariant, FeedTyped, MarketSet, BookSet
<1>1. CASE market'.book = market.book
  BY <1>1, <1>t
<1>2. CASE /\ down # <<>> /\ Moves(market.book, down[1], market'.book)
  <2>1. 1 \in 1..Len(down) /\ down[1] \in FrameSet
    BY <1>2, <1>t, TailFacts DEF FeedTyped
  <2>2. down[1].kind = "snapshot" /\ down[1].u = 1 => market.book.seq <= down[1].seq
    BY <2>1 DEF FeedInvariant, BookFollows, Follows, RestartsLast
  <2>3. down[1].seq \in Nat
    BY <2>1 DEF FrameSet
  <2> QED
    BY <1>2, <1>t, <2>2, <2>3 DEF Moves
<1>3. CASE Venue
  BY <1>1, <1>3 DEF Venue, VenueUpdate, VenueRestart, VenueTicker, VenueHears
<1>4. CASE Faults
  BY <1>1, <1>4 DEF Faults, VenueRefuses, BookTopicDies, FrameSkipped, FrameRepeated, FrameGarbled,
                    FrameOffTick, LinkFails
<1>5. CASE Worker \/ StoreGapHeals \/ Tick
  <2>1. Reads
    BY <1>5, <1>t, WorkerReads
  <2> QED
    BY <1>1, <1>2, <2>1 DEF Reads
<1> QED
  BY <1>3, <1>4, <1>5 DEF FeedNext

\* The variables of a stream hold what the code's do: typed frames in
\* flight, a market of the code's shape, stamps that are never negative.
THEOREM FeedIsTyped == FeedSpec => []FeedTyped
  BY InvariantHolds, PTL DEF FeedInvariant

\* Whatever is skipped, repeated, garbled or asked for again, a book that calls
\* itself synced is the venue's at the update it names, and no late frame
\* takes it back (md_book.LocalBook): for every book, every number of faults,
\* updates and frames in flight.
THEOREM TrueBook == FeedSpec => BookIsTrue
<1>1. FeedSpec => []BookIsTheVenues
  BY InvariantHolds, FollowsIsTrue, PTL
<1>2. FeedSpec => [][market.book.synced /\ market'.book.synced
                        => market'.book.seq >= market.book.seq]_feedVars
  <2>1. FeedSpec => []FeedInvariant
    BY InvariantHolds
  <2> QED
    BY <2>1, NeverBack, PTL DEF FeedSpec
<1> QED
  BY <1>1, <1>2, PTL DEF BookIsTrue

\* A connection on which no book frame is taken is given up within one book
\* silence and one resync timeout (md_feed._book_liveness), for every setting
\* of the timeouts.
THEOREM TroubleActedOn == FeedSpec => []TroubleIsActedOn
<1>1. FeedInvariant => TroubleIsActedOn
  <2> SUFFICES ASSUME FeedInvariant, ws PROVE age.blind <= BookSilence + ResyncTimeout + 2
    BY DEF TroubleIsActedOn
  <2>1. /\ age.blind \in Nat /\ age.resync \in Nat
        /\ BookSilence \in Nat /\ ResyncTimeout \in Nat /\ Late \in {0, 1}
    BY AgeTyped DEF FeedInvariant
  <2> QED
    BY <2>1 DEF FeedInvariant, TimesAgree
<1> QED
  BY <1>1, InvariantHolds, PTL
===============================================================================
