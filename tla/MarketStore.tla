----------------------------- MODULE MarketStore ------------------------------
(***************************************************************************)
(* The durable log of market data, md_store.MarketStore: one file per day, *)
(* records numbered and chained across files, committed in batches, with   *)
(* restarts, retention and a chain that is verified afterwards.             *)
(*                                                                         *)
(* A chain value hashes everything before it, so it is modelled by what it *)
(* stands for: the sequence of records up to and including its own.  The   *)
(* payloads, their compression and the environment check are data.         *)
(* Every database call of append and flush may fail.  A failed insert or   *)
(* commit leaves the open transaction as it was, or the database rolls it  *)
(* back; the process goes on in either case, and neither its next number   *)
(* nor its chain value goes back with the rows.  A file that cannot even   *)
(* be given its tables, after which no process can read the log, is out.   *)
(*                                                                         *)
(* Bounds: MaxRecords appends, LastDay days, MaxRestarts restarts,         *)
(* MaxDiskFails failed calls.                                              *)
(* Definitions named Broken... are defects the code does not have.         *)
(***************************************************************************)
EXTENDS Naturals, Sequences, SequencesExt

CONSTANTS
    Records,        \* payloads
    CommitEvery,    \* records per commit
    KeepDays,       \* days of closed files retention keeps
    MaxRecords, LastDay, MaxRestarts, MaxDiskFails

\* A payload is never the mark of a missing chain value.
ASSUME NoMark == "" \notin Records

ASSUME StoreBounds ==
    /\ CommitEvery \in Nat \ {0} /\ KeepDays \in Nat \ {0}
    /\ LastDay \in Nat \ {0} /\ {MaxRecords, MaxRestarts, MaxDiskFails} \subseteq Nat

VARIABLES
    segs,       \* the files on disk, oldest first: [day, start, rows]
    manifest,   \* what pruned.jsonl says: last chain of each removed file
    pending,    \* rows of the open transaction, in the file being written
    conn,       \* the day of the file being written, 0 when none
    due,        \* appends since the last commit that succeeded
    nextId, prevChain, latestDay,
    removing,   \* a removal that is recorded and not yet done
    torn,       \* a crash fell inside a removal
    astray,     \* the process continues from where the files do not end:
                \* "no", in "memory" only, or appends went on in the "files"
    today, appended, restarts, diskFails

storeVars == <<segs, manifest, pending, conn, due, nextId, prevChain, latestDay, removing,
               torn, astray, today, appended, restarts, diskFails>>

-------------------------------------------------------------------------------
Genesis == <<>>

StoredRow(id, rec, chain) == [id |-> id, rec |-> rec, chain |-> chain]

BrokenLaterDay(a, b) == b

LaterDay(a, b) == IF a >= b THEN a ELSE b

\* _segment_meta: where a file starts, the beginning when it was left without
\* that; and its last chain value, "" when empty.
NoChain == <<"">>

StartOf(seg) == IF seg.start = NoChain THEN Genesis ELSE seg.start

LastChain(seg) == IF seg.rows = <<>> THEN NoChain ELSE Last(seg.rows).chain

\* _scan_tail: the newest row on disk, of whichever file has one.
Filled == {i \in DOMAIN segs : segs[i].rows # <<>>}

TailRow == Last(segs[CHOOSE i \in Filled : \A j \in Filled : j <= i].rows)

\* Rows written into the file of a day.
Into(files, day, rows) ==
    [i \in DOMAIN files |->
        IF files[i].day = day THEN [files[i] EXCEPT !.rows = @ \o rows] ELSE files[i]]

BrokenCommitted(files, rows) == files

\* The pending rows written into their file.
Committed(files, rows) == Into(files, conn, rows)

DayFile(day, start) == [day |-> day, start |-> start, rows |-> <<>>]

HasFile(files, day) == \E i \in DOMAIN files : files[i].day = day

BrokenOpened(files, day) ==
    IF HasFile(files, day) THEN files ELSE Append(files, DayFile(day, Genesis))

\* _open: the file of a day, told where it starts unless it knows.
Opened(files, day) ==
    IF HasFile(files, day)
    THEN [i \in DOMAIN files |->
            IF files[i].day = day /\ files[i].start = NoChain
            THEN [files[i] EXCEPT !.start = prevChain] ELSE files[i]]
    ELSE Append(files, DayFile(day, prevChain))

\* What a row of a day is written to: a change of file commits the last.
FilesFor(day) == IF conn # day THEN Opened(Committed(segs, pending), day) ELSE segs

RowsFor(day) == IF conn # day THEN <<>> ELSE pending

DueFor(day) == IF conn # day THEN 0 ELSE due

-------------------------------------------------------------------------------
Working == removing = 0

\* An append makes in the files, or may, what was in memory only.
GoesOn == IF astray = "memory" THEN "files" ELSE astray

NewRow(rec) == StoredRow(nextId, rec, Append(prevChain, rec))

Numbered(row) == nextId' = nextId + 1 /\ prevChain' = row.chain

\* append: the row inserted, and committed when it is time.
Write(rec, day) ==
    LET rows == RowsFor(day) \o <<NewRow(rec)>>
    IN  \E commits \in BOOLEAN :
            /\ DueFor(day) + 1 >= CommitEvery => commits
            /\ segs' = IF commits THEN Into(FilesFor(day), day, rows) ELSE FilesFor(day)
            /\ pending' = IF commits THEN <<>> ELSE rows
            /\ due' = IF commits THEN 0 ELSE DueFor(day) + 1
            /\ conn' = day /\ latestDay' = day
            /\ Numbered(NewRow(rec))
            /\ astray' = GoesOn

\* Never back to the file of an earlier day.
AppendRow ==
    /\ Working /\ appended < MaxRecords
    /\ appended' = appended + 1
    /\ \E rec \in Records : Write(rec, LaterDay(latestDay, today))
    /\ UNCHANGED <<manifest, removing, torn, today, restarts, diskFails>>

\* A failed call leaves the transaction open, or rolls it back: then the process
\* counts on rows that are nowhere.
Survive(rows, where) ==
    \/ pending' = rows /\ astray' = where
    \/ /\ pending' = <<>>
       /\ astray' = IF rows # <<>> /\ where = "no" THEN "memory" ELSE where

\* No room: nothing was touched.
NoRoom == UNCHANGED <<segs, pending, conn, due, nextId, prevChain, latestDay, astray>>

\* The rows of the day before do not commit.
CloseFails(day) ==
    /\ conn # day /\ pending # <<>>
    /\ Survive(pending, astray)
    /\ latestDay' = day
    /\ UNCHANGED <<segs, conn, due, nextId, prevChain>>

\* They do, and the new file is not made, or is left without its start.
OpenFails(day) ==
    /\ conn # day
    /\ \/ segs' = Committed(segs, pending) /\ astray' = astray
       \/ /\ ~HasFile(segs, day)
          /\ segs' = Append(Committed(segs, pending), DayFile(day, NoChain))
          /\ astray' = "files"
    /\ pending' = <<>> /\ due' = 0 /\ latestDay' = day
    /\ UNCHANGED <<conn, nextId, prevChain>>

InsertFails(day) ==
    /\ Survive(RowsFor(day), GoesOn)
    /\ segs' = FilesFor(day) /\ due' = DueFor(day)
    /\ conn' = day /\ latestDay' = day
    /\ UNCHANGED <<nextId, prevChain>>

\* The row was numbered and chained before the commit that raised.
CommitFails(rec, day) ==
    /\ Survive(RowsFor(day) \o <<NewRow(rec)>>, GoesOn)
    /\ segs' = FilesFor(day) /\ due' = DueFor(day) + 1
    /\ conn' = day /\ latestDay' = day
    /\ Numbered(NewRow(rec))

MayFailOnDisk == diskFails < MaxDiskFails /\ diskFails' = diskFails + 1

AppendFails ==
    /\ Working /\ appended < MaxRecords /\ MayFailOnDisk
    /\ appended' = appended + 1
    /\ LET day == LaterDay(latestDay, today)
       IN  \/ NoRoom
          \/ CloseFails(day) \/ OpenFails(day) \/ InsertFails(day)
          \/ \E rec \in Records : CommitFails(rec, day)
    /\ UNCHANGED <<manifest, removing, torn, today, restarts>>

Flush ==
    /\ Working /\ due # 0
    /\ segs' = Committed(segs, pending)
    /\ pending' = <<>> /\ due' = 0
    /\ UNCHANGED <<manifest, conn, nextId, prevChain, latestDay, removing, torn, astray, today,
                   appended, restarts, diskFails>>

FlushFails ==
    /\ Working /\ pending # <<>> /\ MayFailOnDisk
    /\ Survive(pending, astray)
    /\ UNCHANGED <<segs, manifest, conn, due, nextId, prevChain, latestDay, removing, torn, today,
                   appended, restarts>>

\* The clock moves to another day, forward or stepped back.
DayTurns ==
    /\ today' \in 1..LastDay /\ today' # today
    /\ UNCHANGED <<segs, manifest, pending, conn, due, nextId, prevChain, latestDay, removing,
                   torn, astray, appended, restarts, diskFails>>

-------------------------------------------------------------------------------
(* apply_retention and prune_segments_before: the cutoff is bounded by the *)
(* newest file, so a clock far ahead removes nothing it should keep.       *)

Newest == segs[Len(segs)].day

Prunable(seg) ==
    /\ seg.day + KeepDays < Newest
    /\ seg.day + KeepDays < today
    /\ seg.day # conn

\* A file goes in two steps: its last chain is recorded, then it is removed.
\* The feed writes its session record, or fails to, before the thread that
\* prunes starts.
PruneRecords ==
    /\ Working /\ (conn # 0 \/ diskFails > 0) /\ Len(segs) > 1
    /\ Prunable(segs[1])
    /\ LET files == Committed(segs, pending)
       IN  /\ manifest' = Append(manifest, LastChain(files[1]))
           /\ segs' = files
           /\ pending' = <<>> /\ due' = 0
    /\ removing' = segs[1].day
    /\ UNCHANGED <<conn, nextId, prevChain, latestDay, torn, astray, today, appended, restarts,
                   diskFails>>

PruneRemoves ==
    /\ ~Working
    /\ segs' = Tail(segs)
    /\ removing' = 0
    /\ UNCHANGED <<manifest, pending, conn, due, nextId, prevChain, latestDay, torn, astray,
                   today, appended, restarts, diskFails>>

-------------------------------------------------------------------------------
\* The process dies; a new one continues the log from the newest row, from the
\* beginning when it finds none, though older rows may have been pruned.
StoreDies ==
    /\ restarts < MaxRestarts /\ restarts' = restarts + 1
    /\ torn' = (torn \/ ~Working)
    /\ pending' = <<>> /\ conn' = 0 /\ due' = 0 /\ removing' = 0
    /\ astray' = IF astray = "files" THEN "files"
                 ELSE IF Filled = {} /\ manifest # <<>> THEN "memory" ELSE "no"
    /\ nextId' = IF Filled = {} THEN 1 ELSE TailRow.id + 1
    /\ prevChain' = IF Filled = {} THEN Genesis ELSE TailRow.chain
    /\ latestDay' = IF segs = <<>> THEN 0 ELSE Newest
    /\ UNCHANGED <<segs, manifest, today, appended, diskFails>>

StoreInit ==
    /\ segs = <<>> /\ manifest = <<>> /\ pending = <<>>
    /\ conn = 0 /\ due = 0 /\ nextId = 1 /\ prevChain = Genesis /\ latestDay = 0
    /\ removing = 0 /\ torn = FALSE /\ astray = "no"
    /\ today = 1 /\ appended = 0 /\ restarts = 0 /\ diskFails = 0

StoreNext ==
    \/ AppendRow \/ AppendFails
    \/ Flush \/ FlushFails
    \/ DayTurns
    \/ PruneRecords \/ PruneRemoves
    \/ StoreDies

StoreSpec == StoreInit /\ [][StoreNext]_storeVars

-------------------------------------------------------------------------------
(* verify: what a reader of the files would report.                        *)

RowsContinue(start, rows) ==
    \A i \in DOMAIN rows :
        rows[i].chain = Append(IF i = 1 THEN start ELSE rows[i - 1].chain, rows[i].rec)

\* The chain value a file ends on, its start when it is empty.
EndChain(seg) == IF seg.rows = <<>> THEN StartOf(seg) ELSE Last(seg.rows).chain

AllRows == FlattenSeq([i \in DOMAIN segs |-> segs[i].rows])

FirstContinues ==
    segs # <<>> =>
        StartOf(segs[1]) = IF manifest = <<>> THEN Genesis ELSE Last(manifest)

Verified ==
    /\ FirstContinues
    /\ \A i \in 2..Len(segs) : StartOf(segs[i]) = EndChain(segs[i - 1])
    /\ \A i \in DOMAIN segs : RowsContinue(StartOf(segs[i]), segs[i].rows)
    /\ \A i \in 2..Len(AllRows) : AllRows[i].id = AllRows[i - 1].id + 1

-------------------------------------------------------------------------------
StoreTypeOK ==
    /\ \A i \in DOMAIN segs : segs[i].day \in 1..LastDay
    /\ \A i \in 2..Len(segs) : segs[i - 1].day < segs[i].day
    /\ conn \in 0..LastDay /\ removing \in 0..LastDay /\ latestDay \in 0..LastDay
    /\ nextId \in 1..MaxRecords + 1
    /\ Len(prevChain) < nextId
    /\ due \in 0..MaxRecords /\ Len(pending) <= due
    /\ due >= CommitEvery => diskFails > 0
    /\ astray \in {"no", "memory", "files"}

\* The log verifies at every moment outside a removal (md_store.py:473-475: "so
\* the retained log still verifies from that checkpoint").
RetainedVerifies == Working => Verified

\* A log nobody touched verifies, across files, failed writes, restarts that lost
\* a tail, clocks stepped back and files removed.  The code breaks its own log in
\* three ways, each left out by name: a file without a record was removed, a crash
\* fell between the record of a removal and the removal, or appends went on from a
\* chain value the files do not end on (rows rolled back under the process,
\* md_store.py:305-309; no row left to continue from, 205-215; a file left
\* without its start, 264-283).  Until they do go on the log verifies.
IntactVerifies ==
    astray # "files" /\ ~torn /\ NoChain \notin ToSet(manifest) => RetainedVerifies

\* The records held, in files and in the open transaction, behave as the
\* durable log its readers were promised: whatever the files, the days, the
\* commits and the failed calls, only a crash or a rolled-back transaction
\* loses records, only unsynced ones, and retention removes only from the
\* oldest end.
Held == [i \in DOMAIN AllRows |-> AllRows[i].rec] \o [i \in DOMAIN pending |-> pending[i].rec]

Promise == INSTANCE DurableLog WITH log <- Held, durable <- Len(AllRows)

StoreIsALog == Promise!LogSpec
===============================================================================
