----------------------------- MODULE CapitalHolds -----------------------------
(***************************************************************************)
(* The table of capital reservations, capital_reservations.py: what each   *)
(* of its operations does to the rows of one account scope, once it has    *)
(* the write lock.  Who calls them, and what happens between the lock and  *)
(* the commit, is CarryCapital.                                            *)
(*                                                                         *)
(* A row is [state, expires, link]; who owns an intent and its amount are  *)
(* constants, so a replay with other parameters (INTENT_ID_CONFLICT) does  *)
(* not arise.  Events, refusal codes and field checks are left out.        *)
(* Definitions named Broken... are defects the code does not have.         *)
(***************************************************************************)
EXTENDS Integers, FiniteSets, FiniteSetsExt

CONSTANTS
    Carry,          \* the cycles of the carry book, in the order it names them
    Others,         \* the intents of another strategy
    Amount,         \* the dollars each intent asks for
    Buffer,         \* dollars never handed out
    Ttl, MaxAge     \* life of an uncommitted hold, age of a usable reading

Intents == Carry \cup Others

ASSUME HoldAssumptions ==
    /\ Carry \subseteq Nat \ {0} /\ IsFiniteSet(Intents) /\ Carry \cap Others = {}
    /\ Amount \in [Intents -> Nat \ {0}]
    /\ Buffer \in Nat /\ Ttl \in Nat \ {0} /\ MaxAge \in Nat \ {0}

NoLink == 0

NoRow == [state |-> "none", expires |-> 0, link |-> NoLink]

Live(rows) == {i \in Intents : rows[i].state \in {"RESERVED", "COMMITTED"}}

Dollars(S) == MapThenSumSet(LAMBDA i : Amount[i], S)

-------------------------------------------------------------------------------
\* A reading is refused when it is older than allowed or from further ahead.
Usable(reading, now) == now - reading.at <= MaxAge /\ reading.at - now <= MaxAge

BrokenStillLinked(i, open, rows) == rows[i].link # NoLink \/ i \in open

BrokenLinkedUnresolved(i, open, rows) == rows[i].link # NoLink /\ i \in open

\* _linked_order_unresolved: by its link, by its own id, by its cycle.
LinkedUnresolved(i, open, rows) == i \in open

\* _expire_locked: overdue holds without an unresolved order.
Overdue(rows, open, now) ==
    {i \in Intents : /\ rows[i].state = "RESERVED"
                     /\ rows[i].expires <= now
                     /\ ~LinkedUnresolved(i, open, rows)}

BrokenExpired(rows, open, now) ==
    [i \in Intents |-> IF rows[i].state \in {"RESERVED", "COMMITTED"} /\ rows[i].expires <= now
                       THEN [rows[i] EXCEPT !.state = "EXPIRED"] ELSE rows[i]]

Expired(rows, open, now) ==
    [i \in Intents |-> IF i \in Overdue(rows, open, now)
                       THEN [rows[i] EXCEPT !.state = "EXPIRED"] ELSE rows[i]]

\* What is left of the reading for a new hold.
Free(rows, reading) == reading.value - Dollars(Live(rows)) - Buffer

Inserted(rows, i, now) ==
    [rows EXCEPT ![i] = [state |-> "RESERVED", expires |-> now + Ttl, link |-> NoLink]]

BrokenReserved(rows, i, reading, open, now) ==
    IF rows[i].state # "none" \/ ~Usable(reading, now) THEN rows
    ELSE LET kept == Expired(rows, open, now)
         IN  IF reading.value - Buffer < Amount[i] THEN kept ELSE Inserted(kept, i, now)

\* reserve: an id is used once; the sweep happens whether or not it fits.
Reserved(rows, i, reading, open, now) ==
    IF rows[i].state # "none" \/ ~Usable(reading, now) THEN rows
    ELSE LET kept == Expired(rows, open, now)
         IN  IF Free(kept, reading) < Amount[i] THEN kept ELSE Inserted(kept, i, now)

\* commit: only a RESERVED hold is bound; it never expires afterwards.
Bound(rows, i, link) ==
    IF rows[i].state = "RESERVED"
    THEN [rows EXCEPT ![i].state = "COMMITTED", ![i].link = link]
    ELSE rows

\* release: refused while an order tied to the hold may still fill.
Released(rows, i, open) ==
    IF i \in Live(rows) /\ ~LinkedUnresolved(i, open, rows)
    THEN [rows EXCEPT ![i].state = "RELEASED"]
    ELSE rows
===============================================================================
