----------------------------- MODULE CloseExecutor -----------------------------
(***************************************************************************)
(* Driving a reduce-only close of a short through the durable close log:   *)
(* src/bot/close_executor.py on the tables of persistence.py, the planner  *)
(* of ClosePlan, a venue, crashes, and somebody else who may change the    *)
(* position once.                                                          *)
(*                                                                         *)
(* One step of the executor looks at the position, then at every           *)
(* unresolved order, plans, commits the plan in one transaction and only   *)
(* then sends, at most once.  The venue moves between any two of these.    *)
(*                                                                         *)
(* The venue is external: an order on its way lands within LandBy ticks or *)
(* never; it can be missing from the lists for Lag ticks after it landed;  *)
(* it is reduce-only; and a position read can lag behind the fills.        *)
(***************************************************************************)
EXTENDS ClosePlan, FiniteSetsExt

CONSTANTS
    Short,      \* the short to close, in lots
    SendBy,     \* ticks from intent to send at most: INTENT_TO_SEND_MAX_S
    LandBy,     \* ticks from send to landing at most
    Lag,        \* ticks an order may be missing from the lists
    Window,     \* absence_window_s
    MaxCrashes  \* bound on the crashes explored

ASSUME CloseAssumption ==
    /\ Short \in Nat \ {0} /\ SendBy \in Nat /\ LandBy \in Nat \ {0} /\ Lag \in Nat
    /\ Window \in Nat /\ LandBy + Lag <= Window /\ MaxCrashes \in Nat

VARIABLES
    log,        \* carry_close_attempts, durable
    state,      \* carry_close_state, durable
    exec,       \* the step in progress, in memory
    booked,     \* fills whose send returned them to this process, in memory
    ledger,     \* fills the ledger wrapper booked, durable
    venue,      \* the venue's orders
    pos,        \* the position, and what a read of it shows
    crashes,    \* crashes so far
    others      \* lots somebody else has taken from (or added to) the short

closeVars == <<log, state, exec, booked, ledger, venue, pos, crashes, others>>

ProofAge == SendBy + Window

Numbers == 1..MaxAttempts

-------------------------------------------------------------------------------
Finals == {"Filled", "Cancelled", "Rejected"}

\* On the venue's book, or on its way there: it can still change the position.
Working == {"flying", "live"}

NoOrder == [st |-> "none", cum |-> 0, qty |-> 0, seen |-> FALSE, dark |-> 0, flight |-> 0]

Unread == [readable |-> FALSE, net |-> 0]

NoPlan == Plan("", "", <<>>)

Ready == [pc |-> "idle", follow |-> FALSE, net |-> Unread, plan |-> NoPlan]

CloseInit ==
    /\ log = <<>>
    /\ state = [waits |-> 0, lag |-> 0, halted |-> FALSE, closed |-> FALSE]
    /\ exec = Ready
    /\ booked = [n \in Numbers |-> 0]
    /\ ledger = [n \in Numbers |-> 0]
    /\ venue = [n \in Numbers |-> NoOrder]
    /\ pos = [net |-> -Short, view |-> -Short]
    /\ crashes = 0
    /\ others = 0

\* exec.pc says where a step is: before a look, between the two reads, before the
\* commit, the send, the answer, the bookkeeping; or stopped by a HALT that is not
\* on file.
At(pc) == exec.pc = pc

\* The step is over; the loop runs the next one.
Finish == exec' = Ready

\* The step returned HALT: the engine halts the book and steps no more.
Stop == exec' = [Ready EXCEPT !.pc = "stopped"]

World == UNCHANGED <<venue, pos, crashes, others>>

Books == UNCHANGED <<booked, ledger>>

Durable == UNCHANGED <<log, state>>

-------------------------------------------------------------------------------
(***************************************************************************)
(* One step: look, plan, commit, send.                                     *)
(***************************************************************************)
\* A cycle closed or halted earlier is not looked at again.  A look right after
\* a send (`follow') never sends.
Begin ==
    /\ exec.pc \in {"idle", "follow"} /\ ~state.closed /\ ~state.halted
    /\ \/ \E seen \in {Unread, [readable |-> TRUE, net |-> pos.view]} :
             exec' = [exec EXCEPT !.pc = "orders", !.follow = At("follow"), !.net = seen]
       \/ Stop          \* the log or the lot rules cannot be read
    /\ Durable /\ World /\ Books

LookedUp(n) ==
    LET o == venue[n]
    IN IF ~o.seen THEN Looked("absent", "", 0)
       ELSE IF o.st = "live" THEN Looked("live", "", o.cum)
       ELSE Looked("ended", o.st, o.cum)

\* A lookup fails, or is refused because order and executions disagree.
Lookups(n) == {LookedUp(n), Looked("failed", "", 0)}

BrokenProvenAbsent(seen) == {n \in DOMAIN seen : seen[n].kind = "absent"}

\* Absent, and longer since the intent than it could still land or stay unlisted.
ProvenAbsent(seen) ==
    {n \in DOMAIN seen : seen[n].kind = "absent" /\ log[n].age >= ProofAge}

Observation(seen) ==
    [readable |-> exec.net.readable, net |-> exec.net.net, orders |-> seen,
     proven |-> ProvenAbsent(seen)]

LookAtOrders ==
    /\ At("orders")
    /\ \E seen \in [Unresolved(log) -> UNION {Lookups(n) : n \in Unresolved(log)}] :
          /\ \A n \in Unresolved(log) : seen[n] \in Lookups(n)
          /\ exec' = [exec EXCEPT
                         !.pc = "commit", !.net = Unread,
                         !.plan = PlanClose(log, Observation(seen), state.waits, state.lag)]
    /\ Durable /\ World /\ Books

Sending == exec.plan.act \in {"SEND", "RESEND"}

\* Only what the plan resolves is written; an attempt still open keeps its row.
Resolved(p) ==
    [n \in DOMAIN log |-> IF p.log[n].state \in Resolutions THEN p.log[n] ELSE log[n]]

\* The log a committed plan leaves: the resolutions, and the intent to send.
Committed(p) ==
    CASE p.act = "SEND" -> Append(Resolved(p), Intent(p.qty))
      [] p.act = "RESEND" ->
            [Resolved(p) EXCEPT ![p.n].sends = @ + 1, ![p.n].age = 0, ![p.n].state = "INTENT"]
      [] OTHER -> Resolved(p)

BrokenCommittedState(p) ==
    [waits |-> 0, lag |-> 0, halted |-> p.act = "HALT", closed |-> p.act = "NOOP_FLAT"]

CommittedState(p) ==
    [waits |-> IF p.act = "WAIT" THEN state.waits + 1 ELSE 0,
     lag |-> IF p.act # "WAIT" THEN 0 ELSE IF p.why = "lag" THEN state.lag + 1 ELSE state.lag,
     halted |-> p.act = "HALT",
     closed |-> p.act = "NOOP_FLAT"]

\* The look after a send starts no other order and writes nothing.
Defer ==
    /\ At("commit") /\ exec.follow /\ Sending
    /\ Finish
    /\ Durable /\ World /\ Books

\* apply_close_step, one transaction; then the log is read back.
Commit ==
    /\ At("commit") /\ ~(exec.follow /\ Sending)
    /\ log' = Committed(exec.plan)
    /\ state' = CommittedState(exec.plan)
    /\ \/ IF Sending THEN exec' = [exec EXCEPT !.pc = "send"] ELSE Finish
       \/ Stop          \* the read back failed
    /\ World /\ Books

\* Nothing may be sent on a log that cannot be written.
CommitFails ==
    /\ At("commit") /\ ~(exec.follow /\ Sending)
    /\ Stop
    /\ Durable /\ World /\ Books

BrokenInTime(n) == TRUE

InTime(n) == log[n].age <= SendBy

\* An id the broker has sent before is only read back (carry_broker._resume).
Send ==
    /\ At("send") /\ InTime(exec.plan.n)
    /\ IF venue[exec.plan.n].st = "none"
       THEN /\ venue' = [venue EXCEPT ![exec.plan.n].st = "flying",
                                      ![exec.plan.n].qty = exec.plan.qty]
            /\ exec' = [exec EXCEPT !.pc = "await"]
       ELSE /\ exec' = [exec EXCEPT !.pc = "resume"]
            /\ UNCHANGED venue
    /\ Durable /\ UNCHANGED <<pos, crashes, others>> /\ Books

SendStale ==
    /\ At("send") /\ ~InTime(exec.plan.n)
    /\ Finish
    /\ Durable /\ World /\ Books

\* The broker refuses before anything leaves; the write of that may be lost.
Refused ==
    /\ At("send") /\ InTime(exec.plan.n)
    /\ \/ /\ log' = Marked(log, {exec.plan.n}, "NEVER_SENT")
          /\ state' = [state EXCEPT !.waits = 0, !.lag = 0, !.halted = TRUE]
       \/ Durable
    /\ Stop
    /\ World /\ Books

-------------------------------------------------------------------------------
(***************************************************************************)
(* The answer.                                                             *)
(***************************************************************************)
\* The fill the broker can report: some of a live order's (a claim), some or all
\* of an ended one's; 0 stands for no fill.  What is only read back must be over,
\* and no more than was asked for now.
Reportable(n) ==
    LET o == venue[n]
    IN CASE At("resume") ->
            {c \in {o.cum} : o.seen /\ o.st \in Finals /\ c <= exec.plan.qty}
         [] o.st = "live" -> 1..o.cum
         [] o.st \in Finals -> IF o.cum = 0 THEN {0} ELSE 1..o.cum
         [] o.st = "refused" -> {0}
         [] OTHER -> {}

\* The ledger wrapper books what the broker returned, the executor remembers it.
Credit(n, f) ==
    /\ ledger' = [ledger EXCEPT ![n] = @ + f]
    /\ booked' = IF f = 0 THEN booked ELSE [booked EXCEPT ![n] = f]

Return ==
    /\ exec.pc \in {"await", "resume"}
    /\ \E f \in Reportable(exec.plan.n) : Credit(exec.plan.n, f)
    /\ exec' = [exec EXCEPT !.pc = "booked"]
    /\ Durable /\ World

\* mark_close_sent, INTENT to SENT; a lost write leaves INTENT.
MarkSent(n) ==
    \/ log' = [log EXCEPT ![n].state = IF @ = "INTENT" THEN "SENT" ELSE @]
    \/ UNCHANGED log

Sent ==
    /\ At("booked")
    /\ MarkSent(exec.plan.n)
    /\ exec' = [Ready EXCEPT !.pc = "follow"]
    /\ UNCHANGED state /\ World /\ Books

\* No answer in time, an answer that settles nothing, or a fill the ledger could
\* not book: the outcome is in doubt.
Unknown ==
    /\ exec.pc \in {"await", "resume"}
    /\ MarkSent(exec.plan.n)
    /\ Finish
    /\ UNCHANGED state /\ World /\ Books

Step ==
    \/ Begin \/ LookAtOrders \/ Defer \/ Commit \/ CommitFails \/ Send \/ SendStale
    \/ Refused \/ Return \/ Sent \/ Unknown

\* What only this process knew is gone.
Crash ==
    /\ crashes < MaxCrashes
    /\ crashes' = crashes + 1
    /\ exec' = Ready
    /\ booked' = [n \in Numbers |-> 0]
    /\ Durable /\ UNCHANGED <<ledger, venue, pos, others>>

-------------------------------------------------------------------------------
(***************************************************************************)
(* The venue, somebody else, and the clock.                                *)
(***************************************************************************)
Executor == UNCHANGED <<log, state, exec, booked, ledger, crashes>>

\* A request that arrives becomes an order or is refused; one that does not is lost.
Land(n) ==
    /\ venue[n].st = "flying"
    /\ \/ \E seen \in BOOLEAN : venue' = [venue EXCEPT ![n].st = "live", ![n].seen = seen]
       \/ venue' = [venue EXCEPT ![n].st = "refused"]
       \/ venue' = [venue EXCEPT ![n].st = "lost"]
    /\ UNCHANGED <<pos, others>> /\ Executor

\* Reduce-only: an order fills while there is a short.
Fill(n) ==
    /\ venue[n].st = "live" /\ pos.net < 0
    /\ venue' = [venue EXCEPT
                    ![n].cum = @ + 1,
                    ![n].st = IF venue[n].cum + 1 = venue[n].qty THEN "Filled" ELSE @]
    /\ pos' = [pos EXCEPT !.net = @ + 1]
    /\ UNCHANGED others /\ Executor

End(n) ==
    /\ venue[n].st = "live"
    /\ \E how \in {"Cancelled", "Rejected"} :
          /\ how = "Rejected" => venue[n].cum = 0
          /\ venue' = [venue EXCEPT ![n].st = how]
    /\ UNCHANGED <<pos, others>> /\ Executor

Hidden(n) == venue[n].st \in Finals \cup {"live"} /\ ~venue[n].seen

Show(n) ==
    /\ Hidden(n)
    /\ venue' = [venue EXCEPT ![n].seen = TRUE, ![n].dark = 0]
    /\ UNCHANGED <<pos, others>> /\ Executor

\* The position endpoint catches up with the fills.
CatchUp ==
    /\ pos.view # pos.net
    /\ pos' = [pos EXCEPT !.view = pos.net]
    /\ UNCHANGED <<venue, others>> /\ Executor

\* A person, a liquidation or another program trades the same symbol.
Meddle ==
    /\ others = 0
    /\ \E d \in {-1, 1} : others' = d /\ pos' = [pos EXCEPT !.net = @ + d]
    /\ UNCHANGED venue /\ Executor

Flown(o) ==
    IF o.st # "flying" THEN o
    ELSE IF o.flight + 1 = LandBy THEN [o EXCEPT !.st = "lost", !.flight = 0]
    ELSE [o EXCEPT !.flight = @ + 1]

Tick ==
    /\ \E n \in Unresolved(log) : log[n].age < ProofAge
    /\ \A n \in Numbers : Hidden(n) => venue[n].dark < Lag
    /\ log' = [n \in DOMAIN log |->
                  IF n \in Unresolved(log) /\ log[n].age < ProofAge
                  THEN [log[n] EXCEPT !.age = @ + 1] ELSE log[n]]
    /\ venue' = [n \in Numbers |->
                    IF Hidden(n) THEN [venue[n] EXCEPT !.dark = @ + 1] ELSE Flown(venue[n])]
    /\ UNCHANGED <<state, exec, booked, ledger, pos, crashes, others>>

Outside ==
    \/ \E n \in Numbers : Land(n) \/ Fill(n) \/ End(n) \/ Show(n)
    \/ CatchUp \/ Meddle \/ Tick

CloseNext == Step \/ Crash \/ Outside

CloseSpec == CloseInit /\ [][CloseNext]_closeVars

\* The trading loop runs a step per tick, and every call of a step returns.
FairCloseSpec == CloseSpec /\ WF_closeVars(Step)

-------------------------------------------------------------------------------
(***************************************************************************)
(* What a step reports (close_executor._result).                           *)
(***************************************************************************)
Sum(f) == FoldFunction(LAMBDA x, y : x + y, 0, f)

Recorded == Sum([n \in DOMAIN log |-> log[n].filled])

OurFills == Sum([n \in Numbers |-> venue[n].cum])

WentOut == {n \in DOMAIN log : log[n].state # "NEVER_SENT"}

\* The short this close started from, as the first attempt that went out saw it.
Baseline == IF WentOut = {} THEN 0 ELSE log[Min(WentOut)].before

BrokenExplained == Recorded > 0

Explained ==
    /\ Recorded > 0 /\ Recorded >= Baseline
    /\ \A n \in DOMAIN log : log[n].state # "MOOT"

BrokenUnbooked == {n \in WentOut : log[n].filled > booked[n]}

Unbooked ==
    {n \in WentOut : log[n].state \in Resolutions
                     /\ (log[n].filled > booked[n] \/ log[n].state = "MOOT")}

-------------------------------------------------------------------------------
(***************************************************************************)
(* Properties.                                                             *)
(***************************************************************************)

\* At most one close order can still change the position, however requests are
\* delayed, lookups lag or the process restarts (close_plan.py:314-315, 323-327): a stale
\* read of the short must not put a second order beside the first.
OneAtATime == Cardinality({n \in Numbers : venue[n].st \in Working}) <= 1

\* What the log calls settled is settled at the venue the same way: an ended
\* attempt has ended there and filled what is on file, and one that was "never
\* sent" is not there and cannot arrive (close_plan.py:141-157).
ResolvedIsTrue ==
    \A n \in DOMAIN log :
        /\ log[n].state \in {"FILLED", "PARTIAL", "CANCELLED", "REJECTED"} =>
              venue[n].st \in Finals /\ log[n].filled = venue[n].cum
        /\ log[n].state = "NEVER_SENT" => venue[n].st \in {"none", "lost", "refused"}

\* A close is never declared on an inference: when nobody else traded, the venue's
\* short is gone (carry_engine.py:2671-2674).
ClosedIsFlat == state.closed /\ others = 0 => pos.net = 0

\* A close that claims to explain the flat position really bought back the short
\* it started from (close_executor.py:379-391).
ExplainedIsOurs == state.closed /\ Explained => OurFills >= Baseline

\* A close that reports nothing left to book has booked every lot the venue
\* filled for it (close_executor.py:72-75).
NothingUnreported == state.closed /\ Unbooked = {} => Sum(ledger) = OurFills

\* An attempt recorded as never sent never reached the venue
\* (close_executor.py:321-322).
NeverSentNeverLeft ==
    \A n \in DOMAIN log : log[n].state = "NEVER_SENT" => venue[n].st \in {"none", "lost", "refused"}

\* Every close ends: flat, or with a person called (close_plan.py:173-177).
CloseEnds == <>(state.closed \/ state.halted \/ At("stopped"))
===============================================================================
