-------------------------- MODULE CloseExecutor_proofs --------------------------
(***************************************************************************)
(* What the close of CloseExecutor guarantees for every policy, every      *)
(* short and every bound on times and crashes.  The argument has three     *)
(* layers.  PlanFits says what a plan may do to a log, from the look it    *)
(* was made on.  CloseInv ties the log, the plan that waits to be          *)
(* committed and the venue together, and every action is shown to keep     *)
(* it.  The properties follow from it.                                     *)
(***************************************************************************)
EXTENDS MCCloseBoth, SetSums_proofs, SequenceTheorems, TLAPS

-------------------------------------------------------------------------------
(***************************************************************************)
(* The shapes of the state.                                                *)
(***************************************************************************)
Attempts ==
    [qty : Nat, state : AttemptStates, filled : Nat, sends : Nat, before : Nat, age : Nat]

Words ==
    {"", "WAIT", "HALT", "SEND", "RESEND", "NOOP_FLAT", "unreadable", "net_long",
     "order_unreadable", "live", "flat", "unproven", "lag", "exhausted", "dust", "resends",
     "waited"}

Plans == [act : Words, why : Words, qty : Nat, n : Nat, log : Seq(Attempts)]

Orders ==
    [st : {"none", "flying", "lost", "refused", "live"} \cup Finals, cum : Nat, qty : Nat,
     seen : BOOLEAN, dark : Nat, flight : Nat]

\* A step is under way: it has begun and neither finished nor stopped.
InStep == exec.pc \in {"orders", "commit", "send", "await", "resume", "booked"}

\* It has committed an intent to send, and its order is the last of the log.
Sender == exec.pc \in {"send", "await", "resume", "booked"}

LogShape == log \in Seq(Attempts) /\ Len(log) <= MaxAttempts

StateShape == state \in [waits : Int, lag : Int, halted : BOOLEAN, closed : BOOLEAN]

ExecShape ==
    exec \in [pc : {"idle", "orders", "commit", "send", "await", "resume", "booked", "follow",
                    "stopped"},
              follow : BOOLEAN, net : [readable : BOOLEAN, net : Int], plan : Plans]

BooksShape == booked \in [Numbers -> Nat] /\ ledger \in [Numbers -> Nat]

VenueShape == venue \in [Numbers -> Orders]

PosShape == pos \in [net : Int, view : Int] /\ others \in {-1, 0, 1}

Shape == LogShape /\ StateShape /\ ExecShape /\ BooksShape /\ VenueShape /\ PosShape

-------------------------------------------------------------------------------
(***************************************************************************)
(* One attempt against the venue.                                          *)
(***************************************************************************)
Ends == {"FILLED", "PARTIAL", "CANCELLED", "REJECTED"}

Nowhere == {"none", "lost", "refused"}

\* What a row claims of its order.  With the same id sent again, "never sent" may
\* only mean that the last send did not leave.
Honest(row, o) ==
    /\ row.state \in Ends => o.st \in Finals /\ row.filled = o.cum
    /\ row.state \notin Ends => row.filled = 0
    /\ row.state = "NEVER_SENT" /\ ~Resend => o.st \in Nowhere

\* How far an order can have come while its row is open: one still on its way left
\* no later than SendBy, one that is hidden landed in time and is dark since.
Timely(row, o) ==
    /\ o.st = "flying" => row.age <= SendBy + o.flight
    /\ o.st \in Finals \cup {"live"} /\ ~o.seen => row.age < SendBy + LandBy + o.dark

\* An order by itself.
Sound(o) ==
    /\ o.st = "flying" => ~o.seen /\ o.flight < LandBy /\ o.dark = 0
    /\ o.st = "none" => o = NoOrder
    /\ o.st \in Nowhere => ~o.seen /\ o.cum = 0
    /\ o.st = "flying" => o.cum = 0
    /\ o.dark <= Lag

-------------------------------------------------------------------------------
(***************************************************************************)
(* The parts of the invariant.                                             *)
(***************************************************************************)
OrdersAreSound == \A n \in Numbers : Sound(venue[n])

\* Nothing is known of a number not given yet.
Untouched ==
    \A n \in Numbers : n > Len(log) => venue[n] = NoOrder /\ ledger[n] = 0 /\ booked[n] = 0

RowsAreHonest == \A n \in DOMAIN log : Honest(log[n], venue[n])

RowsAreTimely == \A n \in Unresolved(log) : Timely(log[n], venue[n])

\* Every attempt but the last is settled, and cannot move the position any more.
EarlierAreOver ==
    \A n \in DOMAIN log : n < Len(log) =>
        log[n].state \in Resolutions /\ venue[n].st \notin Working

\* A step runs on an open close only; the two resolutions that say something about
\* the position, and not about an order, close or halt it.
OpenWhileStepping ==
    /\ InStep \/ exec.pc = "follow" => ~state.closed /\ ~state.halted
    /\ \A n \in DOMAIN log :
          /\ log[n].state = "MOOT" => state.closed
          /\ log[n].state = "NEVER_SENT" /\ Resend => state.halted

ClosedIsSettled == state.closed => Unresolved(log) = {}

\* The plan waiting to be committed, against the log and the venue as they are now.
PlanHolds ==
    At("commit") =>
        /\ DOMAIN exec.plan.log = DOMAIN log
        /\ \A n \in DOMAIN log :
              /\ Honest(exec.plan.log[n], venue[n])
              /\ log[n].state \in Resolutions => exec.plan.log[n] = log[n]
              /\ exec.plan.log[n].state = "MOOT" => exec.plan.act = "NOOP_FLAT"
              /\ exec.plan.log[n].state = "NEVER_SENT" => ~Resend
        /\ exec.plan.act \in {"SEND", "NOOP_FLAT"} => Unresolved(exec.plan.log) = {}
        /\ exec.plan.act = "SEND" => Len(log) + 1 <= MaxAttempts /\ exec.plan.n = Len(log) + 1
        /\ exec.plan.act = "RESEND" =>
              Resend /\ exec.plan.n \in DOMAIN log
              /\ exec.plan.log[exec.plan.n].state \notin Resolutions

\* A step that may send sends the last attempt, which is open.
SendsTheLast ==
    Sender => exec.plan.n \in DOMAIN log /\ exec.plan.n = Len(log)
              /\ exec.plan.n \in Unresolved(log)

\* With fresh ids an attempt is sent once, and so credited once.
SentOnce ==
    ~Resend =>
        /\ exec.pc # "resume"
        /\ At("send") => venue[exec.plan.n].st = "none"
        /\ At("send") \/ At("await") => ledger[exec.plan.n] = 0
        /\ \A n \in Numbers : booked[n] <= ledger[n] /\ ledger[n] <= venue[n].cum

\* The position, while nobody else trades: a short that only shrinks, and a read of
\* it that is at most old.
Shrinking ==
    others = 0 =>
        /\ pos.view <= pos.net /\ pos.net <= 0
        /\ At("orders") /\ exec.net.readable => exec.net.net <= pos.net
        /\ At("commit") /\ exec.plan.act = "NOOP_FLAT" => pos.net = 0
        /\ state.closed => pos.net = 0

CloseInv ==
    /\ Shape
    /\ OrdersAreSound /\ Untouched /\ RowsAreHonest /\ RowsAreTimely
    /\ EarlierAreOver /\ OpenWhileStepping /\ ClosedIsSettled
    /\ PlanHolds /\ SendsTheLast /\ SentOnce /\ Shrinking

-------------------------------------------------------------------------------
(***************************************************************************)
(* Logs, and what a plan does to one.                                      *)
(***************************************************************************)
\* A function on the domain of a sequence is a sequence of the same length.
LEMMA SeqOf ==
    ASSUME NEW S, NEW T, NEW s \in Seq(T), NEW f,
           f = [i \in DOMAIN s |-> f[i]], \A i \in DOMAIN s : f[i] \in S
    PROVE  f \in Seq(S) /\ Len(f) = Len(s)
<1>1. DOMAIN s = 1..Len(s) /\ Len(s) \in Nat
  BY SeqDef
<1>2. f \in [1..Len(s) -> S]
  BY <1>1
<1>3. f \in Seq(S)
  BY <1>1, <1>2, SeqDef
<1> QED BY <1>1, <1>2, <1>3

\* What a look finds of each open attempt.
Looks(l, orders) ==
    \A n \in Unresolved(l) :
        orders[n].kind \in {"absent", "failed", "live", "ended"} /\ orders[n].cum \in Nat

LEMMA LogIsNumbered ==
    ASSUME NEW l \in Seq(Attempts)
    PROVE  /\ Len(l) \in Nat /\ DOMAIN l = 1..Len(l)
           /\ \A n \in DOMAIN l : l[n] \in Attempts /\ n \in Nat
BY SeqDef

LEMMA EndingIsAnEnd ==
    ASSUME NEW how, NEW qty, NEW filled
    PROVE  Ending(how, qty, filled) \in Ends
BY DEF Ending, Ends

\* The venue's decisions, row by row.
LEMMA EndedRows ==
    ASSUME NEW l \in Seq(Attempts), \A n \in Unresolved(l) : l[n].filled = 0,
           NEW obs, Looks(l, obs.orders)
    PROVE  LET L == WithEnded(l, obs)
           IN /\ L \in Seq(Attempts) /\ Len(L) = Len(l) /\ DOMAIN L = DOMAIN l
              /\ \A n \in DOMAIN l : n \notin Read(l, obs, "ended") => L[n] = l[n]
              /\ \A n \in Read(l, obs, "ended") :
                    L[n].state \in Ends /\ L[n].filled = obs.orders[n].cum
<1> DEFINE L == WithEnded(l, obs)
<1>1. DOMAIN L = DOMAIN l /\ L = [n \in DOMAIN l |-> L[n]]
  BY DEF WithEnded
<1>2. ASSUME NEW n \in DOMAIN l, n \notin Read(l, obs, "ended") PROVE L[n] = l[n]
  BY <1>2 DEF WithEnded
<1>3. ASSUME NEW n \in Read(l, obs, "ended")
      PROVE  L[n] \in Attempts /\ L[n].state \in Ends /\ L[n].filled = obs.orders[n].cum
  <2> DEFINE filled == Higher(l[n].filled, obs.orders[n].cum)
  <2>1. n \in Unresolved(l) /\ n \in DOMAIN l
    BY DEF Read, Unresolved
  <2>2. obs.orders[n].cum \in Nat /\ l[n].filled = 0 /\ l[n] \in Attempts
    BY <2>1, LogIsNumbered DEF Looks
  <2>3. filled = obs.orders[n].cum
    BY <2>2 DEF Higher
  <2>4. L[n] = [l[n] EXCEPT !.filled = filled, !.age = 0,
                            !.state = Ending(obs.orders[n].how, l[n].qty, filled)]
    BY <2>1 DEF WithEnded
  <2>5. Ending(obs.orders[n].how, l[n].qty, filled) \in Ends
    BY EndingIsAnEnd
  <2>6. Ends \subseteq AttemptStates
    BY DEF Ends, AttemptStates, Resolutions
  <2> HIDE DEF filled, L
  <2> QED BY <2>2, <2>3, <2>4, <2>5, <2>6 DEF Attempts
<1>4. \A n \in DOMAIN l : L[n] \in Attempts
  BY <1>2, <1>3, LogIsNumbered
<1>5. L \in Seq(Attempts) /\ Len(L) = Len(l)
  <2> HIDE DEF L
  <2> QED BY <1>1, <1>4, SeqOf
<1> QED BY <1>1, <1>2, <1>3, <1>5

LEMMA MarkedRows ==
    ASSUME NEW l \in Seq(Attempts), NEW ns, NEW st \in AttemptStates
    PROVE  LET L == Marked(l, ns, st)
           IN /\ L \in Seq(Attempts) /\ Len(L) = Len(l) /\ DOMAIN L = DOMAIN l
              /\ \A n \in DOMAIN l : n \notin ns => L[n] = l[n]
              /\ \A n \in DOMAIN l : n \in ns => L[n].state = st /\ L[n].filled = l[n].filled
<1> DEFINE L == Marked(l, ns, st)
<1>1. DOMAIN L = DOMAIN l /\ L = [n \in DOMAIN l |-> L[n]]
  BY DEF Marked
<1>2. ASSUME NEW n \in DOMAIN l, n \notin ns PROVE L[n] = l[n]
  BY <1>2 DEF Marked
<1>3. ASSUME NEW n \in DOMAIN l, n \in ns
      PROVE  L[n] \in Attempts /\ L[n].state = st /\ L[n].filled = l[n].filled
  <2>1. L[n] = [l[n] EXCEPT !.state = st, !.age = 0]
    BY <1>3 DEF Marked
  <2>2. l[n] \in Attempts
    BY LogIsNumbered
  <2> DEFINE row == l[n]
  <2>3. [row EXCEPT !.state = st, !.age = 0] \in Attempts
    BY <2>2 DEF Attempts
  <2>4. /\ [row EXCEPT !.state = st, !.age = 0].state = st
        /\ [row EXCEPT !.state = st, !.age = 0].filled = row.filled
    BY <2>2 DEF Attempts
  <2> HIDE DEF L
  <2> QED BY <2>1, <2>3, <2>4
<1>4. \A n \in DOMAIN l : L[n] \in Attempts
  BY <1>2, <1>3, LogIsNumbered
<1>5. L \in Seq(Attempts) /\ Len(L) = Len(l)
  <2> HIDE DEF L
  <2> QED BY <1>1, <1>4, SeqOf
<1> QED BY <1>1, <1>2, <1>3, <1>5

LEMMA PlanIsPlan ==
    ASSUME NEW act \in Words, NEW why \in Words, NEW l \in Seq(Attempts)
    PROVE  Plan(act, why, l) \in Plans /\ Plan(act, why, l).act = act
           /\ Plan(act, why, l).log = l
<1>1. Plan(act, why, l) = [act |-> act, why |-> why, qty |-> 0, n |-> 0, log |-> l]
  BY DEF Plan
<1> QED BY <1>1 DEF Plans

LEMMA OrderIsPlan ==
    ASSUME NEW act \in Words, NEW n \in Nat, NEW qty \in Nat, NEW l \in Seq(Attempts)
    PROVE  Order(act, n, qty, l) \in Plans /\ Order(act, n, qty, l).act = act
           /\ Order(act, n, qty, l).n = n /\ Order(act, n, qty, l).log = l
BY DEF Order, Plans, Words

-------------------------------------------------------------------------------
(***************************************************************************)
(* The planner.                                                            *)
(***************************************************************************)
\* A log with at most one attempt open, and a look at it.
LookedAt(l, obs) ==
    /\ l \in Seq(Attempts)
    /\ \A n \in Unresolved(l) : l[n].filled = 0
    /\ \A m, n \in Unresolved(l) : m = n
    /\ Looks(l, obs.orders) /\ obs.net \in Int

\* What a plan may make of an open row: nothing; what the venue decided; never
\* sent, for an attempt proven absent, when ids are fresh; or moot.
RowFits(l, obs, p, n) ==
    \/ p.log[n] = l[n]
    \/ /\ n \in Read(l, obs, "ended")
       /\ p.log[n].state \in Ends /\ p.log[n].filled = obs.orders[n].cum
    \/ /\ n \in Read(l, obs, "absent") /\ n \in obs.proven /\ ~Resend
       /\ p.log[n].state = "NEVER_SENT" /\ p.log[n].filled = l[n].filled
    \/ /\ n \in Read(l, obs, "absent") /\ p.act = "NOOP_FLAT"
       /\ p.log[n].state = "MOOT" /\ p.log[n].filled = l[n].filled

PlanFits(l, obs, p) ==
    /\ p \in Plans /\ DOMAIN p.log = DOMAIN l
    /\ \A n \in DOMAIN l :
          IF l[n].state \in Resolutions THEN p.log[n] = l[n] ELSE RowFits(l, obs, p, n)
    /\ p.act \in {"SEND", "NOOP_FLAT"} => Unresolved(p.log) = {}
    /\ p.act = "SEND" => Len(l) + 1 <= MaxAttempts /\ p.n = Len(l) + 1
    /\ p.act = "RESEND" =>
          Resend /\ p.n \in DOMAIN l /\ p.log[p.n].state \notin Resolutions
    /\ p.act = "NOOP_FLAT" => obs.readable /\ obs.net = 0

LEMMA RestOfPlan ==
    ASSUME NEW l \in Seq(Attempts), NEW short \in Nat, NEW lag
    PROVE  LET p == PlanRest(l, short, lag)
           IN /\ p \in Plans /\ p.log = l
              /\ p.act \in {"NOOP_FLAT", "WAIT", "HALT", "SEND"}
              /\ p.act = "NOOP_FLAT" => short = 0
              /\ p.act = "SEND" => Len(l) + 1 <= MaxAttempts /\ p.n = Len(l) + 1
<1> DEFINE p == PlanRest(l, short, lag)
<1>0. Len(l) \in Nat /\ Len(l) + 1 \in Nat /\ MaxAttempts \in Nat
  BY LogIsNumbered, PolicyAssumption
<1>1. CASE short = 0
  <2>1. p = Plan("NOOP_FLAT", "flat", l)
    BY <1>1 DEF PlanRest
  <2>2. "NOOP_FLAT" \in Words /\ "flat" \in Words
    BY DEF Words
  <2> QED BY <1>1, <2>1, <2>2, PlanIsPlan
<1>2. CASE short # 0 /\ lag < MaxLagWaits /\ Lags(l, short)
  <2>1. p = Plan("WAIT", "lag", l)
    BY <1>2 DEF PlanRest
  <2>2. "WAIT" \in Words /\ "lag" \in Words
    BY DEF Words
  <2> QED BY <2>1, <2>2, PlanIsPlan
<1>3. CASE short # 0 /\ ~(lag < MaxLagWaits /\ Lags(l, short)) /\ Len(l) >= MaxAttempts
  <2>1. p = Plan("HALT", "exhausted", l)
    BY <1>3 DEF PlanRest
  <2>2. "HALT" \in Words /\ "exhausted" \in Words
    BY DEF Words
  <2> QED BY <2>1, <2>2, PlanIsPlan
<1>4. CASE /\ short # 0 /\ ~(lag < MaxLagWaits /\ Lags(l, short)) /\ ~(Len(l) >= MaxAttempts)
           /\ short < MinQty
  <2>1. p = Plan("HALT", "dust", l)
    BY <1>4 DEF PlanRest
  <2>2. "HALT" \in Words /\ "dust" \in Words
    BY DEF Words
  <2> QED BY <2>1, <2>2, PlanIsPlan
<1>5. CASE /\ short # 0 /\ ~(lag < MaxLagWaits /\ Lags(l, short)) /\ ~(Len(l) >= MaxAttempts)
           /\ ~(short < MinQty)
  <2>1. p = Order("SEND", Len(l) + 1, short, l)
    BY <1>5 DEF PlanRest
  <2>2. "SEND" \in Words
    BY DEF Words
  <2>3. p \in Plans /\ p.act = "SEND" /\ p.n = Len(l) + 1 /\ p.log = l
    BY <1>0, <2>1, <2>2, OrderIsPlan
  <2>4. Len(l) + 1 <= MaxAttempts
    BY <1>0, <1>5
  <2> QED BY <2>3, <2>4
<1> QED BY <1>1, <1>2, <1>3, <1>4, <1>5

\* Waiting, or stopping, on the log with what the venue decided.
LEMMA HoldingFits ==
    ASSUME NEW l, NEW obs, LookedAt(l, obs), NEW act \in {"WAIT", "HALT"}, NEW why \in Words,
           NEW L, L = l \/ L = WithEnded(l, obs)
    PROVE  PlanFits(l, obs, Plan(act, why, L))
<1> DEFINE p == Plan(act, why, L)
<1>1. L \in Seq(Attempts) /\ DOMAIN L = DOMAIN l
  BY EndedRows DEF LookedAt
<1>2. p \in Plans /\ p.act = act /\ p.log = L
  <2>1. act \in Words
    BY DEF Words
  <2> HIDE DEF Plans
  <2> QED BY <1>1, <2>1, PlanIsPlan
<1>3. ASSUME NEW n \in DOMAIN l, l[n].state \in Resolutions PROVE L[n] = l[n]
  <2>1. n \notin Read(l, obs, "ended")
    BY <1>3 DEF Read, Unresolved
  <2> QED BY <2>1, EndedRows DEF LookedAt
<1>4. ASSUME NEW n \in DOMAIN l, l[n].state \notin Resolutions PROVE RowFits(l, obs, p, n)
  <2>1. CASE n \in Read(l, obs, "ended") /\ L = WithEnded(l, obs)
    BY <1>2, <2>1, EndedRows DEF LookedAt, RowFits
  <2>2. CASE n \notin Read(l, obs, "ended") \/ L = l
    <3>1. L[n] = l[n]
      BY <2>2, EndedRows DEF LookedAt
    <3> QED BY <1>2, <3>1 DEF RowFits
  <2> QED BY <2>1, <2>2
<1> HIDE DEF p
<1>5. \A n \in DOMAIN l :
         IF l[n].state \in Resolutions THEN p.log[n] = l[n] ELSE RowFits(l, obs, p, n)
  BY <1>2, <1>3, <1>4
<1>6. p.act \notin {"SEND", "NOOP_FLAT", "RESEND"}
  BY <1>2
<1>7. PlanFits(l, obs, p)
  BY <1>1, <1>2, <1>5, <1>6 DEF PlanFits
<1> QED BY <1>7 DEF p

\* Going on from a log in which no attempt is open: all of them ended, or those that
\* were lost are proven never sent.
LEMMA GoingOnFits ==
    ASSUME NEW l, NEW obs, LookedAt(l, obs), NEW short \in Nat, NEW lag,
           obs.readable, short = 0 => obs.net = 0,
           NEW lost, lost = Read(l, obs, "absent"),
           Read(l, obs, "failed") = {}, Read(l, obs, "live") = {},
           NEW L,
           \/ lost = {} /\ L = WithEnded(l, obs)
           \/ /\ ~Resend /\ lost \subseteq obs.proven
              /\ L = Marked(WithEnded(l, obs), lost, "NEVER_SENT")
    PROVE  PlanFits(l, obs, PlanRest(L, short, lag))
<1> DEFINE p == PlanRest(L, short, lag)
           W == WithEnded(l, obs)
<1>0. /\ W \in Seq(Attempts) /\ Len(W) = Len(l) /\ DOMAIN W = DOMAIN l
      /\ \A n \in DOMAIN l : n \notin Read(l, obs, "ended") => W[n] = l[n]
      /\ \A n \in Read(l, obs, "ended") :
            W[n].state \in Ends /\ W[n].filled = obs.orders[n].cum
  BY EndedRows DEF LookedAt
<1> HIDE DEF W
<1>a. "NEVER_SENT" \in AttemptStates
  BY DEF AttemptStates, Resolutions
<1>1. L \in Seq(Attempts) /\ Len(L) = Len(l) /\ DOMAIN L = DOMAIN l
  BY <1>0, <1>a, MarkedRows DEF W
<1>2. \A n \in DOMAIN l : n \notin lost => L[n] = W[n]
  BY <1>0, <1>a, MarkedRows DEF W
<1>3. \A n \in lost : L[n].state = "NEVER_SENT" /\ L[n].filled = l[n].filled
                      /\ ~Resend /\ n \in obs.proven
  <2> SUFFICES ASSUME NEW n \in lost
               PROVE  L[n].state = "NEVER_SENT" /\ L[n].filled = l[n].filled
                      /\ ~Resend /\ n \in obs.proven
    OBVIOUS
  <2>1. n \in DOMAIN l /\ n \notin Read(l, obs, "ended")
    BY DEF Read, Unresolved
  <2>2. W[n] = l[n]
    BY <1>0, <2>1
  <2> QED BY <1>0, <1>a, <2>1, <2>2, MarkedRows DEF W
<1>b. /\ p \in Plans /\ p.log = L
      /\ p.act \in {"NOOP_FLAT", "WAIT", "HALT", "SEND"}
      /\ p.act = "NOOP_FLAT" => short = 0
      /\ p.act = "SEND" => Len(L) + 1 <= MaxAttempts /\ p.n = Len(L) + 1
  <2>1. LET q == PlanRest(L, short, lag)
        IN /\ q \in Plans /\ q.log = L
           /\ q.act \in {"NOOP_FLAT", "WAIT", "HALT", "SEND"}
           /\ q.act = "NOOP_FLAT" => short = 0
           /\ q.act = "SEND" => Len(L) + 1 <= MaxAttempts /\ q.n = Len(L) + 1
    <3>1. L \in Seq(Attempts)
      BY <1>1
    <3> QED BY <3>1, RestOfPlan, SMTT(30)
  <2> QED BY <2>1, Zenon
<1> HIDE DEF p
<1>4. /\ p \in Plans /\ p.log = L
      /\ p.act \in {"NOOP_FLAT", "WAIT", "HALT", "SEND"}
      /\ p.act = "NOOP_FLAT" => short = 0
      /\ p.act = "SEND" => Len(l) + 1 <= MaxAttempts /\ p.n = Len(l) + 1
  BY <1>1, <1>b
<1>5. ASSUME NEW n \in DOMAIN l, l[n].state \in Resolutions PROVE L[n] = l[n]
  <2>1. n \notin Read(l, obs, "ended") /\ n \notin lost
    BY <1>5 DEF Read, Unresolved
  <2> QED BY <1>0, <1>2, <2>1
<1>6. ASSUME NEW n \in DOMAIN l, l[n].state \notin Resolutions
      PROVE  RowFits(l, obs, p, n) /\ L[n].state \in Resolutions
  <2>1. n \in Unresolved(l)
    BY <1>6 DEF Unresolved
  <2>2. obs.orders[n].kind \in {"absent", "failed", "live", "ended"}
    BY <2>1 DEF LookedAt, Looks
  <2>3. n \in lost \/ n \in Read(l, obs, "ended")
    BY <2>1, <2>2 DEF Read
  <2>4. CASE n \in lost
    <3>1. L[n].state = "NEVER_SENT" /\ L[n].filled = l[n].filled /\ ~Resend /\ n \in obs.proven
      BY <1>3, <2>4
    <3> QED BY <1>4, <2>4, <3>1 DEF RowFits, Resolutions
  <2>5. CASE n \in Read(l, obs, "ended") /\ n \notin lost
    <3>1. L[n].state \in Ends /\ L[n].filled = obs.orders[n].cum
      BY <1>0, <1>2, <2>5
    <3> QED BY <1>4, <2>5, <3>1 DEF RowFits, Resolutions, Ends
  <2> QED BY <2>3, <2>4, <2>5
<1>7. Unresolved(L) = {}
  BY <1>1, <1>5, <1>6 DEF Unresolved
<1>8. \A n \in DOMAIN l :
         IF l[n].state \in Resolutions THEN p.log[n] = l[n] ELSE RowFits(l, obs, p, n)
  BY <1>4, <1>5, <1>6
<1>9. p.act = "NOOP_FLAT" => obs.readable /\ obs.net = 0
  BY <1>4
<1>10. PlanFits(l, obs, p)
  BY <1>1, <1>4, <1>7, <1>8, <1>9 DEF PlanFits
<1> QED BY <1>10 DEF p

\* Flat, whatever was lost is moot.
LEMMA MootFits ==
    ASSUME NEW l, NEW obs, LookedAt(l, obs), obs.readable, obs.net = 0,
           NEW lost, lost = Read(l, obs, "absent"),
           Read(l, obs, "failed") = {}, Read(l, obs, "live") = {}
    PROVE  PlanFits(l, obs, Plan("NOOP_FLAT", "flat", Marked(WithEnded(l, obs), lost, "MOOT")))
<1> DEFINE W == WithEnded(l, obs)
           L == Marked(W, lost, "MOOT")
           p == Plan("NOOP_FLAT", "flat", L)
<1>0. /\ W \in Seq(Attempts) /\ Len(W) = Len(l) /\ DOMAIN W = DOMAIN l
      /\ \A n \in DOMAIN l : n \notin Read(l, obs, "ended") => W[n] = l[n]
      /\ \A n \in Read(l, obs, "ended") :
            W[n].state \in Ends /\ W[n].filled = obs.orders[n].cum
  BY EndedRows DEF LookedAt
<1> HIDE DEF W
<1>a. "MOOT" \in AttemptStates
  BY DEF AttemptStates, Resolutions
<1>1. /\ L \in Seq(Attempts) /\ Len(L) = Len(l) /\ DOMAIN L = DOMAIN l
      /\ \A n \in DOMAIN l : n \notin lost => L[n] = W[n]
      /\ \A n \in DOMAIN l : n \in lost => L[n].state = "MOOT" /\ L[n].filled = W[n].filled
  BY <1>0, <1>a, MarkedRows
<1> HIDE DEF L
<1>2. p \in Plans /\ p.act = "NOOP_FLAT" /\ p.log = L
  <2>1. "NOOP_FLAT" \in Words /\ "flat" \in Words
    BY DEF Words
  <2> QED BY <1>1, <2>1, PlanIsPlan
<1> HIDE DEF p
<1>3. ASSUME NEW n \in DOMAIN l, l[n].state \in Resolutions PROVE L[n] = l[n]
  <2>1. n \notin Read(l, obs, "ended") /\ n \notin lost
    BY <1>3 DEF Read, Unresolved
  <2> QED BY <1>0, <1>1, <2>1
<1>4. ASSUME NEW n \in DOMAIN l, l[n].state \notin Resolutions
      PROVE  RowFits(l, obs, p, n) /\ L[n].state \in Resolutions
  <2>1. n \in Unresolved(l)
    BY <1>4 DEF Unresolved
  <2>2. obs.orders[n].kind \in {"absent", "failed", "live", "ended"}
    BY <2>1 DEF LookedAt, Looks
  <2>3. n \in lost \/ n \in Read(l, obs, "ended")
    BY <2>1, <2>2 DEF Read
  <2>4. CASE n \in lost
    <3>1. n \notin Read(l, obs, "ended")
      BY <2>4 DEF Read
    <3>2. L[n].state = "MOOT" /\ L[n].filled = l[n].filled
      BY <1>0, <1>1, <2>4, <3>1
    <3> QED BY <1>2, <2>4, <3>2 DEF RowFits, Resolutions
  <2>5. CASE n \in Read(l, obs, "ended") /\ n \notin lost
    <3>1. L[n].state \in Ends /\ L[n].filled = obs.orders[n].cum
      BY <1>0, <1>1, <2>5
    <3> QED BY <1>2, <2>5, <3>1 DEF RowFits, Resolutions, Ends
  <2> QED BY <2>3, <2>4, <2>5
<1>5. Unresolved(L) = {}
  BY <1>1, <1>3, <1>4 DEF Unresolved
<1>6. PlanFits(l, obs, p)
  BY <1>1, <1>2, <1>3, <1>4, <1>5 DEF PlanFits
<1> QED BY <1>6 DEF p, L, W

\* The same id again, for the one attempt that is open.
LEMMA ResendFits ==
    ASSUME NEW l, NEW obs, LookedAt(l, obs), NEW short \in Nat,
           NEW lost, lost = Read(l, obs, "absent"), lost # {}, Resend
    PROVE  PlanFits(l, obs, PlanResend(WithEnded(l, obs), lost, short))
<1> DEFINE W == WithEnded(l, obs)
           n == CHOOSE m \in lost : \A k \in lost : k <= m
           qty == IF W[n].qty <= short THEN W[n].qty ELSE short
<1>0. /\ W \in Seq(Attempts) /\ Len(W) = Len(l) /\ DOMAIN W = DOMAIN l
      /\ \A m \in DOMAIN l : m \notin Read(l, obs, "ended") => W[m] = l[m]
      /\ \A m \in Read(l, obs, "ended") :
            W[m].state \in Ends /\ W[m].filled = obs.orders[m].cum
  BY EndedRows DEF LookedAt
<1> HIDE DEF W
<1>1. n \in lost
  <2>1. lost \subseteq Unresolved(l)
    BY DEF Read
  <2>2. PICK m \in lost : TRUE
    OBVIOUS
  <2>3. m \in Nat
    BY <2>1, LogIsNumbered DEF LookedAt, Unresolved
  <2>4. \A k \in lost : k <= m
    BY <2>1, <2>3 DEF LookedAt
  <2> QED BY <2>2, <2>4
<1> HIDE DEF n
<1>2. n \in Unresolved(l) /\ n \in DOMAIN l /\ n \notin Read(l, obs, "ended") /\ n \in Nat
  BY <1>1, LogIsNumbered DEF Read, Unresolved, LookedAt
<1>3. W[n] = l[n] /\ W[n] \in Attempts /\ W[n].state \notin Resolutions
  BY <1>0, <1>2, LogIsNumbered DEF Unresolved
<1>4. qty \in Nat
  BY <1>3 DEF Attempts
<1>5. CASE W[n].sends >= MaxSends \/ qty < MinQty
  <2>1. PICK why \in {"resends", "dust"} : PlanResend(W, lost, short) = Plan("HALT", why, W)
    BY <1>5 DEF PlanResend, n
  <2>2. why \in Words
    BY DEF Words
  <2> QED BY <2>1, <2>2, HoldingFits DEF W
<1>6. CASE ~(W[n].sends >= MaxSends \/ qty < MinQty)
  <2> DEFINE p == Order("RESEND", n, qty, W)
  <2>1. PlanResend(W, lost, short) = p
    BY <1>6 DEF PlanResend, n
  <2>2. "RESEND" \in Words
    BY DEF Words
  <2>3. p \in Plans /\ p.act = "RESEND" /\ p.n = n /\ p.log = W
    BY <1>0, <1>2, <1>4, <2>2, OrderIsPlan
  <2> HIDE DEF p, qty
  <2>4. ASSUME NEW m \in DOMAIN l, l[m].state \in Resolutions PROVE W[m] = l[m]
    <3>1. m \notin Read(l, obs, "ended")
      BY <2>4 DEF Read, Unresolved
    <3> QED BY <1>0, <3>1
  <2>5. ASSUME NEW m \in DOMAIN l, l[m].state \notin Resolutions PROVE RowFits(l, obs, p, m)
    BY <1>0, <2>3 DEF RowFits
  <2>6. PlanFits(l, obs, p)
    BY <1>0, <1>2, <1>3, <2>3, <2>4, <2>5 DEF PlanFits
  <2> QED BY <2>1, <2>6 DEF W
<1> QED BY <1>5, <1>6 DEF W

LEMMA LostFits ==
    ASSUME NEW l, NEW obs, LookedAt(l, obs), NEW short \in Nat, NEW lag,
           obs.readable, short = 0 => obs.net = 0,
           NEW lost, lost = Read(l, obs, "absent"), lost # {},
           Read(l, obs, "failed") = {}, Read(l, obs, "live") = {}
    PROVE  PlanFits(l, obs, PlanLost(WithEnded(l, obs), obs, lost, short, lag))
<1> DEFINE W == WithEnded(l, obs)
<1>1. CASE short = 0
  BY <1>1, MootFits DEF PlanLost
<1>2. CASE short # 0 /\ Resend
  BY <1>2, ResendFits DEF PlanLost
<1>3. CASE short # 0 /\ ~Resend /\ Unproven(W, obs, lost) # {}
  <2>1. PlanLost(W, obs, lost, short, lag) = Plan("WAIT", "unproven", W)
    BY <1>3 DEF PlanLost
  <2>2. "unproven" \in Words
    BY DEF Words
  <2> QED BY <2>1, <2>2, HoldingFits
<1>4. CASE short # 0 /\ ~Resend /\ Unproven(W, obs, lost) = {}
  <2>1. PlanLost(W, obs, lost, short, lag) = PlanRest(Marked(W, lost, "NEVER_SENT"), short, lag)
    BY <1>4 DEF PlanLost
  <2>2. lost \subseteq obs.proven
    BY <1>4 DEF Unproven
  <2> HIDE DEF W
  <2>3. PlanFits(l, obs, PlanRest(Marked(W, lost, "NEVER_SENT"), short, lag))
    BY <1>4, <2>2, GoingOnFits DEF W
  <2> QED BY <2>1, <2>3 DEF W
<1> QED BY <1>1, <1>2, <1>3, <1>4

LEMMA StepFits ==
    ASSUME NEW l, NEW obs, LookedAt(l, obs), NEW lag, obs.readable \in BOOLEAN
    PROVE  PlanFits(l, obs, PlanStep(l, obs, lag))
<1> DEFINE short == IF obs.net < 0 THEN -obs.net ELSE 0
           lost == Read(l, obs, "absent")
           W == WithEnded(l, obs)
<1>0. short \in Nat
  BY DEF LookedAt
<1>1. CASE ~obs.readable
  <2>1. PlanStep(l, obs, lag) = Plan("WAIT", "unreadable", l)
    BY <1>1 DEF PlanStep
  <2>2. "unreadable" \in Words
    BY DEF Words
  <2> QED BY <2>1, <2>2, HoldingFits
<1>2. CASE obs.readable /\ obs.net > 0
  <2>1. PlanStep(l, obs, lag) = Plan("HALT", "net_long", l)
    BY <1>2 DEF PlanStep
  <2>2. "net_long" \in Words
    BY DEF Words
  <2> QED BY <2>1, <2>2, HoldingFits
<1>3. CASE obs.readable /\ ~(obs.net > 0) /\ Read(l, obs, "failed") # {}
  <2>1. PlanStep(l, obs, lag) = Plan("WAIT", "order_unreadable", l)
    BY <1>3 DEF PlanStep
  <2>2. "order_unreadable" \in Words
    BY DEF Words
  <2> QED BY <2>1, <2>2, HoldingFits
<1>4. CASE /\ obs.readable /\ ~(obs.net > 0) /\ Read(l, obs, "failed") = {}
           /\ Read(l, obs, "live") # {}
  <2>1. PlanStep(l, obs, lag) = Plan("WAIT", "live", W)
    BY <1>4 DEF PlanStep
  <2>2. "live" \in Words
    BY DEF Words
  <2> QED BY <2>1, <2>2, HoldingFits
<1>5. CASE /\ obs.readable /\ ~(obs.net > 0) /\ Read(l, obs, "failed") = {}
           /\ Read(l, obs, "live") = {}
  <2>0. short = 0 => obs.net = 0
    BY <1>5 DEF LookedAt
  <2>1. CASE lost # {}
    <3>1. PlanStep(l, obs, lag) = PlanLost(W, obs, lost, short, lag)
      BY <1>5, <2>1 DEF PlanStep
    <3> HIDE DEF short, lost, W
    <3>2. PlanFits(l, obs, PlanLost(W, obs, lost, short, lag))
      BY <1>0, <1>5, <2>0, <2>1, LostFits DEF lost, W
    <3> QED BY <3>1, <3>2
  <2>2. CASE lost = {}
    <3>1. PlanStep(l, obs, lag) = PlanRest(W, short, lag)
      BY <1>5, <2>2 DEF PlanStep
    <3> HIDE DEF short, lost, W
    <3>2. PlanFits(l, obs, PlanRest(W, short, lag))
      BY <1>0, <1>5, <2>0, <2>2, GoingOnFits DEF lost, W
    <3> QED BY <3>1, <3>2
  <2> QED BY <2>1, <2>2
<1> QED BY <1>1, <1>2, <1>3, <1>4, <1>5

LEMMA CloseFits ==
    ASSUME NEW l, NEW obs, LookedAt(l, obs), obs.readable \in BOOLEAN, NEW waits, NEW lag
    PROVE  PlanFits(l, obs, PlanClose(l, obs, waits, lag))
<1> DEFINE p == PlanStep(l, obs, lag)
<1>1. PlanFits(l, obs, p)
  BY StepFits
<1> HIDE DEF p
<1>2. CASE p.act = "WAIT" /\ waits >= MaxWaits
  <2> DEFINE q == Plan("HALT", "waited", p.log)
  <2>1. PlanClose(l, obs, waits, lag) = q
    BY <1>2 DEF PlanClose, p
  <2>2. "HALT" \in Words /\ "waited" \in Words /\ p.log \in Seq(Attempts)
    BY <1>1 DEF Words, PlanFits, Plans
  <2>3. q \in Plans /\ q.act = "HALT" /\ q.log = p.log
    BY <2>2, PlanIsPlan
  <2> HIDE DEF q
  <2>4. ASSUME NEW n \in DOMAIN l, l[n].state \notin Resolutions PROVE RowFits(l, obs, q, n)
    <3>1. RowFits(l, obs, p, n)
      BY <1>1, <2>4 DEF PlanFits
    <3> QED BY <1>2, <2>3, <3>1 DEF RowFits
  <2>5. PlanFits(l, obs, q)
    BY <1>1, <2>3, <2>4 DEF PlanFits
  <2> QED BY <2>1, <2>5
<1>3. CASE ~(p.act = "WAIT" /\ waits >= MaxWaits)
  <2>1. PlanClose(l, obs, waits, lag) = p
    BY <1>3 DEF PlanClose, p
  <2> QED BY <1>1, <2>1
<1> QED BY <1>2, <1>3

-------------------------------------------------------------------------------
(***************************************************************************)
(* What is kept by leaving its variables alone.                            *)
(***************************************************************************)
LEMMA VenueKept ==
    ASSUME VenueShape, OrdersAreSound, UNCHANGED venue
    PROVE  VenueShape' /\ OrdersAreSound'
BY DEF VenueShape, OrdersAreSound

LEMMA RowsKept ==
    ASSUME LogShape, RowsAreHonest, RowsAreTimely, EarlierAreOver, UNCHANGED <<log, venue>>
    PROVE  LogShape' /\ RowsAreHonest' /\ RowsAreTimely' /\ EarlierAreOver'
<1>1. LogShape'
  BY DEF LogShape
<1>2. RowsAreHonest'
  BY DEF RowsAreHonest
<1>3. RowsAreTimely'
  BY DEF RowsAreTimely, Unresolved
<1>4. EarlierAreOver'
  BY DEF EarlierAreOver
<1> QED BY <1>1, <1>2, <1>3, <1>4

LEMMA UntouchedKept ==
    ASSUME BooksShape, Untouched, UNCHANGED <<log, venue, ledger, booked>>
    PROVE  BooksShape' /\ Untouched'
BY DEF BooksShape, Untouched

LEMMA CloseKept ==
    ASSUME StateShape, ClosedIsSettled, UNCHANGED <<state, log>>
    PROVE  StateShape' /\ ClosedIsSettled'
BY DEF StateShape, ClosedIsSettled, Unresolved

LEMMA StepKept ==
    ASSUME ExecShape, OpenWhileStepping, SendsTheLast, UNCHANGED <<exec, state, log>>
    PROVE  ExecShape' /\ OpenWhileStepping' /\ SendsTheLast'
<1>1. ExecShape'
  BY DEF ExecShape
<1>2. OpenWhileStepping'
  BY DEF OpenWhileStepping, InStep
<1>3. SendsTheLast'
  BY DEF SendsTheLast, Sender, Unresolved
<1> QED BY <1>1, <1>2, <1>3

\* A process at rest has no plan and no order to answer for.
LEMMA AtRest ==
    ASSUME exec' \in {Ready, [Ready EXCEPT !.pc = "stopped"], [Ready EXCEPT !.pc = "follow"]}
    PROVE  /\ exec.pc' \in {"idle", "stopped", "follow"} /\ ~InStep' /\ ~Sender'
           /\ ExecShape' /\ PlanHolds' /\ SendsTheLast'
<1>1. exec.pc' \in {"idle", "stopped", "follow"}
  BY DEF Ready
<1>2. ~InStep' /\ ~Sender' /\ PlanHolds' /\ SendsTheLast'
  BY <1>1 DEF InStep, Sender, PlanHolds, SendsTheLast, At
<1>3. ExecShape'
  <2>1. << >> \in Seq(Attempts)
    OBVIOUS
  <2>2. NoPlan \in Plans
    BY <2>1 DEF NoPlan, Plan, Plans, Words
  <2>3. Unread \in [readable : BOOLEAN, net : Int]
    BY DEF Unread
  <2> DEFINE Reads == [readable : BOOLEAN, net : Int]
             Places == {"idle", "orders", "commit", "send", "await", "resume", "booked",
                        "follow", "stopped"}
  <2>4. \E pc \in {"idle", "stopped", "follow"} :
           exec' = [pc |-> pc, follow |-> FALSE, net |-> Unread, plan |-> NoPlan]
    BY DEF Ready
  <2>5. {"idle", "stopped", "follow"} \subseteq Places
    OBVIOUS
  <2> HIDE DEF Reads, Places
  <2>6. exec' \in [pc : Places, follow : BOOLEAN, net : Reads, plan : Plans]
    BY <2>2, <2>3, <2>4, <2>5 DEF Reads
  <2> QED BY <2>6 DEF ExecShape, Reads, Places
<1> QED BY <1>1, <1>2, <1>3

\* A step that ends, or a process that stops or restarts, with nothing else changed.
LEMMA EndOfStep ==
    ASSUME CloseInv, UNCHANGED <<log, state, ledger, venue, pos, others>>,
           exec' \in {Ready, [Ready EXCEPT !.pc = "stopped"]},
           UNCHANGED booked \/ booked' = [n \in Numbers |-> 0]
    PROVE  CloseInv'
<1>1. /\ exec.pc' \in {"idle", "stopped", "follow"} /\ ~InStep' /\ ~Sender'
      /\ ExecShape' /\ PlanHolds' /\ SendsTheLast' /\ exec.pc' # "follow"
  <2>1. exec.pc' # "follow"
    BY DEF Ready
  <2> QED BY <2>1, AtRest
<1>2. VenueShape' /\ OrdersAreSound' /\ LogShape' /\ RowsAreHonest' /\ RowsAreTimely'
      /\ EarlierAreOver' /\ StateShape' /\ ClosedIsSettled'
  BY VenueKept, RowsKept, CloseKept DEF CloseInv, Shape
<1>3. BooksShape' /\ Untouched'
  BY DEF CloseInv, Shape, BooksShape, Untouched
<1>4. PosShape'
  BY DEF CloseInv, Shape, PosShape
<1>5. OpenWhileStepping'
  BY <1>1 DEF CloseInv, OpenWhileStepping
<1>6. SentOnce'
  <2>1. \A n \in Numbers : ledger[n] \in Nat
    BY DEF CloseInv, Shape, BooksShape
  <2> QED BY <1>1, <2>1 DEF CloseInv, SentOnce, At
<1>7. Shrinking'
  BY <1>1 DEF CloseInv, Shrinking, At
<1> QED BY <1>1, <1>2, <1>3, <1>4, <1>5, <1>6, <1>7 DEF CloseInv, Shape

-------------------------------------------------------------------------------
(***************************************************************************)
(* The venue moves.                                                        *)
(***************************************************************************)
\* How an order changes by itself: never from nothing, never once it has ended, and
\* in time.
Moves(a, b) ==
    /\ a.st \notin Nowhere
    /\ a.st \in Finals => b.st = a.st /\ b.cum = a.cum
    /\ a.cum <= b.cum
    /\ b.st \in Working => a.st \in Working
    /\ \A row \in Attempts : Timely(row, a) => Timely(row, b)

LEMMA HonestMoves ==
    ASSUME NEW row, NEW a, NEW b, Moves(a, b), Honest(row, a)
    PROVE  Honest(row, b)
BY DEF Moves, Honest, Nowhere

LEMMA MoveKeeps ==
    ASSUME CloseInv, NEW n \in Numbers, NEW o \in Orders, Sound(o), Moves(venue[n], o),
           venue' = [venue EXCEPT ![n] = o],
           UNCHANGED <<log, state, exec, booked, ledger, others>>, PosShape', Shrinking'
    PROVE  CloseInv'
<1>0. /\ venue'[n] = o /\ \A m \in Numbers : m # n => venue'[m] = venue[m]
      /\ venue[n].st # "none" /\ Numbers = 1..MaxAttempts
  BY DEF CloseInv, Shape, VenueShape, Moves, Nowhere, Numbers
<1>1. VenueShape' /\ OrdersAreSound'
  BY <1>0 DEF CloseInv, Shape, VenueShape, OrdersAreSound
<1>2. LogShape' /\ StateShape' /\ ClosedIsSettled'
  BY CloseKept DEF CloseInv, Shape, LogShape
<1>3. ExecShape' /\ OpenWhileStepping' /\ SendsTheLast'
  BY StepKept DEF CloseInv, Shape
<1>4. BooksShape' /\ Untouched'
  <2>1. ~(n > Len(log))
    BY <1>0 DEF CloseInv, Untouched, NoOrder
  <2> QED BY <1>0, <2>1 DEF CloseInv, Shape, BooksShape, Untouched
<1>5. \A m \in DOMAIN log : m \in Numbers /\ log[m] \in Attempts
  BY LogIsNumbered, PolicyAssumption DEF CloseInv, Shape, LogShape, Numbers
<1>6. RowsAreHonest'
  <2> SUFFICES ASSUME NEW m \in DOMAIN log PROVE Honest(log[m], venue'[m])
    BY DEF RowsAreHonest
  <2>1. Honest(log[m], venue[m])
    BY DEF CloseInv, RowsAreHonest
  <2> QED BY <1>0, <1>5, <2>1, HonestMoves
<1>7. RowsAreTimely'
  <2> SUFFICES ASSUME NEW m \in Unresolved(log) PROVE Timely(log[m], venue'[m])
    BY DEF RowsAreTimely, Unresolved
  <2>1. m \in DOMAIN log /\ Timely(log[m], venue[m])
    BY DEF CloseInv, RowsAreTimely, Unresolved
  <2> QED BY <1>0, <1>5, <2>1 DEF Moves
<1>8. EarlierAreOver'
  <2> SUFFICES ASSUME NEW m \in DOMAIN log, m < Len(log)
               PROVE  log[m].state \in Resolutions /\ venue'[m].st \notin Working
    BY DEF EarlierAreOver
  <2>1. log[m].state \in Resolutions /\ venue[m].st \notin Working
    BY DEF CloseInv, EarlierAreOver
  <2> QED BY <1>0, <1>5, <2>1 DEF Moves
<1>9. PlanHolds'
  <2>1. ASSUME At("commit"), NEW m \in DOMAIN log
        PROVE  Honest(exec.plan.log[m], venue'[m])
    <3>1. Honest(exec.plan.log[m], venue[m])
      BY <2>1 DEF CloseInv, PlanHolds
    <3> QED BY <1>0, <1>5, <2>1, <3>1, HonestMoves
  <2> QED BY <2>1 DEF CloseInv, PlanHolds, At, Unresolved
<1>10. SentOnce'
  <2>1. ASSUME ~Resend, At("send") PROVE venue'[exec.plan.n].st = "none"
    <3>1. venue[exec.plan.n].st = "none" /\ exec.plan.n \in DOMAIN log
      BY <2>1 DEF CloseInv, SentOnce, SendsTheLast, Sender, At
    <3> QED BY <1>0, <1>5, <3>1
  <2>2. ASSUME ~Resend, NEW m \in Numbers
        PROVE  booked[m] <= ledger[m] /\ ledger[m] <= venue'[m].cum
    <3>1. booked[m] <= ledger[m] /\ ledger[m] <= venue[m].cum
      BY <2>2 DEF CloseInv, SentOnce
    <3>2. ledger[m] \in Nat /\ venue[m].cum \in Nat /\ venue'[m].cum \in Nat
      BY <1>1 DEF CloseInv, Shape, BooksShape, VenueShape, Orders
    <3>3. venue[m].cum <= venue'[m].cum
      BY <1>0, <3>2 DEF Moves
    <3> QED BY <3>1, <3>2, <3>3
  <2> QED BY <2>1, <2>2 DEF CloseInv, SentOnce, At
<1> QED BY <1>1, <1>2, <1>3, <1>4, <1>6, <1>7, <1>8, <1>9, <1>10 DEF CloseInv, Shape

LEMMA PosKept ==
    ASSUME CloseInv, UNCHANGED <<state, exec, pos, others>>
    PROVE  PosShape' /\ Shrinking'
BY DEF CloseInv, Shape, PosShape, Shrinking, At

LEMMA LandKeeps == ASSUME CloseInv, NEW n \in Numbers, Land(n) PROVE CloseInv'
<1>1. venue[n] \in Orders /\ Sound(venue[n]) /\ venue[n].st = "flying"
  BY DEF CloseInv, Shape, VenueShape, OrdersAreSound, Land
<1>2. PICK st \in {"live", "refused", "lost"}, seen \in BOOLEAN :
         /\ venue' = [venue EXCEPT ![n] = [@ EXCEPT !.st = st, !.seen = seen]]
         /\ st # "live" => seen = FALSE
  <2>1. CASE \E seen \in BOOLEAN : venue' = [venue EXCEPT ![n].st = "live", ![n].seen = seen]
    <3>1. PICK seen \in BOOLEAN : venue' = [venue EXCEPT ![n].st = "live", ![n].seen = seen]
      BY <2>1
    <3>2. venue' = [venue EXCEPT ![n] = [@ EXCEPT !.st = "live", !.seen = seen]]
      BY <3>1 DEF CloseInv, Shape, VenueShape
    <3> QED BY <3>2
  <2>2. CASE \E st \in {"refused", "lost"} : venue' = [venue EXCEPT ![n].st = st]
    <3>1. PICK st \in {"refused", "lost"} : venue' = [venue EXCEPT ![n].st = st]
      BY <2>2
    <3>2. venue[n].seen = FALSE
      BY <1>1 DEF Sound, Orders
    <3>3. venue' = [venue EXCEPT ![n] = [@ EXCEPT !.st = st, !.seen = FALSE]]
      BY <1>1, <3>1, <3>2 DEF CloseInv, Shape, VenueShape, Orders
    <3> QED BY <3>3
  <2> QED BY <2>1, <2>2 DEF Land
<1> DEFINE o == [venue[n] EXCEPT !.st = st, !.seen = seen]
<1>3. o \in Orders
  BY <1>1, <1>2 DEF Orders
<1>4. /\ o.st = st /\ o.seen = seen /\ o.cum = venue[n].cum /\ o.dark = venue[n].dark
      /\ o.flight = venue[n].flight /\ venue[n].dark \in Nat /\ venue[n].flight \in Nat
      /\ venue[n].cum \in Nat
  BY <1>1 DEF Orders
<1>5. venue' = [venue EXCEPT ![n] = o]
  BY <1>2
<1> HIDE DEF o
<1>6. Sound(o)
  BY <1>1, <1>2, <1>4 DEF Sound, Nowhere, Finals
<1>7. Moves(venue[n], o)
  <2>1. ASSUME NEW row \in Attempts, Timely(row, venue[n]) PROVE Timely(row, o)
    BY <1>1, <1>2, <1>4, <2>1, CloseAssumption DEF Timely, Sound, Finals, Attempts
  <2> QED BY <1>1, <1>2, <1>4, <2>1 DEF Moves, Nowhere, Finals, Working
<1> QED BY <1>3, <1>5, <1>6, <1>7, MoveKeeps, PosKept DEF Land, Executor

LEMMA FillKeeps == ASSUME CloseInv, NEW n \in Numbers, Fill(n) PROVE CloseInv'
<1>1. venue[n] \in Orders /\ Sound(venue[n]) /\ venue[n].st = "live" /\ pos.net < 0
  BY DEF CloseInv, Shape, VenueShape, OrdersAreSound, Fill
<1> DEFINE st == IF venue[n].cum + 1 = venue[n].qty THEN "Filled" ELSE venue[n].st
           o == [venue[n] EXCEPT !.cum = venue[n].cum + 1, !.st = st]
<1>2. st \in {"live", "Filled"} /\ venue[n].cum + 1 \in Nat
  BY <1>1 DEF Orders
<1>3. venue' = [venue EXCEPT ![n] = o]
  BY <1>1 DEF CloseInv, Shape, VenueShape, Fill, Orders
<1> HIDE DEF st
<1>4. o \in Orders
  BY <1>1, <1>2 DEF Orders, Finals
<1>5. /\ o.st = st /\ o.seen = venue[n].seen /\ o.cum = venue[n].cum + 1
      /\ o.dark = venue[n].dark /\ o.flight = venue[n].flight /\ venue[n].cum \in Nat
      /\ venue[n].dark \in Nat
  BY <1>1 DEF Orders
<1> HIDE DEF o
<1>6. Sound(o)
  BY <1>1, <1>2, <1>5 DEF Sound, Nowhere, Finals
<1>7. Moves(venue[n], o)
  <2>1. ASSUME NEW row \in Attempts, Timely(row, venue[n]) PROVE Timely(row, o)
    BY <1>1, <1>2, <1>5, <2>1 DEF Timely, Finals
  <2> QED BY <1>1, <1>2, <1>5, <2>1 DEF Moves, Nowhere, Finals, Working
<1>8. pos \in [net : Int, view : Int] /\ pos' = [pos EXCEPT !.net = pos.net + 1]
  BY DEF CloseInv, Shape, PosShape, Fill
<1>9. PosShape'
  BY <1>8 DEF PosShape, CloseInv, Shape, Fill
<1>10. Shrinking'
  <2>1. pos'.net = pos.net + 1 /\ pos'.view = pos.view /\ pos.net \in Int /\ pos.view \in Int
    BY <1>8
  <2>2. exec.net.net \in Int
    BY DEF CloseInv, Shape, ExecShape
  <2> QED BY <1>1, <2>1, <2>2 DEF CloseInv, Shrinking, At, Fill, Executor
<1> QED BY <1>3, <1>4, <1>6, <1>7, <1>9, <1>10, MoveKeeps DEF Fill, Executor

LEMMA EndKeeps == ASSUME CloseInv, NEW n \in Numbers, End(n) PROVE CloseInv'
<1>1. venue[n] \in Orders /\ Sound(venue[n]) /\ venue[n].st = "live"
  BY DEF CloseInv, Shape, VenueShape, OrdersAreSound, End
<1>2. PICK how \in {"Cancelled", "Rejected"} : venue' = [venue EXCEPT ![n].st = how]
  BY DEF End
<1> DEFINE o == [venue[n] EXCEPT !.st = how]
<1>3. venue' = [venue EXCEPT ![n] = o]
  BY <1>2 DEF CloseInv, Shape, VenueShape
<1>4. o \in Orders
  BY <1>1 DEF Orders, Finals
<1>5. /\ o.st = how /\ o.seen = venue[n].seen /\ o.cum = venue[n].cum
      /\ o.dark = venue[n].dark /\ o.flight = venue[n].flight /\ venue[n].cum \in Nat
  BY <1>1 DEF Orders
<1> HIDE DEF o
<1>6. Sound(o)
  BY <1>1, <1>5 DEF Sound, Nowhere, Finals
<1>7. Moves(venue[n], o)
  <2>1. ASSUME NEW row \in Attempts, Timely(row, venue[n]) PROVE Timely(row, o)
    BY <1>1, <1>5, <2>1 DEF Timely, Finals
  <2> QED BY <1>1, <1>5, <2>1 DEF Moves, Nowhere, Finals, Working
<1> QED BY <1>3, <1>4, <1>6, <1>7, MoveKeeps, PosKept DEF End, Executor

LEMMA ShowKeeps == ASSUME CloseInv, NEW n \in Numbers, Show(n) PROVE CloseInv'
<1>1. venue[n] \in Orders /\ Sound(venue[n]) /\ venue[n].st \in Finals \cup {"live"}
  BY DEF CloseInv, Shape, VenueShape, OrdersAreSound, Show, Hidden
<1> DEFINE o == [venue[n] EXCEPT !.seen = TRUE, !.dark = 0]
<1>3. venue' = [venue EXCEPT ![n] = o]
  BY DEF CloseInv, Shape, VenueShape, Show
<1>4. o \in Orders
  BY <1>1 DEF Orders
<1>5. /\ o.st = venue[n].st /\ o.seen = TRUE /\ o.cum = venue[n].cum
      /\ o.dark = 0 /\ o.flight = venue[n].flight /\ venue[n].cum \in Nat
  BY <1>1 DEF Orders
<1> HIDE DEF o
<1>6. Sound(o)
  BY <1>1, <1>5, CloseAssumption DEF Sound, Nowhere, Finals
<1>7. Moves(venue[n], o)
  <2>1. ASSUME NEW row \in Attempts, Timely(row, venue[n]) PROVE Timely(row, o)
    BY <1>1, <1>5, <2>1 DEF Timely, Finals
  <2> QED BY <1>1, <1>5, <2>1 DEF Moves, Nowhere, Finals, Working
<1> QED BY <1>3, <1>4, <1>6, <1>7, MoveKeeps, PosKept DEF Show, Executor

\* Only the position, or what a read of it shows, changes.
LEMMA PosMoveKeeps ==
    ASSUME CloseInv, UNCHANGED <<log, state, exec, booked, ledger, venue>>, PosShape', Shrinking'
    PROVE  CloseInv'
<1>1. VenueShape' /\ OrdersAreSound' /\ LogShape' /\ RowsAreHonest' /\ RowsAreTimely'
      /\ EarlierAreOver' /\ StateShape' /\ ClosedIsSettled'
  BY VenueKept, RowsKept, CloseKept DEF CloseInv, Shape
<1>2. BooksShape' /\ Untouched' /\ ExecShape' /\ OpenWhileStepping' /\ SendsTheLast'
  BY UntouchedKept, StepKept DEF CloseInv, Shape
<1>3. PlanHolds'
  BY DEF CloseInv, PlanHolds, At, Unresolved
<1>4. SentOnce'
  BY DEF CloseInv, SentOnce, At
<1> QED BY <1>1, <1>2, <1>3, <1>4 DEF CloseInv, Shape

LEMMA CatchUpKeeps == ASSUME CloseInv, CatchUp PROVE CloseInv'
<1>1. pos \in [net : Int, view : Int] /\ pos' = [pos EXCEPT !.view = pos.net]
  BY DEF CloseInv, Shape, PosShape, CatchUp
<1>2. pos'.net = pos.net /\ pos'.view = pos.net /\ pos' \in [net : Int, view : Int]
      /\ pos.net \in Int
  BY <1>1
<1>3. PosShape'
  BY <1>2 DEF PosShape, CloseInv, Shape, CatchUp
<1>4. Shrinking'
  BY <1>2 DEF CloseInv, Shrinking, At, CatchUp, Executor
<1> QED BY <1>3, <1>4, PosMoveKeeps DEF CatchUp, Executor

LEMMA MeddleKeeps == ASSUME CloseInv, Meddle PROVE CloseInv'
<1>1. PICK d \in {-1, 1} : others' = d /\ pos' = [pos EXCEPT !.net = pos.net + d]
  BY DEF Meddle, CloseInv, Shape, PosShape
<1>2. PosShape'
  BY <1>1 DEF PosShape, CloseInv, Shape
<1>3. Shrinking'
  <2>1. others' # 0
    BY <1>1
  <2> QED BY <2>1 DEF Shrinking
<1> QED BY <1>2, <1>3, PosMoveKeeps DEF Meddle, Executor

-------------------------------------------------------------------------------
(***************************************************************************)
(* Time passes: open attempts grow older, and so do requests on their way  *)
(* and orders that are hidden.                                             *)
(***************************************************************************)
\* What a tick makes of an order.
Older(o) ==
    IF o.st \in Finals \cup {"live"} /\ ~o.seen THEN [o EXCEPT !.dark = @ + 1] ELSE Flown(o)

LEMMA OlderOrder ==
    ASSUME NEW o \in Orders, Sound(o), o.st \in Finals \cup {"live"} /\ ~o.seen => o.dark < Lag
    PROVE  LET b == Older(o)
           IN /\ b \in Orders /\ Sound(b) /\ b.cum = o.cum
              /\ o.st # "flying" => b.st = o.st
              /\ o.st = "flying" => b.st \in {"flying", "lost"}
              /\ o.st = "none" => b = o
              /\ b.st = "flying" => b.flight = o.flight + 1
              /\ b.st \in Finals \cup {"live"} /\ ~b.seen =>
                    o.st \in Finals \cup {"live"} /\ ~o.seen /\ b.dark = o.dark + 1
<1>0. /\ o.cum \in Nat /\ o.dark \in Nat /\ o.flight \in Nat /\ o.seen \in BOOLEAN
      /\ o.st \in {"none", "flying", "lost", "refused", "live"} \cup Finals
      /\ LandBy \in Nat /\ Lag \in Nat
  BY CloseAssumption DEF Orders
<1>1. CASE o.st \in Finals \cup {"live"} /\ ~o.seen
  <2> DEFINE b == [o EXCEPT !.dark = o.dark + 1]
  <2>1. Older(o) = b
    BY <1>1 DEF Older
  <2>2. b \in Orders
    BY <1>0 DEF Orders
  <2>3. b.st = o.st /\ b.cum = o.cum /\ b.seen = o.seen /\ b.dark = o.dark + 1
    BY DEF Orders
  <2> HIDE DEF b
  <2>4. Sound(b)
    BY <1>0, <1>1, <2>3 DEF Sound, Nowhere, Finals
  <2> QED BY <1>1, <2>1, <2>2, <2>3, <2>4 DEF Finals
<1>2. CASE o.st = "flying" /\ o.flight + 1 = LandBy
  <2> DEFINE b == [o EXCEPT !.st = "lost", !.flight = 0]
  <2>1. Older(o) = b
    BY <1>2 DEF Older, Flown, Finals
  <2>2. b \in Orders
    BY <1>0 DEF Orders
  <2>3. b.st = "lost" /\ b.cum = o.cum /\ b.seen = o.seen /\ b.dark = o.dark
    BY DEF Orders
  <2> HIDE DEF b
  <2>4. Sound(b)
    BY <1>0, <1>2, <2>3 DEF Sound, Nowhere, Finals
  <2> QED BY <1>2, <2>1, <2>2, <2>3, <2>4 DEF Finals
<1>3. CASE o.st = "flying" /\ o.flight + 1 # LandBy
  <2> DEFINE b == [o EXCEPT !.flight = o.flight + 1]
  <2>1. Older(o) = b
    BY <1>3 DEF Older, Flown, Finals
  <2>2. b \in Orders
    BY <1>0 DEF Orders
  <2>3. /\ b.st = "flying" /\ b.cum = o.cum /\ b.seen = o.seen /\ b.dark = o.dark
        /\ b.flight = o.flight + 1
    BY <1>3 DEF Orders
  <2> HIDE DEF b
  <2>4. b.flight < LandBy
    BY <1>0, <1>3, <2>3 DEF Sound
  <2>5. Sound(b)
    BY <1>0, <1>3, <2>3, <2>4 DEF Sound, Nowhere, Finals
  <2> QED BY <1>3, <2>1, <2>2, <2>3, <2>5 DEF Finals
<1>4. CASE o.st # "flying" /\ ~(o.st \in Finals \cup {"live"} /\ ~o.seen)
  <2>1. Older(o) = o
    BY <1>4 DEF Older, Flown
  <2> QED BY <1>4, <2>1
<1> QED BY <1>1, <1>2, <1>3, <1>4

LEMMA TickKeeps == ASSUME CloseInv, Tick PROVE CloseInv'
<1>0. /\ log \in Seq(Attempts) /\ Len(log) \in Nat /\ Len(log) <= MaxAttempts
      /\ DOMAIN log = 1..Len(log) /\ Numbers = 1..MaxAttempts /\ MaxAttempts \in Nat
      /\ \A n \in DOMAIN log : log[n] \in Attempts /\ n \in Numbers
  BY LogIsNumbered, PolicyAssumption DEF CloseInv, Shape, LogShape, Numbers
<1>1. /\ log' = [n \in DOMAIN log |-> log'[n]] /\ DOMAIN log' = DOMAIN log
      /\ \A n \in DOMAIN log :
            log'[n] = log[n] \/ log'[n] = [log[n] EXCEPT !.age = log[n].age + 1]
      /\ \A n \in DOMAIN log : log[n].state \in Resolutions => log'[n] = log[n]
  BY DEF Tick, Unresolved
<1>2. \A n \in DOMAIN log :
         /\ log'[n] \in Attempts /\ log'[n].state = log[n].state
         /\ log'[n].filled = log[n].filled /\ log'[n].age <= log[n].age + 1
  <2> SUFFICES ASSUME NEW n \in DOMAIN log
               PROVE  /\ log'[n] \in Attempts /\ log'[n].state = log[n].state
                      /\ log'[n].filled = log[n].filled /\ log'[n].age <= log[n].age + 1
    OBVIOUS
  <2>1. log[n] \in Attempts /\ log[n].age \in Nat
    BY <1>0 DEF Attempts
  <2>2. CASE log'[n] = log[n]
    BY <2>1, <2>2
  <2>3. CASE log'[n] = [log[n] EXCEPT !.age = log[n].age + 1]
    BY <2>1, <2>3 DEF Attempts
  <2> QED BY <1>1, <2>2, <2>3
<1>3. LogShape' /\ Len(log') = Len(log)
  <2>1. log' \in Seq(Attempts) /\ Len(log') = Len(log)
    BY <1>0, <1>1, <1>2, SeqOf
  <2> QED BY <1>0, <2>1 DEF LogShape
<1>4. Unresolved(log') = Unresolved(log)
  BY <1>1, <1>2 DEF Unresolved
<1>5. \A n \in Numbers : venue[n] \in Orders /\ Sound(venue[n]) /\ venue'[n] = Older(venue[n])
  <2> SUFFICES ASSUME NEW n \in Numbers
               PROVE  venue[n] \in Orders /\ Sound(venue[n]) /\ venue'[n] = Older(venue[n])
    OBVIOUS
  <2>1. venue'[n] = Older(venue[n])
    BY DEF Tick, Older, Hidden
  <2> QED BY <2>1 DEF CloseInv, Shape, VenueShape, OrdersAreSound
<1>6. \A n \in Numbers :
         /\ venue'[n] \in Orders /\ Sound(venue'[n]) /\ venue'[n].cum = venue[n].cum
         /\ venue[n].st # "flying" => venue'[n].st = venue[n].st
         /\ venue[n].st = "flying" => venue'[n].st \in {"flying", "lost"}
         /\ venue[n].st = "none" => venue'[n] = venue[n]
         /\ venue'[n].st = "flying" => venue'[n].flight = venue[n].flight + 1
         /\ venue'[n].st \in Finals \cup {"live"} /\ ~venue'[n].seen =>
               /\ venue[n].st \in Finals \cup {"live"} /\ ~venue[n].seen
               /\ venue'[n].dark = venue[n].dark + 1
  <2> SUFFICES ASSUME NEW n \in Numbers
               PROVE  /\ venue'[n] \in Orders /\ Sound(venue'[n]) /\ venue'[n].cum = venue[n].cum
                      /\ venue[n].st # "flying" => venue'[n].st = venue[n].st
                      /\ venue[n].st = "flying" => venue'[n].st \in {"flying", "lost"}
                      /\ venue[n].st = "none" => venue'[n] = venue[n]
                      /\ venue'[n].st = "flying" => venue'[n].flight = venue[n].flight + 1
                      /\ venue'[n].st \in Finals \cup {"live"} /\ ~venue'[n].seen =>
                            /\ venue[n].st \in Finals \cup {"live"} /\ ~venue[n].seen
                            /\ venue'[n].dark = venue[n].dark + 1
    OBVIOUS
  <2>1. venue[n].st \in Finals \cup {"live"} /\ ~venue[n].seen => venue[n].dark < Lag
    BY DEF Tick, Hidden
  <2> QED BY <1>5, <2>1, OlderOrder
<1>7. VenueShape' /\ OrdersAreSound'
  <2>1. venue' = [n \in Numbers |-> venue'[n]]
    BY DEF Tick
  <2>2. VenueShape'
    BY <1>6, <2>1 DEF VenueShape
  <2> QED BY <1>6, <2>2 DEF OrdersAreSound
<1>8. BooksShape' /\ Untouched'
  <2> SUFFICES ASSUME NEW n \in Numbers, n > Len(log) PROVE venue'[n] = NoOrder
    BY <1>3 DEF Tick, CloseInv, Shape, BooksShape, Untouched
  <2>1. venue[n] = NoOrder
    BY DEF CloseInv, Untouched
  <2> QED BY <1>6, <2>1 DEF NoOrder
<1>9. ASSUME NEW row, NEW n \in Numbers, Honest(row, venue[n]) PROVE Honest(row, venue'[n])
  <2>1. venue[n].st \in Finals \cup Nowhere => venue'[n].st = venue[n].st
    BY <1>6 DEF Finals, Nowhere
  <2> QED BY <1>6, <1>9, <2>1 DEF Honest
<1>10. RowsAreHonest'
  <2> SUFFICES ASSUME NEW n \in DOMAIN log PROVE Honest(log'[n], venue'[n])
    BY <1>1 DEF RowsAreHonest
  <2>1. Honest(log[n], venue'[n])
    BY <1>0, <1>9 DEF CloseInv, RowsAreHonest
  <2> QED BY <1>2, <2>1 DEF Honest
<1>11. RowsAreTimely'
  <2> SUFFICES ASSUME NEW n \in Unresolved(log) PROVE Timely(log'[n], venue'[n])
    BY <1>4 DEF RowsAreTimely
  <2>1. n \in DOMAIN log /\ n \in Numbers /\ Timely(log[n], venue[n])
    BY <1>0 DEF CloseInv, RowsAreTimely, Unresolved
  <2>2. /\ log[n].age \in Nat /\ log'[n].age \in Nat /\ log'[n].age <= log[n].age + 1
        /\ venue[n].flight \in Nat /\ venue[n].dark \in Nat
        /\ SendBy \in Nat /\ LandBy \in Nat
    BY <1>0, <1>2, <1>5, <2>1, CloseAssumption DEF Attempts, Orders
  <2>3. ASSUME venue'[n].st = "flying" PROVE log'[n].age <= SendBy + venue'[n].flight
    <3>1. venue[n].st = "flying" /\ venue'[n].flight = venue[n].flight + 1
      BY <1>6, <2>1, <2>3
    <3> QED BY <2>1, <2>2, <3>1 DEF Timely
  <2>4. ASSUME venue'[n].st \in Finals \cup {"live"}, ~venue'[n].seen
        PROVE  log'[n].age < SendBy + LandBy + venue'[n].dark
    <3>1. /\ venue[n].st \in Finals \cup {"live"} /\ ~venue[n].seen
          /\ venue'[n].dark = venue[n].dark + 1
      BY <1>6, <2>1, <2>4
    <3> QED BY <2>1, <2>2, <3>1 DEF Timely
  <2> QED BY <2>3, <2>4 DEF Timely
<1>12. EarlierAreOver'
  <2> SUFFICES ASSUME NEW n \in DOMAIN log, n < Len(log)
               PROVE  log'[n].state \in Resolutions /\ venue'[n].st \notin Working
    BY <1>1, <1>3 DEF EarlierAreOver
  <2>1. log[n].state \in Resolutions /\ venue[n].st \notin Working
    BY DEF CloseInv, EarlierAreOver
  <2> QED BY <1>0, <1>2, <1>6, <2>1 DEF Working
<1>13. StateShape' /\ ClosedIsSettled' /\ OpenWhileStepping' /\ ExecShape' /\ SendsTheLast'
  <2>1. StateShape' /\ ExecShape'
    BY DEF Tick, CloseInv, Shape, StateShape, ExecShape
  <2>2. ClosedIsSettled'
    BY <1>4 DEF Tick, CloseInv, ClosedIsSettled
  <2>3. OpenWhileStepping'
    BY <1>1, <1>2 DEF Tick, CloseInv, OpenWhileStepping, InStep
  <2>4. SendsTheLast'
    BY <1>1, <1>3, <1>4 DEF Tick, CloseInv, SendsTheLast, Sender
  <2> QED BY <2>1, <2>2, <2>3, <2>4
<1>14. PlanHolds'
  <2>0. UNCHANGED exec
    BY DEF Tick
  <2>1. ASSUME At("commit"), NEW n \in DOMAIN log
        PROVE  /\ Honest(exec.plan.log[n], venue'[n])
               /\ log'[n].state \in Resolutions => exec.plan.log[n] = log'[n]
    <3>1. Honest(exec.plan.log[n], venue[n])
      BY <2>1 DEF CloseInv, PlanHolds
    <3>2. log[n].state \in Resolutions => exec.plan.log[n] = log[n]
      BY <2>1 DEF CloseInv, PlanHolds
    <3> QED BY <1>0, <1>1, <1>2, <1>9, <3>1, <3>2
  <2> QED BY <1>1, <1>3, <2>0, <2>1 DEF CloseInv, PlanHolds, At
<1>15. SentOnce'
  <2>1. ASSUME ~Resend, At("send") PROVE venue'[exec.plan.n].st = "none"
    <3>1. venue[exec.plan.n].st = "none" /\ exec.plan.n \in DOMAIN log
      BY <2>1 DEF CloseInv, SentOnce, SendsTheLast, Sender, At
    <3> QED BY <1>0, <1>6, <3>1
  <2>2. UNCHANGED <<exec, booked, ledger>>
    BY DEF Tick
  <2> QED BY <1>6, <2>1, <2>2 DEF CloseInv, SentOnce, At
<1>16. PosShape' /\ Shrinking'
  BY PosKept DEF Tick
<1> QED BY <1>3, <1>7, <1>8, <1>10, <1>11, <1>12, <1>13, <1>14, <1>15, <1>16 DEF CloseInv, Shape

LEMMA OutsideKeeps == ASSUME CloseInv, Outside PROVE CloseInv'
BY LandKeeps, FillKeeps, EndKeeps, ShowKeeps, CatchUpKeeps, MeddleKeeps, TickKeeps DEF Outside

LEMMA CrashKeeps == ASSUME CloseInv, Crash PROVE CloseInv'
BY EndOfStep DEF Crash, Durable

-------------------------------------------------------------------------------
(***************************************************************************)
(* A step of the executor: what it looks at, and the plan it makes.        *)
(***************************************************************************)
\* Only the step itself moves on.
LEMMA ExecMoves ==
    ASSUME CloseInv, UNCHANGED <<log, state, booked, ledger, venue, pos, others>>,
           ExecShape', InStep' \/ exec.pc' = "follow" => ~state.closed /\ ~state.halted,
           PlanHolds', SendsTheLast', SentOnce', Shrinking'
    PROVE  CloseInv'
<1>1. VenueShape' /\ OrdersAreSound' /\ LogShape' /\ RowsAreHonest' /\ RowsAreTimely'
      /\ EarlierAreOver' /\ StateShape' /\ ClosedIsSettled'
  BY VenueKept, RowsKept, CloseKept DEF CloseInv, Shape
<1>2. BooksShape' /\ Untouched'
  BY UntouchedKept DEF CloseInv, Shape
<1>3. PosShape'
  BY DEF CloseInv, Shape, PosShape
<1>4. OpenWhileStepping'
  BY DEF CloseInv, OpenWhileStepping
<1> QED BY <1>1, <1>2, <1>3, <1>4 DEF CloseInv, Shape

\* Books and venue as they were: what was said of them stays true where no send is
\* under way.
LEMMA OnceKept ==
    ASSUME CloseInv, UNCHANGED <<booked, ledger, venue>>,
           exec.pc' \notin {"send", "await", "resume"}
    PROVE  SentOnce'
BY DEF CloseInv, SentOnce, At

LEMMA BeginKeeps == ASSUME CloseInv, Begin PROVE CloseInv'
<1>0. UNCHANGED <<log, state, booked, ledger, venue, pos, others>>
      /\ ~state.closed /\ ~state.halted
  BY DEF Begin, Durable, World, Books
<1>1. CASE Stop
  BY <1>0, <1>1, EndOfStep DEF Stop
<1>2. CASE \E seen \in {Unread, [readable |-> TRUE, net |-> pos.view]} :
             exec' = [exec EXCEPT !.pc = "orders", !.follow = At("follow"), !.net = seen]
  <2>1. PICK seen \in {Unread, [readable |-> TRUE, net |-> pos.view]} :
           exec' = [exec EXCEPT !.pc = "orders", !.follow = At("follow"), !.net = seen]
    BY <1>2
  <2>2. seen \in [readable : BOOLEAN, net : Int]
    <3>1. pos.view \in Int
      BY DEF CloseInv, Shape, PosShape
    <3>2. Unread \in [readable : BOOLEAN, net : Int]
      BY DEF Unread
    <3>3. [readable |-> TRUE, net |-> pos.view] \in [readable : BOOLEAN, net : Int]
      BY <3>1
    <3> QED BY <3>2, <3>3
  <2>a. At("follow") \in BOOLEAN
    BY DEF At
  <2>3. exec'.pc = "orders" /\ exec'.net = seen /\ ExecShape'
    BY <2>1, <2>2, <2>a DEF CloseInv, Shape, ExecShape
  <2>4. PlanHolds' /\ SendsTheLast' /\ ~Sender'
    BY <2>3 DEF PlanHolds, SendsTheLast, Sender, At
  <2>5. SentOnce'
    BY <1>0, <2>3, OnceKept
  <2>6. Shrinking'
    <3>1. seen.readable => seen.net = pos.view
      BY DEF Unread
    <3> QED BY <1>0, <2>3, <3>1 DEF CloseInv, Shrinking, At
  <2> QED BY <1>0, <2>3, <2>4, <2>5, <2>6, ExecMoves
<1> QED BY <1>1, <1>2 DEF Begin

\* At most one attempt is open, the last, and it has filled nothing yet.
LEMMA OneOpen ==
    ASSUME CloseInv
    PROVE  /\ \A n \in Unresolved(log) : n = Len(log) /\ log[n].filled = 0
           /\ \A m, n \in Unresolved(log) : m = n
           /\ DOMAIN log = 1..Len(log) /\ Len(log) \in Nat /\ Len(log) <= MaxAttempts
           /\ \A n \in DOMAIN log : n \in Numbers /\ log[n] \in Attempts
<1>1. /\ DOMAIN log = 1..Len(log) /\ Len(log) \in Nat /\ Len(log) <= MaxAttempts
      /\ \A n \in DOMAIN log : n \in Numbers /\ log[n] \in Attempts
  BY LogIsNumbered, PolicyAssumption DEF CloseInv, Shape, LogShape, Numbers
<1>2. ASSUME NEW n \in Unresolved(log) PROVE n = Len(log) /\ log[n].filled = 0
  <2>1. n \in DOMAIN log /\ log[n].state \notin Resolutions
    BY DEF Unresolved
  <2>2. ~(n < Len(log))
    BY <2>1 DEF CloseInv, EarlierAreOver
  <2>3. log[n].state \notin Ends
    BY <2>1 DEF Ends, Resolutions
  <2>4. log[n].filled = 0
    BY <2>1, <2>3 DEF CloseInv, RowsAreHonest, Honest
  <2> QED BY <1>1, <2>1, <2>2, <2>4
<1> QED BY <1>1, <1>2

\* What one look says of an open attempt, and what follows for its order.
LEMMA LookIsTrue ==
    ASSUME CloseInv, NEW n \in Unresolved(log), NEW s \in Lookups(n)
    PROVE  /\ s.kind \in {"absent", "failed", "live", "ended"} /\ s.cum \in Nat
           /\ s.kind = "ended" => venue[n].st \in Finals /\ s.cum = venue[n].cum
           /\ s.kind = "absent" /\ log[n].age >= ProofAge => venue[n].st \in Nowhere
<1>0. n \in Numbers /\ n \in DOMAIN log /\ log[n] \in Attempts
  BY OneOpen DEF Unresolved
<1>1. venue[n] \in Orders /\ Sound(venue[n]) /\ Timely(log[n], venue[n])
  BY <1>0 DEF CloseInv, Shape, VenueShape, OrdersAreSound, RowsAreTimely
<1>2. /\ venue[n].st \in {"none", "flying", "lost", "refused", "live"} \cup Finals
      /\ venue[n].cum \in Nat /\ venue[n].dark \in Nat /\ venue[n].flight \in Nat
      /\ log[n].age \in Nat
  BY <1>0, <1>1 DEF Orders, Attempts
<1>3. CASE s = Looked("failed", "", 0)
  BY <1>3 DEF Looked
<1>4. CASE s = LookedUp(n) /\ ~venue[n].seen
  <2>1. s.kind = "absent" /\ s.cum = 0
    BY <1>4 DEF LookedUp, Looked
  <2>2. ASSUME log[n].age >= ProofAge PROVE venue[n].st \in Nowhere
    <3>1. venue[n].st # "flying"
      <4>1. SUFFICES ASSUME venue[n].st = "flying" PROVE FALSE
        OBVIOUS
      <4>2. log[n].age <= SendBy + venue[n].flight /\ venue[n].flight < LandBy
        BY <1>1, <4>1 DEF Timely, Sound
      <4> QED BY <1>2, <2>2, <4>2, CloseAssumption DEF ProofAge
    <3>2. venue[n].st \notin Finals \cup {"live"}
      <4>1. SUFFICES ASSUME venue[n].st \in Finals \cup {"live"} PROVE FALSE
        OBVIOUS
      <4>2. log[n].age < SendBy + LandBy + venue[n].dark /\ venue[n].dark <= Lag
        BY <1>1, <1>4, <4>1 DEF Timely, Sound
      <4> QED BY <1>2, <2>2, <4>2, CloseAssumption DEF ProofAge
    <3> QED BY <1>2, <3>1, <3>2 DEF Nowhere
  <2> QED BY <2>1, <2>2
<1>5. CASE s = LookedUp(n) /\ venue[n].seen /\ venue[n].st = "live"
  <2>1. s.kind = "live" /\ s.cum = venue[n].cum
    BY <1>5 DEF LookedUp, Looked
  <2> QED BY <1>2, <2>1
<1>6. CASE s = LookedUp(n) /\ venue[n].seen /\ venue[n].st # "live"
  <2>1. s.kind = "ended" /\ s.cum = venue[n].cum
    BY <1>6 DEF LookedUp, Looked
  <2>2. venue[n].st \in Finals
    BY <1>1, <1>2, <1>6 DEF Sound, Nowhere
  <2> QED BY <1>2, <2>1, <2>2
<1> QED BY <1>3, <1>4, <1>5, <1>6 DEF Lookups

LEMMA LookAtOrdersKeeps == ASSUME CloseInv, LookAtOrders PROVE CloseInv'
<1>0. UNCHANGED <<log, state, booked, ledger, venue, pos, others>> /\ At("orders")
      /\ ~state.closed /\ ~state.halted
  BY DEF LookAtOrders, Durable, World, Books, CloseInv, OpenWhileStepping, InStep, At
<1>1. PICK seen : /\ \A n \in Unresolved(log) : seen[n] \in Lookups(n)
                  /\ DOMAIN seen = Unresolved(log)
                  /\ exec' = [exec EXCEPT
                        !.pc = "commit", !.net = Unread,
                        !.plan = PlanClose(log, Observation(seen), state.waits, state.lag)]
  BY DEF LookAtOrders
<1> DEFINE obs == Observation(seen)
           p == PlanClose(log, obs, state.waits, state.lag)
<1>2. /\ obs.orders = seen /\ obs.readable = exec.net.readable /\ obs.net = exec.net.net
      /\ obs.proven = ProvenAbsent(seen)
  BY DEF Observation
<1>3. exec.net.readable \in BOOLEAN /\ exec.net.net \in Int
  BY DEF CloseInv, Shape, ExecShape
<1> HIDE DEF obs
<1>4. LookedAt(log, obs)
  BY <1>1, <1>2, <1>3, OneOpen, LookIsTrue DEF LookedAt, Looks, CloseInv, Shape, LogShape
<1>5. PlanFits(log, obs, p)
  BY <1>2, <1>3, <1>4, CloseFits
<1>6. exec' = [exec EXCEPT !.pc = "commit", !.net = Unread, !.plan = p]
  BY <1>1 DEF obs
<1> HIDE DEF p
<1>7. p \in Plans /\ DOMAIN p.log = DOMAIN log
  BY <1>5 DEF PlanFits
<1>8. exec'.pc = "commit" /\ exec'.plan = p /\ ExecShape'
  <2>1. Unread \in [readable : BOOLEAN, net : Int]
    BY DEF Unread
  <2> HIDE DEF Unread
  <2> QED BY <1>6, <1>7, <2>1 DEF CloseInv, Shape, ExecShape
<1>9. ASSUME NEW n \in DOMAIN log
      PROVE  /\ Honest(p.log[n], venue[n])
             /\ log[n].state \in Resolutions => p.log[n] = log[n]
             /\ p.log[n].state = "MOOT" => p.act = "NOOP_FLAT"
             /\ p.log[n].state = "NEVER_SENT" => ~Resend
  <2>1. Honest(log[n], venue[n]) /\ log[n].state # "MOOT"
        /\ (log[n].state = "NEVER_SENT" => ~Resend)
    BY <1>0 DEF CloseInv, RowsAreHonest, OpenWhileStepping
  <2>2. CASE log[n].state \in Resolutions
    <3>1. p.log[n] = log[n]
      BY <1>5, <2>2 DEF PlanFits
    <3> QED BY <2>1, <3>1
  <2>3. CASE log[n].state \notin Resolutions
    <3>0. n \in Unresolved(log) /\ seen[n] \in Lookups(n) /\ log[n].filled = 0
      BY <1>1, <2>3, OneOpen DEF Unresolved
    <3>1. RowFits(log, obs, p, n)
      BY <1>5, <2>3 DEF PlanFits
    <3>2. CASE p.log[n] = log[n]
      BY <2>1, <2>3, <3>2
    <3>3. CASE /\ n \in Read(log, obs, "ended")
               /\ p.log[n].state \in Ends /\ p.log[n].filled = obs.orders[n].cum
      <4>1. seen[n].kind = "ended"
        BY <1>2, <3>3 DEF Read
      <4>2. venue[n].st \in Finals /\ p.log[n].filled = venue[n].cum
        BY <1>2, <3>0, <3>3, <4>1, LookIsTrue
      <4> QED BY <2>3, <3>3, <4>2 DEF Honest, Ends
    <3>4. CASE /\ n \in Read(log, obs, "absent") /\ n \in obs.proven /\ ~Resend
               /\ p.log[n].state = "NEVER_SENT" /\ p.log[n].filled = log[n].filled
      <4>1. seen[n].kind = "absent" /\ log[n].age >= ProofAge
        BY <1>2, <3>4 DEF ProvenAbsent
      <4>2. venue[n].st \in Nowhere
        BY <3>0, <4>1, LookIsTrue
      <4> QED BY <2>3, <3>0, <3>4, <4>2 DEF Honest, Ends
    <3>5. CASE /\ n \in Read(log, obs, "absent") /\ p.act = "NOOP_FLAT"
               /\ p.log[n].state = "MOOT" /\ p.log[n].filled = log[n].filled
      BY <2>3, <3>0, <3>5 DEF Honest, Ends
    <3> QED BY <3>1, <3>2, <3>3, <3>4, <3>5 DEF RowFits
  <2> QED BY <2>2, <2>3
<1>10. PlanHolds'
  <2>1. p.act \in {"SEND", "NOOP_FLAT"} => Unresolved(p.log) = {}
    BY <1>5 DEF PlanFits
  <2>2. p.act = "SEND" => Len(log) + 1 <= MaxAttempts /\ p.n = Len(log) + 1
    BY <1>5 DEF PlanFits
  <2>3. p.act = "RESEND" =>
          Resend /\ p.n \in DOMAIN log /\ p.log[p.n].state \notin Resolutions
    BY <1>5 DEF PlanFits
  <2> QED BY <1>0, <1>7, <1>8, <1>9, <2>1, <2>2, <2>3 DEF PlanHolds, At
<1>11. SendsTheLast' /\ ~Sender'
  BY <1>8 DEF SendsTheLast, Sender
<1>12. SentOnce'
  BY <1>0, <1>8, OnceKept
<1>13. Shrinking'
  <2>1. ASSUME others = 0, p.act = "NOOP_FLAT" PROVE pos.net = 0
    <3>1. exec.net.readable /\ exec.net.net = 0
      BY <1>2, <1>5, <2>1 DEF PlanFits
    <3>2. pos.net \in Int
      BY DEF CloseInv, Shape, PosShape
    <3> QED BY <1>0, <2>1, <3>1, <3>2 DEF CloseInv, Shrinking
  <2> QED BY <1>0, <1>8, <2>1 DEF CloseInv, Shrinking, At
<1> QED BY <1>0, <1>8, <1>10, <1>11, <1>12, <1>13, ExecMoves

-------------------------------------------------------------------------------
(***************************************************************************)
(* Committing a plan.                                                      *)
(***************************************************************************)
\* The log with the resolutions of the plan that waits: open exactly where the plan's
\* is, and as true of the venue as it was when the venue was looked at.
LEMMA ResolvedRows ==
    ASSUME CloseInv, At("commit")
    PROVE  LET L == Resolved(exec.plan)
           IN /\ L \in Seq(Attempts) /\ Len(L) = Len(log) /\ DOMAIN L = DOMAIN log
              /\ \A n \in DOMAIN log :
                    /\ Honest(L[n], venue[n])
                    /\ L[n].state \notin Resolutions => L[n] = log[n]
                    /\ exec.plan.log[n].state \in Resolutions => L[n].state \in Resolutions
                    /\ exec.plan.log[n].state \notin Resolutions => L[n] = log[n]
                    /\ log[n].state \in Resolutions => L[n].state \in Resolutions
                    /\ L[n].state = "MOOT" => exec.plan.act = "NOOP_FLAT"
                    /\ L[n].state = "NEVER_SENT" => ~Resend
              /\ exec.plan.act \in {"SEND", "NOOP_FLAT"} => Unresolved(L) = {}
<1> DEFINE p == exec.plan
           L == Resolved(p)
<1>0. /\ log \in Seq(Attempts) /\ p.log \in Seq(Attempts) /\ DOMAIN p.log = DOMAIN log
      /\ InStep
  BY DEF CloseInv, Shape, LogShape, ExecShape, Plans, PlanHolds, InStep, At
<1>1. \A n \in DOMAIN log :
         L[n] = IF p.log[n].state \in Resolutions THEN p.log[n] ELSE log[n]
  BY DEF Resolved
<1>2. L = [n \in DOMAIN log |-> L[n]] /\ DOMAIN L = DOMAIN log
  BY DEF Resolved
<1> HIDE DEF L
<1>3. \A n \in DOMAIN log : L[n] \in Attempts
  BY <1>0, <1>1, LogIsNumbered
<1>4. L \in Seq(Attempts) /\ Len(L) = Len(log)
  BY <1>0, <1>2, <1>3, SeqOf
<1>5. ASSUME NEW n \in DOMAIN log
      PROVE  /\ Honest(L[n], venue[n])
             /\ L[n].state \notin Resolutions => L[n] = log[n]
             /\ p.log[n].state \in Resolutions => L[n].state \in Resolutions
             /\ p.log[n].state \notin Resolutions => L[n] = log[n]
             /\ log[n].state \in Resolutions => L[n].state \in Resolutions
             /\ L[n].state = "MOOT" => p.act = "NOOP_FLAT"
             /\ L[n].state = "NEVER_SENT" => ~Resend
  <2>1. /\ Honest(p.log[n], venue[n])
        /\ log[n].state \in Resolutions => p.log[n] = log[n]
        /\ p.log[n].state = "MOOT" => p.act = "NOOP_FLAT"
        /\ p.log[n].state = "NEVER_SENT" => ~Resend
    BY DEF CloseInv, PlanHolds
  <2>2. Honest(log[n], venue[n])
    BY DEF CloseInv, RowsAreHonest
  <2>3. CASE p.log[n].state \in Resolutions
    <3>1. L[n] = p.log[n]
      BY <1>1, <2>3
    <3> QED BY <2>1, <2>3, <3>1
  <2>4. CASE p.log[n].state \notin Resolutions
    <3>1. L[n] = log[n]
      BY <1>1, <2>4
    <3>2. log[n].state \notin Resolutions
      BY <2>1, <2>4
    <3>3. log[n].state \notin {"MOOT", "NEVER_SENT"}
      BY <3>2 DEF Resolutions
    <3> QED BY <2>2, <2>4, <3>1, <3>2, <3>3
  <2> QED BY <2>3, <2>4
<1>6. p.act \in {"SEND", "NOOP_FLAT"} => Unresolved(L) = {}
  <2>1. p.act \in {"SEND", "NOOP_FLAT"} => Unresolved(p.log) = {}
    BY DEF CloseInv, PlanHolds
  <2> QED BY <1>0, <1>2, <1>5, <2>1 DEF Unresolved
<1> QED BY <1>2, <1>4, <1>5, <1>6 DEF L

LEMMA IntentIsAttempt ==
    ASSUME NEW short \in Nat
    PROVE  /\ Intent(short) \in Attempts /\ Intent(short).state = "INTENT"
           /\ Intent(short).filled = 0 /\ Intent(short).age = 0
BY DEF Intent, Attempts, AttemptStates

\* The log, the venue and the state after the commit, with nothing said of the step.
CommitLeaves ==
    /\ LogShape' /\ RowsAreHonest' /\ RowsAreTimely' /\ EarlierAreOver' /\ Untouched'
    /\ StateShape' /\ ClosedIsSettled'
    /\ \A n \in DOMAIN log' :
          /\ log'[n].state = "MOOT" => state'.closed
          /\ log'[n].state = "NEVER_SENT" /\ Resend => state'.halted

LEMMA CommitState ==
    ASSUME CloseInv, state' = CommittedState(exec.plan)
    PROVE  /\ StateShape' /\ state'.halted = (exec.plan.act = "HALT")
           /\ state'.closed = (exec.plan.act = "NOOP_FLAT")
<1>1. state.waits \in Int /\ state.lag \in Int
  BY DEF CloseInv, Shape, StateShape
<1> DEFINE w == IF exec.plan.act = "WAIT" THEN state.waits + 1 ELSE 0
           g == IF exec.plan.act # "WAIT" THEN 0
                ELSE IF exec.plan.why = "lag" THEN state.lag + 1 ELSE state.lag
           h == exec.plan.act = "HALT"
           c == exec.plan.act = "NOOP_FLAT"
<1>2. w \in Int /\ g \in Int
  BY <1>1
<1>3. h \in BOOLEAN /\ c \in BOOLEAN
  OBVIOUS
<1>4. state' = [waits |-> w, lag |-> g, halted |-> h, closed |-> c]
  BY DEF CommittedState
<1> HIDE DEF w, g, h, c
<1>5. StateShape' /\ state'.halted = h /\ state'.closed = c
  BY <1>2, <1>3, <1>4 DEF StateShape
<1> QED BY <1>5 DEF h, c

LEMMA CommitSends ==
    ASSUME CloseInv, Commit, exec.plan.act = "SEND"
    PROVE  /\ CommitLeaves /\ exec.plan.n = Len(log') /\ exec.plan.n \in Unresolved(log')
           /\ exec.plan.n \in Numbers /\ venue[exec.plan.n] = NoOrder
           /\ ledger[exec.plan.n] = 0
<1> DEFINE p == exec.plan
           L == Resolved(p)
           k == Len(log) + 1
<1>0. /\ At("commit") /\ log' = Append(L, Intent(p.qty)) /\ UNCHANGED <<venue, booked, ledger>>
      /\ state' = CommittedState(p)
  BY DEF Commit, Committed, World, Books
<1>1. /\ L \in Seq(Attempts) /\ Len(L) = Len(log) /\ DOMAIN L = DOMAIN log
      /\ Unresolved(L) = {}
      /\ \A n \in DOMAIN log : Honest(L[n], venue[n]) /\ L[n].state # "MOOT"
                               /\ (L[n].state = "NEVER_SENT" => ~Resend)
  BY <1>0, ResolvedRows
<1> HIDE DEF L
<1>2. /\ Len(log) \in Nat /\ k <= MaxAttempts /\ p.n = k /\ k \in Numbers
      /\ MaxAttempts \in Nat /\ Numbers = 1..MaxAttempts /\ DOMAIN log = 1..Len(log)
  BY <1>0, PolicyAssumption, LogIsNumbered
     DEF CloseInv, Shape, LogShape, PlanHolds, Numbers
<1>3. p.qty \in Nat
  BY DEF CloseInv, Shape, ExecShape, Plans
<1> DEFINE row == Intent(p.qty)
<1>4. row \in Attempts /\ row.state = "INTENT" /\ row.filled = 0 /\ row.age = 0
  BY <1>3, IntentIsAttempt
<1> HIDE DEF row
<1>5. /\ log' \in Seq(Attempts) /\ Len(log') = k /\ DOMAIN log' = 1..k /\ log'[k] = row
      /\ \A n \in DOMAIN log : log'[n] = L[n] /\ L[n] \in Attempts /\ n # k
                               /\ n \in Numbers
      /\ DOMAIN log' = DOMAIN log \cup {k}
  <2>1. log' = Append(L, row)
    BY <1>0 DEF row
  <2> QED BY <1>1, <1>2, <1>4, <2>1, LogIsNumbered
<1>6. venue[k] = NoOrder /\ ledger[k] = 0
  BY <1>2 DEF CloseInv, Untouched
<1>7. LogShape'
  BY <1>2, <1>5 DEF LogShape
<1>8. Unresolved(log') = {k}
  <2>1. row.state \notin Resolutions
    BY <1>4 DEF Resolutions
  <2>2. \A n \in DOMAIN log : log'[n].state \in Resolutions
    BY <1>1, <1>5 DEF Unresolved
  <2> QED BY <1>5, <2>1, <2>2 DEF Unresolved
<1>9. RowsAreHonest'
  <2>1. Honest(row, venue[k])
    BY <1>4 DEF Honest, Ends
  <2>2. \A n \in DOMAIN log : Honest(log'[n], venue[n])
    BY <1>1, <1>5
  <2> QED BY <1>0, <1>5, <2>1, <2>2 DEF RowsAreHonest
<1>10. RowsAreTimely'
  <2>1. Timely(row, venue[k])
    BY <1>6 DEF Timely, NoOrder, Finals
  <2> QED BY <1>0, <1>5, <1>8, <2>1 DEF RowsAreTimely
<1>11. EarlierAreOver'
  <2> SUFFICES ASSUME NEW n \in DOMAIN log'  , n < k
               PROVE  log'[n].state \in Resolutions /\ venue[n].st \notin Working
    BY <1>0, <1>5 DEF EarlierAreOver
  <2>1. n \in DOMAIN log /\ n \notin Unresolved(log')
    BY <1>2, <1>5, <1>8
  <2>2. log'[n].state \in Resolutions /\ log'[n] = L[n]
    BY <1>5, <2>1 DEF Unresolved
  <2>3. /\ Honest(L[n], venue[n]) /\ L[n].state # "MOOT"
        /\ L[n].state = "NEVER_SENT" => ~Resend
    BY <1>1, <2>1
  <2> QED BY <2>2, <2>3 DEF Honest, Resolutions, Ends, Working, Finals, Nowhere
<1>12. Untouched'
  <2>1. \A n \in Numbers : n > k => n > Len(log)
    BY <1>2
  <2> QED BY <1>0, <1>5, <2>1 DEF CloseInv, Untouched
<1>13. StateShape' /\ ~state'.closed /\ ~state'.halted
  BY <1>0, CommitState
<1>14. ClosedIsSettled'
  BY <1>13 DEF ClosedIsSettled
<1>15. \A n \in DOMAIN log' :
          /\ log'[n].state = "MOOT" => state'.closed
          /\ log'[n].state = "NEVER_SENT" /\ Resend => state'.halted
  BY <1>1, <1>4, <1>5
<1> QED BY <1>2, <1>5, <1>6, <1>7, <1>8, <1>9, <1>10, <1>11, <1>12, <1>13, <1>14, <1>15
        DEF CommitLeaves

\* The last row is written over with what is still true of its order and its age.
LEMMA LastRowWritten ==
    ASSUME CloseInv, NEW L \in Seq(Attempts), Len(L) = Len(log), DOMAIN L = DOMAIN log,
           \A n \in DOMAIN log : Honest(L[n], venue[n]),
           \A n \in DOMAIN log : log[n].state \in Resolutions => L[n].state \in Resolutions,
           \A n \in Unresolved(L) : L[n].age <= log[n].age \/ L[n].age = 0,
           log' = L, UNCHANGED <<venue, booked, ledger>>
    PROVE  LogShape' /\ RowsAreHonest' /\ RowsAreTimely' /\ EarlierAreOver' /\ Untouched'
<1>1. LogShape'
  BY DEF CloseInv, Shape, LogShape
<1>2. RowsAreHonest'
  BY DEF RowsAreHonest
<1>3. RowsAreTimely'
  <2> SUFFICES ASSUME NEW n \in Unresolved(L) PROVE Timely(L[n], venue[n])
    BY DEF RowsAreTimely
  <2>1. n \in DOMAIN log /\ n \in Unresolved(log)
    BY DEF Unresolved
  <2>2. Timely(log[n], venue[n]) /\ n \in Numbers /\ log[n] \in Attempts
    BY <2>1, OneOpen DEF CloseInv, RowsAreTimely
  <2>3. L[n].age \in Nat /\ log[n].age \in Nat /\ venue[n].flight \in Nat /\ venue[n].dark \in Nat
    BY <2>1, <2>2, LogIsNumbered DEF Attempts, CloseInv, Shape, VenueShape, Orders
  <2>4. L[n].age <= log[n].age \/ L[n].age = 0
    OBVIOUS
  <2>5. SendBy \in Nat /\ LandBy \in Nat \ {0}
    BY CloseAssumption
  <2>6. ASSUME venue[n].st = "flying" PROVE L[n].age <= SendBy + venue[n].flight
    <3>1. log[n].age <= SendBy + venue[n].flight
      BY <2>2, <2>6 DEF Timely
    <3> QED BY <2>3, <2>4, <2>5, <3>1
  <2>7. ASSUME venue[n].st \in Finals \cup {"live"}, ~venue[n].seen
        PROVE  L[n].age < SendBy + LandBy + venue[n].dark
    <3>1. log[n].age < SendBy + LandBy + venue[n].dark
      BY <2>2, <2>7 DEF Timely
    <3> QED BY <2>3, <2>4, <2>5, <3>1
  <2> QED BY <2>6, <2>7 DEF Timely
<1>4. EarlierAreOver'
  BY DEF CloseInv, EarlierAreOver
<1>5. Untouched'
  BY DEF CloseInv, Untouched
<1> QED BY <1>1, <1>2, <1>3, <1>4, <1>5

LEMMA CommitResends ==
    ASSUME CloseInv, Commit, exec.plan.act = "RESEND"
    PROVE  /\ CommitLeaves /\ exec.plan.n = Len(log') /\ exec.plan.n \in Unresolved(log')
           /\ exec.plan.n \in Numbers /\ Resend
<1> DEFINE p == exec.plan
           L == Resolved(p)
           M == [L EXCEPT ![p.n].sends = @ + 1, ![p.n].age = 0, ![p.n].state = "INTENT"]
<1>0. /\ At("commit") /\ log' = M /\ UNCHANGED <<venue, booked, ledger>>
      /\ state' = CommittedState(p)
  BY DEF Commit, Committed, World, Books
<1>1. /\ L \in Seq(Attempts) /\ Len(L) = Len(log) /\ DOMAIN L = DOMAIN log
      /\ \A n \in DOMAIN log :
            /\ Honest(L[n], venue[n])
            /\ L[n].state \notin Resolutions => L[n] = log[n]
            /\ p.log[n].state \notin Resolutions => L[n] = log[n]
            /\ log[n].state \in Resolutions => L[n].state \in Resolutions
            /\ L[n].state # "MOOT"
            /\ L[n].state = "NEVER_SENT" => ~Resend
  BY <1>0, ResolvedRows
<1>2. Resend /\ p.n \in DOMAIN log /\ p.log[p.n].state \notin Resolutions
  BY <1>0 DEF CloseInv, PlanHolds
<1>3. L[p.n] = log[p.n] /\ p.n \in Unresolved(log)
  <2>1. log[p.n].state \in Resolutions => p.log[p.n] = log[p.n]
    BY <1>0, <1>2 DEF CloseInv, PlanHolds
  <2> QED BY <1>1, <1>2, <2>1 DEF Unresolved
<1>4. p.n = Len(log) /\ log[p.n].filled = 0 /\ p.n \in Numbers /\ log[p.n] \in Attempts
  BY <1>2, <1>3, OneOpen
<1> HIDE DEF L
<1> DEFINE row == [log[p.n] EXCEPT !.sends = log[p.n].sends + 1, !.age = 0, !.state = "INTENT"]
<1>5. row \in Attempts /\ row.state = "INTENT" /\ row.filled = 0 /\ row.age = 0
  <2>1. "INTENT" \in AttemptStates /\ log[p.n].sends + 1 \in Nat
    BY <1>4 DEF Attempts, AttemptStates
  <2> DEFINE a == log[p.n]
             k == log[p.n].sends + 1
  <2>2. a \in Attempts /\ a.filled = 0
    BY <1>4
  <2> HIDE DEF a, k
  <2>3. [a EXCEPT !.sends = k, !.age = 0, !.state = "INTENT"] \in Attempts
    BY <2>1, <2>2 DEF Attempts, k
  <2>4. row = [a EXCEPT !.sends = k, !.age = 0, !.state = "INTENT"]
    BY DEF a, k
  <2> HIDE DEF row
  <2> QED BY <2>2, <2>3, <2>4 DEF Attempts
<1>6. M = [L EXCEPT ![p.n] = row]
  BY <1>1, <1>2, <1>3, <1>4 DEF Attempts
<1> HIDE DEF M, row
<1>7. /\ M \in Seq(Attempts) /\ Len(M) = Len(log) /\ DOMAIN M = DOMAIN log
      /\ M[p.n] = row /\ \A n \in DOMAIN log : n # p.n => M[n] = L[n]
  BY <1>1, <1>2, <1>5, <1>6
<1>8. \A n \in DOMAIN log : Honest(M[n], venue[n])
  <2>1. Honest(row, venue[p.n])
    BY <1>5 DEF Honest, Ends
  <2> QED BY <1>1, <1>7, <2>1
<1>9. \A n \in DOMAIN log : log[n].state \in Resolutions => M[n].state \in Resolutions
  BY <1>1, <1>3, <1>7 DEF Unresolved
<1>10. \A n \in Unresolved(M) : M[n].age <= log[n].age \/ M[n].age = 0
  <2> SUFFICES ASSUME NEW n \in Unresolved(M), n # p.n PROVE M[n].age <= log[n].age
    BY <1>5, <1>7
  <2>1. n \in DOMAIN log /\ M[n] = L[n] /\ L[n].state \notin Resolutions
    BY <1>7 DEF Unresolved
  <2>2. M[n] = log[n] /\ log[n].age \in Nat
    BY <1>1, <2>1, OneOpen DEF Attempts
  <2> QED BY <2>2
<1>11. LogShape' /\ RowsAreHonest' /\ RowsAreTimely' /\ EarlierAreOver' /\ Untouched'
  BY <1>0, <1>7, <1>8, <1>9, <1>10, LastRowWritten
<1>12. p.n \in Unresolved(log') /\ Len(log') = Len(log)
  <2>1. row.state \notin Resolutions
    BY <1>5 DEF Resolutions
  <2> QED BY <1>0, <1>2, <1>7, <2>1 DEF Unresolved
<1>13. StateShape' /\ ~state'.closed /\ ~state'.halted
  BY <1>0, CommitState
<1>14. ClosedIsSettled'
  BY <1>13 DEF ClosedIsSettled
<1>15. \A n \in DOMAIN log' :
          /\ log'[n].state = "MOOT" => state'.closed
          /\ log'[n].state = "NEVER_SENT" /\ Resend => state'.halted
  BY <1>0, <1>1, <1>2, <1>5, <1>7
<1> QED BY <1>2, <1>4, <1>11, <1>12, <1>13, <1>14, <1>15 DEF CommitLeaves

LEMMA CommitSettles ==
    ASSUME CloseInv, Commit, ~Sending
    PROVE  CommitLeaves
<1> DEFINE p == exec.plan
           L == Resolved(p)
<1>0. /\ At("commit") /\ log' = L /\ UNCHANGED <<venue, booked, ledger>>
      /\ state' = CommittedState(p)
  BY DEF Commit, Committed, World, Books, Sending
<1>1. /\ L \in Seq(Attempts) /\ Len(L) = Len(log) /\ DOMAIN L = DOMAIN log
      /\ \A n \in DOMAIN log :
            /\ Honest(L[n], venue[n])
            /\ L[n].state \notin Resolutions => L[n] = log[n]
            /\ log[n].state \in Resolutions => L[n].state \in Resolutions
            /\ L[n].state = "MOOT" => p.act = "NOOP_FLAT"
            /\ L[n].state = "NEVER_SENT" => ~Resend
      /\ p.act = "NOOP_FLAT" => Unresolved(L) = {}
  BY <1>0, ResolvedRows
<1> HIDE DEF L
<1>2. \A n \in Unresolved(L) : L[n].age <= log[n].age \/ L[n].age = 0
  <2> SUFFICES ASSUME NEW n \in Unresolved(L) PROVE L[n].age <= log[n].age
    OBVIOUS
  <2>1. n \in DOMAIN log /\ L[n].state \notin Resolutions
    BY <1>1 DEF Unresolved
  <2>2. L[n] = log[n] /\ log[n].age \in Nat
    BY <1>1, <2>1, OneOpen DEF Attempts
  <2> QED BY <2>2
<1>3. LogShape' /\ RowsAreHonest' /\ RowsAreTimely' /\ EarlierAreOver' /\ Untouched'
  BY <1>0, <1>1, <1>2, LastRowWritten
<1>4. StateShape' /\ state'.closed = (p.act = "NOOP_FLAT")
  BY <1>0, CommitState
<1>5. ClosedIsSettled'
  BY <1>0, <1>1, <1>4 DEF ClosedIsSettled
<1>6. \A n \in DOMAIN log' :
          /\ log'[n].state = "MOOT" => state'.closed
          /\ log'[n].state = "NEVER_SENT" /\ Resend => state'.halted
  BY <1>0, <1>1, <1>4
<1> QED BY <1>3, <1>4, <1>5, <1>6 DEF CommitLeaves

LEMMA CommitKeeps == ASSUME CloseInv, Commit PROVE CloseInv'
<1>0. /\ At("commit") /\ UNCHANGED <<venue, pos, crashes, others, booked, ledger>>
      /\ state' = CommittedState(exec.plan)
  BY DEF Commit, World, Books
<1>1. CommitLeaves
  BY CommitSends, CommitResends, CommitSettles DEF Sending
<1>2. VenueShape' /\ OrdersAreSound' /\ BooksShape' /\ PosShape'
  BY <1>0, VenueKept DEF CloseInv, Shape, BooksShape, PosShape
<1>3. state'.closed = (exec.plan.act = "NOOP_FLAT") /\ state'.halted = (exec.plan.act = "HALT")
  BY <1>0, CommitState
<1>4. CASE Sending /\ exec' = [exec EXCEPT !.pc = "send"]
  <2>1. exec'.pc = "send" /\ exec'.plan = exec.plan /\ ExecShape'
    BY <1>4 DEF CloseInv, Shape, ExecShape
  <2>2. exec.plan.n = Len(log') /\ exec.plan.n \in Unresolved(log')
    BY <1>4, CommitSends, CommitResends DEF Sending
  <2>3. SendsTheLast'
    BY <2>1, <2>2 DEF SendsTheLast, Unresolved
  <2>4. PlanHolds'
    BY <2>1 DEF PlanHolds, At
  <2>5. OpenWhileStepping'
    BY <1>1, <1>3, <1>4, <2>1 DEF OpenWhileStepping, CommitLeaves, Sending
  <2>6. SentOnce'
    <3>1. ~Resend => venue[exec.plan.n] = NoOrder /\ ledger[exec.plan.n] = 0
      BY <1>4, CommitSends, CommitResends DEF Sending
    <3>2. ~Resend => \A n \in Numbers : booked[n] <= ledger[n] /\ ledger[n] <= venue[n].cum
      BY DEF CloseInv, SentOnce
    <3> QED BY <1>0, <2>1, <3>1, <3>2 DEF SentOnce, At, NoOrder
  <2>7. Shrinking'
    BY <1>0, <1>3, <1>4, <2>1 DEF CloseInv, Shrinking, At, Sending
  <2> QED BY <1>1, <1>2, <2>1, <2>3, <2>4, <2>5, <2>6, <2>7
          DEF CloseInv, Shape, CommitLeaves
<1>5. CASE exec' \in {Ready, [Ready EXCEPT !.pc = "stopped"]}
  <2>1. /\ exec.pc' \in {"idle", "stopped"} /\ ~InStep' /\ ~Sender'
        /\ ExecShape' /\ PlanHolds' /\ SendsTheLast'
    <3>1. exec.pc' # "follow"
      BY <1>5 DEF Ready
    <3> QED BY <1>5, <3>1, AtRest
  <2>2. OpenWhileStepping'
    BY <1>1, <2>1 DEF OpenWhileStepping, CommitLeaves
  <2>3. SentOnce'
    BY <1>0, <2>1, OnceKept
  <2>4. Shrinking'
    BY <1>0, <1>3, <2>1 DEF CloseInv, Shrinking, At
  <2> QED BY <1>1, <1>2, <2>1, <2>2, <2>3, <2>4 DEF CloseInv, Shape, CommitLeaves
<1> QED BY <1>4, <1>5 DEF Commit, Finish, Stop

-------------------------------------------------------------------------------
(***************************************************************************)
(* Sending, and the answer.                                                *)
(***************************************************************************)
\* Between the commit and the bookkeeping the order in hand is the last attempt.
LEMMA InHand ==
    ASSUME CloseInv, Sender
    PROVE  /\ exec.plan.n \in Numbers /\ exec.plan.n \in DOMAIN log /\ exec.plan.n = Len(log)
           /\ exec.plan.n \in Unresolved(log) /\ log[exec.plan.n].filled = 0
           /\ log[exec.plan.n] \in Attempts /\ ~state.closed /\ ~state.halted
BY OneOpen DEF CloseInv, SendsTheLast, OpenWhileStepping, InStep, Sender

LEMMA SendKeeps == ASSUME CloseInv, Send PROVE CloseInv'
<1> DEFINE n == exec.plan.n
<1>0. /\ At("send") /\ log[n].age <= SendBy /\ Sender
      /\ UNCHANGED <<log, state, pos, others, booked, ledger>>
  BY DEF Send, InTime, Durable, Books, Sender, At
<1>1. /\ n \in Numbers /\ n \in DOMAIN log /\ n = Len(log) /\ n \in Unresolved(log)
      /\ log[n].filled = 0 /\ log[n] \in Attempts /\ ~state.closed /\ ~state.halted
  BY <1>0, InHand
<1> HIDE DEF n
<1>2. CASE venue[n].st # "none"
  <2>1. exec' = [exec EXCEPT !.pc = "resume"] /\ UNCHANGED venue
    BY <1>2 DEF Send, n
  <2>2. exec'.pc = "resume" /\ exec'.plan = exec.plan /\ ExecShape'
    BY <2>1 DEF CloseInv, Shape, ExecShape
  <2>3. PlanHolds'
    BY <2>2 DEF PlanHolds, At
  <2>4. SendsTheLast'
    BY <1>0, <1>1, <2>2 DEF SendsTheLast, n
  <2>5. SentOnce'
    <3>1. Resend
      BY <1>0, <1>2 DEF CloseInv, SentOnce, n
    <3> QED BY <3>1 DEF SentOnce
  <2>6. Shrinking'
    BY <1>0, <2>2 DEF CloseInv, Shrinking, At
  <2> QED BY <1>0, <1>1, <2>1, <2>2, <2>3, <2>4, <2>5, <2>6, ExecMoves
<1>3. CASE venue[n].st = "none"
  <2>1. /\ venue' = [venue EXCEPT ![n].st = "flying", ![n].qty = exec.plan.qty]
        /\ exec' = [exec EXCEPT !.pc = "await"]
    BY <1>3 DEF Send, n
  <2>2. exec'.pc = "await" /\ exec'.plan = exec.plan /\ ExecShape'
    BY <2>1 DEF CloseInv, Shape, ExecShape
  <2>3. venue[n] = NoOrder /\ venue[n] \in Orders /\ exec.plan.qty \in Nat
    BY <1>1, <1>3 DEF CloseInv, OrdersAreSound, Sound, Shape, VenueShape, ExecShape, Plans
  <2> DEFINE none == NoOrder
             q == exec.plan.qty
             o == [none EXCEPT !.st = "flying", !.qty = q]
  <2>4. venue' = [venue EXCEPT ![n] = o]
    BY <1>1, <2>1, <2>3 DEF CloseInv, Shape, VenueShape
  <2>5. /\ o \in Orders /\ o.st = "flying" /\ o.cum = 0 /\ o.flight = 0
        /\ o.dark = 0 /\ ~o.seen
    <3>1. none.cum = 0 /\ none.flight = 0 /\ none.dark = 0 /\ ~none.seen
      BY DEF NoOrder
    <3>2. none \in Orders /\ q \in Nat
      BY <2>3
    <3> HIDE DEF none, q
    <3> QED BY <3>1, <3>2 DEF Orders
  <2> HIDE DEF o
  <2>6. Sound(o)
    BY <2>5, CloseAssumption DEF Sound, Nowhere
  <2>7. /\ venue' \in [Numbers -> Orders] /\ venue'[n] = o
        /\ \A m \in Numbers : m # n => venue'[m] = venue[m]
    BY <1>1, <2>4, <2>5 DEF CloseInv, Shape, VenueShape
  <2>8. VenueShape' /\ OrdersAreSound'
    BY <2>6, <2>7 DEF CloseInv, VenueShape, OrdersAreSound
  <2>9. LogShape' /\ StateShape' /\ ClosedIsSettled' /\ PosShape' /\ BooksShape'
    BY <1>0, CloseKept DEF CloseInv, Shape, LogShape, PosShape, BooksShape
  <2>10. \A m \in DOMAIN log : m \in Numbers
    BY OneOpen
  <2>11. Untouched'
    BY <1>0, <1>1, <2>7, OneOpen DEF CloseInv, Untouched
  <2>12. RowsAreHonest'
    <3>1. Honest(log[n], o)
      BY <1>1 DEF Honest, Unresolved, Resolutions, Ends
    <3> QED BY <1>0, <2>7, <2>10, <3>1 DEF CloseInv, RowsAreHonest
  <2>13. RowsAreTimely'
    <3>1. Timely(log[n], o)
      BY <1>0, <2>5, CloseAssumption DEF Timely, Finals, n
    <3>2. \A m \in Unresolved(log) : m = n
      BY <1>1, OneOpen
    <3> QED BY <1>0, <1>1, <2>7, <3>1, <3>2 DEF RowsAreTimely
  <2>14. EarlierAreOver'
    BY <1>0, <1>1, <2>7, <2>10, OneOpen DEF CloseInv, EarlierAreOver
  <2>15. OpenWhileStepping'
    BY <1>0, <1>1 DEF CloseInv, OpenWhileStepping
  <2>16. PlanHolds'
    BY <2>2 DEF PlanHolds, At
  <2>17. SendsTheLast'
    BY <1>0, <1>1, <2>2 DEF SendsTheLast, n
  <2>18. SentOnce'
    <3>1. ~Resend => ledger[n] = 0
      BY <1>0 DEF CloseInv, SentOnce, n
    <3>2. \A m \in Numbers : m # n => venue'[m].cum = venue[m].cum
      BY <2>7
    <3>3. ~Resend => \A m \in Numbers : booked[m] <= ledger[m] /\ ledger[m] <= venue[m].cum
      BY DEF CloseInv, SentOnce
    <3>4. ~Resend => \A m \in Numbers : booked[m] <= ledger[m] /\ ledger[m] <= venue'[m].cum
      BY <1>1, <2>5, <2>7, <3>1, <3>2, <3>3
    <3> QED BY <1>0, <2>2, <3>1, <3>4 DEF SentOnce, At, n
  <2>19. Shrinking'
    BY <1>0, <2>2 DEF CloseInv, Shrinking, At
  <2> QED BY <2>2, <2>8, <2>9, <2>11, <2>12, <2>13, <2>14, <2>15, <2>16, <2>17, <2>18, <2>19
          DEF CloseInv, Shape
<1> QED BY <1>2, <1>3

\* The open row in hand is marked with another state; its order, and its age, stay.
LEMMA Rewritten ==
    ASSUME CloseInv, Sender, NEW st \in AttemptStates, NEW L,
           L = [log EXCEPT ![exec.plan.n].state = st]
               \/ L = Marked(log, {exec.plan.n}, st),
           st = "NEVER_SENT" /\ ~Resend => venue[exec.plan.n].st \in Nowhere, st \notin Ends,
           log' = L, UNCHANGED <<venue, booked, ledger>>
    PROVE  /\ LogShape' /\ RowsAreHonest' /\ RowsAreTimely' /\ EarlierAreOver' /\ Untouched'
           /\ DOMAIN log' = DOMAIN log /\ log'[exec.plan.n].state = st
           /\ \A m \in DOMAIN log : m # exec.plan.n => log'[m] = log[m]
<1> DEFINE n == exec.plan.n
           age == L[n].age
           row == [log[n] EXCEPT !.state = st, !.age = age]
<1>0. /\ n \in Numbers /\ n \in DOMAIN log /\ n \in Unresolved(log) /\ log[n].filled = 0
      /\ log[n] \in Attempts /\ log \in Seq(Attempts)
  BY InHand DEF CloseInv, Shape, LogShape
<1> HIDE DEF n
<1>1. /\ L \in Seq(Attempts) /\ Len(L) = Len(log) /\ DOMAIN L = DOMAIN log
      /\ \A m \in DOMAIN log : m # n => L[m] = log[m]
      /\ L[n].state = st /\ L[n].filled = 0
      /\ L[n].age = log[n].age \/ L[n].age = 0
  <2>1. CASE L = Marked(log, {n}, st)
    <3>1. L[n] = [log[n] EXCEPT !.state = st, !.age = 0]
      BY <1>0, <2>1 DEF Marked
    <3>2. L[n].age = 0
      BY <1>0, <3>1 DEF Attempts
    <3> QED BY <1>0, <2>1, <3>2, MarkedRows
  <2>2. CASE L = [log EXCEPT ![n].state = st]
    <3> DEFINE a == log[n]
               b == [a EXCEPT !.state = st]
    <3>1. L = [log EXCEPT ![n] = b]
      BY <1>0, <2>2
    <3>2. b \in Attempts /\ b.state = st /\ b.filled = a.filled /\ b.age = a.age
      BY <1>0 DEF Attempts
    <3> HIDE DEF b
    <3>3. L \in Seq(Attempts) /\ Len(L) = Len(log) /\ DOMAIN L = DOMAIN log
      BY <1>0, <3>1, <3>2
    <3> QED BY <1>0, <3>1, <3>2, <3>3
  <2> QED BY <2>1, <2>2 DEF n
<1>2. \A m \in DOMAIN log : Honest(L[m], venue[m])
  <2>1. Honest(L[n], venue[n])
    BY <1>1 DEF Honest, n
  <2>2. \A m \in DOMAIN log : Honest(log[m], venue[m])
    BY DEF CloseInv, RowsAreHonest
  <2> QED BY <1>1, <2>1, <2>2
<1>3. \A m \in DOMAIN log : log[m].state \in Resolutions => L[m].state \in Resolutions
  BY <1>0, <1>1 DEF Unresolved
<1>4. \A m \in Unresolved(L) : L[m].age <= log[m].age \/ L[m].age = 0
  <2> SUFFICES ASSUME NEW m \in Unresolved(L) PROVE L[m].age <= log[m].age \/ L[m].age = 0
    OBVIOUS
  <2>1. m \in DOMAIN log
    BY <1>1 DEF Unresolved
  <2>2. log[m].age \in Nat
    BY <2>1, OneOpen DEF Attempts
  <2> QED BY <1>1, <2>1, <2>2
<1>5. LogShape' /\ RowsAreHonest' /\ RowsAreTimely' /\ EarlierAreOver' /\ Untouched'
  BY <1>1, <1>2, <1>3, <1>4, LastRowWritten
<1> QED BY <1>1, <1>5 DEF n

LEMMA RefusedKeeps == ASSUME CloseInv, Refused PROVE CloseInv'
<1> DEFINE n == exec.plan.n
<1>0. /\ At("send") /\ Sender /\ UNCHANGED <<venue, pos, others, booked, ledger>>
      /\ exec' = [Ready EXCEPT !.pc = "stopped"]
  BY DEF Refused, World, Books, Sender, At, Stop
<1>1. CASE Durable
  BY <1>0, <1>1, EndOfStep DEF Durable
<1>2. CASE /\ log' = Marked(log, {n}, "NEVER_SENT")
           /\ state' = [state EXCEPT !.waits = 0, !.lag = 0, !.halted = TRUE]
  <2>1. "NEVER_SENT" \in AttemptStates /\ "NEVER_SENT" \notin Ends
    BY DEF AttemptStates, Resolutions, Ends
  <2>2. ~Resend => venue[n].st \in Nowhere
    BY <1>0 DEF CloseInv, SentOnce, Nowhere
  <2>3. /\ LogShape' /\ RowsAreHonest' /\ RowsAreTimely' /\ EarlierAreOver' /\ Untouched'
        /\ DOMAIN log' = DOMAIN log /\ log'[n].state = "NEVER_SENT"
        /\ \A m \in DOMAIN log : m # n => log'[m] = log[m]
    BY <1>0, <1>2, <2>1, <2>2, Rewritten
  <2>4. StateShape' /\ state'.halted /\ state'.closed = state.closed
    <3> DEFINE a == state
    <3>1. a \in [waits : Int, lag : Int, halted : BOOLEAN, closed : BOOLEAN]
      BY DEF CloseInv, Shape, StateShape
    <3>2. PICK zero \in Int, yes \in BOOLEAN :
             yes = TRUE /\ state' = [a EXCEPT !.waits = zero, !.lag = zero, !.halted = yes]
      <4>1. 0 \in Int /\ TRUE \in BOOLEAN
        OBVIOUS
      <4>2. state' = [a EXCEPT !.waits = 0, !.lag = 0, !.halted = TRUE]
        BY <1>2
      <4> HIDE DEF a
      <4> QED BY <4>1, <4>2
    <3> DEFINE b == [a EXCEPT !.waits = zero, !.lag = zero, !.halted = yes]
    <3>3. state' = b
      BY <3>2
    <3> HIDE DEF a
    <3>4. b \in [waits : Int, lag : Int, halted : BOOLEAN, closed : BOOLEAN]
      BY <3>1
    <3>5. b.halted = yes /\ b.closed = a.closed
      BY <3>1
    <3> QED BY <3>2, <3>3, <3>4, <3>5 DEF a, StateShape
  <2>5. ~state.closed
    BY <1>0, InHand
  <2>6. /\ exec.pc' \in {"idle", "stopped"} /\ ~InStep' /\ ~Sender'
        /\ ExecShape' /\ PlanHolds' /\ SendsTheLast'
    <3>1. exec.pc' # "follow"
      BY <1>0 DEF Ready
    <3> QED BY <1>0, <3>1, AtRest
  <2>7. VenueShape' /\ OrdersAreSound' /\ BooksShape' /\ PosShape'
    BY <1>0, VenueKept DEF CloseInv, Shape, BooksShape, PosShape
  <2>8. ClosedIsSettled'
    BY <2>4, <2>5 DEF ClosedIsSettled
  <2>9. OpenWhileStepping'
    BY <2>3, <2>4, <2>5, <2>6 DEF CloseInv, OpenWhileStepping
  <2>10. SentOnce'
    BY <1>0, <2>6, OnceKept
  <2>11. Shrinking'
    BY <1>0, <2>4, <2>6 DEF CloseInv, Shrinking, At
  <2> QED BY <2>3, <2>4, <2>6, <2>7, <2>8, <2>9, <2>10, <2>11 DEF CloseInv, Shape
<1> QED BY <1>1, <1>2 DEF Refused

LEMMA ReportableIsFilled ==
    ASSUME CloseInv, exec.pc \in {"await", "resume"}, NEW f \in Reportable(exec.plan.n)
    PROVE  f \in Nat /\ f <= venue[exec.plan.n].cum
<1> DEFINE n == exec.plan.n
<1>1. n \in Numbers
  BY InHand DEF Sender
<1>2. venue[n].cum \in Nat
  BY <1>1 DEF CloseInv, Shape, VenueShape, Orders
<1>3. f = venue[n].cum \/ f \in 1..venue[n].cum \/ (f = 0)
  BY DEF Reportable
<1> QED BY <1>2, <1>3

LEMMA ReturnKeeps == ASSUME CloseInv, Return PROVE CloseInv'
<1> DEFINE n == exec.plan.n
<1>0. /\ exec.pc \in {"await", "resume"} /\ Sender
      /\ UNCHANGED <<log, state, venue, pos, others>>
      /\ exec' = [exec EXCEPT !.pc = "booked"]
  BY DEF Return, Durable, World, Sender
<1>1. PICK f \in Reportable(n) : Credit(n, f)
  BY DEF Return
<1>2. f \in Nat /\ f <= venue[n].cum
  BY <1>0, ReportableIsFilled
<1>3. /\ n \in Numbers /\ n \in DOMAIN log /\ n = Len(log) /\ n \in Unresolved(log)
      /\ ~state.closed /\ ~state.halted
  BY <1>0, InHand
<1>4. exec'.pc = "booked" /\ exec'.plan = exec.plan /\ ExecShape'
  BY <1>0 DEF CloseInv, Shape, ExecShape
<1> HIDE DEF n
<1>5. /\ ledger \in [Numbers -> Nat] /\ booked \in [Numbers -> Nat]
      /\ ledger' = [ledger EXCEPT ![n] = ledger[n] + f]
      /\ booked' = IF f = 0 THEN booked ELSE [booked EXCEPT ![n] = f]
  BY <1>1 DEF CloseInv, Shape, BooksShape, Credit
<1>6. BooksShape'
  BY <1>2, <1>3, <1>5 DEF BooksShape
<1>7. Untouched'
  <2>1. \A m \in Numbers : m > Len(log) => m # n
    BY <1>3, OneOpen
  <2> QED BY <1>0, <1>5, <2>1 DEF CloseInv, Untouched
<1>8. VenueShape' /\ OrdersAreSound' /\ LogShape' /\ RowsAreHonest' /\ RowsAreTimely'
      /\ EarlierAreOver' /\ StateShape' /\ ClosedIsSettled' /\ PosShape'
  BY <1>0, VenueKept, RowsKept, CloseKept DEF CloseInv, Shape, PosShape
<1>9. OpenWhileStepping'
  BY <1>0, <1>3 DEF CloseInv, OpenWhileStepping
<1>10. PlanHolds'
  BY <1>4 DEF PlanHolds, At
<1>11. SendsTheLast'
  BY <1>0, <1>3, <1>4 DEF SendsTheLast, n
<1>12. SentOnce'
  <2>1. ASSUME ~Resend
        PROVE  \A m \in Numbers : booked'[m] <= ledger'[m] /\ ledger'[m] <= venue[m].cum
    <3>1. \A m \in Numbers : booked[m] <= ledger[m] /\ ledger[m] <= venue[m].cum
      BY <2>1 DEF CloseInv, SentOnce
    <3>2. ledger[n] = 0
      BY <1>0, <2>1 DEF CloseInv, SentOnce, At, n
    <3>3. ledger'[n] = f /\ \A m \in Numbers : m # n => ledger'[m] = ledger[m]
      BY <1>2, <1>3, <1>5, <3>2
    <3>4. \A m \in Numbers : m # n => booked'[m] = booked[m]
      BY <1>5
    <3>5. booked'[n] <= f
      <4>1. booked[n] <= 0
        BY <1>3, <3>1, <3>2
      <4> QED BY <1>2, <1>3, <1>5, <4>1
    <3> QED BY <1>2, <3>1, <3>3, <3>4, <3>5 DEF n
  <2> QED BY <1>0, <1>4, <2>1 DEF SentOnce, At
<1>13. Shrinking'
  BY <1>0, <1>4 DEF CloseInv, Shrinking, At
<1> QED BY <1>4, <1>6, <1>7, <1>8, <1>9, <1>10, <1>11, <1>12, <1>13 DEF CloseInv, Shape

\* The step ends after its answer was marked, or was not.
LEMMA MarkedSent ==
    ASSUME CloseInv, Sender, MarkSent(exec.plan.n),
           exec' \in {Ready, [Ready EXCEPT !.pc = "follow"]},
           UNCHANGED <<state, booked, ledger, venue, pos, others>>
    PROVE  CloseInv'
<1> DEFINE n == exec.plan.n
<1>1. /\ n \in DOMAIN log /\ n \in Unresolved(log) /\ log[n] \in Attempts
      /\ ~state.closed /\ ~state.halted
  BY InHand
<1> HIDE DEF n
<1>2. log[n].state \in {"INTENT", "SENT"}
  BY <1>1 DEF Unresolved, Attempts, AttemptStates
<1>3. PICK st \in {"INTENT", "SENT"} : log' = [log EXCEPT ![n].state = st]
  <2>1. CASE log' = [log EXCEPT ![n].state = IF log[n].state = "INTENT" THEN "SENT"
                                             ELSE log[n].state]
    BY <1>2, <2>1
  <2>2. CASE UNCHANGED log
    <3>1. log[n] = [log[n] EXCEPT !.state = log[n].state]
      BY <1>1 DEF Attempts
    <3>2. log = [log EXCEPT ![n].state = log[n].state]
      BY <1>1, <3>1 DEF CloseInv, Shape, LogShape
    <3> QED BY <1>2, <2>2, <3>2
  <2> QED BY <1>1, <2>1, <2>2 DEF MarkSent, n
<1>4. st \in AttemptStates /\ st \notin Ends /\ st # "NEVER_SENT" /\ st # "MOOT"
      /\ st \notin Resolutions
  BY DEF AttemptStates, Ends, Resolutions
<1>5. /\ LogShape' /\ RowsAreHonest' /\ RowsAreTimely' /\ EarlierAreOver' /\ Untouched'
      /\ DOMAIN log' = DOMAIN log /\ log'[n].state = st
      /\ \A m \in DOMAIN log : m # n => log'[m] = log[m]
  BY <1>3, <1>4, Rewritten DEF n
<1>6. /\ exec.pc' \in {"idle", "stopped", "follow"} /\ ~InStep' /\ ~Sender'
      /\ ExecShape' /\ PlanHolds' /\ SendsTheLast'
  BY AtRest
<1>7. VenueShape' /\ OrdersAreSound' /\ BooksShape' /\ PosShape' /\ StateShape'
  BY VenueKept DEF CloseInv, Shape, BooksShape, PosShape, StateShape
<1>8. ClosedIsSettled'
  BY <1>1 DEF ClosedIsSettled
<1>9. OpenWhileStepping'
  BY <1>1, <1>4, <1>5 DEF CloseInv, OpenWhileStepping
<1>10. SentOnce'
  BY <1>6, OnceKept
<1>11. Shrinking'
  BY <1>6 DEF CloseInv, Shrinking, At
<1> QED BY <1>5, <1>6, <1>7, <1>8, <1>9, <1>10, <1>11 DEF CloseInv, Shape

LEMMA StepKeeps == ASSUME CloseInv, Step PROVE CloseInv'
<1>1. CASE Begin
  BY <1>1, BeginKeeps
<1>2. CASE LookAtOrders
  BY <1>2, LookAtOrdersKeeps
<1>3. CASE Defer \/ CommitFails \/ SendStale
  BY <1>3, EndOfStep DEF Defer, CommitFails, SendStale, Finish, Stop, Durable, World, Books
<1>4. CASE Commit
  BY <1>4, CommitKeeps
<1>5. CASE Send
  BY <1>5, SendKeeps
<1>6. CASE Refused
  BY <1>6, RefusedKeeps
<1>7. CASE Return
  BY <1>7, ReturnKeeps
<1>8. CASE Sent
  <2>1. Sender
    BY <1>8 DEF Sent, Sender, At
  <2> QED BY <1>8, <2>1, MarkedSent DEF Sent, World, Books
<1>9. CASE Unknown
  <2>1. Sender
    BY <1>9 DEF Unknown, Sender
  <2> QED BY <1>9, <2>1, MarkedSent DEF Unknown, World, Books, Finish
<1> QED BY <1>1, <1>2, <1>3, <1>4, <1>5, <1>6, <1>7, <1>8, <1>9 DEF Step

-------------------------------------------------------------------------------
(***************************************************************************)
(* The invariant.                                                          *)
(***************************************************************************)
LEMMA CloseBegins == ASSUME CloseInit PROVE CloseInv
<1>1. /\ log = << >> /\ exec = Ready /\ pos = [net |-> -Short, view |-> -Short]
      /\ state = [waits |-> 0, lag |-> 0, halted |-> FALSE, closed |-> FALSE]
      /\ booked = [n \in Numbers |-> 0] /\ ledger = [n \in Numbers |-> 0]
      /\ venue = [n \in Numbers |-> NoOrder] /\ others = 0 /\ Short \in Nat
  BY CloseAssumption DEF CloseInit
<1>2. LogShape /\ DOMAIN log = {} /\ Len(log) = 0
  <2>1. << >> \in Seq(Attempts) /\ Len(<< >>) = 0
    OBVIOUS
  <2> QED BY <1>1, <2>1, PolicyAssumption DEF LogShape
<1>3. StateShape /\ BooksShape /\ PosShape
  BY <1>1 DEF StateShape, BooksShape, PosShape
<1>4. NoOrder \in Orders /\ Sound(NoOrder) /\ NoOrder.cum = 0
  <2>1. NoOrder \in Orders /\ NoOrder.cum = 0
    BY DEF NoOrder, Orders
  <2>2. Sound(NoOrder)
    BY CloseAssumption DEF NoOrder, Sound, Nowhere
  <2> QED BY <2>1, <2>2
<1>5. VenueShape /\ OrdersAreSound
  BY <1>1, <1>4 DEF VenueShape, OrdersAreSound
<1>6. ExecShape /\ exec.pc = "idle"
  <2>1. << >> \in Seq(Attempts)
    OBVIOUS
  <2>2. NoPlan \in Plans
    BY <2>1 DEF NoPlan, Plan, Plans, Words
  <2>3. Unread \in [readable : BOOLEAN, net : Int]
    BY DEF Unread
  <2> HIDE DEF NoPlan, Unread
  <2>4. exec = [pc |-> "idle", follow |-> FALSE, net |-> Unread, plan |-> NoPlan]
    BY <1>1 DEF Ready
  <2> QED BY <2>2, <2>3, <2>4 DEF ExecShape
<1>7. Untouched
  BY <1>1 DEF Untouched
<1>8. RowsAreHonest /\ RowsAreTimely /\ EarlierAreOver /\ ClosedIsSettled
  BY <1>1, <1>2 DEF RowsAreHonest, RowsAreTimely, EarlierAreOver, ClosedIsSettled, Unresolved
<1>9. OpenWhileStepping /\ PlanHolds /\ SendsTheLast
  BY <1>1, <1>2, <1>6 DEF OpenWhileStepping, PlanHolds, SendsTheLast, InStep, Sender, At
<1>10. SentOnce
  BY <1>1, <1>4, <1>6 DEF SentOnce, At
<1>11. Shrinking
  BY <1>1, <1>6 DEF Shrinking, At
<1> QED BY <1>2, <1>3, <1>5, <1>6, <1>7, <1>8, <1>9, <1>10, <1>11 DEF CloseInv, Shape

LEMMA CloseStays == ASSUME CloseInv, [CloseNext]_closeVars PROVE CloseInv'
<1>1. CASE CloseNext
  BY <1>1, StepKeeps, CrashKeeps, OutsideKeeps DEF CloseNext
<1>2. CASE UNCHANGED closeVars
  BY <1>2, PosMoveKeeps, PosKept DEF closeVars
<1> QED BY <1>1, <1>2

\* Every state a close can reach, whatever the policy: each row says of its order what
\* the venue would say, every attempt but the last is over, an open one has come no
\* further than its age allows, and a plan that waits is as good as when it was made.
THEOREM CloseInvariant == CloseSpec => []CloseInv
<1>1. CloseInit => CloseInv
  BY CloseBegins
<1>2. CloseInv /\ [CloseNext]_closeVars => CloseInv'
  BY CloseStays
<1> QED BY <1>1, <1>2, PTL DEF CloseSpec

-------------------------------------------------------------------------------
(***************************************************************************)
(* What follows.                                                           *)
(***************************************************************************)
LEMMA SumIsSum == ASSUME NEW f PROVE Sum(f) = SumOver(f, DOMAIN f)
BY DEF Sum, FoldFunction, FoldFunctionOnSet, SumOver, MapThenSumSet

LEMMA NumbersAreFinite == IsFiniteSet(Numbers)
BY FS_Interval, PolicyAssumption DEF Numbers

LEMMA AtMostOne == CloseInv => OneAtATime
<1> SUFFICES ASSUME CloseInv PROVE OneAtATime
  OBVIOUS
<1> DEFINE W == {n \in Numbers : venue[n].st \in Working}
           k == Len(log)
<1>1. W \subseteq {k}
  <2> SUFFICES ASSUME NEW n \in Numbers, venue[n].st \in Working PROVE n = k
    OBVIOUS
  <2>1. ~(n > k)
    BY DEF CloseInv, Untouched, NoOrder, Working
  <2>2. ~(n < k)
    BY OneOpen DEF CloseInv, EarlierAreOver, Numbers
  <2>3. Len(log) \in Nat /\ n \in Int
    BY OneOpen DEF Numbers
  <2> QED BY <2>1, <2>2, <2>3
<1>2. IsFiniteSet({k}) /\ Cardinality({k}) = 1
  BY FS_Singleton
<1> HIDE DEF W, k
<1>3. Cardinality(W) <= 1
  BY <1>1, <1>2, FS_Subset
<1> QED BY <1>3 DEF OneAtATime, W

LEMMA FlatAtClose == CloseInv => ClosedIsFlat
BY DEF CloseInv, Shrinking, ClosedIsFlat

\* What is on file was filled at the venue.
LEMMA RecordedWasFilled ==
    ASSUME CloseInv
    PROVE  Recorded \in Nat /\ OurFills \in Nat /\ Recorded <= OurFills
<1> DEFINE F == [n \in DOMAIN log |-> log[n].filled]
           C == [n \in Numbers |-> venue[n].cum]
<1>1. /\ DOMAIN log \subseteq Numbers /\ IsFiniteSet(Numbers) /\ IsFiniteSet(DOMAIN log)
  BY OneOpen, NumbersAreFinite, FS_Subset
<1>2. \A n \in Numbers : C[n] \in Nat
  BY DEF CloseInv, Shape, VenueShape, Orders
<1>3. \A n \in DOMAIN log : F[n] \in Nat /\ F[n] <= C[n]
  <2> SUFFICES ASSUME NEW n \in DOMAIN log PROVE log[n].filled \in Nat /\ log[n].filled <= C[n]
    OBVIOUS
  <2>1. log[n] \in Attempts /\ n \in Numbers
    BY OneOpen
  <2>2. log[n].filled = 0 \/ log[n].filled = venue[n].cum
    BY DEF CloseInv, RowsAreHonest, Honest
  <2>3. log[n].filled \in Nat
    BY <2>1 DEF Attempts
  <2> QED BY <1>2, <2>1, <2>2, <2>3
<1>4. Recorded = SumOver(F, DOMAIN log) /\ OurFills = SumOver(C, Numbers)
  <2>1. Sum(F) = SumOver(F, DOMAIN F) /\ Sum(C) = SumOver(C, DOMAIN C)
    BY SumIsSum
  <2>2. DOMAIN F = DOMAIN log /\ DOMAIN C = Numbers
    OBVIOUS
  <2> HIDE DEF F, C
  <2>3. Recorded = Sum(F) /\ OurFills = Sum(C)
    BY DEF Recorded, OurFills, F, C
  <2> QED BY <2>1, <2>2, <2>3
<1> HIDE DEF F, C
<1>5. SumOver(F, DOMAIN log) \in Nat /\ SumOver(C, Numbers) \in Nat
      /\ SumOver(C, DOMAIN log) \in Nat
  BY <1>1, <1>2, <1>3, SumIsNat
<1>6. SumOver(F, DOMAIN log) <= SumOver(C, DOMAIN log)
  BY <1>1, <1>2, <1>3, SumShrinks
<1>7. SumOver(C, DOMAIN log) <= SumOver(C, Numbers)
  BY <1>1, <1>2, SumGrows
<1> HIDE DEF SumOver
<1> QED BY <1>4, <1>5, <1>6, <1>7

LEMMA BaselineIsNat == ASSUME CloseInv PROVE Baseline \in Nat
<1>1. WentOut \subseteq DOMAIN log /\ DOMAIN log = 1..Len(log) /\ Len(log) \in Nat
  BY OneOpen DEF WentOut
<1>2. CASE WentOut = {}
  BY <1>2 DEF Baseline
<1>3. CASE WentOut # {}
  <2>1. Min(WentOut) \in DOMAIN log
    BY <1>1, <1>3, LeastOf
  <2>2. log[Min(WentOut)].before \in Nat
    BY <2>1, OneOpen DEF Attempts
  <2> QED BY <1>3, <2>2 DEF Baseline
<1> QED BY <1>2, <1>3

LEMMA OursWhenExplained == CloseInv => ExplainedIsOurs
<1> SUFFICES ASSUME CloseInv, Explained PROVE OurFills >= Baseline
  BY DEF ExplainedIsOurs
<1>1. Recorded >= Baseline
  BY DEF Explained
<1> QED BY <1>1, RecordedWasFilled, BaselineIsNat

LEMMA SettledIsTrue == CloseInv /\ ~Resend => ResolvedIsTrue
BY DEF CloseInv, RowsAreHonest, Honest, ResolvedIsTrue, Ends, Nowhere

\* With fresh ids, a closed log that leaves nothing to book is booked to the last lot.
LEMMA AllIsReported == CloseInv /\ ~Resend => NothingUnreported
<1> SUFFICES ASSUME CloseInv, ~Resend, state.closed, Unbooked = {}
             PROVE  Sum(ledger) = OurFills
  BY DEF NothingUnreported
<1> DEFINE C == [n \in Numbers |-> venue[n].cum]
<1>1. \A n \in Numbers :
         /\ booked[n] \in Nat /\ ledger[n] \in Nat /\ venue[n].cum \in Nat
         /\ booked[n] <= ledger[n] /\ ledger[n] <= venue[n].cum
         /\ Sound(venue[n])
  BY DEF CloseInv, Shape, BooksShape, VenueShape, Orders, SentOnce, OrdersAreSound
<1>2. ASSUME NEW n \in Numbers PROVE ledger[n] = C[n]
  <2>1. CASE n \notin DOMAIN log
    <3>1. n > Len(log)
      BY <2>1, OneOpen DEF Numbers
    <3> QED BY <3>1 DEF CloseInv, Untouched, NoOrder
  <2>2. CASE n \in DOMAIN log /\ log[n].state = "NEVER_SENT"
    <3>1. venue[n].st \in Nowhere
      BY <2>2 DEF CloseInv, RowsAreHonest, Honest
    <3>2. venue[n].cum = 0
      BY <1>1, <3>1 DEF Sound
    <3> QED BY <1>1, <3>2
  <2>3. CASE n \in DOMAIN log /\ log[n].state # "NEVER_SENT"
    <3>1. log[n].state \in Resolutions
      BY <2>3 DEF CloseInv, ClosedIsSettled, Unresolved
    <3>2. n \in WentOut /\ n \notin Unbooked
      BY <2>3 DEF WentOut
    <3>3. ~(log[n].filled > booked[n]) /\ log[n].state # "MOOT"
      BY <3>1, <3>2 DEF Unbooked
    <3>4. log[n].state \in Ends
      BY <2>3, <3>1, <3>3 DEF Resolutions, Ends
    <3>5. log[n].filled = venue[n].cum
      BY <2>3, <3>4 DEF CloseInv, RowsAreHonest, Honest
    <3> QED BY <1>1, <3>3, <3>5
  <2> QED BY <2>1, <2>2, <2>3
<1>3. Sum(ledger) = SumOver(ledger, Numbers)
  <2>1. DOMAIN ledger = Numbers
    BY DEF CloseInv, Shape, BooksShape
  <2> QED BY <2>1, SumIsSum
<1>4. OurFills = SumOver(C, Numbers)
  <2>1. Sum(C) = SumOver(C, DOMAIN C) /\ DOMAIN C = Numbers
    BY SumIsSum
  <2> HIDE DEF C
  <2>2. OurFills = Sum(C)
    BY DEF OurFills, C
  <2> QED BY <2>1, <2>2
<1> HIDE DEF C
<1>5. SumOver(ledger, Numbers) = SumOver(C, Numbers)
  BY <1>2, NumbersAreFinite, SumSame
<1> HIDE DEF SumOver
<1> QED BY <1>3, <1>4, <1>5

\* However requests are delayed, lists lag, or the process restarts, at most one close
\* order is where it can still move the position (close_plan.py:314-315, 323-327).
THEOREM OneOrderAtATime == CloseSpec => []OneAtATime
<1>1. CloseInv => OneAtATime
  BY AtMostOne
<1> QED BY <1>1, CloseInvariant, PTL

\* While nobody else trades, a cycle is closed only once the venue's short is gone
\* (carry_engine.py:2671-2674).
THEOREM FlatWhenClosed == CloseSpec => []ClosedIsFlat
<1>1. CloseInv => ClosedIsFlat
  BY FlatAtClose
<1> QED BY <1>1, CloseInvariant, PTL

\* A close that explains the flat position bought back what it started from
\* (close_executor.py:379-391).
THEOREM ExplainedByOurs == CloseSpec => []ExplainedIsOurs
<1>1. CloseInv => ExplainedIsOurs
  BY OursWhenExplained
<1> QED BY <1>1, CloseInvariant, PTL

\* The behaviours of one policy, beside those of the other.
FreshInv == ~sameId => CloseInv

LEMMA FreshInvariant == BothSpec => []FreshInv
<1>1. BothInit => FreshInv
  BY CloseBegins DEF BothInit, FreshInv
<1>2. FreshInv /\ [BothNext]_<<closeVars, sameId>> => FreshInv'
  <2> SUFFICES ASSUME FreshInv, [BothNext]_<<closeVars, sameId>>, ~sameId' PROVE CloseInv'
    BY DEF FreshInv
  <2>1. ~sameId /\ [CloseNext]_closeVars
    BY DEF BothNext
  <2> QED BY <2>1, CloseStays DEF FreshInv
<1> QED BY <1>1, <1>2, PTL DEF BothSpec

\* With a fresh id for every attempt, what is on file as settled is settled at the venue
\* the same way (close_plan.py:141-157).
THEOREM SettledAtTheVenue == ASSUME ~Resend PROVE BothSpec => []FreshResolvedIsTrue
<1>1. FreshInv => FreshResolvedIsTrue
  BY SettledIsTrue DEF FreshInv, FreshResolvedIsTrue
<1> QED BY <1>1, FreshInvariant, PTL

\* With fresh ids, a close that leaves nothing to book has booked every lot the venue
\* filled for it (close_executor.py:72-75).
THEOREM EveryLotIsBooked == ASSUME ~Resend PROVE BothSpec => []FreshNothingUnreported
<1>1. FreshInv => FreshNothingUnreported
  BY AllIsReported DEF FreshInv, FreshNothingUnreported
<1> QED BY <1>1, FreshInvariant, PTL

===============================================================================
