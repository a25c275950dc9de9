-------------------------- MODULE OverlayOpen_proofs --------------------------
(***************************************************************************)
(* Theorems about the engine opening its hedge, for a hedge of any size,   *)
(* any number of order ids, copies and delays.                             *)
(*                                                                         *)
(* The argument.  Every step of the engine is a step the broker's own      *)
(* specification allows, except the comparison at a cold start, which      *)
(* writes no order: so BrokerTruth, proved of any caller, holds under this *)
(* one too.  What an order can come to (Potential) never grows unless a    *)
(* copy of it leaves, and only the call in progress sends one; it is never *)
(* more than what is on file for the order.  So it is enough to know, at   *)
(* each point of the leg, which order may still be open: none (rest,       *)
(* take), the maker order (MakerIsOut), or the crossing order for what the *)
(* maker order left (TakerIsOut).  All others are over, with what the leg  *)
(* has booked of them (DoneWith), and Exposure is then a sum of at most    *)
(* two terms.  A flat book has none open, and a book that starts again     *)
(* finds every order closed on file, which BrokerTruth says is closed at   *)
(* the venue.                                                              *)
(***************************************************************************)
EXTENDS OverlayOpen, CarryBroker_proofs, SetSums_proofs
LegPoints == {"none", "rest", "resting", "waiting", "cancelling", "take", "taking"}

InCall == {"resting", "cancelling", "taking"}

LedgerRows == [state : {"FLAT", "HEDGED", "HALTED"}, qty : Nat]

EngineTypeOK ==
    /\ book \in Books
    /\ leg \in [pc : LegPoints, want : {0, Wanted}, maker : Nat, link : Links]
    /\ held \in Nat
    /\ ledger \in LedgerRows

\* The order is over, with n filled.
DoneWith(l, n) == Dead(l) /\ venue[l].cum = n

\* Only a leg in progress calls the broker, and only in a process that may trade.
WhoCalls ==
    /\ mode # "trading" => book \in {"STARTING", "HALTED"}
    /\ mode \in {"down", "recovering"} => book = "STARTING"
    /\ leg.pc # "none" <=> book = "OPENING"
    /\ book = "OPENING" => leg.want = Wanted
    /\ call.pc # "idle" =>
          \/ mode = "recovering" /\ call.op = "recover" /\ call.pc = "settle"
          \/ leg.pc \in InCall
    /\ leg.pc \in InCall => call.pc \notin {"idle", "settle"}
    /\ mode = "trading" /\ book = "STARTING" => UnresolvedOrders = {}

\* The call is the leg's, and its order is a new one.
WhatIsAsked ==
    /\ leg.pc = "resting" => call.op = "post_only" /\ call.link = leg.link /\ call.qty = Wanted
    /\ leg.pc = "cancelling" => call.op = "cancel" /\ call.link = leg.link
    /\ leg.pc = "taking" => call.op = "market" /\ call.qty = Remainder /\ Remainder > 0
    /\ call.op = "cancel" => call.pc \in {"idle", "read", "fill", "confirm", "return"}
    /\ call.pc = "intent" => ~Recorded(call.link)

WhatIsAnswered ==
    LET l == call.link
        g == call.got
    IN /\ call.op # "market" => ~call.unconfirmed
       /\ call.op = "market" /\ g.kind = "row" => ~g.resting /\ g.cum > 0
       /\ call.op # "market" /\ call.pc = "return" /\ g.kind = "row" /\ ~g.resting =>
              venue[l].st \in Ended /\ venue[l].cum = g.cum
       /\ g.kind = "refused" => call.pc = "return" /\ orders[l].submits = 0

\* What every order has come to, or can still come to, where the leg stands.
MakerIsOut ==
    /\ \A l \in Links : l # leg.link => DoneWith(l, 0)
    /\ Recorded(leg.link) => orders[leg.link].req <= Wanted
    /\ leg.maker <= venue[leg.link].cum

MakerFilled(l) == IF l = leg.link THEN leg.maker ELSE 0

TakerIsOut ==
    /\ \A l \in Links : l # call.link => DoneWith(l, MakerFilled(l))
    /\ call.link = leg.link => leg.maker = 0
    /\ Recorded(call.link) => orders[call.link].req <= Remainder

LegAccounts ==
    /\ book = "FLAT" \/ leg.pc = "rest" => \A l \in Links : DoneWith(l, 0)
    /\ leg.pc = "rest" => leg.maker = 0
    /\ leg.pc \in {"resting", "waiting", "cancelling"} => MakerIsOut
    /\ leg.pc = "take" => \A l \in Links : DoneWith(l, MakerFilled(l))
    /\ leg.pc = "taking" => TakerIsOut

HedgeAccounts ==
    book = "HEDGED" =>
        /\ ledger = [state |-> "HEDGED", qty |-> held]
        /\ UnresolvedOrders = {} => Exposure = held

EngineShape ==
    /\ EngineTypeOK
    /\ WhoCalls
    /\ WhatIsAsked
    /\ WhatIsAnswered
    /\ ledger.state = "FLAT" => ledger.qty = 0

EngineInv ==
    /\ EngineShape
    /\ blind = {} => LegAccounts /\ HedgeAccounts /\ Exposure <= Wanted

-------------------------------------------------------------------------------
(***************************************************************************)
(* The sums.                                                               *)
(***************************************************************************)

Potentials == [l \in Links |-> Potential(l)]

Fills == [l \in Links |-> venue[l].cum]

\* The sums of the model are sums of a function over the orders.
LEMMA ExposureIsSum == Exposure = SumOver(Potentials, Links)
<1> DEFINE A == Potentials
           Sums(f) == f = [s \in SUBSET Links |->
                              IF s = {} THEN 0 ELSE Potential(Chosen(s)) + f[s \ {Chosen(s)}]]
<1>1. ASSUME NEW f PROVE Sums(f) <=> AddsUp(A, Links, f)
  <2>1. \A s \in SUBSET Links : s # {} => A[Chosen(s)] = Potential(Chosen(s))
    BY ChosenIsIn DEF Potentials
  <2> HIDE DEF A
  <2> QED
    BY <2>1 DEF AddsUp
<1>2. (CHOOSE f : Sums(f)) = (CHOOSE f : AddsUp(A, Links, f))
  <2> HIDE DEF A, Sums
  <2> QED
    BY <1>1
<1>3. Exposure = (CHOOSE f : Sums(f))[Links]
  BY DEF Exposure, MapThenSumSet, MapThenFoldSet, Chosen
<1> QED
  BY <1>2, <1>3, SumIsAdder DEF Adder

\* What the venue holds is a sum over the orders too.
LEMMA ShortIsSum == VenueShort = SumOver(Fills, Links)
<1> DEFINE A == Fills
           Sums(f) == f = [s \in SUBSET Links |->
                              IF s = {} THEN 0 ELSE venue[Chosen(s)].cum + f[s \ {Chosen(s)}]]
<1>1. ASSUME NEW f PROVE Sums(f) <=> AddsUp(A, Links, f)
  <2>1. \A s \in SUBSET Links : s # {} => A[Chosen(s)] = venue[Chosen(s)].cum
    BY ChosenIsIn DEF Fills
  <2> HIDE DEF A
  <2> QED
    BY <2>1 DEF AddsUp
<1>2. (CHOOSE f : Sums(f)) = (CHOOSE f : AddsUp(A, Links, f))
  <2> HIDE DEF A, Sums
  <2> QED
    BY <1>1
<1>3. VenueShort = (CHOOSE f : Sums(f))[Links]
  BY DEF VenueShort, MapThenSumSet, MapThenFoldSet, Chosen
<1> QED
  BY <1>2, <1>3, SumIsAdder DEF Adder

\* An order comes to no more than was asked of it, and to nothing if it was not sent.
LEMMA Ceiling ==
    ASSUME BrokerTruth, NEW l \in Links
    PROVE  /\ Potential(l) \in Nat /\ venue[l].cum \in Nat /\ orders[l].req \in Nat
           /\ venue[l].cum <= Potential(l) /\ Potential(l) <= orders[l].req
           /\ Dead(l) => Potential(l) = venue[l].cum
           /\ orders[l].submits = 0 => DoneWith(l, 0)
<1>0. BrokerInv /\ VenueTold(l)
  BY DEF BrokerTruth
<1>1. /\ venue[l].cum \in Nat /\ venue[l].qty \in Nat /\ net[l].qty \in Nat
      /\ venue[l].st \in {"none", "live"} \cup Ended
      /\ venue[l].st = "none" => venue[l].cum = 0
      /\ venue[l].cum <= venue[l].qty \/ venue[l].st = "none"
  BY <1>0, VenueFacts
<1>2. /\ orders[l].req \in Nat
      /\ orders[l].submits = 0 => venue[l].st = "none" /\ net[l].out = {}
  BY <1>0, RowFacts
<1>3. /\ venue[l].st # "none" => venue[l].qty = net[l].qty
      /\ venue[l].st # "none" \/ net[l].out # {} => net[l].qty <= orders[l].req
  BY <1>0 DEF VenueTold
<1> QED
  BY <1>1, <1>2, <1>3 DEF Potential, Dead, DoneWith

\* The function that is summed, order by order.
LEMMA PotentialsAreNat ==
    ASSUME BrokerTruth
    PROVE  \A l \in Links : Potentials[l] = Potential(l) /\ Potentials[l] \in Nat
BY Ceiling DEF Potentials

\* All orders together come to a number of lots.
LEMMA ExposureIsNat == ASSUME BrokerTruth PROVE Exposure \in Nat
BY PotentialsAreNat, SumIsNat, ExposureIsSum, FiniteAssumption

\* All orders but one are over without a fill.
LEMMA OneCounts ==
    ASSUME BrokerTruth, NEW k \in Links, \A l \in Links : l # k => DoneWith(l, 0)
    PROVE  Exposure = Potential(k)
<1>1. \A l \in Links \ {k} : Potentials[l] = 0
  BY PotentialsAreNat, Ceiling DEF DoneWith
<1>2. IsFiniteSet(Links \ {k})
  BY FiniteAssumption, FS_Subset
<1>3. SumOver(Potentials, Links \ {k}) = 0
  BY <1>1, <1>2, SumOfZeros
<1>4. SumOver(Potentials, Links) = Potentials[k] + SumOver(Potentials, Links \ {k})
  BY PotentialsAreNat, SumWithout, FiniteAssumption
<1>5. Potentials[k] = Potential(k) /\ Potential(k) \in Nat
  BY PotentialsAreNat
<1> HIDE DEF SumOver
<1> QED
  BY <1>3, <1>4, <1>5, ExposureIsSum

\* All orders but two are over without a fill.
LEMMA TwoCount ==
    ASSUME BrokerTruth, NEW k \in Links, NEW j \in Links, j # k,
           \A l \in Links : l # k /\ l # j => DoneWith(l, 0)
    PROVE  Exposure = Potential(k) + Potential(j)
<1> DEFINE R == Links \ {k}
           Q == R \ {j}
<1>1. \A l \in Q : Potentials[l] = 0
  BY PotentialsAreNat, Ceiling DEF DoneWith
<1>2. IsFiniteSet(R) /\ IsFiniteSet(Q) /\ j \in R
  BY FiniteAssumption, FS_Subset
<1>3. SumOver(Potentials, Q) = 0
  <2> HIDE DEF Q
  <2> QED
    BY <1>1, <1>2, SumOfZeros
<1>4. SumOver(Potentials, Links) = Potentials[k] + SumOver(Potentials, R)
  BY PotentialsAreNat, SumWithout, FiniteAssumption
<1>5. SumOver(Potentials, R) = Potentials[j] + SumOver(Potentials, Q)
  <2>1. \A l \in R : Potentials[l] \in Nat
    BY PotentialsAreNat
  <2> HIDE DEF R
  <2> QED
    BY <1>2, <2>1, SumWithout
<1>6. Potentials[k] = Potential(k) /\ Potential(k) \in Nat /\ Potentials[j] = Potential(j)
      /\ Potential(j) \in Nat
  BY PotentialsAreNat
<1> HIDE DEF SumOver, R, Q
<1> QED
  BY <1>3, <1>4, <1>5, <1>6, ExposureIsSum

\* All orders are over without a fill.
LEMMA NoneCounts ==
    ASSUME BrokerTruth, \A l \in Links : DoneWith(l, 0)
    PROVE  Exposure = 0
<1>1. PICK k \in Links : TRUE
  BY LinksAssumption
<1>2. Exposure = Potential(k) /\ Potential(k) = 0
  BY OneCounts, Ceiling DEF DoneWith
<1> QED
  BY <1>2

\* Every order is over: what they come to is what they filled.
LEMMA DoneCount ==
    ASSUME BrokerTruth, \A l \in Links : Dead(l)
    PROVE  Exposure = VenueShort
<1>1. \A l \in Links : Potentials[l] = Fills[l]
  BY Ceiling DEF Potentials, Fills
<1>2. SumOver(Potentials, Links) = SumOver(Fills, Links)
  BY <1>1, SumSame, FiniteAssumption
<1> HIDE DEF SumOver
<1> QED
  BY <1>2, ExposureIsSum, ShortIsSum

\* No order has filled.
LEMMA ShortOfNothing ==
    ASSUME BrokerTruth, VenueShort = 0, NEW l \in Links
    PROVE  venue[l].cum = 0
<1>1. \A m \in Links : Fills[m] = venue[m].cum /\ Fills[m] \in Nat
  BY Ceiling DEF Fills
<1>2. SumOver(Fills, Links) = Fills[l] + SumOver(Fills, Links \ {l})
  BY <1>1, SumWithout, FiniteAssumption
<1>3. SumOver(Fills, Links \ {l}) \in Nat
  BY <1>1, SumIsNat, FiniteAssumption, FS_Subset
<1> HIDE DEF SumOver
<1> QED
  BY <1>1, <1>2, <1>3, ShortIsSum

-------------------------------------------------------------------------------
(***************************************************************************)
(* What a step of the broker leaves of every order it is not sending.      *)
(***************************************************************************)

Posting(l) == call.link = l /\ call.pc = "post" /\ call'.pc = "wait"

\* Only a copy that leaves puts anything on its way.
LEMMA NetKeeps ==
    ASSUME BrokerInv, [Next]_vars, NEW l \in Links, ~Posting(l)
    PROVE  net'[l].qty = net[l].qty /\ net'[l].out \subseteq net[l].out
<1>0. net \in [Links -> Nets] /\ call \in Calls /\ call.link \in Links
  BY VenueFacts DEF BrokerInv, TypeOK, Calls
<1>1. CASE UNCHANGED venueVars
  BY <1>1 DEF venueVars
<1>2. CASE HangUp(call.link)
  <2>1. net' = [net EXCEPT ![call.link].back = {}]
    BY <1>2 DEF HangUp
  <2>2. CASE l = call.link
    BY <1>0, <2>1, <2>2 DEF Nets
  <2>3. CASE l # call.link
    BY <1>0, <2>1, <2>3
  <2> QED
    BY <2>2, <2>3
<1>3. CASE SendCopy
  <2>1. call'.pc = "wait" /\ call.pc = "post"
    BY <1>0, <1>3 DEF SendCopy, At, Calls
  <2>2. l # call.link
    BY <2>1 DEF Posting
  <2> QED
    BY <1>0, <1>3, <2>2 DEF SendCopy, Post
<1>4. ASSUME NEW m \in Links, NEW awaited, VenueStep(m, awaited)
      PROVE  net'[l].qty = net[l].qty /\ net'[l].out \subseteq net[l].out
  <2>1. UNCHANGED net \/ \E i \in net[m].out, said \in Answers : Answer(m, i, said, awaited)
    BY <1>4 DEF VenueStep, Land, LandAccepted, LandRefused, LandDuplicate, Fill, End, Show, Answers
  <2>2. ASSUME NEW i, NEW said \in Answers, Answer(m, i, said, awaited)
        PROVE  net'[l].qty = net[l].qty /\ net'[l].out \subseteq net[l].out
    <3>1. CASE m = l
      BY <1>0, <2>2, <3>1 DEF Answer, Nets
    <3>2. CASE m # l
      BY <1>0, <2>2, <3>2 DEF Answer
    <3> QED
      BY <3>1, <3>2
  <2> QED
    BY <2>1, <2>2
<1>5. CASE Tick(Aging)
  BY <1>5, TickMoves
<1> QED
  BY <1>1, <1>2, <1>3, <1>4, <1>5, StepsOutside

\* An order that is over stays over, with what it filled.
LEMMA StaysDone ==
    ASSUME BrokerTruth, [Next]_vars, NEW l \in Links, ~Posting(l), Dead(l)
    PROVE  Dead(l)' /\ venue'[l].cum = venue[l].cum
<1>0. BrokerInv /\ VenueTold(l)
  BY DEF BrokerTruth
<1>1. VenueOnward(l)
  BY <1>0, NeverBack
<1>2. net'[l].out \subseteq net[l].out
  BY <1>0, NetKeeps
<1>3. CASE Gone(l)
  BY <1>1, <1>3 DEF VenueOnward, Gone, Over, Dead
<1>4. CASE venue[l].st = "none" /\ net[l].out = {}
  <2>1. venue'[l].st = "none" /\ venue'[l].cum = venue[l].cum
    BY <1>1, <1>4 DEF VenueOnward
  <2>2. net'[l].out = {}
    BY <1>2, <1>4
  <2> QED
    BY <2>1, <2>2 DEF Dead
<1> QED
  BY <1>3, <1>4 DEF Dead, Gone, Over

\* What an order can come to never grows, unless a copy of it leaves.
LEMMA NotMore ==
    ASSUME BrokerTruth, BrokerTruth', [Next]_vars, NEW l \in Links, ~Posting(l)
    PROVE  Potential(l)' <= Potential(l)
<1>0. BrokerInv /\ VenueTold(l) /\ BrokerInv' /\ VenueTold(l)'
  BY DEF BrokerTruth
<1>1. venue[l].cum \in Nat /\ net[l].qty \in Nat
  BY <1>0, VenueFacts
<1>2. net'[l].qty = net[l].qty
  BY <1>0, NetKeeps
<1>3. CASE Dead(l)
  BY <1>1, <1>3, StaysDone DEF Potential
<1>4. CASE ~Dead(l)
  <2>1. Potential(l) = net[l].qty
    BY <1>4 DEF Potential
  <2>2. venue'[l].cum <= net'[l].qty
    <3>1. venue \in [Links -> VenueRows] /\ VenueFits
      BY <1>0 DEF BrokerInv, TypeOK, VenueTypeOK
    <3>2. VenueFits' /\ VenueTypeOK'
      BY <1>0 DEF BrokerInv, TypeOK
    <3>3. /\ venue'[l].st = "none" => venue'[l].cum = 0
          /\ venue'[l].st # "none" => venue'[l].cum <= venue'[l].qty
      BY <3>2 DEF VenueFits, VenueRowFits
    <3>4. venue'[l].st # "none" => venue'[l].qty = net'[l].qty
      BY <1>0 DEF VenueTold
    <3> QED
      BY <1>1, <1>2, <3>3, <3>4
  <2> QED
    BY <1>1, <1>2, <2>1, <2>2 DEF Potential
<1> QED
  BY <1>3, <1>4

\* The sums of the next state.
LEMMA NextSum == (Exposure = SumOver(Potentials, Links))'
BY ExposureIsSum, PTL

\* The function that is summed, in the next state.
LEMMA NextPotentials ==
    (BrokerTruth => \A l \in Links : Potentials[l] = Potential(l) /\ Potentials[l] \in Nat)'
<1>1. BrokerTruth => \A l \in Links : Potentials[l] = Potential(l) /\ Potentials[l] \in Nat
  BY PotentialsAreNat
<1> QED
  BY <1>1, PTL

\* With no copy leaving, all orders together come to no more than before.
LEMMA ExposureShrinks ==
    ASSUME BrokerTruth, BrokerTruth', [Next]_vars, \A l \in Links : ~Posting(l)
    PROVE  Exposure' <= Exposure
<1> DEFINE A == Potentials'
           C == Potentials
<1>1. \A l \in Links : A[l] \in Nat /\ C[l] \in Nat /\ A[l] <= C[l]
  <2>1. \A l \in Links : C[l] = Potential(l) /\ C[l] \in Nat
    BY PotentialsAreNat
  <2>2. \A l \in Links : A[l] = Potential(l)' /\ A[l] \in Nat
    BY NextPotentials
  <2> QED
    BY <2>1, <2>2, NotMore
<1>2. SumOver(A, Links) <= SumOver(C, Links)
  <2> HIDE DEF A, C
  <2> QED
    BY <1>1, SumShrinks, FiniteAssumption
<1>3. Exposure' = SumOver(A, Links)
  BY NextSum
<1> QED
  BY <1>2, <1>3, ExposureIsSum

\* With every order over, the sum stays what it is.
LEMMA ExposureStays ==
    ASSUME BrokerTruth, BrokerTruth', [Next]_vars, \A l \in Links : ~Posting(l) /\ Dead(l)
    PROVE  Exposure' = Exposure
<1> DEFINE A == Potentials'
           C == Potentials
<1>1. \A l \in Links : A[l] = C[l]
  <2>1. \A l \in Links : C[l] = Potential(l)
    BY PotentialsAreNat
  <2>2. \A l \in Links : A[l] = Potential(l)'
    BY NextPotentials
  <2>3. \A l \in Links : Potential(l)' = Potential(l)
    BY StaysDone DEF Potential
  <2> QED
    BY <2>1, <2>2, <2>3
<1>2. SumOver(A, Links) = SumOver(C, Links)
  <2> HIDE DEF A, C
  <2> QED
    BY <1>1, SumSame, FiniteAssumption
<1>3. Exposure' = SumOver(A, Links)
  BY NextSum
<1> QED
  BY <1>2, <1>3, ExposureIsSum

-------------------------------------------------------------------------------
(***************************************************************************)
(* The log.                                                                *)
(***************************************************************************)

\* With no order on file as open, every order is over.
LEMMA ClosedIsDone ==
    ASSUME BrokerTruth, blind = {}, UnresolvedOrders = {}, NEW l \in Links
    PROVE  Dead(l) /\ venue[l].cum = orders[l].filled
<1>0. BrokerInv /\ RowTrue(l) /\ RowInv(orders[l])
  BY DEF BrokerTruth, BrokerInv, LogInv
<1>1. orders[l].status \in Statuses \cup {"absent"}
  BY <1>0, RowFacts DEF Rows
<1>2. orders[l].status \in Terminal \cup {"absent"}
  BY <1>1 DEF UnresolvedOrders, Statuses
<1>3. CASE orders[l].status = "absent"
  <2>1. orders[l].submits = 0 /\ orders[l].filled = 0
    BY <1>0, <1>3 DEF RowInv, SubmitsFit, FillFitsStatus
  <2> QED
    BY <2>1, Ceiling DEF DoneWith
<1>4. CASE orders[l].status \in Terminal
  <2>1. (Gone(l) \/ orders[l].submits = 0) /\ orders[l].filled = venue[l].cum
    BY <1>0, <1>4 DEF RowTrue
  <2>2. Gone(l) => Dead(l)
    BY DEF Gone, Over, Dead
  <2> QED
    BY <2>1, <2>2, Ceiling DEF DoneWith
<1> QED
  BY <1>2, <1>3, <1>4

\* An event judged by the lifecycle does not change what was asked.
LEMMA ApplyKeepsReq ==
    ASSUME BrokerInv, NEW m \in Links, NEW l \in Links, NEW k, NEW cum, NEW keyed \in BOOLEAN,
           Apply(m, k, cum, keyed)
    PROVE  orders'[l].req = orders[l].req /\ (~Recorded(l) => ~Recorded(l)')
<1> DEFINE r == orders[m]
           v == Decide(r.status, k, r.filled, r.req, cum)
           a == After(r, k, cum, keyed)
<1>0. orders \in [Links -> Rows] /\ r \in Rows
  BY DEF BrokerInv, LogInv, LogTypeOK
<1>1. orders' = [orders EXCEPT ![m] = a]
  BY DEF Apply
<1>2. a.req = r.req
  <2>1. CASE (keyed /\ cum \in r.keys) \/ ~v.applied
    BY <2>1 DEF After
  <2>2. CASE ~(keyed /\ cum \in r.keys) /\ v.applied
    <3> DEFINE st == v.status
               f == NewFill(r, k, v)
               n == IF k = "submit_attempt" THEN r.submits + 1 ELSE r.submits
               ks == IF keyed THEN r.keys \cup {cum} ELSE r.keys
    <3>1. a = [r EXCEPT !.status = st, !.filled = f, !.submits = n, !.keys = ks]
      BY <2>2 DEF After
    <3> HIDE DEF st, f, n, ks, a
    <3> QED
      BY <1>0, <3>1 DEF Rows
  <2> QED
    BY <2>1, <2>2
<1>3. Recorded(m)
  BY DEF Apply
<1> HIDE DEF a
<1> QED
  BY <1>0, <1>1, <1>2, <1>3 DEF Recorded

\* What was asked of an order changes only when it is put on file.
ReqStays(l) == orders'[l].req = orders[l].req /\ (~Recorded(l) => ~Recorded(l)')

\* A step other than the filing of this order leaves what was asked of it.
LEMMA ReqKeeps ==
    ASSUME BrokerInv, [Next]_vars, NEW l \in Links, ~(call.pc = "intent" /\ call.link = l)
    PROVE  ReqStays(l)
<1>0. call \in Calls /\ call.link \in Links /\ TRUE \in BOOLEAN /\ FALSE \in BOOLEAN
  BY DEF BrokerInv, TypeOK, Calls
<1>1. CASE UNCHANGED orders
  BY <1>1 DEF ReqStays, Recorded
<1>2. CASE IntentNew
  <2>1. call.link # l
    BY <1>2 DEF IntentNew, At
  <2> QED
    BY <1>0, <1>2, <2>1 DEF IntentNew, RecordIntent, ReqStays, Recorded
<1>3. ASSUME NEW m \in Links, NEW k, NEW cum, NEW keyed \in BOOLEAN, Apply(m, k, cum, keyed)
      PROVE  ReqStays(l)
  BY <1>3, ApplyKeepsReq DEF ReqStays
<1>4. CASE Callers
  BY <1>1, <1>3, <1>4
  DEF Callers, PlaceMarket, PlacePostOnly, Begin, CancelOrder, Taken, LogEvent
<1>5. CASE Procedure
  <2>1. CASE \/ IntentKnown \/ LogRefuses \/ SendCopy \/ NoAnswer
             \/ HearAccepted \/ HearRefused \/ HearDuplicate \/ ReadBack
    BY <1>1, <2>1 DEF IntentKnown, LogRefuses, SendCopy, NoAnswer, HearAccepted, HearRefused,
                      HearDuplicate, HeardIt, ReadBack
  <2>2. CASE SubmitMarker \/ Acknowledge
    BY <1>0, <1>1, <1>3, <2>2 DEF SubmitMarker, Acknowledge, LogEvent
  <2>3. CASE FinishNothing \/ FinishFill
    BY <1>0, <1>1, <1>3, <2>3 DEF FinishNothing, FinishFill, LogEvent
  <2>4. CASE FinishRest \/ FinishDoubt \/ CancelRead
    BY <1>0, <1>1, <1>3, <2>4 DEF FinishRest, FinishDoubt, CancelRead, LogEvent
  <2> QED
    BY <1>2, <1>5, <2>1, <2>2, <2>3, <2>4 DEF Procedure
<1>6. CASE Recovery
  <2>1. CASE Restart \/ RecoverDone
    BY <1>1, <2>1 DEF Restart, RecoverDone
  <2>2. CASE RecoverSettle
    BY <1>0, <1>1, <1>3, <2>2 DEF RecoverSettle
  <2>3. ASSUME NEW m \in Links, RecoverPending(m) \/ RecoverRead(m)
        PROVE  ReqStays(l)
    BY <1>0, <1>1, <1>3, <2>3 DEF RecoverPending, RecoverRead
  <2> QED
    BY <1>6, <2>1, <2>2, <2>3 DEF Recovery
<1>7. CASE Crash \/ Outside
  BY <1>1, <1>7 DEF Crash, Outside
<1>8. CASE UNCHANGED vars
  BY <1>1, <1>8 DEF vars
<1> QED
  BY <1>4, <1>5, <1>6, <1>7, <1>8 DEF Next

-------------------------------------------------------------------------------
(***************************************************************************)
(* Every step of the engine is a step of the broker's own specification,   *)
(* except the comparison at a cold start, which writes no order.           *)
(***************************************************************************)

\* A minted id is not on file.
LEMMA FreshIsNew ==
    ASSUME CanMint
    PROVE  Fresh \in Links /\ ~Recorded(Fresh)
BY DEF CanMint, Fresh

\* Every step of the engine is one of the broker, or the comparison of a cold start.
LEMMA EngineIsBroker ==
    ASSUME EngineInv, [EngineNext]_allVars
    PROVE  [Next]_vars \/ ColdStart
<1>0. leg.link \in Links /\ leg.maker \in Nat
  BY DEF EngineInv, EngineShape, EngineTypeOK
<1>1. CASE UNCHANGED allVars
  BY <1>1 DEF allVars
<1>2. CASE OpenOverlay \/ NothingLeft
  BY <1>2 DEF OpenOverlay, NothingLeft
<1>3. CASE Rest
  <2>1. leg.want = Wanted /\ Wanted \in Quantities
    BY <1>3, WantedAssumption DEF EngineInv, EngineShape, WhoCalls, Rest, AtLeg
  <2>2. PlacePostOnly(Fresh, leg.want) /\ Fresh \in Links
    BY <1>3, FreshIsNew DEF Rest
  <2> QED
    BY <2>1, <2>2 DEF Next, Callers
<1>4. CASE Take
  <2>1. leg.want = Wanted
    BY <1>4 DEF EngineInv, EngineShape, WhoCalls, Take, AtLeg
  <2>2. Remainder \in 1..Wanted
    BY <1>0, <1>4, <2>1, WantedAssumption DEF Take, Remainder
  <2>3. PlaceMarket(Fresh, Remainder) /\ Fresh \in Links
    BY <1>4, FreshIsNew DEF Take
  <2> QED
    BY <2>2, <2>3, WantedAssumption DEF Next, Callers
<1>5. CASE Pull
  BY <1>0, <1>5 DEF Pull, Next, Callers
<1>6. CASE Rested \/ Pulled \/ Took
  BY <1>6 DEF Rested, Pulled, Took, Answered, BrokerIdle, Next, Callers, Taken
<1>7. CASE Die
  BY <1>7 DEF Die, Next
<1>8. CASE Procedure \/ Recovery \/ Outside
  BY <1>8 DEF Next
<1> QED
  BY <1>1, <1>2, <1>3, <1>4, <1>5, <1>6, <1>7, <1>8 DEF EngineNext, Engine

\* The comparison of a cold start leaves what the broker knows true.
LEMMA ColdStartTruth ==
    ASSUME BrokerTruth, ColdStart
    PROVE  BrokerTruth'
<1>0. UNCHANGED <<orders, venue, net, age, call, todo, blind>>
  BY DEF ColdStart
<1>1. LogInv'
  BY <1>0 DEF BrokerTruth, BrokerInv, LogInv, LogTypeOK
<1>2. TypeOK'
  <2>1. mode' \in {"down", "recovering", "trading", "protect"}
    BY DEF ColdStart, BrokerTruth, BrokerInv, TypeOK
  <2> QED
    BY <1>0, <2>1 DEF BrokerTruth, BrokerInv, TypeOK, LogTypeOK, VenueTypeOK
<1>3. VenueFits' /\ CallFits' /\ SentFirst' /\ TodoRecorded'
  BY <1>0 DEF BrokerTruth, BrokerInv, VenueFits, VenueRowFits, CallFits, SentFirst, NothingHidden,
              AtTheVenue, TodoRecorded, Recorded
<1>4. \A l \in Links : VenueTold(l)'
  BY <1>0 DEF BrokerTruth, VenueTold, Hidden
<1>5. \A l \in Links \ blind' : RowTrue(l)'
  BY <1>0 DEF BrokerTruth, RowTrue, Gone, Over
<1>6. CallTrue'
  BY <1>0 DEF BrokerTruth, CallTrue, Sending, Shown, EndedUnfilled, Over
<1> QED
  BY <1>1, <1>2, <1>3, <1>4, <1>5, <1>6 DEF BrokerTruth, BrokerInv

\* What holds under any caller of the broker holds under this one.
LEMMA EngineTruth ==
    ASSUME BrokerTruth, EngineInv, [EngineNext]_allVars
    PROVE  BrokerTruth'
BY EngineIsBroker, ColdStartTruth, NextTruth

-------------------------------------------------------------------------------
(***************************************************************************)
(* The procedures of the broker, as the engine uses them.                  *)
(***************************************************************************)

\* What a turn to the read-back leaves of the call.
LEMMA GoReadFields ==
    ASSUME call \in Calls, NEW why, GoRead(why)
    PROVE  /\ call'.pc = "read" /\ call'.link = call.link /\ call'.qty = call.qty
           /\ call'.op = call.op /\ call'.got = call.got /\ call'.unconfirmed = call.unconfirmed
BY DEF GoRead, Calls

\* What a call is when it answers without a row.
LEMMA ReturnFields ==
    ASSUME call \in Calls, NEW kind, Return(kind)
    PROVE  /\ call'.pc = "return" /\ call'.link = call.link /\ call'.qty = call.qty
           /\ call'.op = call.op /\ call'.got.kind = kind /\ ~call'.unconfirmed
<1> DEFINE n == NewCall(call.op, call.link, call.qty, "return")
           g == Told(kind)
<1>1. call' = [n EXCEPT !.got = g] /\ g.kind = kind
  BY DEF Return, Told, Reading
<1>2. /\ call'.pc = "return" /\ call'.link = call.link /\ call'.got = g
      /\ call'.op = call.op /\ call'.qty = call.qty /\ call'.unconfirmed = FALSE
  <2> HIDE DEF g
  <2> QED
    BY <1>1 DEF NewCall
<1> QED
  BY <1>1, <1>2

\* A step that takes the answer so far along.
TakesAlong ==
    /\ call'.op = call.op /\ call'.link = call.link /\ call'.qty = call.qty
    /\ call'.got = call.got /\ call'.unconfirmed = call.unconfirmed

\* The shape of a procedure's step: it stays with its order and its quantity.
ProcedureShape ==
    /\ mode' = mode /\ mode \in {"trading", "recovering"}
    /\ call.pc \notin {"idle", "settle", "return"}
    /\ call'.pc \notin {"idle", "settle", "intent"}
    /\ call'.op = call.op /\ call'.link = call.link /\ call'.qty = call.qty
    /\ call.pc \in {"read", "fill", "confirm"} /\ call.op = "cancel" =>
          call'.pc \in {"fill", "confirm", "return"}

\* Every step of a procedure has that shape.
LEMMA ProcedureStep ==
    ASSUME BrokerTruth, Procedure
    PROVE  ProcedureShape
<1>0. call \in Calls
  BY CallFields
<1> USE DEF ProcedureShape, At, Local, LocalBlind
<1>1. CASE IntentNew \/ SubmitMarker
  <2>1. /\ (Goto("submit") \/ Goto("post")) /\ mode' = mode
        /\ call.pc \in {"intent", "submit"} /\ mode \in {"trading", "recovering"}
    BY <1>1 DEF IntentNew, SubmitMarker
  <2> QED
    BY <1>0, <2>1, GotoTells
<1>2. CASE IntentKnown
  <2>1. CASE Return("unknown")
    BY <1>0, <1>2, <2>1, ReturnFields DEF IntentKnown
  <2>2. CASE Goto("submit")
    BY <1>0, <1>2, <2>2, GotoTells DEF IntentKnown
  <2>3. CASE call' = [call EXCEPT !.pc = "read", !.why = "resume", !.acked = Resent(call.link)]
    <3>1. /\ call'.pc = "read" /\ call'.op = call.op /\ call'.link = call.link
          /\ call'.qty = call.qty
      BY <1>0, <2>3 DEF Calls
    <3> QED
      BY <1>2, <3>1 DEF IntentKnown
  <2> QED
    BY <1>2, <2>1, <2>2, <2>3 DEF IntentKnown
<1>3. CASE LogRefuses
  BY <1>0, <1>3, ReturnFields DEF LogRefuses
<1>4. CASE SendCopy
  <2>1. /\ call'.pc = "wait" /\ call'.op = call.op /\ call'.link = call.link
        /\ call'.qty = call.qty
    BY <1>0, <1>4 DEF SendCopy, Calls
  <2> QED
    BY <1>4, <2>1 DEF SendCopy
<1>5. CASE NoAnswer
  BY <1>0, <1>5, GotoTells, GoReadFields DEF NoAnswer, HeardIt
<1>6. CASE HearAccepted
  <2>1. /\ call'.pc = "ack" /\ call'.op = call.op /\ call'.link = call.link
        /\ call'.qty = call.qty
    BY <1>0, <1>6 DEF HearAccepted, Calls
  <2> QED
    BY <1>6, <2>1 DEF HearAccepted, Heard, HeardIt
<1>7. CASE HearRefused
  BY <1>0, <1>7, GotoTells, GoReadFields DEF HearRefused, Heard, HeardIt
<1>8. CASE HearDuplicate
  BY <1>0, <1>8, GoReadFields DEF HearDuplicate, Heard, HeardIt
<1>9. CASE Acknowledge
  <2>1. CASE GoRead("acked")
    BY <1>0, <1>9, <2>1, GoReadFields DEF Acknowledge
  <2>2. CASE ~GoRead("acked")
    <3>1. call' = [call EXCEPT !.pc = "fill",
                               !.got = Reading("row", venue[call.link].cum, "filled"),
                               !.unconfirmed = venue[call.link].cum < call.qty]
      BY <1>9, <2>2 DEF Acknowledge
    <3>2. /\ call'.pc = "fill" /\ call'.op = call.op /\ call'.link = call.link
          /\ call'.qty = call.qty
      BY <1>0, <3>1 DEF Calls
    <3> QED
      BY <1>9, <3>2 DEF Acknowledge
  <2> QED
    BY <2>1, <2>2
<1>10. CASE ReadBack
  <2>1. PICK r \in Reads(call.link) :
            \/ Goto("nothing")
            \/ call' = [call EXCEPT !.pc = "fill", !.got = r, !.why = ""]
            \/ Goto("doubt")
    BY <1>10 DEF ReadBack
  <2>2. CASE call' = [call EXCEPT !.pc = "fill", !.got = r, !.why = ""]
    <3>1. /\ call'.pc = "fill" /\ call'.op = call.op /\ call'.link = call.link
          /\ call'.qty = call.qty
      BY <1>0, <2>2 DEF Calls
    <3> QED
      BY <1>10, <3>1 DEF ReadBack
  <2> QED
    BY <1>0, <1>10, <2>1, <2>2, GotoTells DEF ReadBack
<1>11. CASE FinishNothing \/ FinishDoubt
  BY <1>0, <1>11, ReturnFields DEF FinishNothing, FinishDoubt
<1>12. CASE FinishFill
  BY <1>0, <1>12, GotoTells DEF FinishFill
<1>13. CASE FinishRest
  BY <1>0, <1>13, GotoTells DEF FinishRest
<1>14. CASE CancelRead
  <2>1. PICK r \in Reads(call.link) :
            \/ call' = [call EXCEPT !.pc = IF r.resting THEN "fill" ELSE "confirm", !.got = r]
            \/ Return("unknown")
    BY <1>14 DEF CancelRead
  <2>2. CASE call' = [call EXCEPT !.pc = IF r.resting THEN "fill" ELSE "confirm", !.got = r]
    <3>1. /\ call'.pc \in {"fill", "confirm"} /\ call'.op = call.op
          /\ call'.link = call.link /\ call'.qty = call.qty
      BY <1>0, <2>2 DEF Calls
    <3> QED
      BY <1>14, <3>1 DEF CancelRead
  <2> QED
    BY <1>0, <1>14, <2>1, <2>2, ReturnFields DEF CancelRead
<1> QED
  BY <1>1, <1>2, <1>3, <1>4, <1>5, <1>6, <1>7, <1>8, <1>9, <1>10, <1>11, <1>12, <1>13, <1>14
  DEF Procedure

\* The answer is taken along, not yet given.
LEMMA CarriedAnswer ==
    ASSUME WhatIsAnswered, TakesAlong, call.pc # "return", call'.pc # "return"
    PROVE  WhatIsAnswered'
BY DEF WhatIsAnswered, TakesAlong

\* An answer without a row.
LEMMA PlainAnswer ==
    ASSUME call \in Calls, NEW kind \in {"none", "unknown"}, Return(kind)
    PROVE  WhatIsAnswered'
BY ReturnFields DEF WhatIsAnswered

\* A step to another point takes the answer along.
LEMMA GotoCarries ==
    ASSUME call \in Calls, NEW pc, Goto(pc)
    PROVE  TakesAlong /\ call'.pc = pc
BY GotoTells DEF TakesAlong

\* So does a turn to the read-back.
LEMMA GoReadCarries ==
    ASSUME call \in Calls, NEW why, GoRead(why)
    PROVE  TakesAlong /\ call'.pc = "read"
BY GoReadFields DEF TakesAlong

\* Up to the answer of the venue nothing is told but that nothing was sent.
LEMMA BeforeAnswers ==
    ASSUME BrokerTruth, WhatIsAsked, WhatIsAnswered,
           \/ IntentNew \/ IntentKnown \/ SubmitMarker \/ LogRefuses
           \/ SendCopy \/ NoAnswer \/ HearAccepted \/ HearRefused \/ HearDuplicate
    PROVE  WhatIsAnswered'
<1>0. call \in Calls /\ call.link \in Links /\ BrokerInv /\ CallTrue
  BY CallFields
<1>1. CASE IntentNew \/ SubmitMarker
  <2>1. (Goto("submit") \/ Goto("post")) /\ call.pc \in {"intent", "submit"}
    BY <1>1 DEF IntentNew, SubmitMarker, At
  <2> QED
    BY <1>0, <2>1, GotoCarries, CarriedAnswer
<1>2. CASE IntentKnown
  <2>1. call.pc = "intent" /\ Recorded(call.link)
    BY <1>2 DEF IntentKnown, At
  <2> QED
    BY <2>1 DEF WhatIsAsked
<1>3. CASE LogRefuses
  <2>1. Return("refused") /\ UNCHANGED orders /\ call.pc \in {"intent", "submit"}
    BY <1>3 DEF LogRefuses, At
  <2>2. orders[call.link].status \in {"absent", "pending"}
    BY <1>0, <2>1 DEF WhatIsAsked, Recorded, CallTrue
  <2>3. orders[call.link].submits = 0
    BY <1>0, <2>2 DEF BrokerInv, LogInv, RowInv, SubmitsFit
  <2> QED
    BY <1>0, <2>1, <2>3, ReturnFields DEF WhatIsAnswered
<1>4. CASE SendCopy \/ HearAccepted
  <2>1. TakesAlong /\ call'.pc \in {"wait", "ack"} /\ call.pc \in {"post", "wait"}
    BY <1>0, <1>4 DEF SendCopy, HearAccepted, Heard, At, TakesAlong, Calls
  <2> QED
    BY <2>1, CarriedAnswer
<1>5. CASE NoAnswer \/ HearRefused \/ HearDuplicate
  <2>1. /\ call.pc = "wait"
        /\ Goto("post") \/ Goto("nothing") \/ \E why : GoRead(why)
    BY <1>5 DEF NoAnswer, HearRefused, HearDuplicate, Heard, At
  <2> QED
    BY <1>0, <2>1, GotoCarries, GoReadCarries, CarriedAnswer
<1> QED
  BY <1>1, <1>2, <1>3, <1>4, <1>5

\* A row read for a market order does not rest and has filled; one read for another
\* call is taken along.
LEMMA RowAnswer ==
    ASSUME WhatIsAnswered, call'.op = call.op, call'.pc \in {"fill", "confirm"},
           call'.got.kind = "row",
           call.op # "market" => ~call'.unconfirmed,
           call.op = "market" => ~call'.got.resting /\ call'.got.cum > 0
    PROVE  WhatIsAnswered'
BY DEF WhatIsAnswered

\* What is read or claimed is told as it was read.
LEMMA ReadAnswers ==
    ASSUME BrokerTruth, WhatIsAsked, WhatIsAnswered, Acknowledge \/ ReadBack \/ CancelRead
    PROVE  WhatIsAnswered'
<1>0. /\ call \in Calls /\ call.link \in Links /\ TypeOK /\ VenueFits /\ call.unconfirmed \in BOOLEAN
      /\ call.pc \notin {"fill", "return"} => ~call.unconfirmed
  BY CallFields DEF BrokerInv
<1>1. CASE Acknowledge
  <2>1. call.pc = "ack"
    BY <1>1 DEF Acknowledge, At
  <2>2. CASE GoRead("acked")
    BY <1>0, <2>1, <2>2, GoReadCarries, CarriedAnswer
  <2>3. CASE ~GoRead("acked")
    <3> DEFINE cum == venue[call.link].cum
               claim == Reading("row", cum, "filled")
    <3>1. /\ call.op = "market" /\ cum > 0
          /\ call' = [call EXCEPT !.pc = "fill", !.got = claim, !.unconfirmed = cum < call.qty]
      BY <1>1, <2>3 DEF Acknowledge
    <3>2. claim.kind = "row" /\ claim.resting = FALSE /\ claim.cum = cum
      BY DEF Reading
    <3>3. call'.pc = "fill" /\ call'.got = claim /\ call'.op = call.op
      <4> HIDE DEF claim, cum
      <4> QED
        BY <1>0, <3>1 DEF Calls
    <3> QED
      BY <3>1, <3>2, <3>3, RowAnswer
  <2> QED
    BY <2>2, <2>3
<1>2. CASE ReadBack
  <2>1. call.pc = "read"
    BY <1>2 DEF ReadBack, At
  <2>2. PICK r \in Reads(call.link) :
            \/ Goto("nothing")
            \/ Usable(r) /\ call' = [call EXCEPT !.pc = "fill", !.got = r, !.why = ""]
            \/ Goto("doubt")
    BY <1>2 DEF ReadBack
  <2>3. CASE Usable(r) /\ call' = [call EXCEPT !.pc = "fill", !.got = r, !.why = ""]
    <3>1. /\ call'.pc = "fill" /\ call'.got = r /\ call'.op = call.op
          /\ call'.unconfirmed = call.unconfirmed
      BY <1>0, <2>3 DEF Calls
    <3>2. r.kind = "row" /\ r.cum \in Nat /\ (call.op = "market" => ~r.resting /\ r.cum # 0)
      BY <1>0, <2>3, ReadReported DEF Usable, FinalUnfilled
    <3>3. call.op = "market" => ~r.resting /\ r.cum > 0
      BY <3>2
    <3> QED
      BY <1>0, <2>1, <3>1, <3>2, <3>3, RowAnswer
  <2> QED
    BY <1>0, <2>1, <2>2, <2>3, GotoCarries, CarriedAnswer
<1>3. CASE CancelRead
  <2>1. call.pc = "read" /\ call.op = "cancel"
    BY <1>3 DEF CancelRead, At
  <2>2. PICK r \in Reads(call.link) :
            \/ /\ r.kind = "row"
               /\ call' = [call EXCEPT !.pc = IF r.resting THEN "fill" ELSE "confirm", !.got = r]
            \/ Return("unknown")
    BY <1>3 DEF CancelRead
  <2>3. CASE /\ r.kind = "row"
             /\ call' = [call EXCEPT !.pc = IF r.resting THEN "fill" ELSE "confirm", !.got = r]
    <3>1. /\ call'.pc \in {"fill", "confirm"} /\ call'.got = r /\ call'.op = call.op
          /\ call'.unconfirmed = call.unconfirmed
      BY <1>0, <2>3 DEF Calls
    <3> QED
      BY <1>0, <2>1, <2>3, <3>1, RowAnswer
  <2> QED
    BY <1>0, <2>2, <2>3, PlainAnswer
<1> QED
  BY <1>1, <1>2, <1>3

\* What is told at the end is what was read, or nothing.
LEMMA FinishAnswers ==
    ASSUME BrokerTruth, WhatIsAsked, WhatIsAnswered,
           FinishNothing \/ FinishFill \/ FinishRest \/ FinishDoubt
    PROVE  WhatIsAnswered'
<1>0. call \in Calls /\ CallTrue
  BY CallFields
<1>1. CASE FinishNothing \/ FinishDoubt
  BY <1>0, <1>1, PlainAnswer DEF FinishNothing, FinishDoubt
<1>2. CASE FinishFill \/ FinishRest
  <2>1. /\ call.pc \in {"fill", "confirm"} /\ venue' = venue
        /\ Goto("confirm") \/ Goto("return")
    BY <1>2 DEF FinishFill, FinishRest, At, LocalBlind, Local
  <2>2. TakesAlong
    BY <1>0, <2>1, GotoCarries
  <2>3. Shown(call.link, call.got)
    BY <1>0, <2>1 DEF CallTrue
  <2>4. call.op # "market" => ~call.unconfirmed
    BY DEF WhatIsAnswered
  <2>5. call.op # "market" /\ ~call.got.resting =>
            venue[call.link].st \in Ended /\ venue[call.link].cum = call.got.cum
    BY <2>3, <2>4 DEF Shown
  <2>6. call.got.kind = "row"
    BY <2>3 DEF Shown
  <2> QED
    BY <2>1, <2>2, <2>4, <2>5, <2>6 DEF WhatIsAnswered, TakesAlong
<1> QED
  BY <1>1, <1>2

\* Every procedure answers as the engine relies on.
LEMMA ProcedureAnswers ==
    ASSUME BrokerTruth, WhatIsAsked, WhatIsAnswered, Procedure
    PROVE  WhatIsAnswered'
BY BeforeAnswers, ReadAnswers, FinishAnswers DEF Procedure

-------------------------------------------------------------------------------
(***************************************************************************)
(* The shape of the engine's state, step by step.                          *)
(***************************************************************************)

\* A new call, field by field.
LEMMA NewCallAll ==
    ASSUME NEW op, NEW l, NEW q, NEW pc, NEW c, c = NewCall(op, l, q, pc)
    PROVE  /\ c.op = op /\ c.link = l /\ c.qty = q /\ c.pc = pc /\ ~c.unconfirmed
           /\ c.got.kind = "pending"
BY DEF NewCall, Told, Reading

\* Nobody waits for the broker.
LEMMA IdleAnswers ==
    ASSUME call' = Idle
    PROVE  WhatIsAnswered' /\ call'.pc = "idle"
BY NewCallAll DEF Idle, WhatIsAnswered

\* The leg that is none, field by field.
LEMMA NoLegFields ==
    /\ NoLeg.pc = "none" /\ NoLeg.want = 0 /\ NoLeg.maker = 0 /\ NoLeg.link \in Links
    /\ NoLeg \in [pc : LegPoints, want : {0, Wanted}, maker : Nat, link : Links]
<1>1. Idle.link \in Links
  BY IdleFits DEF Calls
<1> QED
  BY <1>1 DEF NoLeg, LegPoints

\* The leg is over, and the broker idle.
LEMMA EndShape ==
    ASSUME EngineShape, mode = "trading", mode' = mode, leg' = NoLeg,
           book' \in {"FLAT", "HEDGED", "HALTED"}, held' \in Nat, ledger' \in LedgerRows,
           ledger'.state = "FLAT" => ledger'.qty = 0,
           call'.pc = "idle", WhatIsAnswered'
    PROVE  EngineShape'
<1>1. EngineTypeOK'
  BY NoLegFields DEF EngineTypeOK, Books
<1>2. WhoCalls' /\ WhatIsAsked'
  BY NoLegFields DEF WhoCalls, WhatIsAsked, InCall
<1> QED
  BY <1>1, <1>2 DEF EngineShape

\* A write of the ledger that may be lost leaves a row of the ledger.
LEMMA Persisted ==
    ASSUME EngineShape, NEW state \in {"FLAT", "HALTED"}, NEW n \in Nat, TryPersist(state, n),
           state = "FLAT" => n = 0
    PROVE  ledger' \in LedgerRows /\ (ledger'.state = "FLAT" => ledger'.qty = 0)
BY DEF EngineShape, EngineTypeOK, TryPersist, LedgerRows

\* The end of a leg, by its fill or by a halt.
LEMMA FilledShape ==
    ASSUME EngineShape, mode = "trading", mode' = mode, call'.pc = "idle", WhatIsAnswered',
           NEW n \in Nat, Filled(n) \/ FilledAndHalted(n)
    PROVE  EngineShape'
<1>1. /\ leg' = NoLeg /\ held' = n /\ book' \in {"FLAT", "HEDGED", "HALTED"}
      /\ \/ TryPersist("FLAT", 0) \/ TryPersist("HALTED", n) \/ UNCHANGED ledger
         \/ ledger' = [state |-> "HEDGED", qty |-> n]
  BY DEF Filled, FilledAndHalted
<1>2. ledger' \in LedgerRows /\ (ledger'.state = "FLAT" => ledger'.qty = 0)
  <2>1. CASE TryPersist("FLAT", 0) \/ TryPersist("HALTED", n)
    BY <2>1, Persisted
  <2>2. CASE UNCHANGED ledger
    BY <2>2 DEF EngineShape, EngineTypeOK
  <2>3. CASE ledger' = [state |-> "HEDGED", qty |-> n]
    BY <2>3 DEF LedgerRows
  <2> QED
    BY <1>1, <2>1, <2>2, <2>3
<1> QED
  BY <1>1, <1>2, EndShape

\* A leg begins.
LEMMA OpenShape ==
    ASSUME EngineShape, OpenOverlay
    PROVE  EngineShape'
<1>1. PICK pc \in {"rest", "take"} : leg' = [NoLeg EXCEPT !.pc = pc, !.want = Wanted]
  BY DEF OpenOverlay
<1>2. leg'.pc = pc /\ leg'.want = Wanted /\ leg'.link = NoLeg.link /\ leg'.maker = 0
  BY <1>1 DEF NoLeg
<1>3. leg' \in [pc : LegPoints, want : {0, Wanted}, maker : Nat, link : Links]
  BY <1>1, NoLegFields DEF LegPoints
<1>4. /\ mode = "trading" /\ mode' = mode /\ call.pc = "idle" /\ call' = call /\ orders' = orders
      /\ venue' = venue /\ held' = held /\ ledger' = ledger /\ book' = "OPENING"
  BY DEF OpenOverlay, vars
<1>5. EngineTypeOK'
  BY <1>3, <1>4 DEF EngineShape, EngineTypeOK, Books
<1>6. WhoCalls'
  BY <1>2, <1>4 DEF WhoCalls, InCall
<1>7. WhatIsAsked' /\ WhatIsAnswered'
  BY <1>2, <1>4 DEF EngineShape, WhatIsAsked, WhatIsAnswered
<1> QED
  BY <1>4, <1>5, <1>6, <1>7 DEF EngineShape

\* What the steps that call the broker have in common.
LEMMA AskShape ==
    ASSUME EngineShape, mode = "trading", mode' = mode, book = "OPENING",
           UNCHANGED <<book, held, ledger>>,
           leg' \in [pc : LegPoints, want : {0, Wanted}, maker : Nat, link : Links],
           leg'.pc \in InCall, leg'.want = Wanted, call'.pc \notin {"idle", "settle"},
           WhatIsAsked', WhatIsAnswered'
    PROVE  EngineShape'
<1>1. EngineTypeOK'
  BY DEF EngineShape, EngineTypeOK
<1>2. WhoCalls'
  BY DEF WhoCalls, InCall
<1> QED
  BY <1>1, <1>2 DEF EngineShape

\* The maker order is placed.
LEMMA RestShape ==
    ASSUME EngineShape, Rest
    PROVE  EngineShape'
<1>1. /\ mode = "trading" /\ mode' = mode /\ book = "OPENING" /\ leg.want = Wanted
      /\ call' = NewCall("post_only", Fresh, leg.want, "intent") /\ orders' = orders
      /\ UNCHANGED <<book, held, ledger>>
  BY DEF EngineShape, WhoCalls, Rest, AtLeg, PlacePostOnly, Begin, LocalBlind, Local
<1>2. /\ call'.op = "post_only" /\ call'.link = Fresh /\ call'.qty = Wanted
      /\ call'.pc = "intent" /\ ~call'.unconfirmed /\ call'.got.kind = "pending"
  BY <1>1, NewCallAll
<1>3. Fresh \in Links /\ ~Recorded(Fresh)
  BY FreshIsNew DEF Rest
<1>4. leg \in [pc : LegPoints, want : {0, Wanted}, maker : Nat, link : Links]
  BY DEF EngineShape, EngineTypeOK
<1>5. leg' = [leg EXCEPT !.pc = "resting", !.link = Fresh]
  BY DEF Rest
<1>6. /\ leg'.pc = "resting" /\ leg'.link = Fresh /\ leg'.want = Wanted
      /\ leg' \in [pc : LegPoints, want : {0, Wanted}, maker : Nat, link : Links]
  BY <1>1, <1>3, <1>4, <1>5 DEF LegPoints
<1>7. WhatIsAsked' /\ WhatIsAnswered'
  BY <1>1, <1>2, <1>3, <1>6 DEF WhatIsAsked, WhatIsAnswered, Recorded
<1> QED
  BY <1>1, <1>2, <1>6, <1>7, AskShape DEF InCall

\* The crossing order is placed.
LEMMA TakeShape ==
    ASSUME EngineShape, Take
    PROVE  EngineShape'
<1>1. /\ mode = "trading" /\ mode' = mode /\ book = "OPENING" /\ leg.want = Wanted
      /\ call' = NewCall("market", Fresh, Remainder, "intent") /\ orders' = orders
      /\ UNCHANGED <<book, held, ledger>> /\ Remainder > 0
  BY DEF EngineShape, WhoCalls, Take, AtLeg, PlaceMarket, Begin, LocalBlind, Local
<1>2. /\ call'.op = "market" /\ call'.link = Fresh /\ call'.qty = Remainder
      /\ call'.pc = "intent" /\ ~call'.unconfirmed /\ call'.got.kind = "pending"
  BY <1>1, NewCallAll
<1>3. Fresh \in Links /\ ~Recorded(Fresh)
  BY FreshIsNew DEF Take
<1>4. leg \in [pc : LegPoints, want : {0, Wanted}, maker : Nat, link : Links]
  BY DEF EngineShape, EngineTypeOK
<1>5. leg' = [leg EXCEPT !.pc = "taking"]
  BY DEF Take
<1>6. /\ leg'.pc = "taking" /\ leg'.link = leg.link /\ leg'.want = leg.want
      /\ leg'.maker = leg.maker
      /\ leg' \in [pc : LegPoints, want : {0, Wanted}, maker : Nat, link : Links]
  BY <1>4, <1>5 DEF LegPoints
<1>7. WhatIsAsked' /\ WhatIsAnswered'
  BY <1>1, <1>2, <1>3, <1>6 DEF WhatIsAsked, WhatIsAnswered, Recorded, Remainder
<1> QED
  BY <1>1, <1>2, <1>6, <1>7, AskShape DEF InCall

\* The maker order is cancelled.
LEMMA PullShape ==
    ASSUME EngineShape, Pull
    PROVE  EngineShape'
<1> DEFINE n == NewCall("cancel", leg.link, orders[leg.link].req, "read")
<1>1. /\ mode = "trading" /\ mode' = mode /\ book = "OPENING" /\ leg.want = Wanted
      /\ call' = [n EXCEPT !.why = "cancel"] /\ UNCHANGED <<book, held, ledger>>
  BY DEF EngineShape, WhoCalls, Pull, AtLeg, CancelOrder, LocalBlind, Local
<1>2. /\ call'.op = "cancel" /\ call'.link = leg.link /\ call'.pc = "read"
      /\ ~call'.unconfirmed /\ call'.got.kind = "pending"
  BY <1>1 DEF NewCall, Told, Reading
<1>4. leg \in [pc : LegPoints, want : {0, Wanted}, maker : Nat, link : Links]
  BY DEF EngineShape, EngineTypeOK
<1>5. leg' = [leg EXCEPT !.pc = "cancelling"]
  BY DEF Pull
<1>6. /\ leg'.pc = "cancelling" /\ leg'.link = leg.link /\ leg'.want = leg.want
      /\ leg' \in [pc : LegPoints, want : {0, Wanted}, maker : Nat, link : Links]
  BY <1>4, <1>5 DEF LegPoints
<1>7. WhatIsAsked' /\ WhatIsAnswered'
  BY <1>1, <1>2, <1>6 DEF WhatIsAsked, WhatIsAnswered
<1> QED
  BY <1>1, <1>2, <1>6, <1>7, AskShape DEF InCall

\* The leg goes on, with the answer taken.
LEMMA OnwardShape ==
    ASSUME EngineShape, mode = "trading", mode' = mode, book = "OPENING", call' = Idle,
           UNCHANGED <<book, held, ledger>>,
           NEW pc \in {"take", "waiting"}, NEW n \in Nat,
           leg' = [leg EXCEPT !.maker = n, !.pc = pc]
    PROVE  EngineShape' /\ leg'.pc = pc /\ leg'.maker = n /\ leg'.link = leg.link
<1>1. leg \in [pc : LegPoints, want : {0, Wanted}, maker : Nat, link : Links] /\ leg.want = Wanted
  BY DEF EngineShape, EngineTypeOK, WhoCalls
<1>2. /\ leg'.pc = pc /\ leg'.maker = n /\ leg'.link = leg.link /\ leg'.want = Wanted
      /\ leg' \in [pc : LegPoints, want : {0, Wanted}, maker : Nat, link : Links]
  BY <1>1 DEF LegPoints
<1>3. EngineTypeOK'
  BY <1>2 DEF EngineShape, EngineTypeOK
<1>4. call'.pc = "idle" /\ WhatIsAnswered'
  BY IdleAnswers
<1>5. WhoCalls' /\ WhatIsAsked'
  BY <1>2, <1>4 DEF WhoCalls, WhatIsAsked, InCall
<1> QED
  BY <1>2, <1>3, <1>4, <1>5 DEF EngineShape

\* What a step that takes an answer leaves alone.
Untouched == UNCHANGED <<orders, venue, net, age, blind, mode>>

\* The engine takes an answer: the broker is idle again, and nothing else has moved.
LEMMA AnswerTaken ==
    ASSUME BrokerTruth, EngineShape, Rested \/ Pulled \/ Took
    PROVE  /\ Untouched /\ call' = Idle /\ mode = "trading" /\ book = "OPENING"
           /\ call.pc = "return" /\ call.got.cum \in Nat /\ leg.maker \in Nat /\ leg.want = Wanted
           /\ leg \in [pc : LegPoints, want : {0, Wanted}, maker : Nat, link : Links]
<1>1. call.got.cum \in Nat
  BY CallFields
<1>2. /\ leg.maker \in Nat
      /\ leg \in [pc : LegPoints, want : {0, Wanted}, maker : Nat, link : Links]
  BY DEF EngineShape, EngineTypeOK
<1> QED
  BY <1>1, <1>2 DEF EngineShape, WhoCalls, Rested, Pulled, Took, AtLeg, Answered, BrokerIdle,
                    LocalBlind, Local, Untouched

\* The leg is dropped by a halt.
LEMMA HaltShape ==
    ASSUME BrokerTruth, EngineShape, Rested \/ Pulled, HaltResting
    PROVE  EngineShape' /\ book' = "HALTED" /\ leg'.pc = "none"
<1>1. Untouched /\ call' = Idle /\ mode = "trading"
  BY AnswerTaken
<1>2. held' \in Nat /\ leg' = NoLeg /\ book' = "HALTED"
  BY DEF HaltResting, EngineShape, EngineTypeOK
<1>3. ledger' \in LedgerRows /\ (ledger'.state = "FLAT" => ledger'.qty = 0)
  BY Persisted DEF HaltResting
<1> QED
  BY <1>1, <1>2, <1>3, IdleAnswers, NoLegFields, EndShape DEF Untouched

\* What the engine makes of the answer to its maker order.
LEMMA RestedIs ==
    ASSUME BrokerTruth, EngineShape, Rested
    PROVE  /\ EngineShape' /\ Untouched
           /\ \/ book' = "HALTED" /\ leg'.pc = "none"
              \/ /\ book' = "OPENING" /\ leg'.link = leg.link
                 /\ \/ call.got.kind = "none" /\ leg'.pc = "take" /\ leg'.maker = leg.maker
                    \/ /\ call.got.kind = "row" /\ leg'.maker = call.got.cum
                       /\ \/ leg'.pc = "waiting"
                          \/ leg'.pc = "take" /\ (call.got.cum >= Wanted \/ ~call.got.resting)
<1> USE AnswerTaken DEF Untouched
<1>1. CASE HaltResting
  BY <1>1, HaltShape
<1>2. CASE /\ call.got.kind = "none" /\ leg' = [leg EXCEPT !.pc = "take"]
           /\ UNCHANGED <<book, held, ledger>>
  <2>1. leg' = [leg EXCEPT !.maker = leg.maker, !.pc = "take"]
    BY <1>2
  <2> QED
    BY <1>2, <2>1, OnwardShape
<1>3. CASE /\ call.got.kind = "row" /\ UNCHANGED <<book, held, ledger>>
           /\ leg' = [leg EXCEPT !.maker = call.got.cum,
                                 !.pc = IF call.got.cum >= leg.want \/ ~call.got.resting
                                        THEN "take" ELSE "waiting"]
  <2>1. CASE call.got.cum >= leg.want \/ ~call.got.resting
    <3>1. leg' = [leg EXCEPT !.maker = call.got.cum, !.pc = "take"]
      BY <1>3, <2>1
    <3> QED
      BY <1>3, <2>1, <3>1, OnwardShape
  <2>2. CASE ~(call.got.cum >= leg.want \/ ~call.got.resting)
    <3>1. leg' = [leg EXCEPT !.maker = call.got.cum, !.pc = "waiting"]
      BY <1>3, <2>2
    <3> QED
      BY <1>3, <3>1, OnwardShape
  <2> QED
    BY <2>1, <2>2
<1> QED
  BY <1>1, <1>2, <1>3 DEF Rested, Answered

\* What it makes of the answer to its cancel.
LEMMA PulledIs ==
    ASSUME BrokerTruth, EngineShape, Pulled
    PROVE  /\ EngineShape' /\ Untouched
           /\ \/ book' = "HALTED" /\ leg'.pc = "none"
              \/ /\ book' = "OPENING" /\ leg'.link = leg.link /\ leg'.pc = "take"
                 /\ call.got.kind = "row" /\ ~call.got.resting
                 /\ leg'.maker = Larger(leg.maker, call.got.cum)
<1> USE AnswerTaken DEF Untouched
<1>1. CASE HaltResting
  BY <1>1, HaltShape
<1>2. CASE /\ call.got.kind = "row" /\ ~call.got.resting /\ UNCHANGED <<book, held, ledger>>
           /\ leg' = [leg EXCEPT !.pc = "take", !.maker = Larger(@, call.got.cum)]
  <2> DEFINE n == Larger(leg.maker, call.got.cum)
  <2>1. n \in Nat
    BY DEF Larger
  <2>2. leg' = [leg EXCEPT !.maker = n, !.pc = "take"]
    BY <1>2
  <2> HIDE DEF n
  <2>3. EngineShape' /\ leg'.pc = "take" /\ leg'.maker = n /\ leg'.link = leg.link
    BY <1>2, <2>1, <2>2, OnwardShape
  <2> QED
    BY <1>2, <2>3 DEF n
<1> QED
  BY <1>1, <1>2 DEF Pulled, Answered, StillResting, MakerFill

\* What it makes of the answer to its crossing order.
LEMMA TookIs ==
    ASSUME BrokerTruth, EngineShape, Took
    PROVE  /\ EngineShape' /\ Untouched /\ leg'.pc = "none"
           /\ \/ book' = "HALTED"
              \/ call.got.kind \in {"refused", "none"} /\ Filled(leg.maker)
              \/ call.got.kind = "row" /\ Filled(leg.maker + call.got.cum)
<1> USE AnswerTaken DEF Untouched
<1>1. \/ FilledAndHalted(leg.maker)
      \/ call.got.kind \in {"refused", "none"} /\ Filled(leg.maker)
      \/ call.got.kind = "row" /\ Filled(leg.maker + call.got.cum)
  BY DEF Took, Answered
<1>2. WhatIsAnswered' /\ call'.pc = "idle"
  BY IdleAnswers
<1>3. EngineShape'
  <2>1. leg.maker + call.got.cum \in Nat
    OBVIOUS
  <2> QED
    BY <1>1, <1>2, <2>1, FilledShape
<1>4. leg' = NoLeg /\ (FilledAndHalted(leg.maker) => book' = "HALTED")
  BY <1>1 DEF Filled, FilledAndHalted
<1> QED
  BY <1>1, <1>3, <1>4, NoLegFields

\* The maker order filled it all.
LEMMA NothingLeftShape ==
    ASSUME EngineShape, NothingLeft
    PROVE  EngineShape' /\ leg'.pc = "none" /\ mode = "trading"
<1>1. /\ mode = "trading" /\ call.pc = "idle" /\ UNCHANGED vars /\ Filled(leg.maker)
      /\ leg.maker \in Nat
  BY DEF NothingLeft, AtLeg, EngineShape, EngineTypeOK
<1>2. call' = call /\ mode' = mode /\ WhatIsAnswered'
  BY <1>1 DEF vars, EngineShape, WhatIsAnswered
<1>3. EngineShape'
  BY <1>1, <1>2, FilledShape
<1> QED
  BY <1>1, <1>3, NoLegFields DEF Filled

\* The process dies.
LEMMA DieShape ==
    ASSUME EngineShape, Die
    PROVE  EngineShape' /\ leg'.pc = "none" /\ book' = "STARTING"
<1>1. /\ mode' = "down" /\ call' = Idle /\ book' = "STARTING" /\ leg' = NoLeg /\ held' = 0
      /\ ledger' = ledger
  BY DEF Die, Crash
<1>2. EngineTypeOK'
  BY <1>1, NoLegFields DEF EngineShape, EngineTypeOK, Books
<1>3. WhoCalls' /\ WhatIsAsked' /\ WhatIsAnswered'
  BY <1>1, NoLegFields, IdleAnswers DEF WhoCalls, WhatIsAsked, InCall
<1> QED
  BY <1>1, <1>2, <1>3, NoLegFields DEF EngineShape

\* A new process compares the ledger with the venue.
LEMMA ColdStartShape ==
    ASSUME EngineShape, ColdStart
    PROVE  EngineShape' /\ leg'.pc = "none"
<1>1. /\ mode = "trading" /\ book = "STARTING" /\ leg' = leg /\ leg.pc = "none"
      /\ UNCHANGED <<orders, venue, net, age, call, todo, blind, ledger>>
      /\ \/ book' \in {"FLAT", "HEDGED"} /\ held' = ledger.qty /\ mode' = mode
         \/ book' = "HALTED" /\ held' = held /\ mode' = "protect"
  BY DEF ColdStart, EngineShape, WhoCalls
<1>2. EngineTypeOK'
  BY <1>1 DEF EngineShape, EngineTypeOK, Books, LedgerRows
<1>3. call.pc = "idle"
  BY <1>1 DEF EngineShape, WhoCalls, InCall
<1>4. WhoCalls'
  BY <1>1, <1>3 DEF EngineShape, WhoCalls, InCall
<1>5. WhatIsAsked' /\ WhatIsAnswered'
  BY <1>1, <1>3 DEF EngineShape, WhatIsAsked, WhatIsAnswered, InCall
<1> QED
  BY <1>1, <1>2, <1>4, <1>5 DEF EngineShape

\* The venue or the clock moves.
LEMMA OutsideShape ==
    ASSUME BrokerTruth, EngineShape, Outside, UNCHANGED engineVars
    PROVE  EngineShape'
<1>1. UNCHANGED <<orders, mode, call, book, leg, held, ledger>>
  BY DEF Outside, engineVars
<1>2. call.link \in Links /\ VenueOnward(call.link)
  <2>1. call.link \in Links /\ BrokerInv /\ VenueTold(call.link)
    BY CallFields DEF BrokerTruth
  <2> QED
    BY <2>1, NeverBack DEF Next
<1>3. WhatIsAnswered'
  BY <1>1, <1>2 DEF EngineShape, WhatIsAnswered, VenueOnward
<1> QED
  BY <1>1, <1>3 DEF EngineShape, EngineTypeOK, WhoCalls, WhatIsAsked, Recorded, Remainder,
                      UnresolvedOrders

\* Only a leg has the broker at work in a process that trades.
LEMMA ProcedureInLeg ==
    ASSUME BrokerTruth, EngineShape, Procedure
    PROVE  mode = "trading" /\ book = "OPENING" /\ leg.pc \in InCall
<1>1. call.pc \notin {"idle", "settle"}
  BY ProcedureStep DEF ProcedureShape
<1>2. leg.pc \in InCall /\ leg.pc # "none"
  BY <1>1 DEF EngineShape, WhoCalls, InCall
<1> QED
  BY <1>2 DEF EngineShape, WhoCalls

\* The broker works for the leg.
LEMMA ProcedureKeepsShape ==
    ASSUME BrokerTruth, EngineShape, Procedure, UNCHANGED engineVars
    PROVE  EngineShape'
<1>1. UNCHANGED <<book, leg, held, ledger>>
  BY DEF engineVars
<1>2. WhatIsAnswered'
  BY ProcedureAnswers DEF EngineShape
<1>3. mode = "trading" /\ book = "OPENING" /\ leg.pc \in InCall
  BY ProcedureInLeg
<1>4. ProcedureShape
  BY ProcedureStep
<1>5. WhoCalls'
  BY <1>1, <1>3, <1>4 DEF EngineShape, WhoCalls, ProcedureShape
<1>6. WhatIsAsked'
  BY <1>1, <1>4 DEF EngineShape, WhatIsAsked, ProcedureShape, Remainder
<1> QED
  BY <1>1, <1>2, <1>5, <1>6 DEF EngineShape, EngineTypeOK

\* A process that has restarted looks its orders up.
LEMMA RecoveryShape ==
    ASSUME BrokerTruth, EngineShape, Recovery, UNCHANGED engineVars
    PROVE  EngineShape' /\ leg.pc = "none" /\ book = "STARTING"
<1>1. UNCHANGED <<book, leg, held, ledger>>
  BY DEF engineVars
<1>2. mode \in {"down", "recovering"}
  <2>1. CASE RecoverSettle
    <3>1. call.pc = "settle"
      BY <2>1 DEF RecoverSettle, At
    <3> QED
      BY <3>1 DEF EngineShape, WhoCalls
  <2> QED
    BY <2>1 DEF Recovery, Restart, RecoverDone, RecoverPending, RecoverRead
<1>3. book = "STARTING" /\ leg.pc = "none"
  BY <1>2 DEF EngineShape, WhoCalls
<1>4. EngineTypeOK' /\ (ledger'.state = "FLAT" => ledger'.qty = 0)
  BY <1>1 DEF EngineShape, EngineTypeOK
<1>5. call.pc = "idle" \/ (call.op = "recover" /\ call.pc = "settle" /\ mode = "recovering")
  BY <1>3 DEF EngineShape, WhoCalls, InCall
<1>6. CASE call' = call /\ call.pc = "idle"
  <2>1. \/ mode' \in {"recovering", "protect"} \/ mode' = mode
        \/ mode' = "trading" /\ UnresolvedOrders' = {}
    BY <1>6 DEF Recovery, Restart, RecoverDone, RecoverPending, RecoverRead, RecoverSettle,
                RecoverSteady, UnresolvedOrders
  <2>2. WhatIsAnswered'
    <3>1. call.got.kind # "refused"
      BY <1>6 DEF EngineShape, WhatIsAnswered
    <3> QED
      BY <1>6, <3>1 DEF EngineShape, WhatIsAnswered
  <2>3. WhoCalls' /\ WhatIsAsked'
    BY <1>1, <1>2, <1>3, <1>6, <2>1 DEF WhoCalls, WhatIsAsked, InCall
  <2> QED
    BY <1>3, <1>4, <2>2, <2>3 DEF EngineShape
<1>7. CASE call' = Idle /\ mode' = mode
  <2>1. WhoCalls' /\ WhatIsAsked' /\ WhatIsAnswered'
    BY <1>1, <1>2, <1>3, <1>7, IdleAnswers DEF WhoCalls, WhatIsAsked, InCall
  <2> QED
    BY <1>3, <1>4, <2>1 DEF EngineShape
<1>8. ASSUME mode' = mode, mode = "recovering", NEW l \in Links, NEW r \in Reads(l), r.kind = "row",
             call' = [NewCall("recover", l, orders[l].req, "settle") EXCEPT !.got = r]
      PROVE  EngineShape'
  <2>1. /\ call'.op = "recover" /\ call'.pc = "settle" /\ call'.link = l /\ ~call'.unconfirmed
        /\ call'.got = r
    BY <1>8 DEF NewCall
  <2>2. WhatIsAnswered'
    BY <1>8, <2>1 DEF WhatIsAnswered
  <2>3. WhoCalls' /\ WhatIsAsked'
    BY <1>1, <1>3, <1>8, <2>1 DEF WhoCalls, WhatIsAsked, InCall
  <2> QED
    BY <1>4, <2>2, <2>3 DEF EngineShape
<1>9. CASE Restart \/ RecoverDone \/ \E l \in Links : RecoverPending(l)
  <2>1. call' = call /\ call.pc = "idle"
    BY <1>5, <1>9 DEF Restart, RecoverDone, RecoverPending
  <2> QED
    BY <1>3, <1>6, <2>1
<1>10. CASE RecoverSettle
  BY <1>3, <1>7, <1>10 DEF RecoverSettle, RecoverSteady
<1>11. ASSUME NEW l \in Links, RecoverRead(l) PROVE EngineShape'
  <2>1. PICK r \in Reads(l) :
            \/ /\ r.kind = "row"
               /\ call' = [NewCall("recover", l, orders[l].req, "settle") EXCEPT !.got = r]
            \/ call' = call
    BY <1>11 DEF RecoverRead
  <2>2. mode' = mode /\ mode = "recovering" /\ call.pc = "idle"
    BY <1>11 DEF RecoverRead, RecoverSteady
  <2> QED
    BY <1>6, <1>8, <2>1, <2>2
<1> QED
  BY <1>3, <1>9, <1>10, <1>11 DEF Recovery

-------------------------------------------------------------------------------
(***************************************************************************)
(* The accounts, step by step.                                             *)
(***************************************************************************)

\* An order that is not on file comes to nothing.
LEMMA UnsentIsDone ==
    ASSUME BrokerTruth, NEW l \in Links, ~Recorded(l)
    PROVE  DoneWith(l, 0)
<1>1. orders[l].submits = 0
  BY DEF BrokerTruth, BrokerInv, LogInv, RowInv, SubmitsFit, Recorded
<1> QED
  BY <1>1, Ceiling

\* An order on file comes to no more than its quantity, one that is not to nothing.
LEMMA BoundHolds ==
    ASSUME BrokerTruth, NEW l \in Links, NEW n \in Nat, Recorded(l) => orders[l].req <= n
    PROVE  Potential(l) <= n
<1>1. CASE Recorded(l)
  BY <1>1, Ceiling
<1>2. CASE ~Recorded(l)
  BY <1>2, UnsentIsDone, Ceiling DEF DoneWith
<1> QED
  BY <1>1, <1>2

\* An order that has filled all it may come to is over.
LEMMA FullIsDone ==
    ASSUME BrokerTruth, NEW l \in Links, NEW n \in Nat, n > 0, n <= venue[l].cum,
           NEW w \in Nat, w <= n, Recorded(l) => orders[l].req <= w
    PROVE  DoneWith(l, n)
<1>0. BrokerInv /\ VenueTold(l)
  BY DEF BrokerTruth
<1>1. Potential(l) <= w
  BY BoundHolds
<1>2. Potential(l) \in Nat /\ venue[l].cum \in Nat /\ venue[l].cum <= Potential(l)
  BY Ceiling
<1>3. venue[l].cum = n /\ Potential(l) = n
  BY <1>1, <1>2
<1>4. venue[l].st = "none" => FALSE
  BY <1>0, <1>3, VenueFacts
<1>5. venue[l].st = "live" => FALSE
  <2>1. /\ venue[l].st = "live" => venue[l].cum < venue[l].qty
        /\ venue[l].qty \in Nat
        /\ venue[l].st = "live" => venue[l].st \notin Ended
    BY <1>0, VenueFacts
  <2>2. venue[l].st = "live" => venue[l].qty = net[l].qty
    BY <1>0 DEF VenueTold
  <2>3. venue[l].st = "live" => ~Dead(l)
    BY <1>0, <1>3, <2>1 DEF VenueTold, Dead
  <2> QED
    BY <1>3, <2>1, <2>2, <2>3 DEF Potential
<1>6. venue[l].st \in Ended
  BY <1>0, <1>4, <1>5, VenueFacts
<1> QED
  BY <1>3, <1>6 DEF DoneWith, Dead

\* What is out bounds what all orders can come to.
LEMMA OutBounds ==
    ASSUME BrokerTruth, EngineShape, leg.want = Wanted,
           \/ MakerIsOut
           \/ leg.pc = "taking" /\ TakerIsOut
    PROVE  Exposure <= Wanted
<1>0. /\ Wanted \in Nat /\ leg.link \in Links /\ leg.maker \in Nat /\ call.link \in Links
      /\ \A l \in Links : Potential(l) \in Nat
  BY CallFields, Ceiling, WantedAssumption DEF EngineShape, EngineTypeOK
<1>1. CASE MakerIsOut
  <2>1. Exposure = Potential(leg.link)
    BY <1>0, <1>1, OneCounts DEF MakerIsOut
  <2>2. Potential(leg.link) <= Wanted
    BY <1>0, <1>1, BoundHolds DEF MakerIsOut
  <2> QED
    BY <2>1, <2>2
<1>2. CASE leg.pc = "taking" /\ TakerIsOut
  <2> DEFINE k == call.link
             j == leg.link
  <2>1. Remainder = Wanted - leg.maker /\ Remainder \in Nat
    BY <1>0, <1>2 DEF EngineShape, WhatIsAsked, Remainder
  <2>2. Potential(k) <= Remainder
    BY <1>0, <1>2, <2>1, BoundHolds DEF TakerIsOut
  <2>3. CASE k = j
    <3>1. leg.maker = 0 /\ \A l \in Links : l # k => DoneWith(l, 0)
      BY <1>2, <2>3 DEF TakerIsOut, MakerFilled
    <3>2. Exposure = Potential(k)
      BY <1>0, <3>1, OneCounts
    <3> QED
      BY <1>0, <2>1, <2>2, <3>1, <3>2
  <2>4. CASE k # j
    <3>1. DoneWith(j, leg.maker) /\ \A l \in Links : l # k /\ l # j => DoneWith(l, 0)
      BY <1>0, <1>2, <2>4 DEF TakerIsOut, MakerFilled
    <3>2. Exposure = Potential(k) + Potential(j)
      BY <1>0, <2>4, <3>1, TwoCount
    <3>3. Potential(j) = leg.maker
      BY <1>0, <3>1, Ceiling DEF DoneWith
    <3> QED
      BY <1>0, <2>1, <2>2, <3>2, <3>3
  <2> QED
    BY <2>3, <2>4
<1> QED
  BY <1>1, <1>2

\* The same in the next state.
LEMMA NextOutBounds ==
    (/\ BrokerTruth /\ EngineShape /\ leg.want = Wanted
     /\ MakerIsOut \/ (leg.pc = "taking" /\ TakerIsOut)
     => Exposure <= Wanted)'
<1>1. /\ BrokerTruth /\ EngineShape /\ leg.want = Wanted
      /\ MakerIsOut \/ (leg.pc = "taking" /\ TakerIsOut)
      => Exposure <= Wanted
  BY OutBounds
<1> QED
  BY <1>1, PTL

\* A step that leaves the venue leaves what the orders come to.
LEMMA SameVenue ==
    ASSUME UNCHANGED <<venue, net, age>>
    PROVE  /\ \A l : (Dead(l)' <=> Dead(l)) /\ Potential(l)' = Potential(l)
           /\ Exposure' = Exposure
<1>1. \A l : (Dead(l)' <=> Dead(l)) /\ Potential(l)' = Potential(l)
  BY DEF Dead, Potential
<1>2. Potentials' = Potentials
  BY <1>1 DEF Potentials
<1> QED
  BY <1>1, <1>2, ExposureIsSum, NextSum

Accounts == LegAccounts /\ HedgeAccounts /\ Exposure <= Wanted

\* A leg begins: nothing is out.
LEMMA OpenAccounts ==
    ASSUME OpenOverlay, LegAccounts, Exposure <= Wanted
    PROVE  Accounts'
<1>1. PICK pc \in {"rest", "take"} : leg' = [NoLeg EXCEPT !.pc = pc, !.want = Wanted]
  BY DEF OpenOverlay
<1>2. leg'.pc = pc /\ leg'.maker = 0
  BY <1>1 DEF NoLeg
<1>3. UNCHANGED <<venue, net, age>> /\ book' = "OPENING" /\ book = "FLAT"
  BY DEF OpenOverlay, vars
<1>4. \A l \in Links : DoneWith(l, 0)
  BY <1>3 DEF LegAccounts
<1>5. \A l \in Links : Dead(l)' /\ venue'[l].cum = 0
  BY <1>3, <1>4, SameVenue DEF DoneWith
<1>6. LegAccounts'
  BY <1>2, <1>3, <1>5 DEF LegAccounts, DoneWith, MakerFilled
<1> QED
  BY <1>3, <1>6, SameVenue DEF Accounts, HedgeAccounts

\* The maker order is placed under an id nothing was sent under.
LEMMA RestAccounts ==
    ASSUME BrokerTruth, EngineShape, Rest, LegAccounts, Exposure <= Wanted
    PROVE  Accounts'
<1>1. /\ UNCHANGED <<venue, net, age, orders, book>> /\ leg.pc = "rest" /\ book = "OPENING"
      /\ leg' = [leg EXCEPT !.pc = "resting", !.link = Fresh]
      /\ leg \in [pc : LegPoints, want : {0, Wanted}, maker : Nat, link : Links]
  BY DEF Rest, AtLeg, PlacePostOnly, Begin, LocalBlind, Local, EngineShape, EngineTypeOK
<1>2. leg'.pc = "resting" /\ leg'.link = Fresh /\ leg'.maker = leg.maker
  BY <1>1
<1>3. Fresh \in Links /\ ~Recorded(Fresh)
  BY FreshIsNew DEF Rest
<1>4. leg.maker = 0 /\ \A l \in Links : DoneWith(l, 0)
  BY <1>1 DEF LegAccounts
<1>5. MakerIsOut'
  <2>1. \A l \in Links : Dead(l)' /\ venue'[l].cum = 0
    BY <1>1, <1>4, SameVenue DEF DoneWith
  <2> QED
    BY <1>1, <1>2, <1>3, <1>4, <2>1 DEF MakerIsOut, DoneWith, Recorded
<1>6. LegAccounts'
  BY <1>1, <1>2, <1>5 DEF LegAccounts
<1> QED
  BY <1>1, <1>6, SameVenue DEF Accounts, HedgeAccounts

\* The crossing order is placed for what the maker order, now over, left.
LEMMA TakeAccounts ==
    ASSUME BrokerTruth, EngineShape, Take, LegAccounts, Exposure <= Wanted
    PROVE  Accounts'
<1>1. /\ UNCHANGED <<venue, net, age, orders, book>> /\ leg.pc = "take" /\ book = "OPENING"
      /\ leg' = [leg EXCEPT !.pc = "taking"] /\ leg.link \in Links
      /\ leg \in [pc : LegPoints, want : {0, Wanted}, maker : Nat, link : Links]
      /\ call' = NewCall("market", Fresh, Remainder, "intent")
  BY DEF Take, AtLeg, PlaceMarket, Begin, LocalBlind, Local, EngineShape, EngineTypeOK
<1>2. leg'.pc = "taking" /\ leg'.link = leg.link /\ leg'.maker = leg.maker
  BY <1>1
<1>3. Fresh \in Links /\ ~Recorded(Fresh) /\ call'.link = Fresh
  BY <1>1, FreshIsNew, NewCallAll DEF Take
<1>4. \A l \in Links : DoneWith(l, MakerFilled(l))
  BY <1>1 DEF LegAccounts
<1>5. TakerIsOut'
  <2>1. \A l \in Links : Dead(l)' /\ venue'[l].cum = MakerFilled(l) /\ MakerFilled(l)' = MakerFilled(l)
    BY <1>1, <1>2, <1>4, SameVenue DEF DoneWith, MakerFilled
  <2>2. Fresh = leg.link => leg.maker = 0
    <3>1. venue[Fresh].cum = 0
      BY <1>3, UnsentIsDone DEF DoneWith
    <3> QED
      BY <1>3, <1>4, <3>1 DEF DoneWith, MakerFilled
  <2> QED
    BY <1>1, <1>2, <1>3, <2>1, <2>2 DEF TakerIsOut, DoneWith, Recorded
<1>6. LegAccounts'
  BY <1>1, <1>2, <1>5 DEF LegAccounts
<1> QED
  BY <1>1, <1>6, SameVenue DEF Accounts, HedgeAccounts

\* The cancel is logged; the maker order stays out.
LEMMA PullAccounts ==
    ASSUME BrokerTruth, EngineShape, Pull, [Next]_vars, LegAccounts, Exposure <= Wanted
    PROVE  Accounts'
<1>1. /\ UNCHANGED <<venue, net, age, book>> /\ leg.pc = "waiting" /\ book = "OPENING"
      /\ leg' = [leg EXCEPT !.pc = "cancelling"] /\ leg.link \in Links /\ call.pc = "idle"
      /\ leg \in [pc : LegPoints, want : {0, Wanted}, maker : Nat, link : Links]
  BY DEF Pull, AtLeg, CancelOrder, LocalBlind, Local, EngineShape, EngineTypeOK
<1>2. leg'.pc = "cancelling" /\ leg'.link = leg.link /\ leg'.maker = leg.maker
  BY <1>1
<1>3. MakerIsOut
  BY <1>1 DEF LegAccounts
<1>4. ReqStays(leg.link)
  BY <1>1, ReqKeeps DEF BrokerTruth
<1>5. MakerIsOut'
  <2>1. \A l \in Links : l # leg.link => Dead(l)' /\ venue'[l].cum = 0
    BY <1>1, <1>3, SameVenue DEF DoneWith, MakerIsOut
  <2> QED
    BY <1>1, <1>2, <1>3, <1>4, <2>1 DEF MakerIsOut, DoneWith, ReqStays
<1>6. LegAccounts'
  BY <1>1, <1>2, <1>5 DEF LegAccounts
<1> QED
  BY <1>1, <1>6, SameVenue DEF Accounts, HedgeAccounts

\* What a call that has answered tells of its order.
LEMMA AnswerTells ==
    ASSUME BrokerTruth, EngineShape, blind = {}, call.pc = "return"
    PROVE  LET l == call.link
               g == call.got
           IN /\ l \in Links
              /\ g.kind \in {"none", "refused"} => DoneWith(l, 0)
              /\ g.kind = "row" =>
                    /\ g.cum <= venue[l].cum
                    /\ call.op # "market" /\ ~g.resting => DoneWith(l, g.cum)
                    /\ call.op = "market" =>
                          /\ g.cum > 0
                          /\ UnresolvedOrders = {} => DoneWith(l, g.cum)
<1> DEFINE l == call.link
           g == call.got
<1>0. CallTrue /\ l \in Links
  BY CallFields
<1>1. g.kind = "none" => DoneWith(l, 0)
  BY <1>0 DEF CallTrue, EndedUnfilled, Over, Dead, DoneWith
<1>2. g.kind = "refused" => DoneWith(l, 0)
  BY <1>0, Ceiling DEF EngineShape, WhatIsAnswered
<1>3. g.kind = "row" => g.cum <= venue[l].cum
  BY <1>0 DEF CallTrue
<1>4. g.kind = "row" /\ call.op # "market" /\ ~g.resting => DoneWith(l, g.cum)
  BY DEF EngineShape, WhatIsAnswered, DoneWith, Dead
<1>5. g.kind = "row" /\ call.op = "market" =>
          /\ g.cum > 0
          /\ UnresolvedOrders = {} => DoneWith(l, g.cum)
  <2>1. g.kind = "row" /\ call.op = "market" => g.cum > 0 /\ ~g.resting
    BY DEF EngineShape, WhatIsAnswered
  <2>2. orders[l].status \in MaybeLive => l \in UnresolvedOrders
    BY <1>0 DEF UnresolvedOrders, Unresolved
  <2>3. g.kind = "row" /\ ~g.resting /\ UnresolvedOrders = {} =>
            venue[l].st \in Ended /\ venue[l].cum = g.cum
    BY <1>0, <2>2 DEF CallTrue
  <2> QED
    BY <2>1, <2>3 DEF DoneWith, Dead
<1> QED
  BY <1>0, <1>1, <1>2, <1>3, <1>4, <1>5

\* A halted book promises nothing but the bound.
LEMMA HaltedAccounts ==
    ASSUME book' = "HALTED", leg'.pc = "none", Exposure' <= Wanted
    PROVE  Accounts'
BY DEF Accounts, LegAccounts, HedgeAccounts

\* The maker order is over, with what the leg has booked of it.
LEMMA TakeNext ==
    ASSUME UNCHANGED <<venue, net, age>>, book' = "OPENING", leg'.pc = "take", leg'.link = leg.link,
           MakerIsOut, DoneWith(leg.link, leg'.maker), Exposure <= Wanted
    PROVE  Accounts'
<1>1. \A l \in Links : l # leg.link => Dead(l)' /\ venue'[l].cum = 0
  BY SameVenue DEF DoneWith, MakerIsOut
<1>2. Dead(leg.link)' /\ venue'[leg.link].cum = leg'.maker
  BY SameVenue DEF DoneWith
<1>3. LegAccounts'
  BY <1>1, <1>2 DEF LegAccounts, DoneWith, MakerFilled
<1> QED
  BY <1>3, SameVenue DEF Accounts, HedgeAccounts

\* The answer to the maker order tells whether it is over.
LEMMA RestedAccounts ==
    ASSUME BrokerTruth, EngineShape, Rested, blind = {}, LegAccounts, Exposure <= Wanted
    PROVE  Accounts'
<1>0. /\ EngineShape' /\ Untouched /\ call.pc = "return" /\ call.got.cum \in Nat
      /\ leg.pc = "resting" /\ call.op = "post_only" /\ call.link = leg.link /\ leg.link \in Links
      /\ leg.maker \in Nat /\ MakerIsOut
  BY AnswerTaken, RestedIs
  DEF Rested, AtLeg, EngineShape, EngineTypeOK, WhatIsAsked, LegAccounts
<1>1. UNCHANGED <<venue, net, age, orders>>
  BY <1>0 DEF Untouched
<1>2. Wanted \in Nat /\ Wanted > 0
  BY WantedAssumption
<1>3. CASE book' = "HALTED" /\ leg'.pc = "none"
  BY <1>1, <1>3, HaltedAccounts, SameVenue
<1>4. CASE /\ book' = "OPENING" /\ leg'.link = leg.link /\ leg'.pc = "take"
           /\ call.got.kind = "none" /\ leg'.maker = leg.maker
  <2>1. DoneWith(leg.link, 0)
    BY <1>0, <1>4, AnswerTells
  <2>2. leg.maker = 0
    BY <1>0, <2>1 DEF MakerIsOut, DoneWith
  <2> QED
    BY <1>0, <1>1, <1>4, <2>1, <2>2, TakeNext
<1>5. CASE /\ book' = "OPENING" /\ leg'.link = leg.link /\ leg'.pc = "take"
           /\ call.got.kind = "row" /\ leg'.maker = call.got.cum
           /\ call.got.cum >= Wanted \/ ~call.got.resting
  <2>1. CASE ~call.got.resting
    <3>1. DoneWith(leg.link, leg'.maker)
      BY <1>0, <1>5, <2>1, AnswerTells
    <3> QED
      BY <1>0, <1>1, <1>5, <3>1, TakeNext
  <2>2. CASE call.got.cum >= Wanted
    <3>1. call.got.cum <= venue[leg.link].cum
      BY <1>0, <1>5, AnswerTells
    <3>2. DoneWith(leg.link, call.got.cum)
      BY <1>0, <1>2, <2>2, <3>1, FullIsDone DEF MakerIsOut
    <3> QED
      BY <1>0, <1>1, <1>5, <3>2, TakeNext
  <2> QED
    BY <1>5, <2>1, <2>2
<1>6. CASE /\ book' = "OPENING" /\ leg'.link = leg.link /\ leg'.pc = "waiting"
           /\ call.got.kind = "row" /\ leg'.maker = call.got.cum
  <2>1. call.got.cum <= venue[leg.link].cum
    BY <1>0, <1>6, AnswerTells
  <2>2. \A l \in Links : l # leg.link => Dead(l)' /\ venue'[l].cum = 0
    BY <1>0, <1>1, SameVenue DEF DoneWith, MakerIsOut
  <2>3. MakerIsOut'
    BY <1>0, <1>1, <1>6, <2>1, <2>2 DEF MakerIsOut, DoneWith, Recorded
  <2>4. LegAccounts'
    BY <1>6, <2>3 DEF LegAccounts
  <2> QED
    BY <1>1, <1>6, <2>4, SameVenue DEF Accounts, HedgeAccounts
<1> QED
  BY <1>3, <1>4, <1>5, <1>6, RestedIs

\* So does the answer to its cancel, and what it filled.
LEMMA PulledAccounts ==
    ASSUME BrokerTruth, EngineShape, Pulled, blind = {}, LegAccounts, Exposure <= Wanted
    PROVE  Accounts'
<1>0. /\ EngineShape' /\ Untouched /\ call.pc = "return" /\ call.got.cum \in Nat
      /\ leg.pc = "cancelling" /\ call.op = "cancel" /\ call.link = leg.link /\ leg.link \in Links
      /\ leg.maker \in Nat /\ MakerIsOut
  BY AnswerTaken, PulledIs
  DEF Pulled, AtLeg, EngineShape, EngineTypeOK, WhatIsAsked, LegAccounts
<1>1. UNCHANGED <<venue, net, age, orders>>
  BY <1>0 DEF Untouched
<1>2. CASE book' = "HALTED" /\ leg'.pc = "none"
  BY <1>1, <1>2, HaltedAccounts, SameVenue
<1>3. CASE /\ book' = "OPENING" /\ leg'.link = leg.link /\ leg'.pc = "take"
           /\ call.got.kind = "row" /\ ~call.got.resting
           /\ leg'.maker = Larger(leg.maker, call.got.cum)
  <2>1. DoneWith(leg.link, call.got.cum)
    BY <1>0, <1>3, AnswerTells
  <2>2. leg'.maker = call.got.cum
    BY <1>0, <1>3, <2>1 DEF Larger, MakerIsOut, DoneWith
  <2> QED
    BY <1>0, <1>1, <1>3, <2>1, <2>2, TakeNext
<1> QED
  BY <1>2, <1>3, PulledIs

\* With n filled and nothing that can follow, the book is flat or holds n.
LEMMA FilledAccounts ==
    ASSUME UNCHANGED <<venue, net, age, orders>>, Exposure <= Wanted, leg'.pc = "none",
           NEW n \in Nat, Filled(n),
           n = 0 => \A l \in Links : DoneWith(l, 0),
           n > 0 /\ UnresolvedOrders = {} => Exposure = n
    PROVE  Accounts'
<1>1. Exposure' = Exposure /\ UnresolvedOrders' = UnresolvedOrders
  BY SameVenue DEF UnresolvedOrders
<1>2. CASE n = 0
  <2>1. book' = "FLAT"
    BY <1>2 DEF Filled
  <2>2. \A l \in Links : DoneWith(l, 0)'
    BY <1>2, SameVenue DEF DoneWith
  <2> QED
    BY <1>1, <2>1, <2>2 DEF Accounts, LegAccounts, HedgeAccounts
<1>3. CASE n # 0 /\ book' = "HEDGED"
  <2>1. ledger' = [state |-> "HEDGED", qty |-> n] /\ held' = n
    BY <1>3 DEF Filled
  <2> QED
    BY <1>1, <1>3, <2>1 DEF Accounts, LegAccounts, HedgeAccounts
<1>4. CASE n # 0 /\ book' = "HALTED"
  BY <1>1, <1>4, HaltedAccounts
<1> QED
  BY <1>2, <1>3, <1>4 DEF Filled

\* The maker order filled at least what was asked, so exactly that.
LEMMA NothingLeftAccounts ==
    ASSUME BrokerTruth, EngineShape, NothingLeft, LegAccounts, Exposure <= Wanted
    PROVE  Accounts'
<1>1. /\ UNCHANGED <<venue, net, age, orders>> /\ leg.pc = "take" /\ leg'.pc = "none"
      /\ Filled(leg.maker) /\ leg.maker \in Nat /\ leg.link \in Links
      /\ leg.want = Wanted /\ leg.want - leg.maker <= 0
  BY NothingLeftShape
  DEF NothingLeft, AtLeg, vars, EngineShape, EngineTypeOK, WhoCalls, Remainder
<1>2. leg.maker > 0
  BY <1>1, WantedAssumption
<1>3. /\ DoneWith(leg.link, leg.maker)
      /\ \A l \in Links : l # leg.link => DoneWith(l, 0)
  BY <1>1 DEF LegAccounts, MakerFilled
<1>4. Exposure = leg.maker
  BY <1>1, <1>3, OneCounts, Ceiling DEF DoneWith
<1> QED
  BY <1>1, <1>2, <1>4, FilledAccounts

\* The answer to the crossing order: the hedge is the sum of the two fills.
LEMMA TookAccounts ==
    ASSUME BrokerTruth, EngineShape, Took, blind = {}, LegAccounts, Exposure <= Wanted
    PROVE  Accounts'
<1> DEFINE k == call.link
           j == leg.link
           m == leg.maker
<1>0. /\ Untouched /\ call.pc = "return" /\ call.got.cum \in Nat /\ leg'.pc = "none"
      /\ call.op = "market" /\ k \in Links /\ j \in Links /\ m \in Nat /\ TakerIsOut
  BY AnswerTaken, TookIs, AnswerTells
  DEF Took, AtLeg, EngineShape, EngineTypeOK, WhatIsAsked, LegAccounts
<1>1. UNCHANGED <<venue, net, age, orders>>
  BY <1>0 DEF Untouched
<1>2. /\ k = j => m = 0 /\ \A l \in Links : l # k => DoneWith(l, 0)
      /\ k # j => DoneWith(j, m) /\ \A l \in Links : l # k /\ l # j => DoneWith(l, 0)
  BY <1>0 DEF TakerIsOut, MakerFilled
<1>3. CASE book' = "HALTED"
  BY <1>0, <1>1, <1>3, HaltedAccounts, SameVenue
<1>4. CASE call.got.kind \in {"refused", "none"} /\ Filled(m)
  <2>1. DoneWith(k, 0)
    BY <1>0, <1>4, AnswerTells
  <2>2. m = 0 => \A l \in Links : DoneWith(l, 0)
    BY <1>2, <2>1
  <2>3. m > 0 => Exposure = m
    <3>1. m > 0 => DoneWith(j, m) /\ \A l \in Links : l # j => DoneWith(l, 0)
      BY <1>2, <2>1
    <3> QED
      BY <1>0, <3>1, OneCounts, Ceiling DEF DoneWith
  <2> QED
    BY <1>0, <1>1, <1>4, <2>2, <2>3, FilledAccounts
<1>5. CASE call.got.kind = "row" /\ Filled(m + call.got.cum)
  <2> DEFINE c == call.got.cum
  <2>1. c > 0 /\ (UnresolvedOrders = {} => DoneWith(k, c))
    BY <1>0, <1>5, AnswerTells
  <2>2. m + c \in Nat /\ m + c > 0
    BY <1>0, <2>1
  <2>3. ASSUME UnresolvedOrders = {} PROVE Exposure = m + c
    <3>1. DoneWith(k, c) /\ Potential(k) = c
      BY <1>0, <2>1, <2>3, Ceiling DEF DoneWith
    <3>2. CASE k = j
      <4>1. Exposure = Potential(k) /\ m = 0
        BY <1>0, <1>2, <3>2, OneCounts
      <4> QED
        BY <1>0, <3>1, <4>1
    <3>3. CASE k # j
      <4>1. Exposure = Potential(k) + Potential(j)
        BY <1>0, <1>2, <3>3, TwoCount
      <4>2. Potential(j) = m
        BY <1>0, <1>2, <3>3, Ceiling DEF DoneWith
      <4> QED
        BY <1>0, <3>1, <4>1, <4>2
    <3> QED
      BY <3>2, <3>3
  <2> QED
    BY <1>0, <1>1, <1>5, <2>2, <2>3, FilledAccounts
<1> QED
  BY <1>3, <1>4, <1>5, TookIs

\* All orders together come to a number of lots, in the next state.
LEMMA NextExposureIsNat == (BrokerTruth => Exposure \in Nat)'
<1>1. BrokerTruth => Exposure \in Nat
  BY ExposureIsNat
<1> QED
  BY <1>1, PTL

\* A process that dies or recovers has no leg, and sends nothing.
LEMMA StartingAccounts ==
    ASSUME BrokerTruth, BrokerTruth', [Next]_vars, \A l \in Links : ~Posting(l),
           book' = "STARTING", leg'.pc = "none", Exposure <= Wanted
    PROVE  Accounts'
<1>1. Exposure' <= Exposure /\ Exposure \in Nat /\ Exposure' \in Nat /\ Wanted \in Nat
  BY ExposureShrinks, ExposureIsNat, NextExposureIsNat, WantedAssumption
<1> QED
  BY <1>1 DEF Accounts, LegAccounts, HedgeAccounts

\* Death sends nothing.
LEMMA DieAccounts ==
    ASSUME BrokerTruth, BrokerTruth', EngineShape, Die, Exposure <= Wanted
    PROVE  Accounts'
<1>1. call'.pc = "idle" /\ [Next]_vars
  BY DEF Die, Crash, Next, Idle, NewCall
<1> QED
  BY <1>1, DieShape, StartingAccounts DEF Posting

\* Recovery sends nothing.
LEMMA RecoveryAccounts ==
    ASSUME BrokerTruth, BrokerTruth', EngineShape, Recovery, UNCHANGED engineVars,
           Exposure <= Wanted
    PROVE  Accounts'
<1>1. leg.pc = "none" /\ book = "STARTING" /\ leg' = leg /\ book' = book
  BY RecoveryShape DEF engineVars
<1>2. call.pc # "post"
  BY <1>1 DEF EngineShape, WhoCalls, InCall
<1>3. [Next]_vars
  BY DEF Next
<1> QED
  BY <1>1, <1>2, <1>3, StartingAccounts DEF Posting

\* The venue moves: what is over stays over, and nothing more can come of the rest.
LEMMA OutsideAccounts ==
    ASSUME BrokerTruth, BrokerTruth', EngineShape, Outside, UNCHANGED engineVars, blind = {},
           LegAccounts, HedgeAccounts, Exposure <= Wanted
    PROVE  Accounts'
<1>0. /\ UNCHANGED <<orders, call, book, leg, held, ledger>> /\ [Next]_vars
      /\ leg.link \in Links /\ leg.maker \in Nat
  BY DEF Outside, engineVars, Next, EngineShape, EngineTypeOK
<1>1. \A l \in Links : ~Posting(l)
  BY <1>0 DEF Posting
<1>2. ASSUME NEW l \in Links, NEW n, DoneWith(l, n) PROVE Dead(l)' /\ venue'[l].cum = n
  BY <1>0, <1>1, <1>2, StaysDone DEF DoneWith
<1>3. MakerIsOut => MakerIsOut'
  <2>1. venue'[leg.link].cum >= venue[leg.link].cum /\ venue[leg.link].cum \in Nat
    BY <1>0, NeverBack, VenueFacts DEF BrokerTruth, VenueOnward
  <2>2. venue'[leg.link].cum \in Nat
    BY <1>0 DEF BrokerTruth, BrokerInv, TypeOK, VenueTypeOK, VenueRows
  <2> QED
    BY <1>0, <1>2, <2>1, <2>2 DEF MakerIsOut, DoneWith, Recorded
<1>4. LegAccounts'
  <2>1. \A l \in Links : MakerFilled(l)' = MakerFilled(l)
    BY <1>0 DEF MakerFilled
  <2>2. TakerIsOut => TakerIsOut'
    BY <1>0, <1>2, <2>1 DEF TakerIsOut, DoneWith, Recorded, Remainder
  <2> QED
    BY <1>0, <1>2, <1>3, <2>1, <2>2 DEF LegAccounts, DoneWith
<1>5. HedgeAccounts'
  <2>1. UnresolvedOrders' = UnresolvedOrders
    BY <1>0 DEF UnresolvedOrders
  <2>2. UnresolvedOrders = {} => Exposure' = Exposure
    BY <1>0, <1>1, ClosedIsDone, ExposureStays
  <2> QED
    BY <1>0, <2>1, <2>2 DEF HedgeAccounts
<1>6. Exposure' <= Exposure /\ Exposure \in Nat /\ Exposure' \in Nat /\ Wanted \in Nat
  BY <1>0, <1>1, ExposureShrinks, ExposureIsNat, NextExposureIsNat, WantedAssumption
<1> QED
  BY <1>4, <1>5, <1>6 DEF Accounts

\* A book that starts has no order open; flat, it starts from nothing, and hedged,
\* from what its orders filled.
LEMMA ColdStartAccounts ==
    ASSUME BrokerTruth, BrokerTruth', EngineShape, ColdStart, blind = {}, Exposure <= Wanted
    PROVE  Accounts'
<1>0. /\ UNCHANGED <<orders, venue, net, age, ledger>> /\ leg'.pc = "none"
      /\ UnresolvedOrders = {} /\ UnresolvedOrders' = UnresolvedOrders
      /\ ledger \in LedgerRows /\ (ledger.state = "FLAT" => ledger.qty = 0)
  BY ColdStartShape DEF ColdStart, EngineShape, EngineTypeOK, WhoCalls, UnresolvedOrders
<1>1. \A l \in Links : Dead(l)
  BY <1>0, ClosedIsDone
<1>2. CASE ~ColdStartAgrees
  BY <1>0, <1>2, HaltedAccounts, SameVenue DEF ColdStart
<1>3. CASE ColdStartAgrees /\ ledger.qty = 0
  <2>1. VenueShort = 0 /\ book' = "FLAT"
    BY <1>3 DEF ColdStart, ColdStartAgrees
  <2>2. \A l \in Links : Dead(l)' /\ venue'[l].cum = 0
    BY <1>0, <1>1, <2>1, ShortOfNothing, SameVenue
  <2>3. LegAccounts'
    BY <1>0, <2>1, <2>2 DEF LegAccounts, DoneWith
  <2> QED
    BY <1>0, <2>1, <2>3, SameVenue DEF Accounts, HedgeAccounts
<1>4. CASE ColdStartAgrees /\ ledger.qty # 0
  <2>1. /\ VenueShort = ledger.qty /\ book' = "HEDGED" /\ held' = ledger.qty
        /\ ledger.state # "HALTED"
    BY <1>4 DEF ColdStart, ColdStartAgrees
  <2>2. Exposure' = held'
    BY <1>0, <1>1, <2>1, DoneCount, SameVenue
  <2>3. ledger = [state |-> "HEDGED", qty |-> ledger.qty]
    BY <1>0, <1>4, <2>1 DEF LedgerRows
  <2>4. HedgeAccounts'
    BY <1>0, <2>1, <2>2, <2>3 DEF HedgeAccounts
  <2> QED
    BY <1>0, <2>1, <2>4, SameVenue DEF Accounts, LegAccounts
<1> QED
  BY <1>2, <1>3, <1>4

\* A procedure puts no more on file than it was asked for.
LEMMA AskedIsFiled ==
    ASSUME BrokerTruth, EngineShape, Procedure, NEW l \in Links
    PROVE  \/ ReqStays(l)
           \/ l = call.link /\ call.pc = "intent" /\ orders'[l].req = call.qty
<1>0. BrokerInv /\ [Next]_vars
  BY CallFields DEF Next
<1>1. CASE ~(call.pc = "intent" /\ call.link = l)
  BY <1>0, <1>1, ReqKeeps
<1>2. CASE call.pc = "intent" /\ call.link = l
  <2>1. ~Recorded(call.link)
    BY <1>2 DEF EngineShape, WhatIsAsked
  <2>2. IntentNew \/ LogRefuses
    BY <1>2, <2>1
    DEF Procedure, At, Heard, IntentKnown, SubmitMarker, SendCopy, NoAnswer, HearAccepted,
        HearRefused, HearDuplicate, Acknowledge, ReadBack, FinishNothing, FinishFill,
        FinishRest, FinishDoubt, CancelRead
  <2>3. LogRefuses => ReqStays(l)
    BY DEF LogRefuses, ReqStays, Recorded
  <2>4. IntentNew => orders'[l].req = call.qty
    BY <1>0, <1>2 DEF IntentNew, RecordIntent, Row, BrokerInv, TypeOK, LogTypeOK
  <2> QED
    BY <1>2, <2>2, <2>3, <2>4
<1> QED
  BY <1>1, <1>2

\* The broker sends and reads for the order of its call, and for no other.
LEMMA ProcedureAccounts ==
    ASSUME BrokerTruth, BrokerTruth', EngineShape, EngineShape', Procedure,
           UNCHANGED engineVars, LegAccounts
    PROVE  Accounts'
<1>0. /\ book = "OPENING" /\ leg.pc \in InCall /\ UNCHANGED <<book, leg>> /\ [Next]_vars
      /\ leg.link \in Links /\ call.link \in Links /\ leg.maker \in Nat /\ leg.want = Wanted
      /\ call'.link = call.link /\ Wanted \in Nat
  BY ProcedureInLeg, ProcedureStep, CallFields, WantedAssumption
  DEF engineVars, Next, ProcedureShape, EngineShape, EngineTypeOK, WhoCalls
<1>1. ASSUME NEW l \in Links, l # call.link, NEW n, DoneWith(l, n)
      PROVE  Dead(l)' /\ venue'[l].cum = n
  BY <1>0, <1>1, StaysDone DEF DoneWith, Posting
<1>2. CASE leg.pc \in {"resting", "cancelling"}
  <2>1. MakerIsOut /\ call.link = leg.link
    BY <1>2 DEF LegAccounts, EngineShape, WhatIsAsked
  <2>2. leg.maker <= venue'[leg.link].cum
    <3>1. venue'[leg.link].cum >= venue[leg.link].cum /\ venue[leg.link].cum \in Nat
      BY <1>0, NeverBack, VenueFacts DEF BrokerTruth, VenueOnward
    <3>2. venue'[leg.link].cum \in Nat
      BY <1>0 DEF BrokerTruth, BrokerInv, TypeOK, VenueTypeOK, VenueRows
    <3> QED
      BY <1>0, <2>1, <3>1, <3>2 DEF MakerIsOut
  <2>3. ASSUME NEW l \in Links, l = leg.link, Recorded(l)' PROVE orders'[l].req <= Wanted
    <3>1. ReqStays(l) => orders'[l].req <= Wanted
      BY <2>1, <2>3 DEF ReqStays, MakerIsOut
    <3>2. call.pc = "intent" => call.qty = Wanted
      BY <1>0, <1>2 DEF EngineShape, WhatIsAsked
    <3> QED
      BY <1>0, <3>1, <3>2, AskedIsFiled
  <2>4. MakerIsOut'
    BY <1>0, <1>1, <2>1, <2>2, <2>3 DEF MakerIsOut, DoneWith, Recorded
  <2>5. LegAccounts'
    BY <1>0, <1>2, <2>4 DEF LegAccounts
  <2> QED
    BY <1>0, <2>4, <2>5, NextOutBounds DEF Accounts, HedgeAccounts
<1>3. CASE leg.pc = "taking"
  <2>1. TakerIsOut /\ call.qty = Remainder /\ Remainder \in Nat
    BY <1>0, <1>3 DEF LegAccounts, EngineShape, WhatIsAsked, Remainder
  <2>2. \A l \in Links : MakerFilled(l)' = MakerFilled(l)
    BY <1>0 DEF MakerFilled
  <2>3. ASSUME NEW l \in Links, l = call.link, Recorded(l)' PROVE orders'[l].req <= Remainder
    <3>1. ReqStays(l) => orders'[l].req <= Remainder
      BY <2>1, <2>3 DEF ReqStays, TakerIsOut
    <3> QED
      BY <2>1, <3>1, AskedIsFiled
  <2>4. TakerIsOut'
    BY <1>0, <1>1, <2>1, <2>2, <2>3 DEF TakerIsOut, DoneWith, Recorded, Remainder
  <2>5. LegAccounts'
    BY <1>0, <1>3, <2>4 DEF LegAccounts
  <2> QED
    BY <1>0, <1>3, <2>4, <2>5, NextOutBounds DEF Accounts, HedgeAccounts
<1> QED
  BY <1>0, <1>2, <1>3 DEF InCall

-------------------------------------------------------------------------------
(***************************************************************************)
(* The invariant.                                                          *)
(***************************************************************************)

\* Nothing moves.
LEMMA StandsStill ==
    ASSUME EngineShape, UNCHANGED allVars
    PROVE  EngineShape'
<1>1. UNCHANGED <<orders, venue, net, age, mode, call, todo, blind, book, leg, held, ledger>>
  BY DEF allVars, vars, engineVars
<1>2. EngineTypeOK' /\ (ledger'.state = "FLAT" => ledger'.qty = 0)
  BY <1>1 DEF EngineShape, EngineTypeOK
<1>3. UnresolvedOrders' = UnresolvedOrders
  BY <1>1 DEF UnresolvedOrders
<1>4. WhoCalls'
  BY <1>1, <1>3 DEF EngineShape, WhoCalls
<1>5. WhatIsAsked' /\ WhatIsAnswered'
  BY <1>1 DEF EngineShape, WhatIsAsked, WhatIsAnswered, Remainder, Recorded
<1> QED
  BY <1>2, <1>4, <1>5 DEF EngineShape

\* The shape of the state is kept, action by action.
LEMMA NextShape ==
    ASSUME BrokerTruth, EngineInv, [EngineNext]_allVars
    PROVE  EngineShape'
<1>0. EngineShape
  BY DEF EngineInv
<1>1. CASE UNCHANGED allVars
  BY <1>0, <1>1, StandsStill
<1>2. CASE OpenOverlay
  BY <1>0, <1>2, OpenShape
<1>3. CASE Rest
  BY <1>0, <1>3, RestShape
<1>4. CASE Rested
  BY <1>0, <1>4, RestedIs
<1>5. CASE Pull
  BY <1>0, <1>5, PullShape
<1>6. CASE Pulled
  BY <1>0, <1>6, PulledIs
<1>7. CASE Take
  BY <1>0, <1>7, TakeShape
<1>8. CASE NothingLeft
  BY <1>0, <1>8, NothingLeftShape
<1>9. CASE Took
  BY <1>0, <1>9, TookIs
<1>10. CASE Die
  BY <1>0, <1>10, DieShape
<1>11. CASE ColdStart
  BY <1>0, <1>11, ColdStartShape
<1>12. CASE Procedure /\ UNCHANGED engineVars
  BY <1>0, <1>12, ProcedureKeepsShape
<1>13. CASE Recovery /\ UNCHANGED engineVars
  BY <1>0, <1>13, RecoveryShape
<1>14. CASE Outside /\ UNCHANGED engineVars
  BY <1>0, <1>14, OutsideShape
<1> QED
  BY <1>1, <1>2, <1>3, <1>4, <1>5, <1>6, <1>7, <1>8, <1>9, <1>10, <1>11, <1>12, <1>13, <1>14
  DEF EngineNext, Engine

\* The accounts are kept, action by action.
LEMMA NextAccounts ==
    ASSUME BrokerTruth, BrokerTruth', EngineInv, EngineShape', [EngineNext]_allVars, blind' = {}
    PROVE  Accounts'
<1>0. [Next]_vars \/ ColdStart
  BY EngineIsBroker
<1>1. blind = {}
  <2>1. ASSUME ColdStart PROVE blind = {}
    BY <2>1 DEF ColdStart
  <2>2. ASSUME [Next]_vars PROVE blind = {}
    BY <2>2, BlindStays
  <2> QED
    BY <1>0, <2>1, <2>2
<1>2. EngineShape /\ LegAccounts /\ HedgeAccounts /\ Exposure <= Wanted
  BY <1>1 DEF EngineInv
<1>3. CASE UNCHANGED allVars
  <2>1. UNCHANGED <<orders, venue, net, age, call, book, leg, held, ledger>>
    BY <1>3 DEF allVars, vars, engineVars
  <2>2. \A l \in Links : MakerFilled(l)' = MakerFilled(l)
    BY <2>1 DEF MakerFilled
  <2>3. \A l \in Links : \A n : DoneWith(l, n) => (Dead(l)' /\ venue'[l].cum = n)
    BY <2>1, SameVenue DEF DoneWith
  <2>4. MakerIsOut => MakerIsOut'
    BY <2>1, <2>3 DEF MakerIsOut, DoneWith, Recorded
  <2>5. TakerIsOut => TakerIsOut'
    BY <2>1, <2>2, <2>3 DEF TakerIsOut, DoneWith, Recorded, Remainder
  <2>6. LegAccounts'
    BY <1>2, <2>1, <2>2, <2>3, <2>4, <2>5 DEF LegAccounts, DoneWith
  <2>7. UnresolvedOrders' = UnresolvedOrders
    BY <2>1 DEF UnresolvedOrders
  <2> QED
    BY <1>2, <2>1, <2>6, <2>7, SameVenue DEF Accounts, HedgeAccounts
<1>4. CASE OpenOverlay
  BY <1>2, <1>4, OpenAccounts
<1>5. CASE Rest
  BY <1>2, <1>5, RestAccounts
<1>6. CASE Rested
  BY <1>1, <1>2, <1>6, RestedAccounts
<1>7. CASE Pull
  <2>1. ~ColdStart
    BY <1>7 DEF Pull, AtLeg, ColdStart
  <2> QED
    BY <1>0, <1>2, <1>7, <2>1, PullAccounts
<1>8. CASE Pulled
  BY <1>1, <1>2, <1>8, PulledAccounts
<1>9. CASE Take
  BY <1>2, <1>9, TakeAccounts
<1>10. CASE NothingLeft
  BY <1>2, <1>10, NothingLeftAccounts
<1>11. CASE Took
  BY <1>1, <1>2, <1>11, TookAccounts
<1>12. CASE Die
  BY <1>2, <1>12, DieAccounts
<1>13. CASE ColdStart
  BY <1>1, <1>2, <1>13, ColdStartAccounts
<1>14. CASE Procedure /\ UNCHANGED engineVars
  BY <1>2, <1>14, ProcedureAccounts
<1>15. CASE Recovery /\ UNCHANGED engineVars
  BY <1>2, <1>15, RecoveryAccounts
<1>16. CASE Outside /\ UNCHANGED engineVars
  BY <1>1, <1>2, <1>16, OutsideAccounts
<1> QED
  BY <1>3, <1>4, <1>5, <1>6, <1>7, <1>8, <1>9, <1>10, <1>11, <1>12, <1>13, <1>14, <1>15, <1>16
  DEF EngineNext, Engine

\* The invariant is kept.
LEMMA NextEngine ==
    BrokerTruth /\ EngineInv /\ [EngineNext]_allVars => BrokerTruth' /\ EngineInv'
<1> SUFFICES ASSUME BrokerTruth, EngineInv, [EngineNext]_allVars
             PROVE  BrokerTruth' /\ EngineInv'
  OBVIOUS
<1>1. BrokerTruth' /\ EngineShape'
  BY EngineTruth, NextShape
<1>2. blind' = {} => Accounts'
  BY <1>1, NextAccounts
<1> QED
  BY <1>1, <1>2 DEF EngineInv, Accounts

\* The invariant holds at the start.
LEMMA InitEngine == EngineInit => BrokerTruth /\ EngineInv
<1> SUFFICES ASSUME EngineInit PROVE BrokerTruth /\ EngineInv
  OBVIOUS
<1>1. BrokerTruth
  BY InitTruth DEF EngineInit
<1>2. /\ book = "FLAT" /\ leg = NoLeg /\ held = 0 /\ ledger = [state |-> "FLAT", qty |-> 0]
      /\ call = Idle /\ mode = "trading" /\ call.pc = "idle"
      /\ \A l \in Links : orders[l].submits = 0
  BY DEF EngineInit, Init, LogInit, NoRow, Row, Idle, NewCall
<1>3. EngineTypeOK /\ leg.pc = "none" /\ (ledger.state = "FLAT" => ledger.qty = 0)
  BY <1>2, NoLegFields DEF EngineTypeOK, Books, LedgerRows
<1>4. WhoCalls
  BY <1>2, <1>3 DEF WhoCalls, InCall
<1>5. WhatIsAsked /\ WhatIsAnswered
  BY <1>2, <1>3 DEF WhatIsAsked, WhatIsAnswered, Idle, NewCall, Told, Reading
<1>6. \A l \in Links : DoneWith(l, 0)
  BY <1>1, <1>2, Ceiling
<1>7. Exposure <= Wanted
  BY <1>1, <1>6, NoneCounts, WantedAssumption
<1>8. LegAccounts /\ HedgeAccounts
  BY <1>2, <1>3, <1>6 DEF LegAccounts, HedgeAccounts
<1> QED
  BY <1>1, <1>3, <1>4, <1>5, <1>7, <1>8 DEF EngineInv, EngineShape

\* The inductive invariant: wherever the leg stands, at most one order is out; all
\* others are over with what the leg has booked of them.
THEOREM EngineInvariant == EngineSpec => [](BrokerTruth /\ EngineInv)
<1> QED
  BY InitEngine, NextEngine, PTL DEF EngineSpec

\* However the maker order, its cancel, the crossing order, lost answers, deaths and
\* restarts interleave, all orders together never come to more than was asked for.
THEOREM NeverMoreThanAsked == EngineSpec => []NeverOversold
<1>1. EngineInv => NeverOversold
  BY DEF EngineInv, NeverOversold
<1> QED
  BY <1>1, EngineInvariant, PTL

\* A book that may open a hedge starts from nothing: no order of an earlier leg, or
\* of an earlier process, is live, can still land, or has filled.
THEOREM FlatBooksAreFlat == EngineSpec => []FlatMeansFlat
<1>1. BrokerTruth /\ EngineInv => FlatMeansFlat
  BY NoneCounts DEF EngineInv, LegAccounts, FlatMeansFlat
<1> QED
  BY <1>1, EngineInvariant, PTL

\* A hedged book holds, in memory and on disk, what its orders filled, unless one of
\* them is still on file as open.
THEOREM HedgesAreFilled == EngineSpec => []HedgeIsWhatFilled
<1>1. EngineInv => HedgeIsWhatFilled
  BY DEF EngineInv, HedgeAccounts, HedgeIsWhatFilled
<1> QED
  BY <1>1, EngineInvariant, PTL
===============================================================================
