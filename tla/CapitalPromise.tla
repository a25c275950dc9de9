---------------------------- MODULE CapitalPromise ----------------------------
(***************************************************************************)
(* What the reservation table promises the strategies that share an        *)
(* account (capital_reservations.py:1-58): claims are granted only while   *)
(* they fit together, an order that may use capital has a claim behind it, *)
(* and a claim once given back is never granted again.                     *)
(***************************************************************************)
EXTENDS Naturals, FiniteSetsExt

CONSTANTS Intents, Amount, Capacity

VARIABLES
    claim,      \* per intent: "free", "held", "bound" or "gone"
    busy        \* the intents with an order that may still fill

promiseVars == <<claim, busy>>

Granted(c) == {i \in Intents : c[i] \in {"held", "bound"}}

Total(S) == MapThenSumSet(LAMBDA i : Amount[i], S)

PromiseInit == claim = [i \in Intents |-> "free"] /\ busy = {}

\* Held claims without an order may lapse whenever the table is written.
Lapsed(c, S) == [i \in Intents |-> IF i \in S THEN "gone" ELSE c[i]]

Lapsing == {i \in Intents : claim[i] = "held"} \ busy

Lapse ==
    /\ \E S \in SUBSET Lapsing : claim' = Lapsed(claim, S)
    /\ UNCHANGED busy

Grant ==
    /\ \E S \in SUBSET Lapsing, i \in Intents :
        /\ claim[i] = "free"
        /\ claim' = [Lapsed(claim, S) EXCEPT ![i] = "held"]
    /\ Total(Granted(claim')) <= Capacity
    /\ UNCHANGED busy

Bind ==
    /\ \E i \in Intents : claim[i] = "held" /\ claim' = [claim EXCEPT ![i] = "bound"]
    /\ UNCHANGED busy

GiveBack ==
    /\ \E i \in Granted(claim) \ busy : claim' = [claim EXCEPT ![i] = "gone"]
    /\ UNCHANGED busy

\* An order starts only on a granted claim; it ends whenever it ends.
Start ==
    /\ \E i \in Granted(claim) : busy' = busy \cup {i}
    /\ UNCHANGED claim

End ==
    /\ \E i \in busy : busy' = busy \ {i}
    /\ UNCHANGED claim

PromiseNext == Lapse \/ Grant \/ Bind \/ GiveBack \/ Start \/ End

PromiseSpec == PromiseInit /\ [][PromiseNext]_promiseVars
===============================================================================
