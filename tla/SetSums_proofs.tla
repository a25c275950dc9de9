--------------------------- MODULE SetSums_proofs ---------------------------
(***************************************************************************)
(* What MapThenSumSet computes: the sum over a finite set of what a        *)
(* function says of its elements.  The operator is defined by a recursive  *)
(* function that takes the elements one chosen element at a time, so what  *)
(* has to be shown first is that there is such a function, and then that   *)
(* the order does not matter.                                              *)
(*                                                                         *)
(* Each induction is an argument by the smallest counterexample: the       *)
(* subsets of a finite set for which a claim fails, if there are any, have *)
(* one among them no proper subset of which fails (SmallestOf).  Min finds *)
(* the least number of a set in the same way (LeastOf).                    *)
(***************************************************************************)
EXTENDS Integers, FiniteSets, FiniteSetsExt, FiniteSetTheorems, WellFoundedInduction, TLAPS

\* The sum, as the modules of the project write it.
SumOver(A, S) == MapThenSumSet(LAMBDA i : A[i], S)

Chosen(s) == CHOOSE x \in s : TRUE

\* f adds A up on the subsets of U, one chosen element at a time.
AddsUp(A, U, f) ==
    f = [s \in SUBSET U |-> IF s = {} THEN 0 ELSE A[Chosen(s)] + f[s \ {Chosen(s)}]]

Adder(A, U) == CHOOSE f : AddsUp(A, U, f)

\* A nonempty set of numbers has a least one, and Min is it.
LEMMA LeastOf ==
    ASSUME NEW S, S \subseteq Nat, S # {}
    PROVE  Min(S) \in S
<1> DEFINE R == {ss \in Nat \X Nat : ss[1] < ss[2]}
<1>1. IsWellFoundedOn(R, Nat)
  BY NatLessThanWellFounded DEF OpToRel
<1>2. PICK x \in S : \A y \in S : ~ (<<y, x>> \in R)
  <2> HIDE DEF R
  <2> QED BY <1>1, WFMin
<1>3. ASSUME NEW y \in S PROVE x <= y
  <2>1. x \in Nat /\ y \in Nat
    OBVIOUS
  <2>2. y < x => <<y, x>> \in R
    BY <2>1
  <2> HIDE DEF R
  <2>3. ~(y < x)
    BY <1>2, <2>2
  <2> QED BY <2>1, <2>3
<1> QED BY <1>3 DEF Min

\* A family of subsets of a finite set has a smallest member.
LEMMA SmallestOf ==
    ASSUME NEW S, IsFiniteSet(S), NEW B, B \subseteq SUBSET S, B # {}
    PROVE  \E U \in B : \A V \in B : V \subseteq U => V = U
<1>1. B \subseteq FiniteSubsetsOf(S)
  BY FS_Subset DEF FiniteSubsetsOf
<1>2. \E U \in B : \A V \in B : ~ (<<V, U>> \in StrictSubsetOrdering(S))
  <2>1. IsWellFoundedOn(StrictSubsetOrdering(S), FiniteSubsetsOf(S))
    BY FS_StrictSubsetOrderingWellFounded
  <2> HIDE DEF FiniteSubsetsOf, StrictSubsetOrdering, IsWellFoundedOn
  <2> QED BY <1>1, <2>1, WFMin
<1>3. PICK U \in B : \A V \in B : ~ (<<V, U>> \in StrictSubsetOrdering(S))
  BY <1>2
<1>4. ASSUME NEW V \in B, V \subseteq U, V # U PROVE FALSE
  <2>1. <<V, U>> \in StrictSubsetOrdering(S)
    BY <1>4 DEF StrictSubsetOrdering
  <2> QED BY <2>1, <1>3
<1> QED BY <1>3, <1>4

\* A set that is not empty has the element that is chosen of it.
LEMMA ChosenIsIn == ASSUME NEW s, s # {} PROVE Chosen(s) \in s
BY DEF Chosen

\* MapThenSumSet is the value at the set of the function that adds up.
LEMMA SumIsAdder == ASSUME NEW A, NEW S PROVE SumOver(A, S) = Adder(A, S)[S]
BY DEF SumOver, MapThenSumSet, MapThenFoldSet, Adder, AddsUp, Chosen

\* Functions that add up agree on a set, whatever larger set each is for.
LEMMA AddersAgree ==
    ASSUME NEW A, NEW U, NEW V, NEW f, NEW g, AddsUp(A, U, f), AddsUp(A, V, g),
           NEW S, IsFiniteSet(S), S \subseteq U, S \subseteq V
    PROVE  f[S] = g[S]
<1> DEFINE B == {s \in SUBSET S : f[s] # g[s]}
<1>0. SUFFICES ASSUME B # {} PROVE FALSE
  <2>1. CASE B = {}
    BY <2>1
  <2> QED BY <2>1
<1>1. PICK s \in B : \A t \in B : t \subseteq s => t = s
  <2>1. B \subseteq SUBSET S
    OBVIOUS
  <2> HIDE DEF B
  <2> QED BY <1>0, <2>1, SmallestOf
<1>2. f[s] = IF s = {} THEN 0 ELSE A[Chosen(s)] + f[s \ {Chosen(s)}]
  BY DEF AddsUp
<1>3. g[s] = IF s = {} THEN 0 ELSE A[Chosen(s)] + g[s \ {Chosen(s)}]
  BY DEF AddsUp
<1>4. s # {} /\ f[s] # g[s]
  BY <1>2, <1>3
<1>5. s \ {Chosen(s)} \in SUBSET S /\ s \ {Chosen(s)} # s
  BY <1>4, ChosenIsIn
<1>6. f[s \ {Chosen(s)}] = g[s \ {Chosen(s)}]
  BY <1>5, <1>1
<1> QED BY <1>2, <1>3, <1>4, <1>6

\* There is a function that adds up: the recursion defines one.
LEMMA AddersExist ==
    ASSUME NEW A, NEW S, IsFiniteSet(S)
    PROVE  AddsUp(A, S, Adder(A, S))
<1> DEFINE B == {U \in SUBSET S : ~ \E f : AddsUp(A, U, f)}
<1>0. SUFFICES ASSUME B # {} PROVE FALSE
  <2>1. CASE B = {}
    <3>1. \E f : AddsUp(A, S, f)
      BY <2>1
    <3> QED BY <3>1 DEF Adder
  <2> QED BY <2>1
<1>1. PICK U \in B : \A V \in B : V \subseteq U => V = U
  <2>1. B \subseteq SUBSET S
    OBVIOUS
  <2> HIDE DEF B
  <2> QED BY <1>0, <2>1, SmallestOf
<1>2. IsFiniteSet(U)
  BY <1>1, FS_Subset
<1>3. \A V \in SUBSET U : V # U => AddsUp(A, V, Adder(A, V))
  BY <1>1 DEF Adder
<1> DEFINE less(s) == s \ {Chosen(s)}
           up(s) == IF s = {} THEN 0 ELSE A[Chosen(s)] + Adder(A, less(s))[less(s)]
           g == [s \in SUBSET U |-> up(s)]
<1>4. \A s \in SUBSET U : s # {} => less(s) \in SUBSET U /\ less(s) # U /\ IsFiniteSet(less(s))
  <2> TAKE s \in SUBSET U
  <2> HAVE s # {}
  <2>1. Chosen(s) \in s
    BY ChosenIsIn
  <2> QED BY <2>1, <1>2, FS_Subset
<1>5. ASSUME NEW s \in SUBSET U, s # U PROVE Adder(A, s)[s] = up(s)
  <2>1. AddsUp(A, s, Adder(A, s))
    BY <1>3, <1>5
  <2>2. Adder(A, s)[s] = IF s = {} THEN 0 ELSE A[Chosen(s)] + Adder(A, s)[less(s)]
    BY <2>1 DEF AddsUp
  <2>3. CASE s = {}
    BY <2>2, <2>3
  <2>4. CASE s # {}
    <3>1. less(s) \in SUBSET U /\ less(s) # U /\ IsFiniteSet(less(s)) /\ less(s) \subseteq s
      BY <1>4, <2>4
    <3>2. AddsUp(A, less(s), Adder(A, less(s)))
      BY <3>1, <1>3
    <3>3. Adder(A, s)[less(s)] = Adder(A, less(s))[less(s)]
      <4> DEFINE l == less(s)
      <4> HIDE DEF l
      <4>1. l \subseteq s /\ IsFiniteSet(l) /\ AddsUp(A, l, Adder(A, l))
        BY <3>1, <3>2 DEF l
      <4>2. Adder(A, s)[l] = Adder(A, l)[l]
        BY <4>1, <2>1, AddersAgree
      <4> QED BY <4>2 DEF l
    <3> QED BY <2>2, <3>3, <2>4
  <2> QED BY <2>3, <2>4
<1>6. AddsUp(A, U, g)
  <2>1. ASSUME NEW s \in SUBSET U
        PROVE  g[s] = IF s = {} THEN 0 ELSE A[Chosen(s)] + g[less(s)]
    <3>1. CASE s = {}
      BY <3>1
    <3>2. CASE s # {}
      <4>1. less(s) \in SUBSET U /\ less(s) # U
        BY <1>4, <3>2
      <4>2. g[less(s)] = Adder(A, less(s))[less(s)]
        BY <4>1, <1>5
      <4> QED BY <3>2, <4>2
    <3> QED BY <3>1, <3>2
  <2>2. g = [s \in SUBSET U |-> IF s = {} THEN 0 ELSE A[Chosen(s)] + g[less(s)]]
    <3> DEFINE h == [s \in SUBSET U |-> IF s = {} THEN 0 ELSE A[Chosen(s)] + g[less(s)]]
    <3>1. \A s \in SUBSET U : g[s] = h[s]
      BY <2>1
    <3>2. DOMAIN g = SUBSET U /\ DOMAIN h = SUBSET U /\ g = [s \in DOMAIN g |-> g[s]] /\ h = [s \in DOMAIN h |-> h[s]]
      OBVIOUS
    <3> HIDE DEF g, h
    <3>3. g = h
      BY <3>1, <3>2
    <3> QED BY <3>3 DEF h
  <2> HIDE DEF g
  <2> QED BY <2>2 DEF AddsUp
<1> QED BY <1>1, <1>6

\* Nothing adds up to 0.
LEMMA SumOfNothing == ASSUME NEW A PROVE SumOver(A, {}) = 0
<1>1. AddsUp(A, {}, Adder(A, {}))
  BY AddersExist, FS_EmptySet
<1> QED BY <1>1, SumIsAdder DEF AddsUp

\* One chosen element less.
LEMMA SumStep ==
    ASSUME NEW A, NEW S, IsFiniteSet(S), S # {}
    PROVE  SumOver(A, S) = A[Chosen(S)] + SumOver(A, S \ {Chosen(S)})
<1> DEFINE R == S \ {Chosen(S)}
<1>1. R \subseteq S /\ IsFiniteSet(R)
  BY FS_Subset
<1>2. AddsUp(A, S, Adder(A, S)) /\ AddsUp(A, R, Adder(A, R))
  <2> HIDE DEF R
  <2> QED BY <1>1, AddersExist
<1>3. Adder(A, S)[R] = Adder(A, R)[R]
  <2> HIDE DEF R
  <2> QED BY <1>1, <1>2, AddersAgree
<1>4. Adder(A, S)[S] = A[Chosen(S)] + Adder(A, S)[R]
  BY <1>2 DEF AddsUp
<1> QED BY <1>3, <1>4, SumIsAdder

\* A sum of natural numbers is one.
LEMMA SumIsNat ==
    ASSUME NEW A, NEW S, IsFiniteSet(S), \A i \in S : A[i] \in Nat
    PROVE  SumOver(A, S) \in Nat
<1> DEFINE B == {s \in SUBSET S : SumOver(A, s) \notin Nat}
<1>0. SUFFICES ASSUME B # {} PROVE FALSE
  <2>1. CASE B = {}
    BY <2>1
  <2> QED BY <2>1
<1>1. PICK s \in B : \A t \in B : t \subseteq s => t = s
  <2>1. B \subseteq SUBSET S
    OBVIOUS
  <2> HIDE DEF B
  <2> QED BY <1>0, <2>1, SmallestOf
<1>2. CASE s = {}
  BY <1>2, SumOfNothing
<1>3. CASE s # {}
  <2>1. Chosen(s) \in s
    BY <1>3, ChosenIsIn
  <2>2. SumOver(A, s \ {Chosen(s)}) \in Nat
    BY <1>1, <2>1
  <2>3. SumOver(A, s) = A[Chosen(s)] + SumOver(A, s \ {Chosen(s)})
    BY <1>3, FS_Subset, SumStep
  <2>4. A[Chosen(s)] \in Nat
    BY <2>1
  <2> QED BY <2>2, <2>3, <2>4
<1> QED BY <1>2, <1>3

\* Any element less.
LEMMA SumWithout ==
    ASSUME NEW A, NEW S, IsFiniteSet(S), \A i \in S : A[i] \in Nat, NEW x \in S
    PROVE  SumOver(A, S) = A[x] + SumOver(A, S \ {x})
<1> DEFINE B == {s \in SUBSET S : \E z \in s : SumOver(A, s) # A[z] + SumOver(A, s \ {z})}
<1>0. SUFFICES ASSUME B # {} PROVE FALSE
  <2>1. CASE B = {}
    BY <2>1
  <2> QED BY <2>1
<1>1. PICK s \in B : \A t \in B : t \subseteq s => t = s
  <2>1. B \subseteq SUBSET S
    OBVIOUS
  <2> HIDE DEF B
  <2> QED BY <1>0, <2>1, SmallestOf
<1>2. PICK z \in s : SumOver(A, s) # A[z] + SumOver(A, s \ {z})
  BY <1>1
<1> DEFINE y == Chosen(s)
           r == s \ {y}
           q == s \ {z}
<1>3. y \in s
  BY ChosenIsIn
<1>4. s \subseteq S /\ IsFiniteSet(s) /\ IsFiniteSet(r \ {z})
  BY FS_Subset
<1>5. SumOver(A, s) = A[y] + SumOver(A, r)
  BY <1>3, <1>4, SumStep
<1>6. y # z
  BY <1>2, <1>5
<1>7. SumOver(A, r) = A[z] + SumOver(A, r \ {z})
  <2>1. r # s /\ r \subseteq s /\ r \in SUBSET S /\ z \in r
    BY <1>3, <1>4, <1>6
  <2>2. r \notin B
    <3> HIDE DEF B, r
    <3> QED BY <2>1, <1>1
  <2> QED BY <2>1, <2>2
<1>8. SumOver(A, q) = A[y] + SumOver(A, q \ {y})
  <2>1. q # s /\ q \subseteq s /\ q \in SUBSET S /\ y \in q
    BY <1>3, <1>4, <1>6
  <2>2. q \notin B
    <3> HIDE DEF B, q
    <3> QED BY <2>1, <1>1
  <2> QED BY <2>1, <2>2
<1>9. q \ {y} = r \ {z}
  OBVIOUS
<1>10. A[y] \in Nat /\ A[z] \in Nat /\ SumOver(A, r \ {z}) \in Nat
  BY <1>3, <1>4, SumIsNat
<1> DEFINE a == A[y]
           b == A[z]
           rest == SumOver(A, r \ {z})
<1>11. SumOver(A, s) = a + (b + rest) /\ SumOver(A, q) = a + rest
  BY <1>5, <1>7, <1>8, <1>9
<1>12. SumOver(A, s) # b + (a + rest)
  BY <1>2, <1>11
<1>13. a \in Nat /\ b \in Nat /\ rest \in Nat
  BY <1>10
<1> HIDE DEF a, b, rest
<1> QED BY <1>11, <1>12, <1>13

\* One element more.
LEMMA SumWith ==
    ASSUME NEW A, NEW S, IsFiniteSet(S), NEW x, x \notin S, \A i \in S \cup {x} : A[i] \in Nat
    PROVE  SumOver(A, S \cup {x}) = A[x] + SumOver(A, S)
<1> DEFINE T == S \cup {x}
<1>1. IsFiniteSet(T) /\ x \in T /\ \A i \in T : A[i] \in Nat
  BY FS_AddElement
<1>2. T \ {x} = S
  OBVIOUS
<1> HIDE DEF T
<1>3. SumOver(A, T) = A[x] + SumOver(A, T \ {x})
  BY <1>1, SumWithout
<1> QED BY <1>2, <1>3 DEF T

\* Two parts that have nothing in common.
LEMMA SumOfParts ==
    ASSUME NEW A, NEW S, NEW T, IsFiniteSet(S), IsFiniteSet(T), S \cap T = {},
           \A i \in S \cup T : A[i] \in Nat
    PROVE  SumOver(A, S \cup T) = SumOver(A, S) + SumOver(A, T)
<1> DEFINE B == {s \in SUBSET S : SumOver(A, s \cup T) # SumOver(A, s) + SumOver(A, T)}
<1>0. SUFFICES ASSUME B # {} PROVE FALSE
  <2>1. CASE B = {}
    BY <2>1
  <2> QED BY <2>1
<1>1. PICK s \in B : \A t \in B : t \subseteq s => t = s
  <2>1. B \subseteq SUBSET S
    OBVIOUS
  <2> HIDE DEF B
  <2> QED BY <1>0, <2>1, SmallestOf
<1>2. SumOver(A, T) \in Nat /\ s \subseteq S /\ IsFiniteSet(s)
  <2>1. SumOver(A, T) \in Nat
    BY SumIsNat
  <2> QED BY <2>1, FS_Subset
<1>3. CASE s = {}
  <2>1. SumOver(A, s \cup T) = SumOver(A, T)
    BY <1>3
  <2>2. SumOver(A, s) = 0
    BY <1>3, SumOfNothing
  <2> QED BY <1>1, <1>2, <2>1, <2>2
<1>4. CASE s # {}
  <2>1. PICK x \in s : TRUE
    BY <1>4
  <2> DEFINE r == s \ {x}
             u == r \cup T
  <2>2. r \subseteq S /\ r # s /\ IsFiniteSet(r) /\ IsFiniteSet(u) /\ x \notin u
    BY <1>2, FS_Subset, FS_Union
  <2>3. SumOver(A, u) = SumOver(A, r) + SumOver(A, T)
    BY <1>1, <2>2
  <2>4. SumOver(A, s) = A[x] + SumOver(A, r)
    BY <1>2, SumWithout
  <2>5. u \cup {x} = s \cup T
    OBVIOUS
  <2>6. SumOver(A, s \cup T) = A[x] + SumOver(A, u)
    <3>1. \A i \in u \cup {x} : A[i] \in Nat
      BY <1>2
    <3> HIDE DEF u
    <3>2. SumOver(A, u \cup {x}) = A[x] + SumOver(A, u)
      BY <2>2, <3>1, SumWith
    <3> QED BY <2>5, <3>2
  <2>7. SumOver(A, r) \in Nat /\ A[x] \in Nat
    BY <1>2, <2>2, SumIsNat
  <2> QED BY <1>1, <1>2, <2>3, <2>4, <2>6, <2>7
<1> QED BY <1>3, <1>4

\* A part sums to no more than the whole.
LEMMA SumGrows ==
    ASSUME NEW A, NEW S, NEW T, IsFiniteSet(S), T \subseteq S, \A i \in S : A[i] \in Nat
    PROVE  SumOver(A, T) <= SumOver(A, S)
<1> DEFINE R == S \ T
<1>1. IsFiniteSet(T) /\ IsFiniteSet(R) /\ T \cap R = {} /\ T \cup R = S
  BY FS_Subset
<1>2. \A i \in T \cup R : A[i] \in Nat
  OBVIOUS
<1> HIDE DEF R
<1>3. SumOver(A, T \cup R) = SumOver(A, T) + SumOver(A, R)
  BY <1>1, <1>2, SumOfParts
<1>4. SumOver(A, T) \in Nat
  BY <1>1, <1>2, SumIsNat
<1>5. SumOver(A, R) \in Nat
  BY <1>1, <1>2, SumIsNat
<1>6. SumOver(A, S) = SumOver(A, T) + SumOver(A, R)
  BY <1>1, <1>3
<1> HIDE DEF SumOver
<1> QED BY <1>4, <1>5, <1>6

\* Only what A says of the elements counts.
LEMMA SumSame ==
    ASSUME NEW A, NEW C, NEW S, IsFiniteSet(S), \A i \in S : A[i] = C[i]
    PROVE  SumOver(A, S) = SumOver(C, S)
<1> DEFINE B == {s \in SUBSET S : SumOver(A, s) # SumOver(C, s)}
<1>0. SUFFICES ASSUME B # {} PROVE FALSE
  <2>1. CASE B = {}
    BY <2>1
  <2> QED BY <2>1
<1>1. PICK s \in B : \A t \in B : t \subseteq s => t = s
  <2>1. B \subseteq SUBSET S
    OBVIOUS
  <2> HIDE DEF B
  <2> QED BY <1>0, <2>1, SmallestOf
<1>2. CASE s = {}
  BY <1>1, <1>2, SumOfNothing
<1>3. CASE s # {}
  <2>1. Chosen(s) \in s
    BY <1>3, ChosenIsIn
  <2>2. SumOver(A, s \ {Chosen(s)}) = SumOver(C, s \ {Chosen(s)})
    BY <1>1, <2>1
  <2>3. IsFiniteSet(s)
    BY FS_Subset
  <2>4. SumOver(A, s) = A[Chosen(s)] + SumOver(A, s \ {Chosen(s)})
    BY <1>3, <2>3, SumStep
  <2>5. SumOver(C, s) = C[Chosen(s)] + SumOver(C, s \ {Chosen(s)})
    BY <1>3, <2>3, SumStep
  <2>6. A[Chosen(s)] = C[Chosen(s)]
    BY <2>1
  <2> QED BY <1>1, <2>2, <2>4, <2>5, <2>6
<1> QED BY <1>2, <1>3

\* Less of each is less in all.
LEMMA SumShrinks ==
    ASSUME NEW A, NEW C, NEW S, IsFiniteSet(S),
           \A i \in S : A[i] \in Nat /\ C[i] \in Nat /\ A[i] <= C[i]
    PROVE  SumOver(A, S) <= SumOver(C, S)
<1> DEFINE B == {s \in SUBSET S : ~ (SumOver(A, s) <= SumOver(C, s))}
<1>0. SUFFICES ASSUME B # {} PROVE FALSE
  <2>1. CASE B = {}
    BY <2>1
  <2> QED BY <2>1
<1>1. PICK s \in B : \A t \in B : t \subseteq s => t = s
  <2>1. B \subseteq SUBSET S
    OBVIOUS
  <2> HIDE DEF B
  <2> QED BY <1>0, <2>1, SmallestOf
<1>2. CASE s = {}
  BY <1>1, <1>2, SumOfNothing
<1>3. CASE s # {}
  <2> DEFINE r == s \ {Chosen(s)}
  <2>1. Chosen(s) \in s
    BY <1>3, ChosenIsIn
  <2>2. SumOver(A, r) <= SumOver(C, r)
    BY <1>1, <2>1
  <2>3. IsFiniteSet(s) /\ IsFiniteSet(r)
    BY FS_Subset
  <2>4. SumOver(A, s) = A[Chosen(s)] + SumOver(A, r)
    BY <1>3, <2>3, SumStep
  <2>5. SumOver(C, s) = C[Chosen(s)] + SumOver(C, r)
    BY <1>3, <2>3, SumStep
  <2>6. A[Chosen(s)] \in Nat /\ C[Chosen(s)] \in Nat /\ A[Chosen(s)] <= C[Chosen(s)]
    BY <2>1
  <2>7. SumOver(A, r) \in Nat /\ SumOver(C, r) \in Nat
    BY <2>3, SumIsNat
  <2>8. ~ (SumOver(A, s) <= SumOver(C, s))
    BY <1>1
  <2> HIDE DEF r, SumOver
  <2> QED BY <2>2, <2>4, <2>5, <2>6, <2>7, <2>8
<1> QED BY <1>2, <1>3

\* Nothing of each is nothing in all.
LEMMA SumOfZeros ==
    ASSUME NEW A, NEW S, IsFiniteSet(S), \A i \in S : A[i] = 0
    PROVE  SumOver(A, S) = 0
<1> DEFINE B == {s \in SUBSET S : SumOver(A, s) # 0}
<1>0. SUFFICES ASSUME B # {} PROVE FALSE
  <2>1. CASE B = {}
    BY <2>1
  <2> QED BY <2>1
<1>1. PICK s \in B : \A t \in B : t \subseteq s => t = s
  <2>1. B \subseteq SUBSET S
    OBVIOUS
  <2> HIDE DEF B
  <2> QED BY <1>0, <2>1, SmallestOf
<1>2. CASE s = {}
  BY <1>1, <1>2, SumOfNothing
<1>3. CASE s # {}
  <2> DEFINE r == s \ {Chosen(s)}
  <2>1. Chosen(s) \in s
    BY <1>3, ChosenIsIn
  <2>2. SumOver(A, r) = 0 /\ IsFiniteSet(s)
    BY <1>1, <2>1, FS_Subset
  <2>3. SumOver(A, s) = A[Chosen(s)] + SumOver(A, r)
    BY <1>3, <2>2, SumStep
  <2>4. A[Chosen(s)] = 0 /\ SumOver(A, s) # 0
    BY <1>1, <2>1
  <2> HIDE DEF r, SumOver
  <2> QED BY <2>2, <2>3, <2>4
<1> QED BY <1>2, <1>3
=============================================================================
