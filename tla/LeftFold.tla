------------------------------ MODULE LeftFold ------------------------------
(***************************************************************************)
(* Loops as left folds: what holds before the first element and is kept by *)
(* the loop's body holds when the loop ends.  The module is instantiated   *)
(* with the body Op and the loop invariant Holds(list, k, value): "after k *)
(* elements of the list the value is ...".  The library's induction        *)
(* theorems take such operators as arguments, which the provers cannot     *)
(* supply; the constants of a module can be supplied.                      *)
(***************************************************************************)
EXTENDS Integers, SequencesExt, WellFoundedInduction, SequenceTheorems, TLAPS

CONSTANTS
    Op(_, _),           \* the body: the value so far and the next element
    Holds(_, _, _)      \* what holds of a list, a number of elements, a value

Folded(base, list) == FoldLeft(Op, base, list)

(* Induction over the natural numbers, for a set instead of a predicate.   *)
LEMMA SetInduction ==
    ASSUME NEW T \in SUBSET Nat, 0 \in T, \A n \in T : n + 1 \in T
    PROVE  T = Nat
<1> DEFINE U == Nat \ T
<1>1. SUFFICES ASSUME U # {} PROVE FALSE
  OBVIOUS
<1>2. U \subseteq Nat /\ IsWellFoundedOn(OpToRel(<, Nat), Nat)
  BY NatLessThanWellFounded
<1> HIDE DEF U
<1>3. \E x \in U : \A y \in U : ~ (<<y, x>> \in OpToRel(<, Nat))
  BY <1>1, <1>2, WFMin
<1> USE DEF U
<1>4. PICK x \in U : \A y \in U : ~ (<<y, x>> \in OpToRel(<, Nat))
  BY <1>3
<1>5. \A y \in U : ~(y < x)
  BY <1>4 DEF OpToRel
<1>6. x - 1 \in T
  BY <1>5
<1> QED BY <1>6

(* A bounded set of numbers has a largest one.                             *)
LEMMA LargestExists ==
    ASSUME NEW n \in Nat, NEW S \in SUBSET (1..n), S # {}
    PROVE  Max(S) \in S /\ \A y \in S : Max(S) >= y
<1> DEFINE T == {k \in Nat : \A X \in SUBSET (1..k) :
                    X # {} => \E x \in X : \A y \in X : x >= y}
<1>1. 0 \in T
  <2>1. \A X \in SUBSET (1..0) : X = {}
    OBVIOUS
  <2> QED BY <2>1
<1>2. ASSUME NEW k \in T PROVE k + 1 \in T
  <2>1. k \in Nat /\ k + 1 \in Nat
    BY <1>2
  <2>2. ASSUME NEW X \in SUBSET (1..(k + 1)), X # {}
        PROVE  \E x \in X : \A y \in X : x >= y
    <3>1. CASE k + 1 \in X
      BY <2>1, <3>1
    <3>2. CASE k + 1 \notin X
      <4>1. X \in SUBSET (1..k)
        BY <2>1, <3>2
      <4> QED BY <1>2, <2>2, <4>1
    <3> QED BY <3>1, <3>2
  <2> QED BY <2>1, <2>2
<1>3. T \in SUBSET Nat
  OBVIOUS
<1> HIDE DEF T
<1>4. T = Nat
  BY <1>1, <1>2, <1>3, SetInduction
<1>5. \E x \in S : \A y \in S : x >= y
  BY <1>4 DEF T
<1> QED BY <1>5, Zenon DEF Max

(* The function that FoldLeft computes with, on the sets of indexes up to  *)
(* k: it takes the largest index off.                                      *)
Step(g, base, list, k) ==
    g = [s \in SUBSET (1..k) |->
            IF s = {} THEN base ELSE Op(g[s \ {Max(s)}], list[Max(s)])]

(* It extends to the next index.                                           *)
LEMMA Extended ==
    ASSUME NEW base, NEW list, NEW k \in Nat, NEW g, Step(g, base, list, k)
    PROVE  \E h : /\ Step(h, base, list, k + 1)
                  /\ h[1..(k + 1)] = Op(g[1..k], list[k + 1])
<1> DEFINE h == [s \in SUBSET (1..(k + 1)) |->
                   IF k + 1 \in s THEN Op(g[s \ {k + 1}], list[k + 1]) ELSE g[s]]
<1>1. ASSUME NEW s \in SUBSET (1..(k + 1)), k + 1 \in s
      PROVE  Max(s) = k + 1
  <2>1. \A y \in s : k + 1 >= y
    BY <1>1
  <2>2. \A x \in s : (\A y \in s : x >= y) => x = k + 1
    BY <1>1
  <2>3. (k + 1 \in s /\ \A y \in s : k + 1 >= y)
           => Max(s) \in s /\ \A y \in s : Max(s) >= y
    BY Zenon DEF Max
  <2> QED BY <1>1, <2>1, <2>2, <2>3
<1>2. ASSUME NEW s \in SUBSET (1..(k + 1)), k + 1 \notin s
      PROVE  s \in SUBSET (1..k) /\ \A i : k + 1 \notin s \ {i}
  BY <1>2
<1>3. ASSUME NEW s \in SUBSET (1..(k + 1))
      PROVE  h[s] = IF s = {} THEN base ELSE Op(h[s \ {Max(s)}], list[Max(s)])
  <2>1. CASE k + 1 \in s
    <3>1. s \ {k + 1} \in SUBSET (1..k) /\ k + 1 \notin s \ {k + 1}
      OBVIOUS
    <3>2. h[s \ {k + 1}] = g[s \ {k + 1}]
      BY <3>1
    <3> QED BY <2>1, <1>1, <3>2
  <2>2. CASE k + 1 \notin s
    <3>1. h[s] = g[s] /\ \A i : h[s \ {i}] = g[s \ {i}]
      BY <2>2, <1>2
    <3>2. g[s] = IF s = {} THEN base ELSE Op(g[s \ {Max(s)}], list[Max(s)])
      BY <2>2, <1>2 DEF Step
    <3> QED BY <3>1, <3>2
  <2> QED BY <2>1, <2>2
<1>4. Step(h, base, list, k + 1)
  BY <1>3 DEF Step
<1>5. h[1..(k + 1)] = Op(g[1..k], list[k + 1])
  <2>1. (1..(k + 1)) \ {k + 1} = 1..k /\ k + 1 \in 1..(k + 1)
    OBVIOUS
  <2> QED BY <2>1
<1> QED BY <1>4, <1>5

(* So it exists for any number of elements.                                *)
LEMMA StepExists ==
    ASSUME NEW base, NEW list, NEW n \in Nat PROVE \E g : Step(g, base, list, n)
<1> DEFINE T == {k \in Nat : \E g : Step(g, base, list, k)}
<1>1. 0 \in T
  <2>1. Step([s \in {{}} |-> base], base, list, 0)
    BY DEF Step
  <2> QED BY <2>1
<1>2. \A k \in T : k + 1 \in T
  BY Extended
<1>3. T \in SUBSET Nat
  OBVIOUS
<1> HIDE DEF T
<1>4. T = Nat
  BY <1>1, <1>2, <1>3, SetInduction
<1> QED BY <1>4 DEF T

(* What FoldLeft returns is its value at the set of all indexes.           *)
LEMMA Value ==
    ASSUME NEW S, NEW base, NEW list \in Seq(S)
    PROVE  \E g : Step(g, base, list, Len(list)) /\ Folded(base, list) = g[1..Len(list)]
<1> DEFINE g == CHOOSE f : Step(f, base, list, Len(list))
<1>1. DOMAIN list = 1..Len(list) /\ Len(list) \in Nat
  OBVIOUS
<1>2. Step(g, base, list, Len(list))
  BY <1>1, StepExists
<1>3. Folded(base, list) = g[1..Len(list)]
  BY <1>1 DEF Folded, FoldLeft, MapThenFoldSet, Step
<1> HIDE DEF g
<1> QED BY <1>2, <1>3

(* At an initial segment of the indexes it is the value on the way.        *)
LEMMA OnTheWay ==
    ASSUME NEW base, NEW list, NEW n \in Nat, NEW g, Step(g, base, list, n), NEW k \in Nat, k + 1 <= n
    PROVE  g[1..(k + 1)] = Op(g[1..k], list[k + 1])
<1> DEFINE s == 1..(k + 1)
<1>1. s \in SUBSET (1..n) /\ s # {}
  OBVIOUS
<1>2. s \ {k + 1} = 1..k
  OBVIOUS
<1>3. Max(s) = k + 1
  <2>1. k + 1 \in s /\ \A y \in s : k + 1 >= y
    OBVIOUS
  <2>2. \A x \in s : (\A y \in s : x >= y) => x = k + 1
    OBVIOUS
  <2>3. (k + 1 \in s /\ \A y \in s : k + 1 >= y)
           => Max(s) \in s /\ \A y \in s : Max(s) >= y
    BY Zenon DEF Max
  <2> QED BY <2>1, <2>2, <2>3
<1> HIDE DEF s
<1>4. g[s] = Op(g[s \ {Max(s)}], list[Max(s)])
  BY <1>1 DEF Step
<1> QED BY <1>2, <1>3, <1>4 DEF s

(* A loop invariant holds at the end of the loop.                          *)
THEOREM FoldInvariant ==
    ASSUME NEW S, NEW base, NEW list \in Seq(S), Holds(list, 0, base),
           \A i \in 1..Len(list) : \A acc :
               Holds(list, i - 1, acc) => Holds(list, i, Op(acc, list[i]))
    PROVE  Holds(list, Len(list), Folded(base, list))
<1>1. PICK g : Step(g, base, list, Len(list)) /\ Folded(base, list) = g[1..Len(list)]
  BY Value
<1> DEFINE T == {k \in Nat : k <= Len(list) => Holds(list, k, g[1..k])}
<1>0. Len(list) \in Nat
  OBVIOUS
<1>2. 0 \in T
  <2>1. g[1..0] = base
    <3>1. 1..0 = {} /\ {} \in SUBSET (1..Len(list))
      OBVIOUS
    <3> QED BY <1>1, <3>1 DEF Step
  <2> QED BY <2>1
<1>3. ASSUME NEW k \in T PROVE k + 1 \in T
  <2>1. k \in Nat /\ k + 1 \in Nat /\ k + 1 - 1 = k
    BY <1>3
  <2>2. CASE k + 1 <= Len(list)
    <3>1. Holds(list, k, g[1..k]) /\ k + 1 \in 1..Len(list)
      BY <1>0, <1>3, <2>1, <2>2
    <3>2. g[1..(k + 1)] = Op(g[1..k], list[k + 1])
      BY <1>0, <1>1, <2>1, <3>1, OnTheWay
    <3>3. Holds(list, k + 1, Op(g[1..k], list[k + 1]))
      BY <2>1, <3>1
    <3> QED BY <2>1, <3>2, <3>3
  <2>3. CASE ~(k + 1 <= Len(list))
    BY <2>1, <2>3
  <2> QED BY <2>2, <2>3
<1>4. T \in SUBSET Nat
  OBVIOUS
<1> HIDE DEF T
<1>5. T = Nat
  BY <1>2, <1>3, <1>4, SetInduction
<1>6. Len(list) \in T
  BY <1>0, <1>5
<1> QED BY <1>0, <1>1, <1>6 DEF T
=============================================================================
