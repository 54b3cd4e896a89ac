-------------------------------- MODULE Extremes --------------------------------
(***************************************************************************)
(* Sets of numbers between 1 and n, such as the indices of a sequence that *)
(* have some property, have a least and a greatest element: what the Min,  *)
(* Max and CHOOSE of the models rest on.  What is numbered by a bijection  *)
(* is numbered whole.                                                      *)
(***************************************************************************)
EXTENDS Integers, TLAPS, FiniteSetTheorems, WellFoundedInduction

\* A set of positive numbers up to n that is not empty has a least element.
\* The prefixes 1..x of its elements are subsets of a finite set, which
\* strict inclusion orders well.
LEMMA LeastExists ==
  ASSUME NEW n \in Nat, NEW T \in SUBSET (1..n), T # {}
  PROVE  \E x \in T : \A y \in T : x <= y
<1> DEFINE R == StrictSubsetOrdering(1..n)
           U == {1..x : x \in T}
<1>1. IsWellFoundedOn(R, SUBSET (1..n))
  <2>1. IsFiniteSet(1..n)
    BY FS_Interval
  <2> QED BY <2>1, FS_StrictSubsetOrderingWellFounded, FS_FiniteSubsetsOfFinite
<1>2. U \subseteq SUBSET (1..n) /\ U # {}
  <2>1. \A x \in T : 1..x \subseteq 1..n
    BY SMT
  <2>2. \A u \in U : u \subseteq 1..n
    BY <2>1
  <2>3. PICK x \in T : TRUE
    OBVIOUS
  <2>4. 1..x \in U
    OBVIOUS
  <2> QED BY <2>2, <2>4
<1>3. PICK u \in U : \A v \in U : <<v, u>> \notin R
  <2> HIDE DEF R, U
  <2> QED BY <1>1, <1>2, WFMin
<1>4. PICK x \in T : u = 1..x
  OBVIOUS
<1>5. ASSUME NEW y \in T, y < x PROVE FALSE
  <2>1. 1..y \subseteq 1..x /\ x \in 1..x /\ x \notin 1..y
    BY <1>5
  <2>2. <<1..y, 1..x>> \in R
    BY <2>1, <1>2 DEF StrictSubsetOrdering
  <2> QED BY <1>3, <1>4, <2>2
<1> QED BY <1>5

\* It has a greatest one too: the least of what is left to n.
LEMMA GreatestExists ==
  ASSUME NEW n \in Nat, NEW T \in SUBSET (1..n), T # {}
  PROVE  \E x \in T : \A y \in T : x >= y
<1> DEFINE U == {(n + 1) - x : x \in T}
<1>1. U \in SUBSET (1..n) /\ U # {}
  OBVIOUS
<1>2. PICK u \in U : \A v \in U : u <= v
  <2> HIDE DEF U
  <2> QED BY <1>1, LeastExists
<1>3. PICK x \in T : u = (n + 1) - x
  OBVIOUS
<1>4. \A y \in T : u <= (n + 1) - y
  BY <1>2
<1>5. \A y \in T : x >= y
  BY <1>3, <1>4
<1> QED BY <1>5

\* An enumeration of a finite set reaches each of its elements.
LEMMA Enumeration ==
  ASSUME NEW T, IsFiniteSet(T), NEW order \in Bijection(1..Cardinality(T), T)
  PROVE  /\ Cardinality(T) \in Nat /\ order \in [1..Cardinality(T) -> T]
         /\ \A t \in T : \E i \in 1..Cardinality(T) : order[i] = t
BY FS_CardinalityType DEF Bijection, Injection, Surjection
=============================================================================
