----------------------------- MODULE Induction ------------------------------
(***************************************************************************)
(* Induction over the natural numbers, for sets instead of predicates:     *)
(* what has been proved of every recursive function of this project rests  *)
(* on it.  It follows from the well-foundedness of strict inclusion on the *)
(* finite subsets of an interval.                                          *)
(***************************************************************************)
EXTENDS Integers, FiniteSets, FiniteSetTheorems, WellFoundedInduction, TLAPS

(* A set of natural numbers that is not empty has a least element.         *)
LEMMA LeastExists ==
  ASSUME NEW T, T \subseteq Nat, T # {}
  PROVE  \E m \in T : \A k \in T : m <= k
<1>0. PICK n \in T : TRUE
  OBVIOUS
<1> DEFINE R == StrictSubsetOrdering(0..n)
           D == {0..k : k \in T \cap 0..n}
<1>1. IsWellFoundedOn(R, FiniteSubsetsOf(0..n))
  BY FS_StrictSubsetOrderingWellFounded
<1>2. D \subseteq FiniteSubsetsOf(0..n) /\ D # {}
  <2>1. IsFiniteSet(0..n)
    BY FS_Interval
  <2>2. \A k \in T \cap 0..n : 0..k \subseteq 0..n /\ IsFiniteSet(0..k)
    BY FS_Interval
  <2> QED BY <2>2 DEF FiniteSubsetsOf
<1>3. PICK d \in D : \A e \in D : ~ (<<e, d>> \in R)
  <2> HIDE DEF R, D
  <2> QED BY <1>1, <1>2, WFMin
<1>4. PICK m \in T \cap 0..n : d = 0..m
  BY <1>3
<1>5. ASSUME NEW k \in T, k < m
      PROVE  FALSE
  <2>1. k \in T \cap 0..n /\ 0..k \in D
    BY <1>5
  <2>2. /\ 0..k \subseteq 0..m /\ m \in 0..m /\ m \notin 0..k
        /\ 0..k \subseteq 0..n /\ 0..m \subseteq 0..n
    BY <1>5
  <2>3. <<0..k, d>> \in R
    BY <2>2, <1>4 DEF StrictSubsetOrdering
  <2> QED BY <2>1, <2>3, <1>3
<1> QED BY <1>5

(* A set that holds 0, and with each number below n the next one, holds    *)
(* every number up to n.                                                   *)
LEMMA InductionUpTo ==
  ASSUME NEW n \in Nat, NEW S, 0 \in S,
         \A k \in 0..(n - 1) : k \in S => k + 1 \in S
  PROVE  0..n \subseteq S
<1> DEFINE T == 0..n \ S
<1> SUFFICES ASSUME T # {} PROVE FALSE
  OBVIOUS
<1>1. T \subseteq Nat
  OBVIOUS
<1>2. PICK m \in T : \A k \in T : m <= k
  <2> HIDE DEF T
  <2> QED BY <1>1, LeastExists
<1>3. m # 0 /\ m - 1 \in 0..(n - 1) /\ m - 1 \in S
  BY <1>2
<1> QED BY <1>2, <1>3
=============================================================================
