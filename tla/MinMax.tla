-------------------------------- MODULE MinMax --------------------------------
(* The least and the greatest element of a set of numbers are in it. *)
EXTENDS Integers, FiniteSetsExt, WellFoundedInduction, TLAPS

\* A nonempty set of natural numbers has its least element as Min.
LEMMA MinIsLeast ==
  ASSUME NEW S \in SUBSET Nat, S # {}
  PROVE  Min(S) \in S /\ \A x \in S : Min(S) <= x
<1> DEFINE R == {ss \in Nat \X Nat : ss[1] < ss[2]}
<1>1. IsWellFoundedOn(R, Nat)
  BY NatLessThanWellFounded, Zenon DEF OpToRel
<1>2. PICK x \in S : \A y \in S : ~(<<y, x>> \in R)
  BY <1>1, WFMin, Zenon
<1>3. ASSUME NEW y \in S PROVE x <= y
  <2>1. <<y, x>> \in Nat \X Nat => (<<y, x>> \in R <=> y < x)
    OBVIOUS
  <2> QED
    BY <1>2, <2>1
<1> QED
  BY <1>3 DEF Min

\* A nonempty set of places has its greatest element as Max.
LEMMA MaxIsGreatest ==
  ASSUME NEW N \in Nat, NEW S \in SUBSET (0 .. N), S # {}
  PROVE  Max(S) \in S
<1> DEFINE T == {N - x : x \in S}
<1>1. T \in SUBSET Nat /\ T # {}
  <2>1. \A x \in S : N - x \in Nat
    OBVIOUS
  <2>2. T \in SUBSET Nat
    BY <2>1
  <2>3. PICK x \in S : TRUE
    OBVIOUS
  <2>4. N - x \in T
    OBVIOUS
  <2> QED
    BY <2>2, <2>4
<1>2. Min(T) \in T /\ \A x \in T : Min(T) <= x
  BY <1>1, MinIsLeast
<1> HIDE DEF T
<1>3. PICK y \in S : Min(T) = N - y
  BY <1>2 DEF T
<1>4. ASSUME NEW x \in S PROVE y >= x
  <2>1. N - x \in T
    BY DEF T
  <2> QED
    BY <1>2, <1>3, <2>1
<1> QED
  BY <1>4 DEF Max
================================================================================
