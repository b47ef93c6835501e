---------------------------- MODULE IntegerSets ----------------------------
(***************************************************************************)
(* Least and greatest elements of sets of integers: what Min and Max of    *)
(* the community modules return.  The proofs about the queue's iterators   *)
(* rest on these lemmas.                                                   *)
(***************************************************************************)
EXTENDS FiniteSetsExt, WellFoundedInduction, TLAPS

\* A non-empty set of naturals has a least element.
LEMMA MinNat ==
  ASSUME NEW S, S \subseteq Nat, S # {}
  PROVE  \E i \in S : \A j \in S : i <= j
<1>1. PICK i \in S : \A j \in S : ~(<<j, i>> \in OpToRel(<, Nat))
  BY NatLessThanWellFounded, WFMin
<1>2. \A j \in S : ~(j < i)
  BY <1>1, Zenon DEF OpToRel
<1> QED
  BY <1>2

\* What Min returns.
LEMMA MinProperty ==
  ASSUME NEW S, S \subseteq Nat, S # {}
  PROVE  Min(S) \in S /\ \A j \in S : Min(S) <= j
BY MinNat DEF Min

\* What Max returns for a bounded set.
LEMMA MaxProperty ==
  ASSUME NEW S, S \subseteq Nat, S # {}, NEW b \in Nat, \A i \in S : i <= b
  PROVE  Max(S) \in S /\ \A j \in S : j <= Max(S)
<1> DEFINE T == {i \in Nat : b - i \in S}
<1>1. T \subseteq Nat
  OBVIOUS
<1>2. T # {}
  <2>1. PICK i \in S : TRUE
    OBVIOUS
  <2>2. b - i \in Nat /\ b - (b - i) = i
    BY <2>1
  <2> QED
    BY <2>1, <2>2
<1>3. PICK m \in T : \A j \in T : m <= j
  BY <1>1, <1>2, MinNat
<1>4. \A j \in S : j <= b - m
  <2>1. TAKE j \in S
  <2>2. b - j \in T
    BY <2>1
  <2> QED
    BY <2>1, <2>2, <1>3
<1>5. b - m \in S /\ b - m \in Nat
  BY <1>3
<1>6. \E x \in S : \A y \in S : x >= y
  BY <1>4, <1>5
<1> HIDE DEF T
<1> QED
  BY <1>6 DEF Max

\* Two elements: Max is one of them and not below the other.
LEMMA MaxOfTwo ==
  ASSUME NEW a \in Nat, NEW b \in Nat
  PROVE  Max({a, b}) \in {a, b} /\ a <= Max({a, b}) /\ b <= Max({a, b})
<1>1. \A i \in {a, b} : i <= a + b
  OBVIOUS
<1>2. Max({a, b}) \in {a, b} /\ \A j \in {a, b} : j <= Max({a, b})
  BY <1>1, MaxProperty
<1> QED
  BY <1>2

\* Two elements: Min is one of them and not above the other.
LEMMA MinOfTwo ==
  ASSUME NEW a \in Nat, NEW b \in Nat
  PROVE  Min({a, b}) \in {a, b} /\ Min({a, b}) <= a /\ Min({a, b}) <= b
<1>1. Min({a, b}) \in {a, b} /\ \A j \in {a, b} : Min({a, b}) <= j
  BY MinProperty
<1> QED
  BY <1>1

\* What Min returns for a set of integers that is bounded below.
LEMMA MinOfIntegers ==
  ASSUME NEW S, S \subseteq Int, S # {}, NEW b \in Int, \A i \in S : b <= i
  PROVE  Min(S) \in S /\ \A j \in S : Min(S) <= j
<1> DEFINE T == {i \in Nat : b + i \in S}
<1>1. T # {}
  <2>1. PICK i \in S : TRUE
    OBVIOUS
  <2>2. i - b \in Nat /\ b + (i - b) = i
    BY <2>1
  <2> QED
    BY <2>1, <2>2
<1>2. PICK m \in T : \A j \in T : m <= j
  BY <1>1, MinNat
<1>3. \A j \in S : b + m <= j
  <2>1. TAKE j \in S
  <2>2. j - b \in T
    BY <2>1
  <2> QED
    BY <2>1, <2>2, <1>2
<1>4. \E x \in S : \A y \in S : x <= y
  BY <1>2, <1>3
<1> HIDE DEF T
<1> QED
  BY <1>4 DEF Min

\* Two integers: Max is one of them and not below the other.
LEMMA MaxOfPair ==
  ASSUME NEW a \in Int, NEW b \in Int
  PROVE  Max({a, b}) = IF a >= b THEN a ELSE b
<1>1. \E x \in {a, b} : \A y \in {a, b} : x >= y
  <2>1. CASE a >= b
    BY <2>1
  <2>2. CASE ~(a >= b)
    BY <2>2
  <2> QED
    BY <2>1, <2>2
<1>2. Max({a, b}) \in {a, b} /\ \A y \in {a, b} : Max({a, b}) >= y
  BY <1>1 DEF Max
<1> QED
  BY <1>2
=============================================================================
