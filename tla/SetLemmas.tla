----------------------------- MODULE SetLemmas -----------------------------
(* Facts about sets of naturals that several proofs need.                   *)
EXTENDS Naturals, Sequences, FiniteSets, WellFoundedInduction, TLAPS

(* A non-empty set of naturals has a least element.                         *)
LEMMA LeastElement ==
  ASSUME NEW S \in SUBSET Nat, S # {}
  PROVE  \E m \in S : \A i \in S : m <= i
<1>1. PICK m \in S : \A y \in S : ~(<<y, m>> \in OpToRel(<, Nat))
  BY WFMin, NatLessThanWellFounded
<1>2. \A y \in S : m <= y
  <2> SUFFICES ASSUME NEW y \in S, y < m PROVE FALSE
    OBVIOUS
  <2>1. <<y, m>> \in OpToRel(<, Nat)
    BY DEF OpToRel
  <2> QED
    BY <1>1, <2>1
<1> QED
  BY <1>2

(* A non-empty set of naturals bounded by n has a largest element.          *)
LEMMA BoundedMax ==
  ASSUME NEW n \in Nat, NEW S \in SUBSET (0 .. n), S # {}
  PROVE  \E m \in S : \A i \in S : i <= m
<1> DEFINE T == {n - i : i \in S}
<1>1. T \subseteq Nat /\ T # {}
  <2>1. \A i \in S : n - i \in Nat
    OBVIOUS
  <2>2. PICK i \in S : TRUE
    OBVIOUS
  <2>3. n - i \in T
    OBVIOUS
  <2> QED
    BY <2>1, <2>3
<1>2. PICK x \in T : \A y \in T : x <= y
  BY <1>1, LeastElement
<1>3. PICK m \in S : x = n - m
  OBVIOUS
<1>4. \A i \in S : i <= m
  <2> SUFFICES ASSUME NEW i \in S PROVE i <= m
    OBVIOUS
  <2>1. x <= n - i
    BY <1>2
  <2>2. i \in 0 .. n /\ m \in 0 .. n
    OBVIOUS
  <2> QED
    BY <1>3, <2>1, <2>2
<1> QED
  BY <1>4

(* So has a non-empty finite set of naturals.                               *)
LEMMA FiniteMax ==
  ASSUME NEW S \in SUBSET Nat, S # {}, IsFiniteSet(S)
  PROVE  \E m \in S : \A i \in S : i <= m
<1>1. PICK q \in Seq(S) : \A s \in S : \E n \in 1 .. Len(q) : q[n] = s
  BY DEF IsFiniteSet
<1>2. /\ Len(q) \in Nat
      /\ \A j \in 1 .. Len(q) : q[j] \in S /\ q[j] \in Nat
  <2>1. Len(q) \in Nat /\ \A j \in 1 .. Len(q) : q[j] \in S
    BY <1>1
  <2> QED
    BY <2>1
<1> DEFINE Bounded(i) == \E b \in Nat : \A j \in 1 .. i : q[j] <= b
           Bad == {i \in 0 .. Len(q) : ~Bounded(i)}
<1> HIDE DEF Bounded
<1>3. ASSUME Bad # {} PROVE FALSE
  <2>1. Bad \in SUBSET Nat
    BY <1>2
  <2>2. PICK m \in Bad : \A i \in Bad : m <= i
    <3> HIDE DEF Bad
    <3> QED
      BY <1>3, <2>1, LeastElement
  <2>3. m # 0
    <3>1. \A j \in 1 .. 0 : q[j] <= 0
      OBVIOUS
    <3>2. Bounded(0)
      BY <3>1 DEF Bounded
    <3> QED
      BY <2>2, <3>2
  <2>4. m - 1 \in 0 .. Len(q) /\ m - 1 \notin Bad /\ m \in 1 .. Len(q)
    BY <1>2, <2>1, <2>2, <2>3
  <2>5. PICK b \in Nat : \A j \in 1 .. m - 1 : q[j] <= b
    BY <2>4 DEF Bounded
  <2> DEFINE top == IF b <= q[m] THEN q[m] ELSE b
  <2>6. top \in Nat /\ b <= top /\ q[m] <= top
    BY <1>2, <2>4
  <2>7. ASSUME NEW j \in 1 .. m PROVE q[j] <= top
    <3>1. j = m \/ j \in 1 .. m - 1
      BY <2>4
    <3>2. q[j] \in Nat
      BY <1>2, <2>4
    <3> QED
      BY <2>5, <2>6, <3>1, <3>2
  <2>8. Bounded(m)
    BY <2>6, <2>7 DEF Bounded
  <2> QED
    BY <2>2, <2>8
<1>4. Bounded(Len(q))
  BY <1>2, <1>3
<1>5. PICK b \in Nat : \A j \in 1 .. Len(q) : q[j] <= b
  BY <1>4 DEF Bounded
<1>6. S \in SUBSET (0 .. b)
  BY <1>1, <1>5
<1> QED
  BY <1>6, BoundedMax
=============================================================================
