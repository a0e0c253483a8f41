---------------------------- MODULE NatInduction ----------------------------
(***************************************************************************)
(* Induction over the natural numbers in a form every prover can use: a    *)
(* set of numbers in place of a predicate.  What a recursive function      *)
(* computes is proved with it, by taking the set of arguments for which    *)
(* the claim holds.  And division: a quotient and a remainder are the only *)
(* ones that multiply back.                                                *)
(***************************************************************************)
EXTENDS Integers, WellFoundedInduction, TLAPS

\* The order of the natural numbers is well founded.
LEMMA NatWellFounded == IsWellFoundedOn({r \in Nat \X Nat : r[1] < r[2]}, Nat)
<1>1. OpToRel(<, Nat) = {r \in Nat \X Nat : r[1] < r[2]}
  BY DEF OpToRel
<1> QED BY <1>1, NatLessThanWellFounded

\* A set of natural numbers that is not empty has a least element.
LEMMA LeastNatural ==
  ASSUME NEW T \in SUBSET Nat, T # {}
  PROVE  \E m \in T : \A k \in T : m <= k
<1> DEFINE R == {r \in Nat \X Nat : r[1] < r[2]}
<1>1. PICK m \in T : \A k \in T : ~(<<k, m>> \in R)
  BY NatWellFounded, WFMin
<1>2. ASSUME NEW k \in T PROVE m <= k
  <2>1. <<k, m>> \in Nat \X Nat /\ k \in Nat /\ m \in Nat
    OBVIOUS
  <2>2. ~(k < m)
    BY <1>1, <2>1
  <2> QED BY <2>1, <2>2
<1> QED BY <1>2

\* Induction: a set that has 0, and with every number the next one, is Nat.
LEMMA SetInduction ==
  ASSUME NEW S, 0 \in S, \A n \in Nat : n \in S => n + 1 \in S
  PROVE  Nat \subseteq S
<1> SUFFICES ASSUME Nat \ S # {} PROVE FALSE
  OBVIOUS
<1>1. PICK m \in Nat \ S : \A k \in Nat \ S : m <= k
  BY LeastNatural
<1>2. m # 0 /\ m - 1 \in Nat /\ (m - 1) + 1 = m
  BY <1>1
<1>3. m - 1 \in S
  <2>1. ~(m <= m - 1)
    BY <1>2
  <2> QED BY <1>1, <1>2, <2>1
<1> QED BY <1>1, <1>2, <1>3

\* The same up to a bound.
LEMMA BoundedInduction ==
  ASSUME NEW S, NEW b \in Nat, 0 \in S, \A n \in 0..(b - 1) : n \in S => n + 1 \in S
  PROVE  0..b \subseteq S
<1> DEFINE T == {n \in Nat : n <= b => n \in S}
<1>1. 0 \in T
  OBVIOUS
<1>2. \A n \in Nat : n \in T => n + 1 \in T
  <2> SUFFICES ASSUME NEW n \in Nat, n \in T, n + 1 <= b PROVE n + 1 \in S
    OBVIOUS
  <2>1. n \in 0..(b - 1) /\ n \in S
    OBVIOUS
  <2> QED BY <2>1
<1> HIDE DEF T
<1>3. Nat \subseteq T
  BY <1>1, <1>2, SetInduction
<1> QED BY <1>3 DEF T

\* A number is divided in one way only.
LEMMA QuotientIs ==
  ASSUME NEW a \in Nat, NEW m \in Nat, m > 0, NEW s \in Nat, NEW w \in 0..(m - 1), a = m * s + w
  PROVE  a \div m = s /\ a % m = w
<1> DEFINE q == a \div m  r == a % m
<1>1. q \in Nat /\ r \in 0..(m - 1) /\ a = m * q + r
  OBVIOUS
<1>2. \A x, y \in Nat : x > y => m * x >= m * y + m
  <2> SUFFICES ASSUME NEW x \in Nat, NEW y \in Nat, x > y PROVE m * x >= m * y + m
    OBVIOUS
  <2>1. x = y + (x - y) /\ x - y \in Nat /\ x - y >= 1
    OBVIOUS
  <2>2. \A d \in Nat : d >= 1 => m * d >= m /\ m * (y + d) = m * y + m * d
    OBVIOUS
  <2>3. m * (x - y) >= m /\ m * x = m * y + m * (x - y)
    BY <2>1, <2>2
  <2>4. m * y \in Nat /\ m * (x - y) \in Nat /\ m * x \in Nat
    BY <2>1
  <2> QED BY <2>3, <2>4
<1> HIDE DEF q, r
<1>3. m * q \in Nat /\ m * s \in Nat
  BY <1>1
<1>4. ~(q > s) /\ ~(s > q)
  BY <1>1, <1>2, <1>3
<1>5. q = s
  BY <1>1, <1>4
<1>6. r = w
  BY <1>1, <1>3, <1>5
<1> QED BY <1>5, <1>6 DEF q, r
==============================================================================
