----------------------------- MODULE LeastNumber -----------------------------
(***************************************************************************)
(* The least-number principle about sets instead of predicates. With it a  *)
(* proof can argue by a smallest counterexample where the library's        *)
(* induction theorems would need an operator for their parameter.          *)
(***************************************************************************)
EXTENDS Integers, WellFoundedInduction, TLAPS

Less == OpToRel(<, Nat)

(* The order of the naturals, as the library's relation.                   *)
LEMMA LessIsWellFounded == IsWellFoundedOn(Less, Nat)
BY NatLessThanWellFounded DEF Less

(* A set of naturals that is not empty has a least element.                *)
LEMMA LeastOf ==
  ASSUME NEW S \in SUBSET Nat, S # {}
  PROVE  \E m \in S : \A k \in S : m <= k
<1>1. PICK m \in S : \A k \in S : ~(<<k, m>> \in Less)
  BY LessIsWellFounded, WFMin
<1>2. \A i, j \in Nat : <<i, j>> \in Less <=> i < j
  BY DEF Less, OpToRel
<1>3. \A k \in S : k \in Nat /\ m \in Nat /\ ~(k < m)
  BY <1>1, <1>2
<1> QED
  BY <1>1, <1>3

(* One that is bounded also has a greatest element.                        *)
LEMMA GreatestOf ==
  ASSUME NEW n \in Nat, NEW S \in SUBSET (0 .. n), S # {}
  PROVE  \E m \in S : \A k \in S : k <= m
<1> DEFINE Rest == {i \in Nat : n - i \in S}
<1>1. \A k \in S : n - k \in Rest
  OBVIOUS
<1>2. Rest # {}
  BY <1>1
<1>3. PICK i \in Rest : \A j \in Rest : i <= j
  BY <1>2, LeastOf
<1>4. n - i \in S /\ i \in Nat
  BY <1>3
<1>5. ASSUME NEW k \in S
      PROVE  k <= n - i
  <2>1. i <= n - k
    BY <1>1, <1>3
  <2> QED
    BY <1>4, <2>1
<1> QED
  BY <1>4, <1>5
=============================================================================
