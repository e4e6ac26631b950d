------------------------------ MODULE Induction ------------------------------
(***************************************************************************)
(* What the proofs about loops rest on: induction over the naturals, for a *)
(* set in place of a predicate, and that a recursive function over 0..n    *)
(* exists.  A recursive function is the CHOICE of one that satisfies its   *)
(* equation, and says nothing of itself until there is one.                *)
(***************************************************************************)
EXTENDS Integers, Sequences, TLAPS, WellFoundedInduction

(* A set of naturals that has 0 and each successor of its elements is all  *)
(* of them: the naturals outside of it would have a least one.             *)
LEMMA Induct ==
  ASSUME NEW S, 0 \in S, \A n \in Nat : n \in S => n + 1 \in S
  PROVE  Nat \subseteq S
<1> SUFFICES ASSUME Nat \ S # {} PROVE FALSE
  OBVIOUS
<1> DEFINE R == OpToRel(<, Nat)
<1>1. \E x \in Nat \ S : \A y \in Nat \ S : ~ (<<y, x>> \in R)
  <2>1. IsWellFoundedOn(R, Nat)
    BY NatLessThanWellFounded
  <2>2. Nat \ S \subseteq Nat
    OBVIOUS
  <2> HIDE DEF R
  <2> QED
    BY <2>1, <2>2, WFMin
<1>2. PICK x \in Nat \ S : \A y \in Nat \ S : ~ (<<y, x>> \in R)
  BY <1>1
<1>3. x # 0 /\ x - 1 \in Nat
  OBVIOUS
<1>4. <<x - 1, x>> \in R
  BY <1>3 DEF OpToRel
<1>5. x - 1 \in S
  BY <1>2, <1>3, <1>4
<1> QED
  BY <1>3, <1>5

(* f has the results of applying step up to n times to first, its k-th     *)
(* application depending on k.                                             *)
Iterates(f, n, first, step) ==
  f[0] = first /\ \A k \in 1..n : f[k] = step[<<k, f[k - 1]>>]

LEMMA RecursiveExists ==
  ASSUME NEW S, NEW first \in S, NEW n \in Nat, NEW step,
         \A k \in 1..n : \A x \in S : step[<<k, x>>] \in S
  PROVE  \E f : f \in [0..n -> S] /\ Iterates(f, n, first, step)
<1> DEFINE M == {m \in Nat : m <= n => \E f \in [0..m -> S] : Iterates(f, m, first, step)}
<1>1. 0 \in M
  <2>1. [k \in 0..0 |-> first] \in [0..0 -> S] /\ Iterates([k \in 0..0 |-> first], 0, first, step)
    BY DEF Iterates
  <2> QED
    BY <2>1
<1>2. \A m \in Nat : m \in M => m + 1 \in M
  <2> SUFFICES ASSUME NEW m \in Nat, m \in M, m + 1 <= n
               PROVE  \E f \in [0..(m + 1) -> S] : Iterates(f, m + 1, first, step)
    OBVIOUS
  <2>1. PICK f \in [0..m -> S] : Iterates(f, m, first, step)
    OBVIOUS
  <2> DEFINE g == [k \in 0..(m + 1) |-> IF k = m + 1 THEN step[<<k, f[m]>>] ELSE f[k]]
  <2>2. g \in [0..(m + 1) -> S]
    <3>1. step[<<m + 1, f[m]>>] \in S
      BY m + 1 \in 1..n, f[m] \in S
    <3>2. \A k \in 0..(m + 1) : k # m + 1 => k \in 0..m
      OBVIOUS
    <3> QED
      BY <3>1, <3>2
  <2>3. ASSUME NEW k \in 1..(m + 1) PROVE g[k] = step[<<k, g[k - 1]>>]
    <3>1. k \in 0..(m + 1) /\ k - 1 \in 0..(m + 1) /\ k - 1 # m + 1
      OBVIOUS
    <3>2. g[k - 1] = f[k - 1]
      BY <3>1
    <3>3. CASE k = m + 1
      BY <3>1, <3>2, <3>3
    <3>4. CASE k # m + 1
      <4>1. k \in 1..m
        BY <3>4
      <4>2. f[k] = step[<<k, f[k - 1]>>]
        BY <2>1, <4>1 DEF Iterates
      <4> QED
        BY <3>1, <3>2, <3>4, <4>2
    <3> QED
      BY <3>3, <3>4
  <2>4. g[0] = first
    BY <2>1 DEF Iterates
  <2> HIDE DEF g
  <2> QED
    BY <2>2, <2>3, <2>4 DEF Iterates
<1>3. n \in M
  <2> HIDE DEF M
  <2> QED
    BY <1>1, <1>2, Induct
<1> QED
  BY <1>3

=============================================================================
