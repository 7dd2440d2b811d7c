-------------------------- MODULE RecursionProofs --------------------------
(***************************************************************************)
(* What the proofs need of recursive functions: a function that computes   *)
(* its value at k from its value at k - 1 exists and is typed.  Induction  *)
(* is over a set instead of an operator, which the provers can             *)
(* instantiate: it is the least-element principle of WellFoundedInduction. *)
(***************************************************************************)
EXTENDS Integers, WellFoundedInduction, TLAPS

LEMMA SetInduction ==
  ASSUME NEW S, 0 \in S, \A n \in Nat : n \in S => n + 1 \in S
  PROVE  Nat \subseteq S
<1>1. SUFFICES ASSUME Nat \ S # {}
               PROVE  FALSE
  OBVIOUS
<1>2. PICK x \in Nat \ S : \A y \in Nat \ S : ~ (<<y, x>> \in OpToRel(<, Nat))
  BY <1>1, NatLessThanWellFounded, WFMin, Zenon
<1>3. \A y \in Nat \ S : ~ (y < x)
  BY <1>2 DEF OpToRel
<1>4. x \in Nat /\ x \notin S
  OBVIOUS
<1>5. x # 0
  BY <1>4, Zenon
<1>6. x - 1 \in Nat /\ x - 1 < x /\ (x - 1) + 1 = x
  BY <1>4, <1>5
<1>7. x - 1 \in S
  BY <1>3, <1>6, Zenon
<1>8. QED
  BY <1>4, <1>6, <1>7, Zenon

(* The same up to a bound. *)
LEMMA BoundedInduction ==
  ASSUME NEW n \in Nat, NEW S, 0 \in S, \A k \in 1 .. n : k - 1 \in S => k \in S
  PROVE  0 .. n \subseteq S
<1> DEFINE T == {k \in Nat : k <= n => k \in S}
<1>1. 0 \in T
  OBVIOUS
<1>2. ASSUME NEW k \in Nat, k \in T
      PROVE  k + 1 \in T
  <2>1. CASE k + 1 <= n
    <3>1. k + 1 \in 1 .. n /\ (k + 1) - 1 = k /\ k <= n
      BY <2>1
    <3>2. k + 1 \in S
      BY <1>2, <3>1
    <3>3. QED
      BY <3>2
  <2>2. CASE ~ (k + 1 <= n)
    BY <2>2
  <2>3. QED
    BY <2>1, <2>2
<1>3. Nat \subseteq T
  <2> HIDE DEF T
  <2>1. QED
    BY <1>1, <1>2, SetInduction
<1>4. QED
  BY <1>3

(* G[<<k, x>>] is the value at k where x is the value at k - 1. *)
StaysIn(G, n, X) == \A k \in 1 .. n, x \in X : G[<<k, x>>] \in X

Computes(f, x0, G, n, X) ==
  /\ f \in [0 .. n -> X]
  /\ f[0] = x0
  /\ \A k \in 1 .. n : f[k] = G[<<k, f[k - 1]>>]

LEMMA RecursionExists ==
  ASSUME NEW X, NEW x0 \in X, NEW n \in Nat, NEW G, StaysIn(G, n, X)
  PROVE  \E f : Computes(f, x0, G, n, X)
<1> USE DEF StaysIn, Computes
<1> DEFINE Upto(k, f) == Computes(f, x0, G, k, X)
           S == {k \in 0 .. n : \E f : Upto(k, f)}
<1>1. 0 \in S
  <2>1. Upto(0, [k \in 0 .. 0 |-> x0])
    OBVIOUS
  <2>2. 0 \in 0 .. n
    OBVIOUS
  <2> HIDE DEF Upto
  <2>3. QED
    BY <2>1, <2>2
<1>2. ASSUME NEW k \in 1 .. n, k - 1 \in S
      PROVE  k \in S
  <2>1. PICK f : Upto(k - 1, f)
    BY <1>2
  <2> DEFINE g == [j \in 0 .. k |-> IF j = k THEN G[<<k, f[k - 1]>>] ELSE f[j]]
  <2>2. G[<<k, f[k - 1]>>] \in X
    BY <2>1
  <2>3. g \in [0 .. k -> X]
    BY <2>1, <2>2
  <2>4. g[k] = G[<<k, f[k - 1]>>] /\ \A j \in 0 .. k - 1 : g[j] = f[j]
    OBVIOUS
  <2> HIDE DEF g
  <2>5. g[0] = x0
    BY <2>1, <2>4
  <2>6. ASSUME NEW j \in 1 .. k
        PROVE  g[j] = G[<<j, g[j - 1]>>]
    <3>1. g[j - 1] = f[j - 1]
      BY <2>4
    <3>2. CASE j = k
      BY <2>4, <3>1, <3>2
    <3>3. CASE j \in 1 .. k - 1
      <4>1. g[j] = f[j] /\ f[j] = G[<<j, f[j - 1]>>]
        BY <2>1, <2>4, <3>3
      <4>2. QED
        BY <3>1, <4>1
    <3>4. QED
      BY <3>2, <3>3
  <2>7. Upto(k, g)
    BY <2>3, <2>5, <2>6
  <2>8. QED
    BY <2>7
<1>3. 0 .. n \subseteq S
  <2> HIDE DEF S
  <2>1. QED
    BY <1>1, <1>2, BoundedInduction
<1>4. n \in S
  BY <1>3
<1>5. QED
  BY <1>4

(* A function computes exactly when it is its recursive definition.        *)
LEMMA ComputedIs ==
  ASSUME NEW X, NEW x0, NEW n \in Nat, NEW G, NEW f, Computes(f, x0, G, n, X)
  PROVE  f = [k \in 0 .. n |-> IF k = 0 THEN x0 ELSE G[<<k, f[k - 1]>>]]
<1>1. f \in [0 .. n -> X]
  BY DEF Computes
<1>2. \A k \in 0 .. n : f[k] = IF k = 0 THEN x0 ELSE G[<<k, f[k - 1]>>]
  BY DEF Computes
<1>3. QED
  BY <1>1, <1>2

LEMMA RecursionComputes ==
  ASSUME NEW X, NEW x0 \in X, NEW n \in Nat, NEW G, StaysIn(G, n, X), NEW f,
         f = [k \in 0 .. n |-> IF k = 0 THEN x0 ELSE G[<<k, f[k - 1]>>]]
  PROVE  Computes(f, x0, G, n, X)
<1> DEFINE S == {k \in 0 .. n : f[k] \in X}
<1>1. 0 \in 0 .. n /\ f[0] = x0
  <2>1. 0 \in 0 .. n
    OBVIOUS
  <2>2. QED
    BY <2>1
<1>2. ASSUME NEW k \in 1 .. n
      PROVE  k \in 0 .. n /\ k - 1 \in 0 .. n /\ f[k] = G[<<k, f[k - 1]>>]
  <2>1. k \in 0 .. n /\ k - 1 \in 0 .. n /\ k # 0
    OBVIOUS
  <2>2. QED
    BY <2>1
<1>3. 0 .. n \subseteq S
  <2>1. 0 \in S
    BY <1>1
  <2>2. ASSUME NEW k \in 1 .. n, k - 1 \in S
        PROVE  k \in S
    BY <1>2, <2>2 DEF StaysIn
  <2> HIDE DEF S
  <2>3. QED
    BY <2>1, <2>2, BoundedInduction
<1>4. \A k \in 0 .. n : f[k] \in X
  BY <1>3
<1>5. DOMAIN f = 0 .. n /\ f = [k \in 0 .. n |-> f[k]]
  OBVIOUS
<1>6. f \in [0 .. n -> X]
  BY <1>4, <1>5
<1>7. QED
  BY <1>1, <1>2, <1>6 DEF Computes
=============================================================================
