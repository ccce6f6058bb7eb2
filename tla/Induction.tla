----------------------------- MODULE Induction -----------------------------
(***************************************************************************)
(* Induction over the natural numbers for sets of numbers.  The theorems   *)
(* of NaturalsInduction are about an operator P(_); a statement about the  *)
(* set {n \in Nat : P(n)} says the same and needs no operator.             *)
(***************************************************************************)
EXTENDS WellFoundedInduction, TLAPS

Below == OpToRel(<, Nat)

(* Below is the order of the numbers. *)
LEMMA BelowPair == \A x, y \in Nat : << y, x >> \in Below <=> y < x
<1>1. \A p \in Nat \X Nat : p \in Below <=> p[1] < p[2]
  BY DEF Below, OpToRel
<1>2. \A x, y \in Nat : << y, x >> \in Nat \X Nat /\ << y, x >>[1] = y /\ << y, x >>[2] = x
  OBVIOUS
<1> QED
  BY <1>1, <1>2

(* Every set of numbers that has an element has a least one. *)
LEMMA LeastElement ==
  ASSUME NEW T, T \subseteq Nat, T # {}
  PROVE  \E x \in T : \A y \in T : x <= y
<1>1. IsWellFoundedOn(Below, Nat)
  BY NatLessThanWellFounded DEF Below
<1>2. PICK x \in T : \A y \in T : << y, x >> \notin Below
  BY <1>1, WFMin
<1>3. ASSUME NEW y \in T PROVE x <= y
  <2>1. x \in Nat /\ y \in Nat
    OBVIOUS
  <2>2. ~(y < x)
    BY <1>2, <2>1, BelowPair
  <2> QED
    BY <2>1, <2>2
<1> QED
  BY <1>3

(* A set with 0, and with n + 1 for each of its n < m, has all numbers to m. *)
LEMMA InductionTo ==
  ASSUME NEW m \in Nat, NEW S, 0 \in S, \A n \in 0..(m - 1) : n \in S => n + 1 \in S
  PROVE  0..m \subseteq S
<1> DEFINE T == {n \in 0..m : n \notin S}
<1>1. T = {}
  <2> SUFFICES ASSUME T # {} PROVE FALSE
    OBVIOUS
  <2>1. PICK x \in T : \A y \in T : x <= y
    <3>1. T \subseteq Nat
      OBVIOUS
    <3> HIDE DEF T
    <3> QED
      BY <3>1, LeastElement
  <2>2. x \in 1..m /\ x \notin S
    BY DEF T
  <2>3. x - 1 \in 0..(m - 1) /\ x - 1 \notin T
    BY <2>1, <2>2
  <2>4. x - 1 \in S
    BY <2>2, <2>3
  <2>5. (x - 1) + 1 \in S /\ (x - 1) + 1 = x
    BY <2>2, <2>3, <2>4
  <2> QED
    BY <2>2, <2>5
<1> QED
  BY <1>1

(* The history of a loop that turns m times and begins with a. *)
IsLoop(f, m, a, step) == f = [k \in 0..m |-> IF k = 0 THEN a ELSE step[k][f[k - 1]]]

(* A loop whose turns take elements of D to elements of D has a history. *)
LEMMA LoopExists ==
  ASSUME NEW m \in Nat, NEW D, NEW a \in D, NEW step \in [1..m -> [D -> D]]
  PROVE  \E f \in [0..m -> D] : IsLoop(f, m, a, step)
<1> DEFINE Loop(f, n) == \A k \in 0..n : f[k] = IF k = 0 THEN a ELSE step[k][f[k - 1]]
<1> DEFINE S == {n \in 0..m : \E f \in [0..n -> D] : Loop(f, n)}
<1>1. 0 \in S
  <2> DEFINE g == [k \in 0..0 |-> a]
  <2>1. g \in [0..0 -> D] /\ \A k \in 0..0 : k = 0 /\ g[k] = a
    OBVIOUS
  <2>2. Loop(g, 0)
    BY <2>1
  <2> HIDE DEF g, Loop
  <2> QED
    BY <2>1, <2>2
<1>2. ASSUME NEW n \in 0..(m - 1), n \in S PROVE n + 1 \in S
  <2>1. PICK f \in [0..n -> D] : Loop(f, n)
    BY <1>2
  <2> DEFINE x == step[n + 1][f[n]]
  <2>2. x \in D
    <3>1. n + 1 \in 1..m /\ n \in 0..n
      OBVIOUS
    <3> QED
      BY <3>1
  <2> DEFINE g == [k \in 0..(n + 1) |-> IF k = n + 1 THEN x ELSE f[k]]
  <2>3. g \in [0..(n + 1) -> D]
    <3>1. \A k \in 0..(n + 1) : k # n + 1 => k \in 0..n
      OBVIOUS
    <3> HIDE DEF x
    <3> QED
      BY <2>2, <3>1
  <2>4. g[n + 1] = x /\ \A k \in 0..n : g[k] = f[k]
    <3>1. n + 1 \in 0..(n + 1) /\ \A k \in 0..n : k \in 0..(n + 1) /\ k # n + 1
      OBVIOUS
    <3> HIDE DEF x
    <3> QED
      BY <3>1
  <2> HIDE DEF g
  <2>5. Loop(g, n + 1)
    <3> SUFFICES ASSUME NEW k \in 0..(n + 1)
                 PROVE  g[k] = IF k = 0 THEN a ELSE step[k][g[k - 1]]
      OBVIOUS
    <3>1. CASE k = n + 1
      <4>1. k # 0 /\ k - 1 = n /\ n \in 0..n
        BY <3>1
      <4> QED
        BY <2>4, <3>1, <4>1
    <3>2. CASE k # n + 1
      <4>1. k \in 0..n /\ (k # 0 => k - 1 \in 0..n)
        BY <3>2
      <4>2. f[k] = IF k = 0 THEN a ELSE step[k][f[k - 1]]
        BY <2>1, <4>1
      <4> QED
        BY <2>4, <4>1, <4>2
    <3> QED
      BY <3>1, <3>2
  <2>6. n + 1 \in 0..m
    OBVIOUS
  <2> HIDE DEF Loop
  <2> QED
    BY <2>3, <2>5, <2>6
<1>3. m \in S
  <2>1. m \in 0..m
    OBVIOUS
  <2> HIDE DEF S
  <2> QED
    BY <1>1, <1>2, <2>1, InductionTo
<1>4. PICK f \in [0..m -> D] : Loop(f, m)
  BY <1>3
<1>5. f = [k \in 0..m |-> IF k = 0 THEN a ELSE step[k][f[k - 1]]]
  <2> DEFINE h == [k \in 0..m |-> IF k = 0 THEN a ELSE step[k][f[k - 1]]]
  <2>1. f = [k \in 0..m |-> f[k]] /\ \A k \in 0..m : f[k] = h[k]
    BY <1>4
  <2> QED
    BY <2>1
<1> QED
  BY <1>5 DEF IsLoop
=============================================================================
