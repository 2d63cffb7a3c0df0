------------------------------ MODULE Recursion ------------------------------
(***************************************************************************)
(* Facts about definitions by recursion that the proofs of several         *)
(* components need: a set of numbers in the place of a predicate makes     *)
(* induction a first-order statement, and a table in the place of an       *)
(* operator does the same for a recursive definition.                      *)
(***************************************************************************)
EXTENDS Integers, FiniteSets, WellFoundedInduction, TLAPS

(* A set of numbers that is not empty has a least element.                  *)
LEMMA LeastExists ==
    ASSUME NEW T \in SUBSET Nat, T # {}
    PROVE  \E x \in T : \A y \in T : x <= y
<1>1. IsWellFoundedOn(OpToRel(<, Nat), Nat)
  BY NatLessThanWellFounded
<1>2. PICK x \in T : \A y \in T : ~(<<y, x>> \in OpToRel(<, Nat))
  BY <1>1, WFMin
<1>3. ASSUME NEW y \in T PROVE x <= y
  <2>1. x \in Nat /\ y \in Nat
    OBVIOUS
  <2>2. ~(y < x)
    BY <1>2, <2>1 DEF OpToRel
  <2> QED
    BY <2>1, <2>2
<1> QED
  BY <1>3

(* Induction: what holds of 0 and of the successor holds of all.            *)
LEMMA Upwards ==
    ASSUME NEW T \in SUBSET Nat, 0 \in T, \A n \in T : n + 1 \in T
    PROVE  T = Nat
<1> SUFFICES ASSUME T # Nat PROVE FALSE
  OBVIOUS
<1> DEFINE rest == Nat \ T
<1>1. PICK x \in rest : \A y \in rest : x <= y
  BY LeastExists
<1>2. x \in Nat /\ x # 0
  BY <1>1
<1>3. x - 1 \in Nat /\ x - 1 \notin rest
  BY <1>1, <1>2
<1>4. (x - 1) + 1 \in T
  BY <1>3
<1> QED
  BY <1>1, <1>2, <1>4

(* Up to a bound.                                                           *)
LEMMA UpTo ==
    ASSUME NEW N \in Nat, NEW T, 0 \in T, \A n \in 0..(N - 1) : n \in T => n + 1 \in T
    PROVE  0..N \subseteq T
<1> DEFINE U == {n \in Nat : n <= N => n \in T}
<1>1. U \in SUBSET Nat /\ 0 \in U
  OBVIOUS
<1>2. ASSUME NEW n \in U PROVE n + 1 \in U
  <2>1. CASE n + 1 <= N
    <3>1. n \in 0..(N - 1) /\ n \in T
      BY <2>1
    <3> QED
      BY <3>1
  <2>2. CASE ~(n + 1 <= N)
    BY <2>2
  <2> QED
    BY <2>1, <2>2
<1> HIDE DEF U
<1>3. U = Nat
  BY <1>1, <1>2, Upwards
<1> QED
  BY <1>3 DEF U

(* A value for each number up to N, each from the one before it.            *)
Iterates(f, N, A, first, step) ==
    /\ f \in [0..N -> A]
    /\ f[0] = first
    /\ \A i \in 1..N : f[i] = step[<<i, f[i - 1]>>]

(* A recursion over an interval of numbers defines a table.                 *)
LEMMA Iteration ==
    ASSUME NEW N \in Nat, NEW A, NEW first \in A, NEW step \in [(1..N) \X A -> A]
    PROVE  \E f : Iterates(f, N, A, first, step)
<1> DEFINE T == {n \in 0..N : \E f : Iterates(f, n, A, first, step)}
<1>1. 0 \in T
  <2>1. Iterates([i \in 0..0 |-> first], 0, A, first, step)
    BY DEF Iterates
  <2> QED
    BY <2>1
<1>2. ASSUME NEW n \in 0..(N - 1), n \in T PROVE n + 1 \in T
  <2>1. PICK f : Iterates(f, n, A, first, step)
    BY <1>2
  <2>2. /\ f \in [0..n -> A] /\ f[0] = first
        /\ \A i \in 1..n : f[i] = step[<<i, f[i - 1]>>]
    BY <2>1 DEF Iterates
  <2>3. n \in 0..n /\ n + 1 \in 1..N /\ n + 1 \in 0..N
    OBVIOUS
  <2>4. f[n] \in A /\ step[<<n + 1, f[n]>>] \in A
    BY <2>2, <2>3
  <2> DEFINE next == step[<<n + 1, f[n]>>]
             g == [i \in 0..(n + 1) |-> IF i = n + 1 THEN next ELSE f[i]]
  <2>5. \A i \in 0..(n + 1) : g[i] \in A
    BY <2>2, <2>4
  <2>6. g \in [0..(n + 1) -> A]
    BY <2>5
  <2>7. g[0] = first /\ \A i \in 0..n : g[i] = f[i]
    BY <2>2
  <2>8. ASSUME NEW i \in 1..(n + 1) PROVE g[i] = step[<<i, g[i - 1]>>]
    <3>1. CASE i = n + 1
      <4>1. g[i] = next /\ i - 1 = n
        BY <3>1
      <4>2. g[i - 1] = f[n]
        BY <2>3, <2>7, <4>1
      <4> HIDE DEF g
      <4> QED
        BY <3>1, <4>1, <4>2
    <3>2. CASE i # n + 1
      <4>1. i \in 1..n /\ i \in 0..n /\ i - 1 \in 0..n
        BY <3>2
      <4>2. g[i] = f[i] /\ g[i - 1] = f[i - 1]
        BY <2>7, <4>1
      <4> HIDE DEF g
      <4> QED
        BY <2>2, <4>1, <4>2
    <3> QED
      BY <3>1, <3>2
  <2> HIDE DEF g
  <2>9. Iterates(g, n + 1, A, first, step)
    BY <2>6, <2>7, <2>8 DEF Iterates
  <2> QED
    BY <2>3, <2>9
<1> HIDE DEF T
<1>3. 0..N \subseteq T
  BY <1>1, <1>2, UpTo
<1>4. N \in T
  BY <1>3
<1> QED
  BY <1>4 DEF T

(* Only one table fits a recursion.                                         *)
LEMMA SameIteration ==
    ASSUME NEW N \in Nat, NEW A, NEW first, NEW step, NEW f, Iterates(f, N, A, first, step),
           NEW h, h[0] = first, \A i \in 1..N : h[i - 1] \in A => h[i] = step[<<i, h[i - 1]>>]
    PROVE  \A n \in 0..N : h[n] = f[n] /\ h[n] \in A
<1> DEFINE T == {n \in 0..N : h[n] = f[n]}
<1>1. f \in [0..N -> A] /\ f[0] = first /\ \A i \in 1..N : f[i] = step[<<i, f[i - 1]>>]
  BY DEF Iterates
<1>2. 0 \in T
  BY <1>1
<1>3. ASSUME NEW n \in 0..(N - 1), n \in T PROVE n + 1 \in T
  <2>1. n + 1 \in 1..N /\ n + 1 \in 0..N /\ (n + 1) - 1 = n /\ n \in 0..N
    OBVIOUS
  <2>2. h[n] = f[n] /\ h[n] \in A
    BY <1>1, <1>3, <2>1
  <2>3. h[n + 1] = step[<<n + 1, h[n]>>] /\ f[n + 1] = step[<<n + 1, f[n]>>]
    BY <1>1, <2>1, <2>2
  <2> QED
    BY <2>1, <2>2, <2>3
<1> HIDE DEF T
<1>4. 0..N \subseteq T
  BY <1>2, <1>3, UpTo
<1> QED
  BY <1>1, <1>4 DEF T
=============================================================================
