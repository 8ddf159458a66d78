------------------------ MODULE RecursiveFunctions ------------------------
(***************************************************************************)
(* Induction over the naturals, and functions defined by recursion on them,*)
(* in terms of sets and functions only.                                    *)
(***************************************************************************)
EXTENDS Integers, FiniteSetTheorems, TLAPS

(* A set with 0 and with n + 1 for each of its numbers n has all naturals.  *)
LEMMA NatSet ==
  ASSUME NEW S, 0 \in S, \A n \in Nat : n \in S => n + 1 \in S
  PROVE  Nat \subseteq S
<1> SUFFICES ASSUME Nat \ S # {} PROVE FALSE
  OBVIOUS
<1>1. PICK m \in Nat \ S : \A k \in Nat \ S : ~(<<k, m>> \in OpToRel(<, Nat))
  BY NatLessThanWellFounded, WFMin, Zenon
<1>2. m # 0 /\ m - 1 \in Nat
  OBVIOUS
<1>3. m - 1 \in Nat \ S => <<m - 1, m>> \in OpToRel(<, Nat)
  BY <1>2, SMT DEF OpToRel
<1>4. m - 1 \in S
  BY <1>1, <1>2, <1>3
<1>5. (m - 1) + 1 \in S
  BY <1>2, <1>4
<1> QED
  BY <1>5

(* x0 and step make, for each n in 0..N, elements of X[n] from those of     *)
(* X[n - 1]; f is made by them.                                             *)
Makes(x0, step, N, X, T) ==
  /\ x0 \in X[0]
  /\ \A n \in 0..N : X[n] \subseteq T
  /\ \A n \in 1..N : \A x \in X[n - 1] : step[<<n, x>>] \in X[n]
IsMade(f, x0, step, N, X, T) ==
  /\ f \in [0..N -> T]
  /\ f[0] = x0
  /\ \A n \in 1..N : f[n] = step[<<n, f[n - 1]>>]
  /\ \A n \in 0..N : f[n] \in X[n]

(* There is a function with a given first value and each other one made     *)
(* from the one before it.                                                  *)
LEMMA Recursion ==
  ASSUME NEW T, NEW X, NEW N \in Nat, NEW x0, NEW step, Makes(x0, step, N, X, T)
  PROVE  \E f : IsMade(f, x0, step, N, X, T)
<1> USE DEF Makes
<1> DEFINE Upto(m, f) == /\ f \in [0..m -> T] /\ f[0] = x0
                         /\ \A n \in 1..m : f[n] = step[<<n, f[n - 1]>>]
                         /\ \A n \in 0..m : f[n] \in X[n]
           S == {m \in Nat : m <= N => \E f : Upto(m, f)}
<1>1. 0 \in S
  <2>1. Upto(0, [n \in 0..0 |-> x0])
    OBVIOUS
  <2> QED
    BY <2>1
<1>2. ASSUME NEW m \in Nat, m \in S PROVE m + 1 \in S
  <2> SUFFICES ASSUME m + 1 <= N PROVE \E f : Upto(m + 1, f)
    OBVIOUS
  <2>1. PICK f : Upto(m, f)
    BY <1>2
  <2> DEFINE g == [n \in 0..m + 1 |-> IF n = m + 1 THEN step[<<m + 1, f[m]>>] ELSE f[n]]
  <2>2. f[m] \in X[m] /\ step[<<m + 1, f[m]>>] \in X[m + 1]
    BY <2>1
  <2>3. \A n \in 0..m + 1 : g[n] \in X[n]
    BY <2>1, <2>2
  <2>4. g \in [0..m + 1 -> T]
    BY <2>3
  <2>5. \A n \in 0..m : g[n] = f[n]
    OBVIOUS
  <2>6. g[m + 1] = step[<<m + 1, g[m]>>]
    <3>1. g[m + 1] = step[<<m + 1, f[m]>>] /\ g[m] = f[m]
      OBVIOUS
    <3> HIDE DEF g
    <3> QED
      BY <3>1
  <2>7. ASSUME NEW n \in 1..m + 1 PROVE g[n] = step[<<n, g[n - 1]>>]
    <3>1. CASE n = m + 1
      <4>1. n - 1 = m
        BY <3>1
      <4> HIDE DEF g
      <4> QED
        BY <3>1, <4>1, <2>6
    <3>2. CASE n # m + 1
      <4>1. n \in 0..m /\ n - 1 \in 0..m /\ f[n] = step[<<n, f[n - 1]>>]
        BY <3>2, <2>1
      <4> HIDE DEF g
      <4> QED
        BY <4>1, <2>5
    <3> QED
      BY <3>1, <3>2
  <2>8. g[0] = x0
    BY <2>1
  <2> QED
    BY <2>3, <2>4, <2>7, <2>8, Zenon
<1>3. N \in S
  <2> HIDE DEF S, Makes
  <2> QED
    BY <1>1, <1>2, NatSet
<1> QED
  BY <1>3 DEF IsMade

(* What holds of the first value of a function, and of each other one if it *)
(* holds of the one before it, holds of all.                                *)
LEMMA Along ==
  ASSUME NEW N \in Nat, NEW f, NEW X, f[0] \in X[0],
         \A n \in 1..N : f[n - 1] \in X[n - 1] => f[n] \in X[n]
  PROVE  \A n \in 0..N : f[n] \in X[n]
<1> DEFINE S == {n \in Nat : n <= N => f[n] \in X[n]}
<1>1. 0 \in S
  OBVIOUS
<1>2. ASSUME NEW n \in Nat, n \in S PROVE n + 1 \in S
  <2> SUFFICES ASSUME n + 1 <= N PROVE f[n + 1] \in X[n + 1]
    OBVIOUS
  <2>1. n + 1 \in 1..N /\ (n + 1) - 1 = n /\ f[n] \in X[n]
    BY <1>2
  <2> QED
    BY <2>1
<1>3. Nat \subseteq S
  <2> HIDE DEF S
  <2> QED
    BY <1>1, <1>2, NatSet
<1> QED
  BY <1>3
===========================================================================
