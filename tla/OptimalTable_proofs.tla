------------------------ MODULE OptimalTable_proofs ------------------------
(***************************************************************************)
(* Huffman tables: of every table that is not refused, each code is found  *)
(* at its length and in its place (EachTable); and the tables that         *)
(* jpeg_gen_optimal_table makes are prefix codes, fair to the symbols that *)
(* are more frequent (OptimalIs).                                          *)
(***************************************************************************)
EXTENDS OptimalTable, RecursiveFunctions

(***************************************************************************)
(* Powers of two, and division by them.                                    *)
(***************************************************************************)
LEMMA Doubling ==
  ASSUME NEW k \in 0..31
  PROVE  2^(k + 1) = 2 * 2^k
<1>0. CASE k = 0
  BY <1>0
<1>1. CASE k = 1
  BY <1>1
<1>2. CASE k = 2
  BY <1>2
<1>3. CASE k = 3
  BY <1>3
<1>4. CASE k = 4
  BY <1>4
<1>5. CASE k = 5
  BY <1>5
<1>6. CASE k = 6
  BY <1>6
<1>7. CASE k = 7
  BY <1>7
<1>8. CASE k = 8
  BY <1>8
<1>9. CASE k = 9
  BY <1>9
<1>10. CASE k = 10
  BY <1>10
<1>11. CASE k = 11
  BY <1>11
<1>12. CASE k = 12
  BY <1>12
<1>13. CASE k = 13
  BY <1>13
<1>14. CASE k = 14
  BY <1>14
<1>15. CASE k = 15
  BY <1>15
<1>16. CASE k = 16
  BY <1>16
<1>17. CASE k = 17
  BY <1>17
<1>18. CASE k = 18
  BY <1>18
<1>19. CASE k = 19
  BY <1>19
<1>20. CASE k = 20
  BY <1>20
<1>21. CASE k = 21
  BY <1>21
<1>22. CASE k = 22
  BY <1>22
<1>23. CASE k = 23
  BY <1>23
<1>24. CASE k = 24
  BY <1>24
<1>25. CASE k = 25
  BY <1>25
<1>26. CASE k = 26
  BY <1>26
<1>27. CASE k = 27
  BY <1>27
<1>28. CASE k = 28
  BY <1>28
<1>29. CASE k = 29
  BY <1>29
<1>30. CASE k = 30
  BY <1>30
<1>31. CASE k = 31
  BY <1>31
<1> QED
  BY <1>0, <1>1, <1>2, <1>3, <1>4, <1>5, <1>6, <1>7, <1>8, <1>9, <1>10, <1>11, <1>12, <1>13, <1>14, <1>15, <1>16, <1>17, <1>18, <1>19, <1>20, <1>21, <1>22, <1>23, <1>24, <1>25, <1>26, <1>27, <1>28, <1>29, <1>30, <1>31

Pow == [k \in 0..32 |-> 2^k]
LEMMA PowIs ==
  /\ Pow[0] = 1
  /\ \A k \in 0..31 : Pow[k + 1] = 2 * Pow[k]
  /\ \A k \in 0..32 : 2^k = Pow[k]
<1>1. 2^0 = 1
  OBVIOUS
<1>2. \A k \in 0..31 : 2^(k + 1) = 2 * 2^k
  BY Doubling
<1>3. \A k \in 0..32 : Pow[k] = 2^k
  BY DEF Pow
<1>4. 0 \in 0..32 /\ \A k \in 0..31 : k \in 0..32 /\ k + 1 \in 0..32
  OBVIOUS
<1> QED
  BY <1>1, <1>2, <1>3, <1>4, Zenon

LEMMA PowIsNat == \A k \in 0..32 : Pow[k] \in Nat \ {0}
<1> DEFINE S == {k \in Nat : k <= 32 => Pow[k] \in Nat \ {0}}
<1>1. 0 \in S
  BY PowIs
<1>2. ASSUME NEW k \in Nat, k \in S PROVE k + 1 \in S
  BY <1>2, PowIs
<1>3. Nat \subseteq S
  <2> HIDE DEF S
  <2> QED
    BY <1>1, <1>2, NatSet
<1> QED
  BY <1>3

LEMMA PowAdd ==
  ASSUME NEW a \in 0..16, NEW b \in 0..16
  PROVE  Pow[a + b] = Pow[a] * Pow[b]
<1> DEFINE S == {k \in Nat : k <= 16 => Pow[a + k] = Pow[a] * Pow[k]}
<1>0. \A k \in 0..32 : Pow[k] \in Nat
  BY PowIsNat
<1>1. 0 \in S
  BY PowIs, <1>0
<1>2. ASSUME NEW k \in Nat, k \in S PROVE k + 1 \in S
  <2> SUFFICES ASSUME k + 1 <= 16 PROVE Pow[a + (k + 1)] = Pow[a] * Pow[k + 1]
    OBVIOUS
  <2>1. k \in 0..31 /\ a + k \in 0..31 /\ a + (k + 1) = (a + k) + 1
    OBVIOUS
  <2>2. Pow[k + 1] = 2 * Pow[k] /\ Pow[(a + k) + 1] = 2 * Pow[a + k]
    BY <2>1, PowIs
  <2>3. Pow[a] \in Nat /\ Pow[k] \in Nat /\ Pow[a + k] = Pow[a] * Pow[k]
    BY <1>0, <1>2
  <2> QED
    BY <2>1, <2>2, <2>3
<1>3. Nat \subseteq S
  <2> HIDE DEF S
  <2> QED
    BY <1>1, <1>2, NatSet
<1> QED
  BY <1>3

LEMMA PowMono ==
  ASSUME NEW a \in 0..32, NEW b \in 0..32, a <= b
  PROVE  Pow[a] <= Pow[b]
<1> DEFINE S == {k \in Nat : a + k <= 32 => Pow[a] <= Pow[a + k]}
<1>0. \A k \in 0..32 : Pow[k] \in Nat
  BY PowIsNat
<1>1. 0 \in S
  BY <1>0
<1>2. ASSUME NEW k \in Nat, k \in S PROVE k + 1 \in S
  <2> SUFFICES ASSUME a + (k + 1) <= 32 PROVE Pow[a] <= Pow[a + (k + 1)]
    OBVIOUS
  <2>1. a + k \in 0..31 /\ a + (k + 1) = (a + k) + 1
    OBVIOUS
  <2>2. Pow[(a + k) + 1] = 2 * Pow[a + k]
    BY <2>1, PowIs
  <2>3. Pow[a] \in Nat /\ Pow[a + k] \in Nat /\ Pow[a] <= Pow[a + k]
    BY <1>0, <1>2, <2>1
  <2> QED
    BY <2>1, <2>2, <2>3
<1>3. Nat \subseteq S
  <2> HIDE DEF S
  <2> QED
    BY <1>1, <1>2, NatSet
<1>4. b - a \in S /\ a + (b - a) = b
  BY <1>3
<1> QED
  BY <1>4

(* A code with at least as many bits set before its last d bits as m + 1.   *)
LEMMA PrefixOver ==
  ASSUME NEW d \in 1..15, NEW c \in Nat, NEW m \in Int, m >= -1, c >= (m + 1) * Pow[d]
  PROVE  c \div 2^d > m
<1>0. Pow[d] = 2^d
  BY DEF Pow
<1>1. CASE d = 1
  BY <1>0, <1>1
<1>2. CASE d = 2
  BY <1>0, <1>2
<1>3. CASE d = 3
  BY <1>0, <1>3
<1>4. CASE d = 4
  BY <1>0, <1>4
<1>5. CASE d = 5
  BY <1>0, <1>5
<1>6. CASE d = 6
  BY <1>0, <1>6
<1>7. CASE d = 7
  BY <1>0, <1>7
<1>8. CASE d = 8
  BY <1>0, <1>8
<1>9. CASE d = 9
  BY <1>0, <1>9
<1>10. CASE d = 10
  BY <1>0, <1>10
<1>11. CASE d = 11
  BY <1>0, <1>11
<1>12. CASE d = 12
  BY <1>0, <1>12
<1>13. CASE d = 13
  BY <1>0, <1>13
<1>14. CASE d = 14
  BY <1>0, <1>14
<1>15. CASE d = 15
  BY <1>0, <1>15
<1> QED
  BY <1>1, <1>2, <1>3, <1>4, <1>5, <1>6, <1>7, <1>8, <1>9, <1>10, <1>11, <1>12, <1>13, <1>14, <1>15

LEMMA TimesMono ==
  ASSUME NEW x \in Nat, NEW z \in Nat, NEW B \in Nat, x >= z
  PROVE  x * B >= z * B
OBVIOUS

LEMMA TimesAssoc ==
  ASSUME NEW x \in Nat, NEW y \in Nat, NEW z \in Nat
  PROVE  x * (y * z) = (x * y) * z
OBVIOUS

(***************************************************************************)
(* The lengths and the codes that belong to the counts of a table.         *)
(***************************************************************************)
LEMMA UpToIs ==
  ASSUME NEW bits \in [1..16 -> Nat]
  PROVE  LET upto == CodesUpTo(bits)
         IN  /\ upto \in [0..16 -> Nat] /\ upto[0] = 0
             /\ \A l \in 1..16 : upto[l] = upto[l - 1] + bits[l]
<1> DEFINE Eq(f) == f = [l \in 0..16 |-> IF l = 0 THEN 0 ELSE f[l - 1] + bits[l]]
           u == CHOOSE f : Eq(f)
           step == [p \in (1..16) \X Nat |-> p[2] + bits[p[1]]]
           X == [l \in 0..16 |-> Nat]
<1>1. \A l \in 0..16 : X[l] = Nat
  OBVIOUS
<1>2. \A l \in 1..16 : \A x \in Nat : step[<<l, x>>] = x + bits[l] /\ step[<<l, x>>] \in Nat
  OBVIOUS
<1>3. \A l \in 1..16 : l \in 0..16 /\ l - 1 \in 0..16 /\ l # 0
  OBVIOUS
<1>4. 0 \in Nat /\ 0 \in 0..16 /\ 16 \in Nat
  OBVIOUS
<1> HIDE DEF X, step
<1>5. Makes(0, step, 16, X, Nat)
  BY <1>1, <1>2, <1>3, <1>4, Zenon DEF Makes
<1>6. PICK f : IsMade(f, 0, step, 16, X, Nat)
  BY <1>4, <1>5, Recursion
<1>7. f \in [0..16 -> Nat] /\ f[0] = 0 /\ \A l \in 1..16 : f[l] = step[<<l, f[l - 1]>>]
  BY <1>6, Zenon DEF IsMade
<1>8. \A l \in 1..16 : f[l - 1] \in Nat
  BY <1>3, <1>7
<1>9. \A l \in 1..16 : f[l] = f[l - 1] + bits[l]
  BY <1>2, <1>7, <1>8, Zenon
<1>10. Eq(f)
  BY <1>7, <1>9, SMTT(40)
<1>11. Eq(u)
  BY <1>10
<1> HIDE DEF u
<1>12. u[0] = 0 /\ \A l \in 1..16 : u[l] = u[l - 1] + bits[l]
  BY <1>11, <1>3
<1>13. \A l \in 0..16 : u[l] \in X[l]
  <2>1. \A l \in 1..16 : u[l - 1] \in X[l - 1] => u[l] \in X[l]
    BY <1>1, <1>3, <1>12
  <2>2. u[0] \in X[0]
    BY <1>1, <1>4, <1>12
  <2> QED
    BY <1>4, <2>1, <2>2, Along
<1>14. CodesUpTo(bits) = [l \in 0..16 |-> u[l]]
  BY Zenon DEF CodesUpTo, u
<1>15. \A l \in 0..16 : CodesUpTo(bits)[l] = u[l]
  BY <1>14
<1>16. CodesUpTo(bits) \in [0..16 -> Nat]
  BY <1>1, <1>13, <1>14
<1> QED
  BY <1>3, <1>4, <1>12, <1>15, <1>16, Zenon

LEMMA UpToGrows ==
  ASSUME NEW u \in [0..16 -> Nat], \A l \in 1..16 : u[l - 1] <= u[l],
         NEW l \in 0..16, NEW m \in 0..16, l <= m
  PROVE  u[l] <= u[m]
<1> DEFINE S == {k \in Nat : l + k <= 16 => u[l] <= u[l + k]}
<1>1. 0 \in S
  OBVIOUS
<1>2. ASSUME NEW k \in Nat, k \in S PROVE k + 1 \in S
  <2> SUFFICES ASSUME l + (k + 1) <= 16 PROVE u[l] <= u[l + (k + 1)]
    OBVIOUS
  <2>1. l + (k + 1) \in 1..16 /\ (l + (k + 1)) - 1 = l + k /\ l + k \in 0..16
    OBVIOUS
  <2>2. u[l + k] <= u[l + (k + 1)] /\ u[l] <= u[l + k]
    BY <1>2, <2>1
  <2> QED
    BY <2>1, <2>2
<1>3. Nat \subseteq S
  <2> HIDE DEF S
  <2> QED
    BY <1>1, <1>2, NatSet
<1>4. m - l \in S /\ l + (m - l) = m
  BY <1>3
<1> QED
  BY <1>4

(* The length of code p is the one at which the counts reach p.             *)
LengthAt(u, p, l) == l \in 1..16 /\ u[l - 1] < p /\ p <= u[l]
LEMMA SomeLength ==
  ASSUME NEW u \in [0..16 -> Nat], u[0] = 0, NEW p \in 1..u[16]
  PROVE  \E l : LengthAt(u, p, l)
<1> SUFFICES ASSUME \A l : ~LengthAt(u, p, l) PROVE FALSE
  OBVIOUS
<1> DEFINE S == {k \in Nat : k <= 16 => u[k] < p}
<1>1. 0 \in S
  OBVIOUS
<1>2. ASSUME NEW k \in Nat, k \in S PROVE k + 1 \in S
  <2> SUFFICES ASSUME k + 1 <= 16 PROVE u[k + 1] < p
    OBVIOUS
  <2>1. k + 1 \in 1..16 /\ (k + 1) - 1 = k /\ u[k] < p /\ u[k + 1] \in Nat /\ p \in Nat
    BY <1>2
  <2>2. ~LengthAt(u, p, k + 1)
    OBVIOUS
  <2> QED
    BY <2>1, <2>2 DEF LengthAt
<1>3. Nat \subseteq S
  <2> HIDE DEF S
  <2> QED
    BY <1>1, <1>2, NatSet
<1>4. u[16] < p /\ u[16] \in Nat
  BY <1>3
<1> QED
  BY <1>4

(* What huffsize makes of the counts of a table.                            *)
LEMMA SizesAre ==
  ASSUME NEW tbl, tbl.bits \in [1..16 -> Nat]
  PROVE  LET u == CodesUpTo(tbl.bits)
             size == huffsize(tbl)
         IN  /\ DOMAIN size = 1..u[16] /\ Len(size) = u[16] /\ size \in [1..u[16] -> 1..16]
             /\ \A p \in 1..u[16] : LengthAt(u, p, size[p])
<1> DEFINE u == CodesUpTo(tbl.bits)
           size == huffsize(tbl)
<1>1. u \in [0..16 -> Nat] /\ u[0] = 0
  BY UpToIs
<1>2. size = [p \in 1..u[16] |-> CHOOSE l \in 1..16 : u[l - 1] < p /\ p <= u[l]]
  BY DEF huffsize
<1> HIDE DEF u, size
<1>3. \A p \in 1..u[16] : LengthAt(u, p, size[p])
  <2> TAKE p \in 1..u[16]
  <2>1. \E l \in 1..16 : u[l - 1] < p /\ p <= u[l]
    BY <1>1, SomeLength DEF LengthAt
  <2> QED
    BY <1>2, <2>1 DEF LengthAt
<1>4. size \in [1..u[16] -> 1..16]
  <2>1. \A p \in 1..u[16] : size[p] \in 1..16
    BY <1>3 DEF LengthAt
  <2> QED
    BY <1>2, <2>1
<1>5. Len(size) = u[16]
  BY <1>1, <1>4
<1> QED
  BY <1>3, <1>4, <1>5 DEF u, size

LEMMA LengthsGrow ==
  ASSUME NEW u \in [0..16 -> Nat], \A l \in 1..16 : u[l - 1] <= u[l],
         NEW p \in Nat, NEW q \in Nat, p <= q, NEW l, NEW m, LengthAt(u, p, l), LengthAt(u, q, m)
  PROVE  l <= m
<1> SUFFICES ASSUME ~(l <= m) PROVE FALSE
  OBVIOUS
<1>1. l \in 1..16 /\ m \in 1..16 /\ u[l - 1] < p /\ q <= u[m]
  BY Zenon DEF LengthAt
<1>2. m \in 0..16 /\ l - 1 \in 0..16 /\ m <= l - 1
  BY <1>1
<1>3. u[m] <= u[l - 1] /\ u[m] \in Nat /\ u[l - 1] \in Nat
  BY <1>2, UpToGrows
<1> QED
  BY <1>1, <1>3

(* What huffcode makes of lengths that do not decrease.                     *)
LEMMA Difference ==
  ASSUME NEW a \in 1..16, NEW b \in 1..16, a <= b
  PROVE  b - a \in 0..15 /\ b - a \in 0..32
OBVIOUS
LEMMA SumOfDifferences ==
  ASSUME NEW a \in 1..16, NEW b \in 1..16, NEW d \in 1..16
  PROVE  (b - a) + (d - b) = d - a
OBVIOUS
LEMMA NoDifference ==
  ASSUME NEW a \in 1..16, NEW b \in 1..16, a <= b, ~(a < b)
  PROVE  b - a = 0 /\ a = b
OBVIOUS
LEMMA Squeezed ==
  ASSUME NEW q \in 1..16, NEW a \in 1..16, NEW b \in 1..16, NEW p \in 1..16,
         q <= a, a <= b, b <= p, q = p
  PROVE  b - a = 0
OBVIOUS
LEMMA CodesAre ==
  ASSUME NEW L \in Nat, NEW size \in [1..L -> 1..16],
         \A p \in 2..L : size[p - 1] <= size[p]
  PROVE  LET code == huffcode(size)
         IN  /\ code \in [1..L -> Nat]
             /\ L > 0 => code[1] = 0
             /\ \A p \in 2..L : /\ size[p] - size[p - 1] \in 0..15
                                /\ code[p] = (code[p - 1] + 1) * Pow[size[p] - size[p - 1]]
<1> DEFINE By(p) == size[p] - size[p - 1]
           Eq(f) == f = [p \in 1..Len(size) |-> IF p = 1 THEN 0
                                                 ELSE (f[p - 1] + 1) * 2^(size[p] - size[p - 1])]
           c == CHOOSE f : Eq(f)
           step == [a \in (1..L) \X Nat |-> IF a[1] = 1 THEN 0 ELSE (a[2] + 1) * Pow[By(a[1])]]
           X == [l \in 0..L |-> Nat]
<1>0. L = Len(size)
  OBVIOUS
<1>1. \A l \in 0..L : X[l] = Nat
  OBVIOUS
<1>2. \A p \in 2..L : /\ p \in 1..L /\ p - 1 \in 1..L /\ p # 1
                      /\ By(p) \in 0..15 /\ By(p) \in 0..32 /\ 2^By(p) = Pow[By(p)]
                      /\ Pow[By(p)] \in Nat
  <2> TAKE p \in 2..L
  <2>1. p \in 1..L /\ p - 1 \in 1..L /\ p # 1
    OBVIOUS
  <2>2. size[p] \in 1..16 /\ size[p - 1] \in 1..16 /\ size[p - 1] <= size[p]
    BY <2>1
  <2>3. By(p) \in 0..15 /\ By(p) \in 0..32
    BY <2>2, Difference
  <2> HIDE DEF By
  <2>4. 2^By(p) = Pow[By(p)]
    BY <2>3 DEF Pow
  <2>5. Pow[By(p)] \in Nat
    BY <2>3, PowIsNat
  <2> QED
    BY <2>1, <2>3, <2>4, <2>5
<1>3. ASSUME NEW p \in 1..L, NEW x \in Nat
      PROVE  /\ step[<<p, x>>] = IF p = 1 THEN 0 ELSE (x + 1) * Pow[By(p)]
             /\ step[<<p, x>>] \in Nat
  <2>1. step[<<p, x>>] = IF p = 1 THEN 0 ELSE (x + 1) * Pow[By(p)]
    OBVIOUS
  <2> HIDE DEF step, By
  <2>2. CASE p = 1
    BY <2>1, <2>2
  <2>3. CASE p # 1
    <3>1. p \in 2..L
      BY <2>3
    <3>2. Pow[By(p)] \in Nat
      BY <1>2, <3>1
    <3>3. (x + 1) * Pow[By(p)] \in Nat
      BY <3>2
    <3> QED
      BY <2>1, <2>3, <3>3
  <2> QED
    BY <2>2, <2>3
<1> HIDE DEF X, step, By
<1>4. /\ 0 \in Nat /\ 0 \in 0..L
      /\ \A l \in 1..L : l \in 0..L /\ l - 1 \in 0..L
  OBVIOUS
<1>5. Makes(0, step, L, X, Nat)
  BY <1>1, <1>3, <1>4, Zenon DEF Makes
<1>6. PICK f : IsMade(f, 0, step, L, X, Nat)
  BY <1>5, Recursion
<1>7. f \in [0..L -> Nat] /\ \A l \in 1..L : f[l] = step[<<l, f[l - 1]>>]
  BY <1>6, Zenon DEF IsMade
<1>8. \A l \in 1..L : f[l - 1] \in Nat
  BY <1>4, <1>7
<1>9. \A p \in 1..L : f[p] = IF p = 1 THEN 0 ELSE (f[p - 1] + 1) * Pow[By(p)]
  BY <1>3, <1>7, <1>8, Zenon
<1> DEFINE g == [p \in 1..L |-> f[p]]
<1>10. Eq(g)
  <2>1. ASSUME NEW p \in 1..L
        PROVE  g[p] = IF p = 1 THEN 0 ELSE (g[p - 1] + 1) * 2^(size[p] - size[p - 1])
    <3>1. CASE p = 1
      BY <1>9, <3>1
    <3>2. CASE p # 1
      <4>1. p \in 2..L /\ p - 1 \in 1..L
        BY <3>2
      <4>2. f[p] = (f[p - 1] + 1) * Pow[By(p)]
        BY <1>9, <3>2, Zenon
      <4>3. g[p] = f[p] /\ g[p - 1] = f[p - 1]
        BY <4>1
      <4>4. 2^(size[p] - size[p - 1]) = Pow[By(p)]
        BY <1>2, <4>1, Zenon DEF By
      <4> QED
        BY <3>2, <4>2, <4>3, <4>4, Zenon
    <3> QED
      BY <3>1, <3>2
  <2> HIDE DEF g
  <2>2. g = [p \in 1..L |-> g[p]]
    BY DEF g
  <2> QED
    BY <1>0, <2>1, <2>2
<1>11. Eq(c)
  BY <1>10
<1> HIDE DEF c
<1>12. \A p \in 1..L : c[p] = IF p = 1 THEN 0 ELSE (c[p - 1] + 1) * 2^(size[p] - size[p - 1])
  BY <1>0, <1>11
<1>13. \A p \in 2..L : c[p] = (c[p - 1] + 1) * Pow[By(p)]
  BY <1>2, <1>12, Zenon DEF By
<1>14. L > 0 => c[1] = 0
  <2>1. L > 0 => 1 \in 1..L
    OBVIOUS
  <2> QED
    BY <1>12, <2>1, Zenon
<1>15. \A p \in 1..L : c[p] \in Nat
  <2> DEFINE S == {k \in Nat : k + 1 <= L => c[k + 1] \in Nat}
  <2>1. 0 \in S
    BY <1>14
  <2>2. ASSUME NEW k \in Nat, k \in S PROVE k + 1 \in S
    <3> SUFFICES ASSUME (k + 1) + 1 <= L PROVE c[(k + 1) + 1] \in Nat
      OBVIOUS
    <3>1. (k + 1) + 1 \in 2..L /\ ((k + 1) + 1) - 1 = k + 1 /\ c[k + 1] \in Nat
      BY <2>2
    <3>2. c[(k + 1) + 1] = (c[k + 1] + 1) * Pow[By((k + 1) + 1)] /\ Pow[By((k + 1) + 1)] \in Nat
      BY <1>2, <1>13, <3>1
    <3> QED
      BY <3>1, <3>2
  <2>3. Nat \subseteq S
    <3> HIDE DEF S
    <3> QED
      BY <2>1, <2>2, NatSet
  <2> TAKE p \in 1..L
  <2>4. p - 1 \in Nat /\ (p - 1) + 1 = p /\ p <= L
    OBVIOUS
  <2>5. p - 1 \in S
    <3> HIDE DEF S
    <3> QED
      BY <2>3, <2>4
  <2> QED
    BY <2>4, <2>5
<1>16. huffcode(size) = [p \in 1..L |-> c[p]]
  <2>1. huffcode(size) = [p \in 1..Len(size) |-> c[p]]
    BY Zenon DEF huffcode, c
  <2> QED
    BY <1>0, <2>1
<1>17. \A p \in 1..L : huffcode(size)[p] = c[p]
  BY <1>16
<1>18. huffcode(size) \in [1..L -> Nat]
  BY <1>15, <1>16
<1>19. L > 0 => huffcode(size)[1] = 0
  <2>1. L > 0 => 1 \in 1..L
    OBVIOUS
  <2> QED
    BY <1>14, <1>17, <2>1, Zenon
<1>20. \A p \in 2..L : huffcode(size)[p] = (huffcode(size)[p - 1] + 1) * Pow[By(p)]
  BY <1>2, <1>13, <1>17, Zenon
<1> QED
  BY <1>2, <1>18, <1>19, <1>20, Zenon DEF By

(* Later codes are beyond all that begin with an earlier one.               *)
LEMMA CodesBeyond ==
  ASSUME NEW L \in Nat, NEW size \in [1..L -> 1..16], NEW code \in [1..L -> Nat],
         \A p, q \in 1..L : p <= q => size[p] <= size[q],
         \A p \in 2..L : code[p] = (code[p - 1] + 1) * Pow[size[p] - size[p - 1]],
         NEW q \in 1..L, NEW p \in 1..L, q < p
  PROVE  code[p] >= (code[q] + 1) * Pow[size[p] - size[q]]
<1> DEFINE By(a, b) == size[b] - size[a]
           S == {k \in Nat : q + 1 + k <= L =>
                   code[q + 1 + k] >= (code[q] + 1) * Pow[By(q, q + 1 + k)]}
<1>1. \A a, b \in 1..L : a <= b => /\ By(a, b) \in 0..15 /\ Pow[By(a, b)] \in Nat
  <2> SUFFICES ASSUME NEW a \in 1..L, NEW b \in 1..L, a <= b
               PROVE  By(a, b) \in 0..15 /\ Pow[By(a, b)] \in Nat
    OBVIOUS
  <2>1. By(a, b) \in 0..15 /\ By(a, b) \in 0..32
    <3>1. size[a] \in 1..16 /\ size[b] \in 1..16 /\ size[a] <= size[b]
      OBVIOUS
    <3> QED
      BY <3>1, Difference
  <2> HIDE DEF By
  <2> QED
    BY <2>1, PowIsNat
<1>2. \A b \in 2..L : code[b] = (code[b - 1] + 1) * Pow[By(b - 1, b)]
  OBVIOUS
<1>3. \A a, b, d \in 1..L : a <= b /\ b <= d => Pow[By(a, d)] = Pow[By(a, b)] * Pow[By(b, d)]
  <2> SUFFICES ASSUME NEW a \in 1..L, NEW b \in 1..L, NEW d \in 1..L, a <= b, b <= d
               PROVE  Pow[By(a, d)] = Pow[By(a, b)] * Pow[By(b, d)]
    OBVIOUS
  <2>1. By(a, b) + By(b, d) = By(a, d)
    <3>1. size[a] \in 1..16 /\ size[b] \in 1..16 /\ size[d] \in 1..16
      OBVIOUS
    <3> QED
      BY <3>1, SumOfDifferences
  <2>2. By(a, b) \in 0..16 /\ By(b, d) \in 0..16
    <3> HIDE DEF By
    <3>1. By(a, b) \in 0..15 /\ By(b, d) \in 0..15
      BY <1>1
    <3> QED
      BY <3>1
  <2> HIDE DEF By
  <2>3. Pow[By(a, b) + By(b, d)] = Pow[By(a, b)] * Pow[By(b, d)]
    BY <2>2, PowAdd
  <2> QED
    BY <2>1, <2>3
<1> HIDE DEF By
<1>4. 0 \in S
  <2>1. SUFFICES ASSUME q + 1 <= L PROVE code[q + 1] >= (code[q] + 1) * Pow[By(q, q + 1)]
    OBVIOUS
  <2>2. q + 1 \in 2..L /\ (q + 1) - 1 = q
    BY <2>1
  <2>3. code[q + 1] = (code[q] + 1) * Pow[By(q, q + 1)] /\ code[q + 1] \in Nat
    BY <1>2, <2>2
  <2> QED
    BY <2>3
<1>5. ASSUME NEW k \in Nat, k \in S PROVE k + 1 \in S
  <2> DEFINE b == q + 1 + k
             d == q + 1 + (k + 1)
  <2>1. SUFFICES ASSUME d <= L PROVE code[d] >= (code[q] + 1) * Pow[By(q, d)]
    OBVIOUS
  <2>2. /\ d \in 2..L /\ d - 1 = b /\ b \in 1..L /\ d \in 1..L /\ b <= d /\ q <= b
        /\ code[b] \in Nat /\ code[q] \in Nat
    BY <2>1
  <2>3. code[b] >= (code[q] + 1) * Pow[By(q, b)]
    BY <1>5, <2>2
  <2> HIDE DEF b, d
  <2>4. code[d] = (code[b] + 1) * Pow[By(b, d)]
    BY <1>2, <2>2
  <2>5. Pow[By(q, d)] = Pow[By(q, b)] * Pow[By(b, d)] /\ Pow[By(q, b)] \in Nat /\ Pow[By(b, d)] \in Nat
    BY <1>1, <1>3, <2>2
  <2> DEFINE x == code[b]
             y == code[q] + 1
             A == Pow[By(q, b)]
             B == Pow[By(b, d)]
  <2>6. x \in Nat /\ y \in Nat /\ A \in Nat /\ B \in Nat /\ x >= y * A
    <3>1. code[q] + 1 \in Nat
      BY <2>2
    <3> QED
      BY <2>2, <2>3, <2>5, <3>1, Zenon
  <2>7. code[d] = (x + 1) * B /\ Pow[By(q, d)] = A * B
    BY <2>4, <2>5
  <2> HIDE DEF x, y, A, B
  <2>8. (x + 1) * B >= y * (A * B)
    <3>1. x + 1 \in Nat /\ y * A \in Nat /\ x + 1 >= y * A
      BY <2>6
    <3>2. (x + 1) * B >= (y * A) * B
      BY <2>6, <3>1, TimesMono
    <3>3. y * (A * B) = (y * A) * B
      BY <2>6, TimesAssoc
    <3> QED
      BY <3>2, <3>3
  <2> QED
    BY <2>7, <2>8 DEF y
<1>6. Nat \subseteq S
  <2> HIDE DEF S
  <2> QED
    BY <1>4, <1>5, NatSet
<1>7. p - (q + 1) \in Nat /\ q + 1 + (p - (q + 1)) = p /\ p <= L
  OBVIOUS
<1>8. p - (q + 1) \in S
  <2> HIDE DEF S
  <2> QED
    BY <1>6, <1>7
<1>9. code[p] >= (code[q] + 1) * Pow[By(q, p)]
  BY <1>7, <1>8
<1> QED
  BY <1>9 DEF By

(* Codes of one length follow each other.                                   *)
LEMMA SameLength ==
  ASSUME NEW L \in Nat, NEW size \in [1..L -> 1..16], NEW code \in [1..L -> Nat],
         \A p, q \in 1..L : p <= q => size[p] <= size[q],
         \A p \in 2..L : code[p] = (code[p - 1] + 1) * Pow[size[p] - size[p - 1]],
         NEW q \in 1..L, NEW p \in 1..L, q <= p, size[q] = size[p]
  PROVE  code[p] = code[q] + (p - q)
<1> DEFINE S == {k \in Nat : q + k <= p => code[q + k] = code[q] + k}
<1>1. 0 \in S
  <2>1. q + 0 = q /\ code[q] \in Nat
    OBVIOUS
  <2> QED
    BY <2>1
<1>2. ASSUME NEW k \in Nat, k \in S PROVE k + 1 \in S
  <2> DEFINE a == q + k
             b == q + (k + 1)
  <2>1. SUFFICES ASSUME b <= p PROVE code[b] = code[q] + (k + 1)
    OBVIOUS
  <2>2. /\ b \in 2..L /\ b - 1 = a /\ b \in 1..L /\ a \in 1..L
        /\ q <= a /\ a <= b /\ b <= p /\ code[a] = code[q] + k
    BY <1>2, <2>1
  <2> HIDE DEF a, b
  <2>3. size[q] <= size[a] /\ size[a] <= size[b] /\ size[b] <= size[p]
    BY <2>2
  <2>4. size[q] \in 1..16 /\ size[a] \in 1..16 /\ size[b] \in 1..16
    BY <2>2
  <2>5. size[b] - size[a] = 0
    <3>1. size[p] \in 1..16
      OBVIOUS
    <3> QED
      BY <2>3, <2>4, <3>1, Squeezed
  <2>6. code[b] = (code[a] + 1) * Pow[0]
    BY <2>2, <2>5
  <2>7. code[a] \in Nat /\ code[q] \in Nat /\ Pow[0] = 1
    BY <2>2, PowIs
  <2> QED
    BY <2>2, <2>6, <2>7
<1>3. Nat \subseteq S
  <2> HIDE DEF S
  <2> QED
    BY <1>1, <1>2, NatSet
<1>4. p - q \in Nat /\ q + (p - q) = p
  OBVIOUS
<1>5. p - q \in S
  <2> HIDE DEF S
  <2> QED
    BY <1>3, <1>4
<1> QED
  BY <1>4, <1>5

LEMMA Countdown ==
  ASSUME NEW L \in Nat, NEW k \in Nat, k + 1 < L
  PROVE  /\ k < L /\ L - (k + 1) \in 1..L /\ L - k \in 1..L /\ L - k \in 2..L
         /\ (L - k) - 1 = L - (k + 1) /\ L - k = (L - (k + 1)) + 1 /\ L - (k + 1) <= L - k
OBVIOUS

(* Where the last code of each length is short of all ones, every code is.  *)
LEMMA Room ==
  ASSUME NEW L \in Nat, NEW size \in [1..L -> 1..16], NEW code \in [1..L -> Nat],
         \A p, q \in 1..L : p <= q => size[p] <= size[q],
         \A p \in 2..L : code[p] = (code[p - 1] + 1) * Pow[size[p] - size[p - 1]],
         \A p \in 1..L : p = L \/ size[p + 1] > size[p] => code[p] + 1 < Pow[size[p]],
         NEW p \in 1..L
  PROVE  code[p] + 1 < Pow[size[p]]
<1> DEFINE S == {k \in Nat : k < L => code[L - k] + 1 < Pow[size[L - k]]}
<1>1. 0 \in S
  <2>1. L - 0 = L
    OBVIOUS
  <2>2. 0 < L => L \in 1..L
    OBVIOUS
  <2> QED
    BY <2>1, <2>2
<1>2. ASSUME NEW k \in Nat, k \in S PROVE k + 1 \in S
  <2> DEFINE a == L - (k + 1)
             b == L - k
  <2>1. SUFFICES ASSUME k + 1 < L PROVE code[a] + 1 < Pow[size[a]]
    OBVIOUS
  <2>2. /\ a \in 1..L /\ b \in 1..L /\ b \in 2..L /\ b - 1 = a /\ b = a + 1 /\ a <= b
        /\ code[b] + 1 < Pow[size[b]]
    <3>1. k < L /\ a \in 1..L /\ b \in 1..L /\ b \in 2..L /\ b - 1 = a /\ b = a + 1 /\ a <= b
      BY <2>1, Countdown
    <3> QED
      BY <1>2, <3>1, Zenon
  <2> HIDE DEF a, b
  <2>3. CASE size[b] > size[a]
    BY <2>2, <2>3
  <2>4. CASE ~(size[b] > size[a])
    <3>1. size[a] \in 1..16 /\ size[b] \in 1..16 /\ size[a] <= size[b]
      BY <2>2
    <3>2. size[b] - size[a] = 0 /\ size[b] = size[a]
      <4>1. ~(size[a] < size[b])
        BY <2>4, <3>1
      <4> QED
        BY <3>1, <4>1, NoDifference
    <3>3. code[b] = (code[a] + 1) * Pow[0]
      BY <2>2, <3>2
    <3>4. code[a] \in Nat /\ code[b] \in Nat /\ Pow[0] = 1
      BY <2>2, PowIs
    <3>5. size[a] \in 0..32
      BY <3>1
    <3>6. Pow[size[a]] \in Nat
      BY <3>5, PowIsNat
    <3>7. code[b] = code[a] + 1
      BY <3>3, <3>4
    <3>8. code[b] + 1 < Pow[size[a]]
      BY <2>2, <3>2
    <3> QED
      BY <3>4, <3>6, <3>7, <3>8
  <2> QED
    BY <2>3, <2>4
<1>3. Nat \subseteq S
  <2> HIDE DEF S
  <2> QED
    BY <1>1, <1>2, NatSet
<1>4. L - p \in Nat /\ L - (L - p) = p /\ L - p < L
  OBVIOUS
<1>5. L - p \in S
  <2> HIDE DEF S
  <2> QED
    BY <1>3, <1>4
<1> QED
  BY <1>4, <1>5

(* What a decoder derives of one length.                                    *)
LEMMA DerivedIs ==
  ASSUME NEW tbl, NEW l \in 1..16
  PROVE  LET u == CodesUpTo(tbl.bits)
             code == huffcode(huffsize(tbl))
             d == DerivedTbl(tbl)
         IN  /\ tbl.bits[l] = 0 => d.maxcode[l] = -1
             /\ tbl.bits[l] # 0 => /\ d.maxcode[l] = code[u[l]]
                                   /\ d.valoffset[l] = u[l] - code[u[l]]
<1> DEFINE u == CodesUpTo(tbl.bits)
           code == huffcode(huffsize(tbl))
<1> HIDE DEF u, code
<1>1. DerivedTbl(tbl).maxcode[l] = IF tbl.bits[l] = 0 THEN -1 ELSE code[u[l]]
  BY DEF DerivedTbl, u, code
<1>2. DerivedTbl(tbl).valoffset[l] = IF tbl.bits[l] = 0 THEN 0 ELSE u[l] - code[u[l]]
  BY DEF DerivedTbl, u, code
<1> QED
  BY <1>1, <1>2, Zenon DEF u, code

(* The counts, the lengths and the codes of one table.                      *)
Counts(bits, u) ==
  /\ bits \in [1..16 -> Nat] /\ u \in [0..16 -> Nat] /\ u[0] = 0
  /\ \A l \in 1..16 : u[l] = u[l - 1] + bits[l]
Lengths(u, size) ==
  /\ size \in [1..u[16] -> 1..16]
  /\ \A p \in 1..u[16] : LengthAt(u, p, size[p])
Codes(L, size, code) ==
  /\ L \in Nat /\ size \in [1..L -> 1..16] /\ code \in [1..L -> Nat]
  /\ \A p, q \in 1..L : p <= q => size[p] <= size[q]
  /\ \A p \in 2..L : code[p] = (code[p - 1] + 1) * Pow[size[p] - size[p - 1]]
Roomy(L, size, code) ==
  \A p \in 1..L : p = L \/ size[p + 1] > size[p] => code[p] + 1 < Pow[size[p]]

LEMMA CountsGrow ==
  ASSUME NEW bits, NEW u, Counts(bits, u)
  PROVE  /\ u \in [0..16 -> Nat]
         /\ \A l \in 1..16 : u[l - 1] <= u[l]
         /\ \A l, m \in 0..16 : l <= m => u[l] <= u[m]
<1>1. u \in [0..16 -> Nat] /\ bits \in [1..16 -> Nat]
  BY DEF Counts
<1>2. \A l \in 1..16 : u[l - 1] <= u[l]
  <2> TAKE l \in 1..16
  <2>1. u[l] = u[l - 1] + bits[l]
    BY DEF Counts
  <2>2. u[l - 1] \in Nat /\ bits[l] \in Nat
    BY <1>1
  <2> QED
    BY <2>1, <2>2
<1>3. ASSUME NEW l \in 0..16, NEW m \in 0..16, l <= m PROVE u[l] <= u[m]
  BY <1>1, <1>2, <1>3, UpToGrows, Zenon
<1> QED
  BY <1>1, <1>2, <1>3

LEMMA SizesGrow ==
  ASSUME NEW bits, NEW u, Counts(bits, u), NEW size, Lengths(u, size)
  PROVE  \A p, q \in 1..u[16] : p <= q => size[p] <= size[q]
<1> SUFFICES ASSUME NEW p \in 1..u[16], NEW q \in 1..u[16], p <= q PROVE size[p] <= size[q]
  OBVIOUS
<1>1. LengthAt(u, p, size[p]) /\ LengthAt(u, q, size[q])
  BY Zenon DEF Lengths
<1>2. u \in [0..16 -> Nat] /\ \A l \in 1..16 : u[l - 1] <= u[l]
  BY CountsGrow, Zenon
<1>3. p \in Nat /\ q \in Nat
  OBVIOUS
<1> QED
  BY <1>1, <1>2, <1>3, LengthsGrow, Zenon

(* The last code of a length that occurs.                                   *)
LEMMA Growth ==
  ASSUME NEW a \in Nat, NEW b \in Nat, NEW c, c = a + b, b # 0
  PROVE  a < c /\ c > 0 /\ c \in Nat /\ c <= c
OBVIOUS
LEMMA InTo ==
  ASSUME NEW a \in Nat, NEW b \in Nat, a > 0, a <= b
  PROVE  a \in 1..b
OBVIOUS
LEMMA Lengthy ==
  ASSUME NEW l \in 1..16
  PROVE  l \in 0..16 /\ l - 1 \in 0..16 /\ 16 \in 0..16 /\ l <= 16 /\ l \in 0..32
OBVIOUS
LEMMA Equal ==
  ASSUME NEW a \in 1..16, NEW b \in 1..16, a <= b, b <= a
  PROVE  a = b
OBVIOUS
LEMMA LastOfLength ==
  ASSUME NEW bits, NEW u, Counts(bits, u), NEW size, Lengths(u, size),
         NEW l \in 1..16, bits[l] # 0
  PROVE  u[l] \in 1..u[16] /\ size[u[l]] = l
<1>1. u \in [0..16 -> Nat] /\ \A m \in 1..16 : u[m - 1] <= u[m]
  BY CountsGrow, Zenon
<1>2. l \in 0..16 /\ l - 1 \in 0..16 /\ 16 \in 0..16 /\ l <= 16
  BY Lengthy
<1>3. u[l] = u[l - 1] + bits[l] /\ bits[l] \in Nat
  BY DEF Counts
<1>4. u[l - 1] \in Nat /\ u[l] \in Nat /\ u[16] \in Nat
  BY <1>1, <1>2
<1>5. u[l - 1] < u[l] /\ u[l] > 0 /\ u[l] <= u[l]
  BY <1>3, <1>4, Growth
<1>6. u[l] <= u[16]
  BY <1>2, CountsGrow, Zenon
<1>7. u[l] \in 1..u[16]
  BY <1>4, <1>5, <1>6, InTo
<1>8. LengthAt(u, u[l], l)
  BY <1>5, Zenon DEF LengthAt
<1>9. LengthAt(u, u[l], size[u[l]])
  BY <1>7, Zenon DEF Lengths
<1>10. l <= size[u[l]] /\ size[u[l]] <= l
  BY <1>1, <1>4, <1>5, <1>8, <1>9, LengthsGrow, Zenon
<1>11. size[u[l]] \in 1..16
  BY <1>9, Zenon DEF LengthAt
<1> QED
  BY <1>7, <1>10, <1>11, Equal, Zenon

LEMMA Shorter ==
  ASSUME NEW n \in 1..16, NEW k \in 1..n - 1
  PROVE  /\ k \in 1..16 /\ k \in 0..16 /\ n - 1 \in 0..16 /\ k <= n - 1
         /\ n - k \in 1..15 /\ n - k \in 0..32
OBVIOUS
LEMMA NoneBefore ==
  ASSUME NEW d \in 1..15, NEW c \in Nat
  PROVE  c \div 2^d > -1
<1>1. d \in 0..32
  OBVIOUS
<1>2. Pow[d] \in Nat
  BY <1>1, PowIsNat
<1> DEFINE P == Pow[d]
<1> HIDE DEF P
<1>3. c >= ((-1) + 1) * P
  BY <1>2 DEF P
<1>4. -1 \in Int /\ -1 >= -1
  OBVIOUS
<1> QED
  BY <1>3, <1>4, PrefixOver DEF P
LEMMA Chain ==
  ASSUME NEW a \in Nat, NEW b \in Nat, NEW c \in Nat, a <= b, b < c
  PROVE  a < c
OBVIOUS
LEMMA Offset ==
  ASSUME NEW x \in Nat, NEW y \in Nat, NEW l \in Nat, NEW p \in Nat, p <= l, y = x + (l - p)
  PROVE  x <= y /\ x + (l - y) = p
OBVIOUS

(* CodesAreFound for one table.                                             *)
Derives(bits, u, code, maxcode, valoffset) ==
  \A l \in 1..16 :
    /\ bits[l] = 0 => maxcode[l] = -1
    /\ bits[l] # 0 => maxcode[l] = code[u[l]] /\ valoffset[l] = u[l] - code[u[l]]
Found(size, code, maxcode, valoffset, p) ==
  /\ \A k \in 1..size[p] - 1 : code[p] \div 2^(size[p] - k) > maxcode[k]
  /\ code[p] <= maxcode[size[p]] /\ code[p] + valoffset[size[p]] = p
  /\ code[p] + 1 < 2^size[p]
LEMMA EachIsFound ==
  ASSUME NEW bits, NEW u, Counts(bits, u), NEW size, Lengths(u, size),
         NEW code, Codes(u[16], size, code), Roomy(u[16], size, code),
         NEW maxcode, NEW valoffset, Derives(bits, u, code, maxcode, valoffset),
         NEW p \in 1..u[16]
  PROVE  Found(size, code, maxcode, valoffset, p)
<1> DEFINE n == size[p]
           last == u[n]
<1>1. u \in [0..16 -> Nat]
  BY CountsGrow, Zenon
<1>2. LengthAt(u, p, n)
  BY Zenon DEF Lengths
<1>3. n \in 1..16 /\ u[n - 1] < p /\ p <= u[n]
  BY <1>2, Zenon DEF LengthAt
<1>4. n \in 0..16 /\ n - 1 \in 0..16 /\ n \in 0..32
  BY <1>3, Lengthy
<1>5. u[n - 1] \in Nat /\ u[n] \in Nat /\ p \in Nat
  BY <1>1, <1>4
<1>6. code \in [1..u[16] -> Nat] /\ u[16] \in Nat /\ size \in [1..u[16] -> 1..16]
  BY DEF Codes
<1>7. code[p] + 1 < 2^n
  <2>1. code[p] + 1 < Pow[n]
    BY Room, Zenon DEF Codes, Roomy
  <2> QED
    BY <1>4, <2>1, PowIs, Zenon
<1> HIDE DEF n
<1>8. bits[n] # 0
  <2>1. u[n] = u[n - 1] + bits[n]
    BY <1>3, Zenon DEF Counts
  <2> SUFFICES ASSUME bits[n] = 0 PROVE FALSE
    OBVIOUS
  <2>2. u[n] = u[n - 1]
    BY <1>5, <2>1
  <2> QED
    BY <1>3, <1>5, <2>2
<1>9. last \in 1..u[16] /\ size[last] = n
  BY <1>3, <1>8, LastOfLength
<1>10. maxcode[n] = code[last] /\ valoffset[n] = last - code[last]
  BY <1>3, <1>8, Zenon DEF Derives
<1>11. p <= last /\ last \in Nat
  BY <1>3, <1>5
<1> HIDE DEF last
<1>12. code[last] = code[p] + (last - p)
  <2>1. size[p] = size[last]
    BY <1>9, Zenon DEF n
  <2> QED
    BY <1>9, <1>11, <2>1, SameLength, Zenon DEF Codes
<1>13. code[p] \in Nat /\ code[last] \in Nat
  BY <1>6, <1>9
<1>14. code[p] <= maxcode[n] /\ code[p] + valoffset[n] = p
  BY <1>5, <1>10, <1>11, <1>12, <1>13, Offset
<1>15. ASSUME NEW k \in 1..n - 1 PROVE code[p] \div 2^(n - k) > maxcode[k]
  <2>1. /\ k \in 1..16 /\ k \in 0..16 /\ n - 1 \in 0..16 /\ k <= n - 1
        /\ n - k \in 1..15 /\ n - k \in 0..32
    BY <1>3, Shorter
  <2>2. CASE bits[k] = 0
    <3>1. maxcode[k] = -1
      BY <2>1, <2>2, Zenon DEF Derives
    <3>2. code[p] \div 2^(n - k) > -1
      BY <1>13, <2>1, NoneBefore
    <3> QED
      BY <3>1, <3>2
  <2>3. CASE bits[k] # 0
    <3> DEFINE q == u[k]
    <3>1. q \in 1..u[16] /\ size[q] = k
      BY <2>1, <2>3, LastOfLength
    <3>2. maxcode[k] = code[q]
      BY <2>1, <2>3, Zenon DEF Derives
    <3>3. q <= u[n - 1]
      BY <2>1, CountsGrow, Zenon
    <3>4. q \in Nat
      BY <1>1, <2>1
    <3>5. q < p
      BY <1>3, <1>5, <3>3, <3>4, Chain, Zenon
    <3> HIDE DEF q
    <3>6. code[p] >= (code[q] + 1) * Pow[size[p] - size[q]]
      BY <3>1, <3>5, CodesBeyond, Zenon DEF Codes
    <3>7. size[p] - size[q] = n - k
      BY <3>1, Zenon DEF n
    <3>8. code[p] >= (code[q] + 1) * Pow[n - k]
      BY <3>6, <3>7, Zenon
    <3>9. code[q] \in Nat
      BY <1>6, <3>1
    <3>10. code[q] \in Int /\ code[q] >= -1
      BY <3>9
    <3>11. code[p] \div 2^(n - k) > code[q]
      BY <1>13, <2>1, <3>8, <3>10, PrefixOver, Zenon
    <3> QED
      BY <3>2, <3>11, Zenon
  <2> QED
    BY <2>2, <2>3
<1> QED
  BY <1>7, <1>14, <1>15, Zenon DEF Found, n

LEMMA BytesAreNats ==
  ASSUME NEW bits \in [1..16 -> 0..255]
  PROVE  bits \in [1..16 -> Nat]
<1>1. \A x \in 0..255 : x \in Nat
  OBVIOUS
<1>2. bits = [l \in 1..16 |-> bits[l]]
  OBVIOUS
<1>3. \A l \in 1..16 : bits[l] \in Nat
  BY <1>1, Zenon
<1> QED
  BY <1>2, <1>3, Zenon

AllFound(tbl, derived) ==
  \A p \in DOMAIN huffsize(tbl) :
    Found(huffsize(tbl), huffcode(huffsize(tbl)), derived.maxcode, derived.valoffset, p)
LEMMA EachTable ==
  ASSUME NEW tbl, tbl.bits \in [1..16 -> 0..255], ~BadTable(tbl, FALSE)
  PROVE  AllFound(tbl, DerivedTbl(tbl))
<1> DEFINE bits == tbl.bits
           u == CodesUpTo(bits)
           size == huffsize(tbl)
           code == huffcode(size)
           maxcode == DerivedTbl(tbl).maxcode
           valoffset == DerivedTbl(tbl).valoffset
<1>1. bits \in [1..16 -> Nat]
  <2>1. bits \in [1..16 -> 0..255]
    OBVIOUS
  <2> QED
    BY <2>1, BytesAreNats, Zenon
<1>2. Counts(bits, u)
  BY <1>1, UpToIs, Zenon DEF Counts
<1>3. DOMAIN size = 1..u[16] /\ Len(size) = u[16] /\ Lengths(u, size)
  BY <1>1, SizesAre, Zenon DEF Lengths
<1>4. Derives(bits, u, code, maxcode, valoffset)
  BY DerivedIs, Zenon DEF Derives
<1>5. \A p \in DOMAIN size : p = Len(size) \/ size[p + 1] > size[p] => ~(code[p] + 1 >= 2^size[p])
  BY Zenon DEF BadTable
<1> HIDE DEF bits, u, size, maxcode, valoffset
<1>6. Codes(u[16], size, code)
  <2>1. \A p, q \in 1..u[16] : p <= q => size[p] <= size[q]
    BY <1>2, <1>3, SizesGrow, Zenon
  <2>2. size \in [1..u[16] -> 1..16]
    BY <1>3, Zenon DEF Lengths
  <2>3. u[16] \in Nat
    <3>1. u \in [0..16 -> Nat] /\ 16 \in 0..16
      BY <1>2 DEF Counts
    <3> QED
      BY <3>1
  <2>4. \A p \in 2..u[16] : size[p - 1] <= size[p]
    <3>1. \A p \in 2..u[16] : p - 1 \in 1..u[16] /\ p \in 1..u[16] /\ p - 1 <= p
      BY <2>3
    <3> QED
      BY <2>1, <3>1, Zenon
  <2> QED
    BY <2>1, <2>2, <2>3, <2>4, CodesAre, Zenon DEF Codes
<1> HIDE DEF code
<1>7. Roomy(u[16], size, code)
  <2> SUFFICES ASSUME NEW p \in 1..u[16], p = u[16] \/ size[p + 1] > size[p]
               PROVE  code[p] + 1 < Pow[size[p]]
    BY DEF Roomy
  <2>1. code[p] \in Nat /\ size[p] \in 1..16
    BY <1>6, ZenonT(60) DEF Codes
  <2>2. size[p] \in 0..32
    BY <2>1, Lengthy
  <2>3. 2^size[p] = Pow[size[p]] /\ Pow[size[p]] \in Nat
    BY <2>2, PowIs, PowIsNat
  <2>4. ~(code[p] + 1 >= 2^size[p])
    BY <1>3, <1>5, Zenon
  <2>5. ~(code[p] + 1 >= Pow[size[p]])
    BY <2>3, <2>4, Zenon
  <2> QED
    BY <2>1, <2>3, <2>5
<1>8. \A p \in 1..u[16] : Found(size, code, maxcode, valoffset, p)
  BY <1>2, <1>3, <1>4, <1>6, <1>7, EachIsFound, Zenon
<1> QED
  BY <1>3, <1>8, Zenon DEF AllFound, bits, u, size, code, maxcode, valoffset

(***************************************************************************)
(* Huffman's procedure: what holds of the forest after each merge.         *)
(***************************************************************************)
LEMMA SymbolsFinite == IsFiniteSet(0..256)
<1>1. 0 \in Int /\ 256 \in Int
  OBVIOUS
<1> QED
  BY <1>1, FS_Interval, Zenon

(* Of some naturals one is least.                                           *)
LEMMA LeastNat ==
  ASSUME NEW S, S \subseteq Nat, S # {}
  PROVE  \E m \in S : \A k \in S : m <= k
<1>1. PICK m \in S : \A k \in S : ~(<<k, m>> \in OpToRel(<, Nat))
  BY NatLessThanWellFounded, WFMin, Zenon
<1>2. \A k \in S : k \in Nat /\ m \in Nat /\ ~(k < m)
  BY <1>1 DEF OpToRel
<1> QED
  BY <1>2

(* The order of the roots as an order of numbers.                           *)
LEMMA KeyOrder ==
  ASSUME NEW a \in Nat, NEW b \in Nat, NEW i \in 0..256, NEW j \in 0..256, i # j,
         257 * a + (256 - i) <= 257 * b + (256 - j)
  PROVE  a < b \/ (a = b /\ i > j)
OBVIOUS

LEMMA KeyIsNat ==
  ASSUME NEW a \in Nat, NEW i \in 0..256
  PROVE  257 * a + (256 - i) \in Nat
OBVIOUS

(* The search for the rarest finds one.                                     *)
IsLeast(W, S, i) == i \in S /\ \A j \in S \ {i} : Rarer(W, i, j)
LEMMA LeastIs ==
  ASSUME NEW D, D \subseteq 0..256, NEW W \in [D -> Nat], NEW S, S \subseteq D, S # {}
  PROVE  IsLeast(W, S, Least(W, S))
<1> DEFINE key == [i \in D |-> 257 * W[i] + (256 - i)]
           K == {key[i] : i \in S}
<1>1. \A i \in D : W[i] \in Nat /\ i \in 0..256 /\ key[i] = 257 * W[i] + (256 - i)
  OBVIOUS
<1>2. \A i \in D : key[i] \in Nat
  BY <1>1, KeyIsNat
<1> HIDE DEF key
<1>3. K \subseteq Nat /\ K # {}
  BY <1>2
<1>4. PICK m \in K : \A k \in K : m <= k
  BY <1>3, LeastNat
<1>5. PICK i \in S : key[i] = m
  BY <1>4
<1>6. ASSUME NEW j \in S \ {i} PROVE Rarer(W, i, j)
  <2>1. key[i] <= key[j]
    BY <1>4, <1>5, <1>6
  <2>2. i \in D /\ j \in D /\ i # j
    BY <1>5, <1>6
  <2>3. 257 * W[i] + (256 - i) <= 257 * W[j] + (256 - j)
    BY <1>1, <2>1, <2>2, SMTT(40)
  <2>4. W[i] < W[j] \/ (W[i] = W[j] /\ i > j)
    BY <1>1, <2>2, <2>3, KeyOrder, ZenonT(60)
  <2> QED
    BY <2>4, Zenon DEF Rarer
<1>7. \E x \in S : \A j \in S \ {x} : Rarer(W, x, j)
  BY <1>6
<1> QED
  BY <1>7, Zenon DEF Least, IsLeast

(* The two rarest roots, and the forest with them made one tree.            *)
Two(R, W, c1, c2) == IsLeast(W, R, c1) /\ IsLeast(W, R \ {c1}, c2)
MergedInto(R, W, lv, cs, c1, c2, R2, W2, lv2, cs2) ==
  /\ c1 \in R /\ c2 \in R /\ c1 # c2 /\ R2 = R \ {c2}
  /\ W2[c1] = W[c1] + W[c2] /\ lv2[c1] = lv[c1] \union lv[c2]
  /\ \A r \in R2 \ {c1} : W2[r] = W[r] /\ lv2[r] = lv[r]
  /\ \A s \in DOMAIN cs : cs2[s] = cs[s] + (IF s \in lv[c1] \union lv[c2] THEN 1 ELSE 0)
Forests(D) == [roots : SUBSET D, freq : [D -> Nat], leaves : [D -> SUBSET D], codesize : [D -> Nat]]
LEMMA MergeIs ==
  ASSUME NEW D, D \subseteq 0..256, NEW t \in Forests(D),
         \A r \in t.roots : t.freq[r] <= MAX_WEIGHT,
         NEW a \in t.roots, NEW b \in t.roots, a # b
  PROVE  /\ Merge(t) \in Forests(D)
         /\ \E c1, c2 : /\ Two(t.roots, t.freq, c1, c2)
                        /\ MergedInto(t.roots, t.freq, t.leaves, t.codesize, c1, c2, Merge(t).roots,
                                  Merge(t).freq, Merge(t).leaves, Merge(t).codesize)
<1> DEFINE R == t.roots
           W == t.freq
           lv == t.leaves
           cs == t.codesize
           found == {r \in R : W[r] <= MAX_WEIGHT}
           c1 == Least(W, R)
           c2 == Least(W, R \ {c1})
           both == lv[c1] \union lv[c2]
           M2 == [roots |-> R \ {c2}, freq |-> [W EXCEPT ![c1] = @ + W[c2]],
                  leaves |-> [lv EXCEPT ![c1] = both],
                  codesize |-> [s \in DOMAIN cs |-> cs[s] + IF s \in both THEN 1 ELSE 0]]
<1>1. R \subseteq D /\ W \in [D -> Nat] /\ lv \in [D -> SUBSET D] /\ cs \in [D -> Nat]
  BY DEF Forests
<1>2. found = R
  OBVIOUS
<1>3. ~(Cardinality(R) < 2)
  <2>1. IsFiniteSet(0..256)
    BY SymbolsFinite
  <2>2. IsFiniteSet(R)
    BY <1>1, <2>1, FS_Subset
  <2>3. {a} \union {b} \in SUBSET R /\ b \notin {a} /\ IsFiniteSet({a}) /\ Cardinality({a}) = 1
    BY FS_Singleton
  <2>4. Cardinality({a} \union {b}) = 2
    <3>1. Cardinality({a} \union {b}) = Cardinality({a}) + 1
      BY <2>3, FS_AddElement, Zenon
    <3> QED
      BY <2>3, <3>1
  <2>5. Cardinality(R) \in Nat /\ Cardinality({a} \union {b}) <= Cardinality(R)
    BY <2>2, <2>3, FS_Subset, FS_CardinalityType
  <2> QED
    BY <2>4, <2>5
<1>4. Merge(t) = IF Cardinality(R) < 2 THEN t ELSE M2
  BY <1>2, Zenon DEF Merge
<1>5. Merge(t) = M2
  BY <1>3, <1>4
<1>6. IsLeast(W, R, c1)
  <2>1. R # {}
    OBVIOUS
  <2> QED
    BY <1>1, <2>1, LeastIs, Zenon
<1>7. IsLeast(W, R \ {c1}, c2)
  <2>1. R \ {c1} # {} /\ R \ {c1} \subseteq D
    BY <1>1
  <2> QED
    BY <1>1, <2>1, LeastIs, Zenon
<1> HIDE DEF c1, c2
<1>8. c1 \in R /\ c2 \in R /\ c1 # c2 /\ c1 \in D /\ c2 \in D
  BY <1>1, <1>6, <1>7 DEF IsLeast
<1> HIDE DEF R, W, lv, cs
<1>9. M2 \in Forests(D)
  <2>1. R \ {c2} \in SUBSET D
    BY <1>1
  <2>2. [W EXCEPT ![c1] = @ + W[c2]] \in [D -> Nat]
    <3>1. W[c1] + W[c2] \in Nat
      BY <1>1, <1>8
    <3> QED
      BY <1>1, <3>1
  <2>3. [lv EXCEPT ![c1] = both] \in [D -> SUBSET D]
    <3>1. both \in SUBSET D
      BY <1>1, <1>8
    <3> HIDE DEF both
    <3> QED
      BY <1>1, <3>1
  <2>4. [s \in DOMAIN cs |-> cs[s] + IF s \in both THEN 1 ELSE 0] \in [D -> Nat]
    <3> HIDE DEF both
    <3> QED
      BY <1>1
  <2> QED
    BY <2>1, <2>2, <2>3, <2>4 DEF Forests
<1>10. MergedInto(R, W, lv, cs, c1, c2, M2.roots, M2.freq, M2.leaves, M2.codesize)
  <2>1. M2.roots = R \ {c2}
    OBVIOUS
  <2>2. M2.freq[c1] = W[c1] + W[c2] /\ \A r \in (R \ {c2}) \ {c1} : M2.freq[r] = W[r]
    BY <1>1, <1>8
  <2>3. M2.leaves[c1] = both /\ \A r \in (R \ {c2}) \ {c1} : M2.leaves[r] = lv[r]
    <3> HIDE DEF both
    <3> QED
      BY <1>1, <1>8
  <2>4. \A s \in DOMAIN cs : M2.codesize[s] = cs[s] + (IF s \in both THEN 1 ELSE 0)
    <3> HIDE DEF both
    <3> QED
      OBVIOUS
  <2> HIDE DEF M2
  <2> QED
    BY <1>8, <2>1, <2>2, <2>3, <2>4, Zenon DEF MergedInto
<1> HIDE DEF M2
<1>11. Two(R, W, c1, c2)
  BY <1>6, <1>7, Zenon DEF Two
<1> QED
  BY <1>5, <1>9, <1>10, <1>11, Zenon DEF R, W, lv, cs

(* Each symbol is a leaf of one tree.                                       *)
Shape(D, R, W, lv, cs) ==
  /\ R \subseteq D /\ W \in [D -> Nat] /\ lv \in [D -> SUBSET D] /\ cs \in [D -> Nat]
  /\ \A r \in R : r \in lv[r] /\ W[r] > 0
  /\ \A s \in D : \E r \in R : s \in lv[r]
  /\ \A r, p \in R : r # p => lv[r] \intersect lv[p] = {}
LEMMA ShapeStep ==
  ASSUME NEW D, NEW R, NEW W, NEW lv, NEW cs, Shape(D, R, W, lv, cs), NEW c1, NEW c2,
         NEW R2, NEW W2 \in [D -> Nat], NEW lv2 \in [D -> SUBSET D], NEW cs2 \in [D -> Nat],
         MergedInto(R, W, lv, cs, c1, c2, R2, W2, lv2, cs2)
  PROVE  Shape(D, R2, W2, lv2, cs2)
<1>1. R2 \subseteq D
  BY DEF Shape, MergedInto
<1>2. ASSUME NEW r \in R2 PROVE r \in lv2[r] /\ W2[r] > 0
  <2>1. r \in R /\ c1 \in R /\ c2 \in R /\ r \in D /\ c1 \in D /\ c2 \in D
    BY DEF Shape, MergedInto
  <2>2. r \in lv[r] /\ W[r] > 0 /\ W[c1] > 0 /\ W[c2] > 0 /\ W[r] \in Nat /\ W[c1] \in Nat /\ W[c2] \in Nat
    BY <2>1 DEF Shape
  <2>3. CASE r = c1
    <3>1. lv2[r] = lv[r] \union lv[c2] /\ W2[r] = W[c1] + W[c2]
      BY <2>3, Zenon DEF MergedInto
    <3> QED
      BY <2>2, <3>1
  <2>4. CASE r # c1
    <3>1. lv2[r] = lv[r] /\ W2[r] = W[r]
      BY <2>4, Zenon DEF MergedInto
    <3> QED
      BY <2>2, <3>1
  <2> QED
    BY <2>3, <2>4
<1>3. ASSUME NEW s \in D PROVE \E r \in R2 : s \in lv2[r]
  <2>1. PICK r \in R : s \in lv[r]
    BY Zenon DEF Shape
  <2>2. CASE r = c1 \/ r = c2
    <3>1. c1 \in R2 /\ lv2[c1] = lv[c1] \union lv[c2]
      BY DEF MergedInto
    <3> QED
      BY <2>1, <2>2, <3>1
  <2>3. CASE r # c1 /\ r # c2
    <3>1. r \in R2 \ {c1}
      BY <2>3 DEF MergedInto
    <3>2. lv2[r] = lv[r]
      BY <3>1, Zenon DEF MergedInto
    <3> QED
      BY <2>1, <3>1, <3>2
  <2> QED
    BY <2>2, <2>3
<1>4. ASSUME NEW r \in R2, NEW p \in R2, r # p PROVE lv2[r] \intersect lv2[p] = {}
  <2>1. r \in R /\ p \in R /\ r # c2 /\ p # c2 /\ c1 \in R /\ c2 \in R /\ c1 # c2
    BY DEF MergedInto
  <2>2. \A x, y \in R : x # y => lv[x] \intersect lv[y] = {}
    BY Zenon DEF Shape
  <2>3. \A x \in R2 : x # c1 => lv2[x] = lv[x]
    BY Zenon DEF MergedInto
  <2>4. lv2[c1] = lv[c1] \union lv[c2]
    BY Zenon DEF MergedInto
  <2>5. CASE r = c1
    <3>1. lv2[p] = lv[p] /\ lv[c1] \intersect lv[p] = {} /\ lv[c2] \intersect lv[p] = {}
      BY <1>4, <2>1, <2>2, <2>3, <2>5
    <3> QED
      BY <2>4, <2>5, <3>1
  <2>6. CASE p = c1
    <3>1. lv2[r] = lv[r] /\ lv[c1] \intersect lv[r] = {} /\ lv[c2] \intersect lv[r] = {}
      BY <1>4, <2>1, <2>2, <2>3, <2>6
    <3> QED
      BY <2>4, <2>6, <3>1
  <2>7. CASE r # c1 /\ p # c1
    BY <1>4, <2>1, <2>2, <2>3, <2>7
  <2> QED
    BY <2>5, <2>6, <2>7
<1> QED
  BY <1>1, <1>2, <1>3, <1>4, Zenon DEF Shape


(* A symbol that is more frequent than another one is not deeper, and what  *)
(* is to be merged next keeps it so.  Of two roots of one weight PSEUDO's   *)
(* is the rarer one.                                                        *)
Pre(wp, p, w) == wp < w \/ (wp = w /\ p = PSEUDO)
Gap(R, W, a, b, r, p) ==
  /\ a = b => Pre(W[p], p, W[r])
  /\ b = a + 1 => \A x \in R \ {r} : Pre(W[p], p, W[r] + W[x])
  /\ b >= a + 2 => \A x \in R \ {r} : W[r] + W[x] >= W[p]
Behind(R, W, lv, cs, s, q) ==
  /\ cs[s] <= cs[q]
  /\ \A r, p \in R : s \in lv[r] /\ q \in lv[p] /\ r # p => Gap(R, W, cs[s], cs[q], r, p)

(* A pair of roots does not come before itself.                             *)
LEMMA NoEqual ==
  ASSUME NEW wr \in Nat, NEW wp \in Nat, NEW r \in 0..256, NEW p \in 0..256,
         wr < wp \/ (wr = wp /\ r > p), Pre(wp, p, wr)
  PROVE  FALSE
BY DEF Pre, PSEUDO

(* Of two depths, one a level deeper.                                       *)
LEMMA GapShared ==
  ASSUME NEW a \in Nat, NEW b \in Nat, a <= b, a # b
  PROVE  a + 1 <= b /\ (a + 1 = b => b = a + 1) /\ (b = (a + 1) + 1 => b >= a + 2)
         /\ (b >= (a + 1) + 2 => b >= a + 2)
OBVIOUS

(* What comes before a rarer root comes before a more frequent one.         *)
LEMMA PreMore ==
  ASSUME NEW wp \in Nat, NEW p, NEW v \in Nat, NEW w \in Nat, v <= w, Pre(wp, p, v)
  PROVE  Pre(wp, p, w)
BY DEF Pre

LEMMA PreStrict ==
  ASSUME NEW wp \in Nat, NEW p, NEW w \in Nat, wp < w
  PROVE  Pre(wp, p, w)
BY DEF Pre

(* The less frequent symbol's tree is merged, as c1 or as c2.               *)
Paired(wp, wo, wr, wx, p, o, c) ==
  /\ wp \in Nat /\ wo \in Nat /\ wr \in Nat /\ wx \in Nat /\ wo <= wx /\ wp <= wx
  /\ p \in 0..256 /\ o \in 0..256 /\ p # o /\ (c = p \/ c = o)
  /\ Pre(wp, p, wr) /\ (c = o => wo < wp \/ (wo = wp /\ o > p))
LEMMA PseudoFirst ==
  ASSUME NEW wp, NEW wo, NEW wr, NEW wx, NEW p, NEW o, NEW c, Paired(wp, wo, wr, wx, p, o, c)
  PROVE  Pre(wp + wo, c, wr + wx)
<1> USE DEF Paired
<1>1. CASE wp < wr
  BY <1>1, wp + wo < wr + wx DEF Pre
<1>2. CASE ~(wp < wr)
  <2>1. wp = wr /\ p = 256
    BY <1>2 DEF Pre, PSEUDO
  <2>2. CASE c = p
    BY <2>1, <2>2 DEF Pre, PSEUDO
  <2>3. CASE c = o
    <3>1. wo < wp
      BY <2>1, <2>3
    <3>2. wp + wo < wr + wx
      BY <2>1, <3>1
    <3> QED
      BY <3>2 DEF Pre
  <2> QED
    BY <2>2, <2>3
<1> QED
  BY <1>1, <1>2

(* The root a symbol's tree has after a merge.                              *)
NewRoot(c1, c2, r) == IF r = c2 THEN c1 ELSE r
ItsRoot(R2, lv2, cs, cs2, c1, c2, s, r) ==
  /\ NewRoot(c1, c2, r) \in R2 /\ s \in lv2[NewRoot(c1, c2, r)]
  /\ \A x \in R2 : s \in lv2[x] => x = NewRoot(c1, c2, r)
  /\ cs2[s] = IF r = c1 \/ r = c2 THEN cs[s] + 1 ELSE cs[s]
LEMMA NewRootIs ==
  ASSUME NEW D, NEW R, NEW W, NEW lv, NEW cs, Shape(D, R, W, lv, cs), NEW c1, NEW c2,
         NEW R2, NEW W2, NEW lv2, NEW cs2, Shape(D, R2, W2, lv2, cs2),
         MergedInto(R, W, lv, cs, c1, c2, R2, W2, lv2, cs2),
         NEW s \in D, NEW r \in R, s \in lv[r]
  PROVE  ItsRoot(R2, lv2, cs, cs2, c1, c2, s, r)
<1> DEFINE n == NewRoot(c1, c2, r)
<1>1. c1 \in R /\ c2 \in R /\ c1 # c2 /\ R2 = R \ {c2}
  BY Zenon DEF MergedInto
<1>2. n \in R2
  BY <1>1 DEF NewRoot
<1>3. s \in lv2[n]
  <2>1. CASE r = c1 \/ r = c2
    <3>1. n = c1 /\ lv2[c1] = lv[c1] \union lv[c2]
      BY <1>1, <2>1 DEF NewRoot, MergedInto
    <3> QED
      BY <2>1, <3>1
  <2>2. CASE ~(r = c1 \/ r = c2)
    <3>1. n = r /\ r \in R2 \ {c1}
      BY <1>1, <2>2 DEF NewRoot
    <3>2. lv2[r] = lv[r]
      BY <3>1, Zenon DEF MergedInto
    <3> QED
      BY <3>1, <3>2
  <2> QED
    BY <2>1, <2>2
<1> HIDE DEF n
<1>4. ASSUME NEW x \in R2, s \in lv2[x] PROVE x = n
  <2>1. x # n => lv2[x] \intersect lv2[n] = {}
    BY <1>2, Zenon DEF Shape
  <2> QED
    BY <1>3, <1>4, <2>1
<1>5. s \in lv[c1] \union lv[c2] <=> r = c1 \/ r = c2
  <2>1. \A x \in R : x # r => lv[x] \intersect lv[r] = {}
    BY Zenon DEF Shape
  <2> QED
    BY <1>1, <2>1
<1>6. cs2[s] = IF r = c1 \/ r = c2 THEN cs[s] + 1 ELSE cs[s]
  <2>1. s \in DOMAIN cs /\ cs[s] \in Nat
    BY DEF Shape
  <2>2. cs2[s] = cs[s] + (IF s \in lv[c1] \union lv[c2] THEN 1 ELSE 0)
    BY <2>1, Zenon DEF MergedInto
  <2>3. CASE r = c1 \/ r = c2
    <3>1. s \in lv[c1] \union lv[c2]
      BY <1>5, <2>3
    <3> QED
      BY <2>2, <2>3, <3>1
  <2>4. CASE ~(r = c1 \/ r = c2)
    <3>1. s \notin lv[c1] \union lv[c2]
      BY <1>5, <2>4
    <3>2. cs2[s] = cs[s] + 0
      BY <2>2, <3>1, Zenon
    <3> QED
      BY <2>1, <2>4, <3>2
  <2> QED
    BY <2>3, <2>4
<1> QED
  BY <1>2, <1>3, <1>4, <1>6, Zenon DEF n, ItsRoot

(* The more frequent symbol's tree is merged, the other one's is not.       *)
LEMMA GapNearer ==
  ASSUME NEW D, D \subseteq 0..256, NEW R, NEW W, NEW lv, NEW cs, Shape(D, R, W, lv, cs), NEW c1, NEW c2,
         NEW R2, NEW W2, NEW lv2, NEW cs2, Shape(D, R2, W2, lv2, cs2), Two(R, W, c1, c2),
         MergedInto(R, W, lv, cs, c1, c2, R2, W2, lv2, cs2),
         NEW r \in R, NEW p \in R, NEW o \in R, r # o, r \in {c1, c2}, o \in {c1, c2}, p \notin {c1, c2},
         NEW a \in Nat, NEW b \in Nat, a <= b, Gap(R, W, a, b, r, p)
  PROVE  a + 1 <= b /\ Gap(R2, W2, a + 1, b, c1, p)
<1>1. \A x \in R : x \in 0..256 /\ W[x] \in Nat /\ W[x] > 0
  BY DEF Shape
<1>2. /\ c1 \in R /\ c2 \in R /\ c1 # c2 /\ R2 = R \ {c2}
      /\ W2[c1] = W[c1] + W[c2] /\ \A x \in R2 : x # c1 => W2[x] = W[x]
  BY Zenon DEF MergedInto
<1>3. Rarer(W, r, p)
  BY DEF Two, IsLeast
<1>4. W[r] < W[p] \/ (W[r] = W[p] /\ r > p)
  BY <1>3, ZenonT(60) DEF Rarer
<1>5. a # b
  <2> SUFFICES ASSUME a = b PROVE FALSE
    OBVIOUS
  <2>1. Pre(W[p], p, W[r])
    BY Zenon DEF Gap
  <2> QED
    BY <1>1, <1>4, <2>1, NoEqual, ZenonT(60)
<1>6. W2[c1] = W[r] + W[o] /\ W2[p] = W[p] /\ o \in R \ {r}
  <2>1. p \in R2 /\ p # c1
    BY <1>2
  <2>2. (r = c1 /\ o = c2) \/ (r = c2 /\ o = c1)
    OBVIOUS
  <2>3. W[c1] \in Nat /\ W[c2] \in Nat
    BY <1>1, <1>2
  <2>4. W2[c1] = W[r] + W[o]
    BY <1>2, <2>2, <2>3
  <2> QED
    BY <1>2, <2>1, <2>4
<1>7. a + 1 = b => Pre(W2[p], p, W2[c1])
  <2> SUFFICES ASSUME a + 1 = b PROVE Pre(W2[p], p, W2[c1])
    OBVIOUS
  <2>1. Pre(W[p], p, W[r] + W[o])
    BY <1>6, Zenon DEF Gap
  <2> QED
    BY <1>6, <2>1, Zenon
<1>8. b >= a + 2 => W[r] + W[o] >= W[p]
  BY <1>6, Zenon DEF Gap
<1>9. W[r] \in Nat /\ W[o] \in Nat /\ W[p] \in Nat
  BY <1>1
<1>10. ASSUME NEW x \in R2 \ {c1}, b >= a + 2
       PROVE  W2[p] < W2[c1] + W2[x] /\ Pre(W2[p], p, W2[c1] + W2[x]) /\ W2[c1] + W2[x] >= W2[p]
  <2>1. W2[x] = W[x] /\ W[x] \in Nat /\ W[x] > 0
    BY <1>1, <1>2, <1>10
  <2>2. W2[p] < W2[c1] + W2[x] /\ W2[c1] + W2[x] >= W2[p]
    BY <1>6, <1>8, <1>9, <1>10, <2>1
  <2> QED
    BY <2>2, Zenon DEF Pre
<1>11. a + 1 <= b /\ (b = (a + 1) + 1 => b >= a + 2) /\ (b >= (a + 1) + 2 => b >= a + 2)
  BY <1>5, GapShared
<1> QED
  BY <1>7, <1>10, <1>11, Zenon DEF Gap

(* The less frequent symbol's tree is merged, the other one's is not.       *)
LEMMA GapDeeper ==
  ASSUME NEW D, D \subseteq 0..256, NEW R, NEW W, NEW lv, NEW cs, Shape(D, R, W, lv, cs), NEW c1, NEW c2,
         NEW R2, NEW W2, NEW lv2, NEW cs2, Shape(D, R2, W2, lv2, cs2), Two(R, W, c1, c2),
         MergedInto(R, W, lv, cs, c1, c2, R2, W2, lv2, cs2),
         NEW r \in R, NEW p \in R, NEW o \in R, p # o, p \in {c1, c2}, o \in {c1, c2}, r \notin {c1, c2},
         NEW a \in Nat, NEW b \in Nat, a <= b, Gap(R, W, a, b, r, p)
  PROVE  a <= b + 1 /\ Gap(R2, W2, a, b + 1, r, c1)
<1>1. \A x \in R : x \in 0..256 /\ W[x] \in Nat /\ W[x] > 0
  BY DEF Shape
<1>2. /\ c1 \in R /\ c2 \in R /\ c1 # c2 /\ R2 = R \ {c2}
      /\ W2[c1] = W[c1] + W[c2] /\ \A x \in R2 : x # c1 => W2[x] = W[x]
  BY Zenon DEF MergedInto
<1>3. \A x \in R : x # c1 /\ x # c2 => Rarer(W, c1, x) /\ Rarer(W, c2, x)
  BY DEF Two, IsLeast
<1>4. \A x \in R : x # c1 /\ x # c2 => W[c1] <= W[x] /\ W[c2] <= W[x]
  BY <1>1, <1>2, <1>3 DEF Rarer
<1>5. W[c1] < W[c2] \/ (W[c1] = W[c2] /\ c1 > c2)
  BY <1>2 DEF Two, IsLeast, Rarer
<1>6. (p = c1 /\ o = c2) \/ (p = c2 /\ o = c1)
  OBVIOUS
<1>7. W2[c1] = W[p] + W[o] /\ W2[r] = W[r]
  <2>1. W[c1] \in Nat /\ W[c2] \in Nat /\ r \in R2 /\ r # c1
    BY <1>1, <1>2
  <2> QED
    BY <1>2, <1>6, <2>1
<1>8. W[r] \in Nat /\ W[o] \in Nat /\ W[p] \in Nat /\ W[r] > 0 /\ W[p] <= W[r] /\ W[o] <= W[r]
  BY <1>1, <1>4, <1>6
<1>9. ASSUME NEW x \in R2 \ {r}, a = b PROVE Pre(W2[c1], c1, W2[r] + W2[x])
  <2>1. CASE x = c1
    <3>1. W2[c1] < W2[r] + W2[x] /\ W2[c1] \in Nat /\ W2[r] + W2[x] \in Nat
      BY <1>7, <1>8, <2>1
    <3> QED
      BY <3>1, PreStrict
  <2>2. CASE x # c1
    <3>1. x \in R /\ x # c2 /\ W2[x] = W[x]
      BY <1>2, <1>9, <2>2
    <3>2. W[c1] <= W[x] /\ W[c2] <= W[x] /\ W[x] \in Nat
      BY <1>1, <1>4, <2>2, <3>1
    <3>3. W[o] <= W[x] /\ W[p] <= W[x]
      BY <1>6, <3>2
    <3>4. Pre(W[p], p, W[r])
      BY <1>9, Zenon DEF Gap
    <3>5. c1 = p \/ c1 = o
      BY <1>6
    <3>6. c1 = o => W[o] < W[p] \/ (W[o] = W[p] /\ o > p)
      BY <1>5, <1>6
    <3>7. p \in 0..256 /\ o \in 0..256 /\ c1 \in 0..256
      BY <1>1, <1>2
    <3>8. Pre(W[p] + W[o], c1, W[r] + W[x])
      <4>1. Paired(W[p], W[o], W[r], W[x], p, o, c1)
        BY <1>8, <3>2, <3>3, <3>4, <3>5, <3>6, <3>7, Zenon DEF Paired
      <4> QED
        BY <4>1, PseudoFirst, Zenon
    <3> QED
      BY <1>7, <3>1, <3>8, Zenon
  <2> QED
    BY <2>1, <2>2
<1>10. ASSUME NEW x \in R2 \ {r} PROVE W2[r] + W2[x] >= W2[c1]
  <2>1. CASE x = c1
    BY <1>7, <1>8, <2>1
  <2>2. CASE x # c1
    <3>1. x \in R /\ x # c2 /\ W2[x] = W[x]
      BY <1>2, <1>10, <2>2
    <3>2. W[c1] <= W[x] /\ W[c2] <= W[x] /\ W[x] \in Nat
      BY <1>1, <1>4, <2>2, <3>1
    <3>3. W[o] <= W[x]
      BY <1>6, <3>2
    <3> QED
      BY <1>7, <1>8, <3>1, <3>2, <3>3
  <2> QED
    BY <2>1, <2>2
<1>11. a <= b + 1 /\ a # b + 1 /\ (b + 1 = a + 1 => a = b)
  OBVIOUS
<1> QED
  BY <1>9, <1>10, <1>11, Zenon DEF Gap

(* Neither tree is merged.                                                  *)
LEMMA GapKept ==
  ASSUME NEW D, NEW R, NEW W, NEW lv, NEW cs, Shape(D, R, W, lv, cs), NEW c1, NEW c2,
         NEW R2, NEW W2, NEW lv2, NEW cs2,
         MergedInto(R, W, lv, cs, c1, c2, R2, W2, lv2, cs2),
         NEW r \in R, NEW p \in R, r \notin {c1, c2}, p \notin {c1, c2},
         NEW a, NEW b, Gap(R, W, a, b, r, p)
  PROVE  Gap(R2, W2, a, b, r, p)
<1>1. \A x \in R : W[x] \in Nat
  BY DEF Shape
<1>2. /\ c1 \in R /\ c2 \in R /\ c1 # c2 /\ R2 = R \ {c2}
      /\ W2[c1] = W[c1] + W[c2] /\ \A x \in R2 : x # c1 => W2[x] = W[x]
  BY Zenon DEF MergedInto
<1>3. W2[r] = W[r] /\ W2[p] = W[p] /\ W[r] \in Nat /\ W[p] \in Nat
  BY <1>1, <1>2
<1>4. ASSUME NEW x \in R2 \ {r}
      PROVE  x \in R \ {r} /\ W[x] \in Nat /\ W2[x] \in Nat /\ W[r] + W[x] <= W2[r] + W2[x]
             /\ W[r] + W[x] \in Nat /\ W2[r] + W2[x] \in Nat
  <2>1. x \in R \ {r} /\ W[x] \in Nat /\ W[c2] \in Nat
    BY <1>1, <1>2, <1>4
  <2>2. CASE x = c1
    BY <1>2, <1>3, <2>1, <2>2
  <2>3. CASE x # c1
    <3>1. W2[x] = W[x]
      BY <1>2, <1>4, <2>3
    <3> QED
      BY <1>3, <2>1, <3>1
  <2> QED
    BY <2>2, <2>3
<1>5. a = b => Pre(W2[p], p, W2[r])
  BY <1>3, Zenon DEF Gap
<1>6. ASSUME b = a + 1, NEW x \in R2 \ {r} PROVE Pre(W2[p], p, W2[r] + W2[x])
  <2>1. Pre(W[p], p, W[r] + W[x])
    BY <1>4, <1>6, Zenon DEF Gap
  <2>2. Pre(W[p], p, W2[r] + W2[x])
    BY <1>3, <1>4, <1>6, <2>1, PreMore
  <2> QED
    BY <1>3, <2>2, Zenon
<1>7. ASSUME b >= a + 2, NEW x \in R2 \ {r} PROVE W2[r] + W2[x] >= W2[p]
  <2>1. W[r] + W[x] >= W[p]
    BY <1>4, <1>7, Zenon DEF Gap
  <2>2. W[r] + W[x] <= W2[r] + W2[x] /\ W[r] + W[x] \in Nat /\ W2[r] + W2[x] \in Nat /\ W2[p] \in Nat /\ W2[p] = W[p]
    BY <1>3, <1>4, <1>7
  <2> QED
    BY <2>1, <2>2
<1> QED
  BY <1>5, <1>6, <1>7, Zenon DEF Gap


(* A merge keeps every rarer symbol behind the more frequent one.           *)
LEMMA BehindStep ==
  ASSUME NEW D, D \subseteq 0..256, NEW R, NEW W, NEW lv, NEW cs, Shape(D, R, W, lv, cs), NEW c1, NEW c2,
         NEW R2, NEW W2, NEW lv2, NEW cs2, Shape(D, R2, W2, lv2, cs2), Two(R, W, c1, c2),
         MergedInto(R, W, lv, cs, c1, c2, R2, W2, lv2, cs2),
         NEW s \in D, NEW q \in D, Behind(R, W, lv, cs, s, q)
  PROVE  Behind(R2, W2, lv2, cs2, s, q)
<1>1. PICK r \in R : s \in lv[r]
  BY Zenon DEF Shape
<1>2. PICK p \in R : q \in lv[p]
  BY Zenon DEF Shape
<1>3. /\ NewRoot(c1, c2, r) \in R2 /\ s \in lv2[NewRoot(c1, c2, r)]
      /\ \A x \in R2 : s \in lv2[x] => x = NewRoot(c1, c2, r)
      /\ cs2[s] = IF r = c1 \/ r = c2 THEN cs[s] + 1 ELSE cs[s]
  <2>1. ItsRoot(R2, lv2, cs, cs2, c1, c2, s, r)
    BY <1>1, NewRootIs, Zenon
  <2> QED
    BY <2>1, Zenon DEF ItsRoot
<1>4. /\ NewRoot(c1, c2, p) \in R2 /\ q \in lv2[NewRoot(c1, c2, p)]
      /\ \A x \in R2 : q \in lv2[x] => x = NewRoot(c1, c2, p)
      /\ cs2[q] = IF p = c1 \/ p = c2 THEN cs[q] + 1 ELSE cs[q]
  <2>1. ItsRoot(R2, lv2, cs, cs2, c1, c2, q, p)
    BY <1>2, NewRootIs, Zenon
  <2> QED
    BY <2>1, Zenon DEF ItsRoot
<1> DEFINE a == cs[s]
           b == cs[q]
           r2 == NewRoot(c1, c2, r)
           p2 == NewRoot(c1, c2, p)
<1>5. a \in Nat /\ b \in Nat
  BY DEF Shape
<1>6. a <= b /\ (r # p => Gap(R, W, a, b, r, p))
  BY <1>1, <1>2, Zenon DEF Behind
<1>7. c1 \in R /\ c2 \in R /\ c1 # c2
  BY Zenon DEF MergedInto
<1>8. SUFFICES cs2[s] <= cs2[q] /\ (r2 # p2 => Gap(R2, W2, cs2[s], cs2[q], r2, p2))
  BY <1>3, <1>4, Zenon DEF Behind
<1>9. CASE r \in {c1, c2} /\ p \in {c1, c2}
  <2>1. r2 = c1 /\ p2 = c1
    BY <1>9 DEF NewRoot
  <2>2. cs2[s] = a + 1 /\ cs2[q] = b + 1
    BY <1>3, <1>4, <1>9
  <2> QED
    BY <1>5, <1>6, <2>1, <2>2
<1>10. CASE r \in {c1, c2} /\ p \notin {c1, c2}
  <2>1. r2 = c1 /\ p2 = p /\ r # p
    BY <1>10 DEF NewRoot
  <2>2. cs2[s] = a + 1 /\ cs2[q] = b
    BY <1>3, <1>4, <1>10
  <2>3. PICK o \in R : o \in {c1, c2} /\ r # o
    BY <1>7, <1>10
  <2>4. a + 1 <= b /\ Gap(R2, W2, a + 1, b, c1, p)
    BY <1>5, <1>6, <1>10, <2>1, <2>3, GapNearer, Zenon
  <2> QED
    BY <2>1, <2>2, <2>4, Zenon
<1>11. CASE r \notin {c1, c2} /\ p \in {c1, c2}
  <2>1. r2 = r /\ p2 = c1 /\ r # p
    BY <1>11 DEF NewRoot
  <2>2. cs2[s] = a /\ cs2[q] = b + 1
    BY <1>3, <1>4, <1>11
  <2>3. PICK o \in R : o \in {c1, c2} /\ p # o
    BY <1>7, <1>11
  <2>4. a <= b + 1 /\ Gap(R2, W2, a, b + 1, r, c1)
    BY <1>5, <1>6, <1>11, <2>1, <2>3, GapDeeper, Zenon
  <2> QED
    BY <2>1, <2>2, <2>4, Zenon
<1>12. CASE r \notin {c1, c2} /\ p \notin {c1, c2}
  <2>1. r2 = r /\ p2 = p
    BY <1>12 DEF NewRoot
  <2>2. cs2[s] = a /\ cs2[q] = b
    BY <1>3, <1>4, <1>12
  <2>3. r # p => Gap(R2, W2, a, b, r, p)
    BY <1>6, <1>12, GapKept, Zenon
  <2> QED
    BY <1>6, <2>1, <2>2, <2>3, Zenon
<1> QED
  BY <1>9, <1>10, <1>11, <1>12

(* A root's weight is the number of occurrences of its leaves.              *)
Of(occ, key, A) == {o \in occ : key[o] \in A}
Weighed(occ, key, R, W, lv) == \A r \in R : W[r] = Cardinality(Of(occ, key, lv[r]))
LEMMA WeighedStep ==
  ASSUME NEW occ, IsFiniteSet(occ), NEW key,
         NEW D, NEW R, NEW W, NEW lv, NEW cs, Shape(D, R, W, lv, cs), NEW c1, NEW c2,
         NEW R2, NEW W2, NEW lv2, NEW cs2,
         MergedInto(R, W, lv, cs, c1, c2, R2, W2, lv2, cs2), Weighed(occ, key, R, W, lv)
  PROVE  Weighed(occ, key, R2, W2, lv2)
<1> SUFFICES ASSUME NEW r \in R2 PROVE W2[r] = Cardinality(Of(occ, key, lv2[r]))
  BY DEF Weighed
<1>1. c1 \in R /\ c2 \in R /\ c1 # c2 /\ R2 = R \ {c2}
  BY Zenon DEF MergedInto
<1>2. CASE r = c1
  <2> DEFINE A == Of(occ, key, lv[c1])
             B == Of(occ, key, lv[c2])
  <2>1. A \in SUBSET occ /\ B \in SUBSET occ
    BY DEF Of
  <2>2. lv[c1] \intersect lv[c2] = {}
    BY <1>1, Zenon DEF Shape
  <2>3. A \intersect B = {} /\ Of(occ, key, lv[c1] \union lv[c2]) = A \union B
    BY <2>2 DEF Of
  <2>4. W[c1] = Cardinality(A) /\ W[c2] = Cardinality(B)
    BY <1>1, Zenon DEF Weighed
  <2>5. W2[c1] = W[c1] + W[c2] /\ lv2[c1] = lv[c1] \union lv[c2]
    BY Zenon DEF MergedInto
  <2> HIDE DEF A, B
  <2>6. IsFiniteSet(A) /\ IsFiniteSet(B)
    BY <2>1, FS_Subset
  <2>7. Cardinality(A \union B) = Cardinality(A) + Cardinality(B) - Cardinality({})
    BY <2>3, <2>6, FS_Union
  <2>8. Cardinality({}) = 0 /\ Cardinality(A) \in Nat /\ Cardinality(B) \in Nat
    BY <2>6, FS_EmptySet, FS_CardinalityType
  <2>9. Cardinality(A \union B) = Cardinality(A) + Cardinality(B)
    BY <2>7, <2>8
  <2> QED
    BY <1>2, <2>3, <2>4, <2>5, <2>9
<1>3. CASE r # c1
  <2>1. r \in R /\ W2[r] = W[r] /\ lv2[r] = lv[r]
    BY <1>1, <1>3 DEF MergedInto
  <2> QED
    BY <2>1, Zenon DEF Weighed
<1> QED
  BY <1>2, <1>3

(* Each tree is complete: of d[l] nodes at depth l, n[l] are leaves and the *)
(* others have two children.                                                *)
FullTree(d, n) ==
  /\ d \in [Nat -> Nat] /\ d[0] = 1
  /\ \A l \in Nat : n[l] <= d[l] /\ d[l + 1] = 2 * (d[l] - n[l])
  /\ \E L \in Nat : \A l \in Nat : l >= L => d[l] = 0
AtDepth(A, cs, l) == {s \in A : cs[s] = l}
Depths(A, cs) == [l \in Nat |-> Cardinality(AtDepth(A, cs, l))]
Trees(R, lv, cs) == \A r \in R : \E d : FullTree(d, Depths(lv[r], cs))

(* How many of some leaves there are at each depth.                         *)
LEMMA DepthsAre ==
  ASSUME NEW A, IsFiniteSet(A), NEW cs
  PROVE  /\ Depths(A, cs) \in [Nat -> Nat]
         /\ \A l \in Nat : Depths(A, cs)[l] = Cardinality(AtDepth(A, cs, l)) /\ IsFiniteSet(AtDepth(A, cs, l))
<1>1. ASSUME NEW l \in Nat PROVE IsFiniteSet(AtDepth(A, cs, l)) /\ Cardinality(AtDepth(A, cs, l)) \in Nat
  <2>1. AtDepth(A, cs, l) \in SUBSET A
    BY DEF AtDepth
  <2> QED
    BY <2>1, FS_Subset, FS_CardinalityType
<1> QED
  BY <1>1 DEF Depths

(* Two full trees under a new root are a full tree.                         *)
LEMMA FullJoin ==
  ASSUME NEW n1 \in [Nat -> Nat], NEW n2 \in [Nat -> Nat], NEW n \in [Nat -> Nat],
         NEW d1, NEW d2, FullTree(d1, n1), FullTree(d2, n2),
         n[0] = 0, \A l \in Nat : n[l + 1] = n1[l] + n2[l]
  PROVE  \E d : FullTree(d, n)
<1> DEFINE d == [l \in Nat |-> IF l = 0 THEN 1 ELSE d1[l - 1] + d2[l - 1]]
<1>1. d1 \in [Nat -> Nat] /\ d2 \in [Nat -> Nat] /\ d1[0] = 1 /\ d2[0] = 1
  BY DEF FullTree
<1>2. ASSUME NEW l \in Nat PROVE d[l + 1] = d1[l] + d2[l] /\ d[l + 1] \in Nat
  <2>1. l + 1 \in Nat /\ l + 1 # 0 /\ (l + 1) - 1 = l /\ d1[l] \in Nat /\ d2[l] \in Nat
    BY <1>1, SMTT(40)
  <2> QED
    BY <2>1, SMTT(40)
<1>3. d[0] = 1
  OBVIOUS
<1>4. d \in [Nat -> Nat]
  <2>1. \A l \in Nat : l # 0 => l - 1 \in Nat
    OBVIOUS
  <2> QED
    BY <1>1, <2>1, SMTT(40)
<1> HIDE DEF d
<1>5. ASSUME NEW l \in Nat PROVE n[l] <= d[l] /\ d[l + 1] = 2 * (d[l] - n[l])
  <2>1. CASE l = 0
    <3>1. d[0 + 1] = d1[0] + d2[0]
      BY <1>2
    <3>2. d[l + 1] = 2
      BY <1>1, <2>1, <3>1
    <3>3. n[l] = 0 /\ d[l] = 1
      BY <1>3, <2>1
    <3> QED
      BY <3>2, <3>3
  <2>2. CASE l # 0
    <3> DEFINE k == l - 1
    <3>1. k \in Nat /\ k + 1 = l
      BY <2>2
    <3> HIDE DEF k
    <3>2. n1[k] <= d1[k] /\ d1[k + 1] = 2 * (d1[k] - n1[k]) /\ n2[k] <= d2[k] /\ d2[k + 1] = 2 * (d2[k] - n2[k])
      BY <3>1, Zenon DEF FullTree
    <3>3. n[k + 1] = n1[k] + n2[k] /\ d[k + 1] = d1[k] + d2[k]
      BY <1>2, <3>1
    <3>4. d[l + 1] = d1[l] + d2[l]
      BY <1>2
    <3>5. d1[k] \in Nat /\ d2[k] \in Nat /\ n1[k] \in Nat /\ n2[k] \in Nat
      BY <1>1, <3>1
    <3>6. n[l] = n1[k] + n2[k] /\ d[l] = d1[k] + d2[k]
      BY <3>1, <3>3, Zenon
    <3>7. d1[l] = 2 * (d1[k] - n1[k]) /\ d2[l] = 2 * (d2[k] - n2[k])
      BY <3>1, <3>2, Zenon
    <3>8. d[l + 1] = 2 * (d1[k] - n1[k]) + 2 * (d2[k] - n2[k])
      BY <3>4, <3>7, Zenon
    <3>9. n1[k] <= d1[k] /\ n2[k] <= d2[k]
      BY <3>2, Zenon
    <3>10. /\ n1[k] + n2[k] <= d1[k] + d2[k]
           /\ 2 * (d1[k] - n1[k]) + 2 * (d2[k] - n2[k]) = 2 * ((d1[k] + d2[k]) - (n1[k] + n2[k]))
      <4> DEFINE a1 == n1[k]
                 a2 == n2[k]
                 b1 == d1[k]
                 b2 == d2[k]
      <4>1. a1 \in Nat /\ a2 \in Nat /\ b1 \in Nat /\ b2 \in Nat /\ a1 <= b1 /\ a2 <= b2
        BY <3>5, <3>9
      <4> HIDE DEF a1, a2, b1, b2
      <4>2. a1 + a2 <= b1 + b2 /\ 2 * (b1 - a1) + 2 * (b2 - a2) = 2 * ((b1 + b2) - (a1 + a2))
        BY <4>1
      <4> QED
        BY <4>2, Zenon DEF a1, a2, b1, b2
    <3> QED
      BY <3>6, <3>8, <3>10, Zenon
  <2> QED
    BY <2>1, <2>2
<1>6. PICK L1 \in Nat : \A l \in Nat : l >= L1 => d1[l] = 0
  BY Zenon DEF FullTree
<1>7. PICK L2 \in Nat : \A l \in Nat : l >= L2 => d2[l] = 0
  BY Zenon DEF FullTree
<1>8. ASSUME NEW l \in Nat, l >= L1 + L2 + 1 PROVE d[l] = 0
  <2> DEFINE k == l - 1
  <2>1. k \in Nat /\ k + 1 = l /\ k >= L1 /\ k >= L2
    BY <1>8
  <2> HIDE DEF k
  <2>2. d1[k] = 0 /\ d2[k] = 0 /\ d[k + 1] = d1[k] + d2[k]
    BY <1>2, <1>6, <1>7, <2>1
  <2> QED
    BY <2>1, <2>2
<1>9. \E L \in Nat : \A l \in Nat : l >= L => d[l] = 0
  <2>1. L1 + L2 + 1 \in Nat
    OBVIOUS
  <2> QED
    BY <1>8, <2>1
<1>10. FullTree(d, n)
  BY <1>3, <1>4, <1>5, <1>9, Zenon DEF FullTree
<1> QED
  BY <1>10

(* A merge leaves a forest of full trees.                                   *)
LEMMA TreesStep ==
  ASSUME NEW D, IsFiniteSet(D), NEW R, NEW W, NEW lv, NEW cs, Shape(D, R, W, lv, cs), NEW c1, NEW c2,
         NEW R2, NEW W2, NEW lv2, NEW cs2, Shape(D, R2, W2, lv2, cs2),
         MergedInto(R, W, lv, cs, c1, c2, R2, W2, lv2, cs2), Trees(R, lv, cs)
  PROVE  Trees(R2, lv2, cs2)
<1> SUFFICES ASSUME NEW r \in R2 PROVE \E d : FullTree(d, Depths(lv2[r], cs2))
  BY DEF Trees
<1>1. c1 \in R /\ c2 \in R /\ c1 # c2 /\ R2 = R \ {c2} /\ lv2[c1] = lv[c1] \union lv[c2]
  BY Zenon DEF MergedInto
<1>2. \A x \in R : lv[x] \in SUBSET D /\ IsFiniteSet(lv[x])
  <2>1. \A x \in R : lv[x] \in SUBSET D
    BY DEF Shape
  <2> QED
    BY <2>1, FS_Subset
<1>3. \A x, y \in R : x # y => lv[x] \intersect lv[y] = {}
  BY Zenon DEF Shape
<1>4. \A s \in D : /\ s \in lv[c1] \union lv[c2] => cs2[s] = cs[s] + 1
                   /\ s \notin lv[c1] \union lv[c2] => cs2[s] = cs[s]
                   /\ cs[s] \in Nat
  <2> TAKE s \in D
  <2>1. s \in DOMAIN cs /\ cs[s] \in Nat
    BY DEF Shape
  <2>2. cs2[s] = cs[s] + (IF s \in lv[c1] \union lv[c2] THEN 1 ELSE 0)
    BY <2>1, Zenon DEF MergedInto
  <2> QED
    BY <2>1, <2>2
<1>5. CASE r = c1
  <2> DEFINE A == lv[c1]
             B == lv[c2]
             n1 == Depths(A, cs)
             n2 == Depths(B, cs)
             n == Depths(A \union B, cs2)
  <2>1. IsFiniteSet(A) /\ IsFiniteSet(B) /\ IsFiniteSet(A \union B) /\ A \intersect B = {}
    BY <1>1, <1>2, <1>3, FS_Union
  <2>2. A \subseteq D /\ B \subseteq D
    BY <1>1, <1>2
  <2>3. PICK d1 : FullTree(d1, n1)
    BY <1>1, Zenon DEF Trees
  <2>4. PICK d2 : FullTree(d2, n2)
    BY <1>1, Zenon DEF Trees
  <2> HIDE DEF A, B
  <2>5. n1 \in [Nat -> Nat] /\ n2 \in [Nat -> Nat] /\ n \in [Nat -> Nat]
    BY <2>1, DepthsAre, Zenon
  <2>6. \A s \in A \union B : cs2[s] = cs[s] + 1 /\ cs[s] \in Nat
    BY <1>4, <2>2 DEF A, B
  <2>7. n[0] = 0
    <3>1. AtDepth(A \union B, cs2, 0) = {}
      BY <2>6 DEF AtDepth
    <3>2. n[0] = Cardinality(AtDepth(A \union B, cs2, 0))
      BY <2>1, DepthsAre
    <3> QED
      BY <3>1, <3>2, FS_EmptySet
  <2>8. ASSUME NEW l \in Nat PROVE n[l + 1] = n1[l] + n2[l]
    <3> DEFINE P == AtDepth(A, cs, l)
               Q == AtDepth(B, cs, l)
    <3>1. AtDepth(A \union B, cs2, l + 1) = P \union Q /\ P \intersect Q = {}
      BY <2>1, <2>6 DEF AtDepth
    <3>2. n1[l] = Cardinality(P) /\ n2[l] = Cardinality(Q) /\ IsFiniteSet(P) /\ IsFiniteSet(Q)
      BY <2>1, DepthsAre
    <3>3. n[l + 1] = Cardinality(P \union Q)
      <4>1. l + 1 \in Nat
        OBVIOUS
      <4> HIDE DEF P, Q
      <4> QED
        BY <2>1, <3>1, <4>1, DepthsAre
    <3> HIDE DEF P, Q
    <3>4. Cardinality(P \union Q) = Cardinality(P) + Cardinality(Q) - Cardinality({})
      BY <3>1, <3>2, FS_Union
    <3>5. Cardinality({}) = 0 /\ Cardinality(P) \in Nat /\ Cardinality(Q) \in Nat
      BY <3>2, FS_EmptySet, FS_CardinalityType
    <3>6. Cardinality(P \union Q) = Cardinality(P) + Cardinality(Q)
      BY <3>4, <3>5
    <3> HIDE DEF n, n1, n2
    <3> QED
      BY <3>2, <3>3, <3>6
  <2> HIDE DEF n, n1, n2
  <2>9. \E d : FullTree(d, n)
    BY <2>3, <2>4, <2>5, <2>7, <2>8, FullJoin
  <2> QED
    BY <1>1, <1>5, <2>9, Zenon DEF n, A, B
<1>6. CASE r # c1
  <2>1. r \in R /\ r # c2 /\ lv2[r] = lv[r]
    BY <1>1, <1>6 DEF MergedInto
  <2>2. \A s \in lv[r] : cs2[s] = cs[s]
    BY <1>1, <1>2, <1>3, <1>4, <1>6, <2>1
  <2>3. \A l : AtDepth(lv[r], cs2, l) = AtDepth(lv[r], cs, l)
    BY <2>2 DEF AtDepth
  <2>4. Depths(lv[r], cs2) = Depths(lv[r], cs)
    BY <2>3, Zenon DEF Depths
  <2>5. \E d : FullTree(d, Depths(lv[r], cs))
    BY <2>1, Zenon DEF Trees
  <2> QED
    BY <2>1, <2>4, <2>5, Zenon
<1> QED
  BY <1>5, <1>6


(* All of it, and that merging keeps it.                                    *)
Above(counted, s, q) == counted[s] > counted[q] \/ (q = PSEUDO /\ s # q)
Grown(D, counted, occ, key, R, W, lv, cs) ==
  /\ Shape(D, R, W, lv, cs) /\ Weighed(occ, key, R, W, lv) /\ Trees(R, lv, cs)
  /\ \A s, q \in D : Above(counted, s, q) => Behind(R, W, lv, cs, s, q)
GrownForest(D, counted, occ, key, t) ==
  Grown(D, counted, occ, key, t.roots, t.freq, t.leaves, t.codesize)

GrowsTo(D, counted, occ, key, t, t2) ==
  /\ t2 \in Forests(D) /\ GrownForest(D, counted, occ, key, t2)
  /\ Cardinality(t2.roots) = Cardinality(t.roots) - 1
LEMMA GrownStep ==
  ASSUME NEW D, D \subseteq 0..256, NEW occ, IsFiniteSet(occ), Cardinality(occ) <= MAX_WEIGHT,
         NEW key, NEW counted, NEW t \in Forests(D), GrownForest(D, counted, occ, key, t),
         NEW a \in t.roots, NEW b \in t.roots, a # b
  PROVE  GrowsTo(D, counted, occ, key, t, Merge(t))
<1> DEFINE R == t.roots
           W == t.freq
           lv == t.leaves
           cs == t.codesize
           R2 == Merge(t).roots
           W2 == Merge(t).freq
           lv2 == Merge(t).leaves
           cs2 == Merge(t).codesize
<1>1. IsFiniteSet(D)
  <2>1. IsFiniteSet(0..256)
    BY SymbolsFinite
  <2> QED
    BY <2>1, FS_Subset
<1>2. /\ Shape(D, R, W, lv, cs) /\ Weighed(occ, key, R, W, lv) /\ Trees(R, lv, cs)
      /\ \A s, q \in D : Above(counted, s, q) => Behind(R, W, lv, cs, s, q)
  BY Zenon DEF GrownForest, Grown
<1>3. \A r \in R : W[r] <= MAX_WEIGHT
  <2> TAKE r \in R
  <2> DEFINE A == Of(occ, key, lv[r])
  <2>1. W[r] = Cardinality(A) /\ A \in SUBSET occ
    BY <1>2, Zenon DEF Weighed, Of
  <2> HIDE DEF A, W
  <2>2. Cardinality(A) <= Cardinality(occ) /\ Cardinality(A) \in Nat /\ Cardinality(occ) \in Nat
    BY <2>1, FS_Subset, FS_CardinalityType
  <2> QED
    BY <2>1, <2>2 DEF MAX_WEIGHT
<1>4. Merge(t) \in Forests(D)
  BY <1>3, MergeIs
<1>5. PICK c1, c2 : Two(R, W, c1, c2) /\ MergedInto(R, W, lv, cs, c1, c2, R2, W2, lv2, cs2)
  BY <1>3, MergeIs
<1>6. W2 \in [D -> Nat] /\ lv2 \in [D -> SUBSET D] /\ cs2 \in [D -> Nat]
  <2> DEFINE u == Merge(t)
  <2> HIDE DEF u
  <2>1. u \in Forests(D)
    BY <1>4 DEF u
  <2>2. u.freq \in [D -> Nat] /\ u.leaves \in [D -> SUBSET D] /\ u.codesize \in [D -> Nat]
    BY <2>1 DEF Forests
  <2> QED
    BY <2>2 DEF u
<1> HIDE DEF R, W, lv, cs, R2, W2, lv2, cs2
<1>7. Shape(D, R2, W2, lv2, cs2)
  BY <1>2, <1>5, <1>6, ShapeStep, Zenon
<1>8. Weighed(occ, key, R2, W2, lv2)
  BY <1>2, <1>5, WeighedStep, Zenon
<1>9. Trees(R2, lv2, cs2)
  BY <1>1, <1>2, <1>5, <1>7, TreesStep, Zenon
<1>10. \A s, q \in D : Above(counted, s, q) => Behind(R2, W2, lv2, cs2, s, q)
  BY <1>2, <1>5, <1>7, BehindStep, Zenon
<1>11. Cardinality(R2) = Cardinality(R) - 1
  <2>1. R2 = R \ {c2} /\ c2 \in R /\ R \subseteq D
    BY <1>2, <1>5 DEF MergedInto, Shape
  <2>2. IsFiniteSet(R)
    BY <1>1, <2>1, FS_Subset
  <2> QED
    BY <2>1, <2>2, FS_RemoveElement
<1>12. Grown(D, counted, occ, key, R2, W2, lv2, cs2)
  BY <1>7, <1>8, <1>9, <1>10, Zenon DEF Grown
<1>13. GrownForest(D, counted, occ, key, Merge(t))
  BY <1>12, Zenon DEF GrownForest, R2, W2, lv2, cs2
<1> QED
  BY <1>4, <1>11, <1>13, Zenon DEF R, R2, GrowsTo

(* The forest merging begins with.                                          *)
LEMMA SingleLeaf ==
  ASSUME NEW s, NEW cs, cs[s] = 0
  PROVE  \E d : FullTree(d, Depths({s}, cs))
<1> DEFINE n == Depths({s}, cs)
           d == [l \in Nat |-> IF l = 0 THEN 1 ELSE 0]
<1>1. \A l \in Nat : n[l] = Cardinality(AtDepth({s}, cs, l))
  BY DEF Depths
<1>2. AtDepth({s}, cs, 0) = {s} /\ \A l \in Nat : l # 0 => AtDepth({s}, cs, l) = {}
  BY DEF AtDepth
<1>3. Cardinality({s}) = 1 /\ Cardinality({}) = 0
  BY FS_Singleton, FS_EmptySet
<1> HIDE DEF n
<1>4. n[0] = 1 /\ \A l \in Nat : l # 0 => n[l] = 0
  BY <1>1, <1>2, <1>3
<1>5. d \in [Nat -> Nat] /\ d[0] = 1 /\ \A l \in Nat : l # 0 => d[l] = 0
  OBVIOUS
<1> HIDE DEF d
<1>6. \A l \in Nat : n[l] <= d[l] /\ d[l + 1] = 2 * (d[l] - n[l])
  <2> TAKE l \in Nat
  <2>1. l + 1 \in Nat /\ l + 1 # 0
    OBVIOUS
  <2>2. d[l + 1] = 0
    BY <1>5, <2>1
  <2> QED
    BY <1>4, <1>5, <2>2
<1>7. 1 \in Nat /\ \A l \in Nat : l >= 1 => d[l] = 0
  <2>1. \A l \in Nat : l >= 1 => l # 0
    OBVIOUS
  <2> QED
    BY <1>5, <2>1
<1>8. FullTree(d, n)
  BY <1>5, <1>6, <1>7, Zenon DEF FullTree
<1> QED
  BY <1>8 DEF n

Sown(D, counted, occ, key, t) ==
  t \in Forests(D) /\ t.roots = D /\ GrownForest(D, counted, occ, key, t)
LEMMA Seeded ==
  ASSUME NEW D, D \subseteq 0..256, NEW counted \in [D -> Nat \ {0}], PSEUDO \in D, counted[PSEUDO] = 1,
         NEW occ, NEW key, \A s \in D : Cardinality(Of(occ, key, {s})) = counted[s]
  PROVE  Sown(D, counted, occ, key, Seedlings(counted))
<1> DEFINE t == Seedlings(counted)
           lv == [s \in D |-> {s}]
           cs == [s \in D |-> 0]
<1>1. t = [roots |-> D, freq |-> counted, leaves |-> lv, codesize |-> cs]
  BY DEF Seedlings
<1>2. counted \in [D -> Nat] /\ lv \in [D -> SUBSET D] /\ cs \in [D -> Nat]
  OBVIOUS
<1>3. t.roots = D /\ t.freq = counted /\ t.leaves = lv /\ t.codesize = cs
  BY <1>1
<1>4. t \in Forests(D)
  <2>1. D \in SUBSET D
    OBVIOUS
  <2> HIDE DEF t, lv, cs
  <2> QED
    BY <1>1, <1>2, <2>1 DEF Forests
<1>5. \A s \in D : lv[s] = {s} /\ cs[s] = 0 /\ counted[s] \in Nat /\ counted[s] > 0
  OBVIOUS
<1> HIDE DEF t, lv, cs
<1>6. Shape(D, D, counted, lv, cs)
  BY <1>2, <1>5 DEF Shape
<1>7. Weighed(occ, key, D, counted, lv)
  BY <1>5 DEF Weighed
<1>8. Trees(D, lv, cs)
  <2> SUFFICES ASSUME NEW s \in D PROVE \E d : FullTree(d, Depths(lv[s], cs))
    BY DEF Trees
  <2>1. cs[s] = 0 /\ lv[s] = {s}
    BY <1>5
  <2>2. \E d : FullTree(d, Depths({s}, cs))
    BY <2>1, SingleLeaf, Zenon
  <2> QED
    BY <2>1, <2>2, Zenon
<1>9. ASSUME NEW s \in D, NEW q \in D, Above(counted, s, q) PROVE Behind(D, counted, lv, cs, s, q)
  <2>1. cs[s] = 0 /\ cs[q] = 0
    BY <1>5
  <2>2. Pre(counted[q], q, counted[s])
    <3>1. CASE counted[s] > counted[q]
      <4>1. counted[q] < counted[s]
        BY <1>5, <3>1
      <4> QED
        BY <4>1, Zenon DEF Pre
    <3>2. CASE q = PSEUDO /\ s # q
      <4>1. counted[q] = 1 /\ counted[s] \in Nat /\ counted[s] > 0
        BY <1>5, <3>2
      <4>2. counted[q] < counted[s] \/ counted[q] = counted[s]
        BY <4>1
      <4> QED
        BY <3>2, <4>2, Zenon DEF Pre
    <3> QED
      BY <1>9, <3>1, <3>2 DEF Above
  <2>3. Gap(D, counted, 0, 0, s, q)
    BY <2>2 DEF Gap
  <2>4. ASSUME NEW r \in D, NEW p \in D, s \in lv[r], q \in lv[p] PROVE r = s /\ p = q
    BY <1>5, <2>4
  <2>5. ASSUME NEW r \in D, NEW p \in D, s \in lv[r] /\ q \in lv[p] /\ r # p
        PROVE  Gap(D, counted, cs[s], cs[q], r, p)
    <3>1. r = s /\ p = q
      BY <2>4, <2>5
    <3> QED
      BY <2>1, <2>3, <3>1
  <2>6. cs[s] <= cs[q]
    BY <2>1
  <2> QED
    BY <2>5, <2>6, Zenon DEF Behind
<1>10. Grown(D, counted, occ, key, D, counted, lv, cs)
  BY <1>6, <1>7, <1>8, <1>9, Zenon DEF Grown
<1>11. GrownForest(D, counted, occ, key, t)
  BY <1>3, <1>10, Zenon DEF GrownForest
<1> QED
  BY <1>3, <1>4, <1>11, Zenon DEF t, Sown

(* The one tree it ends with.                                               *)
LEMMA TwoOf ==
  ASSUME NEW R, IsFiniteSet(R), Cardinality(R) >= 2
  PROVE  \E a, b \in R : a # b
<1>1. PICK a \in R : TRUE
  <2>1. R # {}
    BY FS_EmptySet
  <2> QED
    BY <2>1
<1>2. R \ {a} # {}
  <2>1. IsFiniteSet(R \ {a}) /\ Cardinality(R \ {a}) = Cardinality(R) - 1 /\ Cardinality(R) \in Nat
    BY <1>1, FS_RemoveElement, FS_CardinalityType
  <2>2. Cardinality(R \ {a}) # 0
    BY <2>1
  <2> QED
    BY <2>1, <2>2, FS_EmptySet
<1> QED
  BY <1>1, <1>2

(* After one merge for each symbol but one, a single tree is left.          *)
LEMMA FinalForest ==
  ASSUME NEW D, D \subseteq 0..256, NEW counted \in [D -> Nat \ {0}], PSEUDO \in D, counted[PSEUDO] = 1,
         NEW occ, IsFiniteSet(occ), Cardinality(occ) <= MAX_WEIGHT,
         NEW key, \A s \in D : Cardinality(Of(occ, key, {s})) = counted[s]
  PROVE  \E t \in Forests(D) : /\ codesizes(counted) = t.codesize /\ Cardinality(t.roots) = 1
                               /\ GrownForest(D, counted, occ, key, t)
<1> DEFINE last == Cardinality(DOMAIN counted) - 1
           Eq(f) == f = [n \in 0..last |-> IF n = 0 THEN Seedlings(counted) ELSE Merge(f[n - 1])]
           c == CHOOSE f : Eq(f)
           F == Forests(D)
           step == [a \in (1..last) \X F |-> Merge(a[2])]
           X == [n \in 0..last |-> {t \in F : /\ GrownForest(D, counted, occ, key, t)
                                              /\ Cardinality(t.roots) = last + 1 - n}]
<1>1. IsFiniteSet(D) /\ Cardinality(D) \in Nat /\ Cardinality(D) = last + 1 /\ last \in Nat
  <2>1. IsFiniteSet(0..256)
    BY SymbolsFinite
  <2>2. IsFiniteSet(D)
    BY <2>1, FS_Subset
  <2>3. Cardinality(D) \in Nat /\ Cardinality(D) # 0
    BY <2>2, FS_CardinalityType, FS_EmptySet
  <2>4. DOMAIN counted = D
    OBVIOUS
  <2> QED
    BY <2>2, <2>3, <2>4
<1> HIDE DEF last, F
<1>2. \A n \in 0..last : /\ X[n] \subseteq F
                         /\ \A t : t \in X[n] <=> /\ t \in F /\ GrownForest(D, counted, occ, key, t)
                                                  /\ Cardinality(t.roots) = last + 1 - n
  OBVIOUS
<1>3. \A n \in 1..last : \A t \in F : step[<<n, t>>] = Merge(t)
  OBVIOUS
<1> HIDE DEF X, step
<1>4. Seedlings(counted) \in X[0]
  <2>1. /\ Seedlings(counted) \in F /\ Seedlings(counted).roots = D
        /\ GrownForest(D, counted, occ, key, Seedlings(counted))
    <3>1. Sown(D, counted, occ, key, Seedlings(counted))
      BY Seeded, Zenon
    <3> QED
      BY <3>1, Zenon DEF F, Sown
  <2>2. 0 \in 0..last /\ Cardinality(D) = last + 1 - 0
    BY <1>1
  <2> QED
    BY <1>2, <2>1, <2>2, Zenon
<1>5. ASSUME NEW n \in 1..last, NEW t \in X[n - 1] PROVE Merge(t) \in X[n]
  <2>1. n - 1 \in 0..last /\ n \in 0..last
    BY <1>1
  <2>2. t \in F /\ GrownForest(D, counted, occ, key, t) /\ Cardinality(t.roots) = last + 1 - (n - 1)
    BY <1>2, <2>1, Zenon
  <2>3. IsFiniteSet(t.roots)
    <3>1. t.roots \in SUBSET D
      BY <2>2, Zenon DEF GrownForest, Grown, Shape
    <3> QED
      BY <1>1, <3>1, FS_Subset
  <2>4. Cardinality(t.roots) >= 2
    BY <1>1, <2>2
  <2>5. PICK a \in t.roots, b \in t.roots : a # b
    BY <2>3, <2>4, TwoOf
  <2>6. /\ Merge(t) \in F /\ GrownForest(D, counted, occ, key, Merge(t))
        /\ Cardinality(Merge(t).roots) = Cardinality(t.roots) - 1
    <3>1. t \in Forests(D) /\ GrownForest(D, counted, occ, key, t)
      BY <2>2, Zenon DEF F
    <3>2. GrowsTo(D, counted, occ, key, t, Merge(t))
      BY <2>5, <3>1, GrownStep, Zenon
    <3> QED
      BY <3>2, Zenon DEF F, GrowsTo
  <2>7. Cardinality(Merge(t).roots) = last + 1 - n
    <3>1. (last + 1 - (n - 1)) - 1 = last + 1 - n
      BY <1>1
    <3> QED
      BY <2>2, <2>6, <3>1, Zenon
  <2> QED
    BY <1>2, <2>1, <2>6, <2>7, Zenon
<1>6. Makes(Seedlings(counted), step, last, X, F)
  <2>1. ASSUME NEW n \in 1..last, NEW t \in X[n - 1] PROVE step[<<n, t>>] \in X[n]
    <3>1. n - 1 \in 0..last
      BY <1>1
    <3>2. t \in F
      BY <1>2, <3>1
    <3> QED
      BY <1>3, <1>5, <3>2, Zenon
  <2> QED
    BY <1>2, <1>4, <2>1, Zenon DEF Makes
<1>7. PICK f : IsMade(f, Seedlings(counted), step, last, X, F)
  BY <1>1, <1>6, Recursion
<1>8. /\ f \in [0..last -> F] /\ f[0] = Seedlings(counted)
      /\ \A n \in 1..last : f[n] = step[<<n, f[n - 1]>>]
  BY <1>7, Zenon DEF IsMade
<1>9. \A n \in 1..last : f[n] = Merge(f[n - 1])
  <2> TAKE n \in 1..last
  <2>1. n - 1 \in 0..last
    BY <1>1
  <2>2. f[n - 1] \in F
    BY <1>8, <2>1
  <2> QED
    BY <1>3, <1>8, <2>2, Zenon
<1>10. Eq(f)
  <2>1. \A n \in 0..last : f[n] = IF n = 0 THEN Seedlings(counted) ELSE Merge(f[n - 1])
    <3> TAKE n \in 0..last
    <3>1. CASE n = 0
      BY <1>8, <3>1
    <3>2. CASE n # 0
      <4>1. n \in 1..last
        BY <3>2
      <4> QED
        BY <1>9, <3>2, <4>1, Zenon
    <3> QED
      BY <3>1, <3>2
  <2> QED
    BY <1>8, <2>1
<1>11. Eq(c)
  BY <1>10
<1> HIDE DEF c
<1>12. c[0] = Seedlings(counted) /\ \A n \in 1..last : c[n] = Merge(c[n - 1])
  <2>1. 0 \in 0..last /\ \A n \in 1..last : n \in 0..last /\ n # 0
    BY <1>1
  <2>2. \A n \in 0..last : c[n] = IF n = 0 THEN Seedlings(counted) ELSE Merge(c[n - 1])
    BY <1>11
  <2> QED
    BY <2>1, <2>2, Zenon
<1>13. c[last] \in X[last]
  <2>1. c[0] \in X[0]
    BY <1>4, <1>12
  <2>2. \A n \in 1..last : c[n - 1] \in X[n - 1] => c[n] \in X[n]
    BY <1>5, <1>12, Zenon
  <2>3. \A n \in 0..last : c[n] \in X[n]
    BY <1>1, <2>1, <2>2, Along
  <2> QED
    BY <1>1, <2>3
<1>14. codesizes(counted) = c[last].codesize
  BY Zenon DEF codesizes, c, last
<1>15. /\ c[last] \in F /\ GrownForest(D, counted, occ, key, c[last])
       /\ Cardinality(c[last].roots) = last + 1 - last
  <2>1. last \in 0..last
    BY <1>1
  <2> QED
    BY <1>2, <1>13, <2>1, Zenon
<1>16. last + 1 - last = 1
  BY <1>1
<1> QED
  BY <1>14, <1>15, <1>16, Zenon DEF F

(* The lengths of the codes: those of a tree, no longer for what is more    *)
(* frequent, and longest for PSEUDO.                                        *)
Keyed(D, counted, occ, key) == \A s \in D : Cardinality(Of(occ, key, {s})) = counted[s]
Sized(D, counted, cs) ==
  /\ cs \in [D -> Nat]
  /\ \E d : FullTree(d, Depths(D, cs))
  /\ \A s, q \in D : Above(counted, s, q) => cs[s] <= cs[q]
LEMMA CodesizesAre ==
  ASSUME NEW D, D \subseteq 0..256, NEW counted \in [D -> Nat \ {0}], PSEUDO \in D, counted[PSEUDO] = 1,
         NEW occ, IsFiniteSet(occ), Cardinality(occ) <= MAX_WEIGHT,
         NEW key, Keyed(D, counted, occ, key)
  PROVE  Sized(D, counted, codesizes(counted))
<1>1. PICK t \in Forests(D) : /\ codesizes(counted) = t.codesize /\ Cardinality(t.roots) = 1
                              /\ GrownForest(D, counted, occ, key, t)
  BY FinalForest, Zenon DEF Keyed
<1> DEFINE R == t.roots
           W == t.freq
           lv == t.leaves
           cs == t.codesize
<1>2. /\ Shape(D, R, W, lv, cs) /\ Trees(R, lv, cs)
      /\ \A s, q \in D : Above(counted, s, q) => Behind(R, W, lv, cs, s, q)
  BY <1>1, Zenon DEF GrownForest, Grown
<1>3. Cardinality(R) = 1 /\ codesizes(counted) = cs
  BY <1>1
<1> HIDE DEF R, W, lv, cs
<1>4. cs \in [D -> Nat] /\ R \subseteq D
  BY <1>2, Zenon DEF Shape
<1>5. PICK r : R = {r}
  <2>1. IsFiniteSet(0..256)
    BY SymbolsFinite
  <2>2. R \subseteq 0..256
    BY <1>4
  <2>3. IsFiniteSet(R)
    BY <2>1, <2>2, FS_Subset
  <2> QED
    BY <1>3, <2>3, FS_Singleton
<1>6. lv[r] = D
  <2>1. \A s \in D : s \in lv[r]
    BY <1>2, <1>5 DEF Shape
  <2>2. lv[r] \subseteq D
    BY <1>2, <1>5 DEF Shape
  <2> QED
    BY <2>1, <2>2
<1>7. \E d : FullTree(d, Depths(D, cs))
  BY <1>2, <1>5, <1>6 DEF Trees
<1> QED
  BY <1>2, <1>3, <1>4, <1>7, Zenon DEF Behind, Sized

(***************************************************************************)
(* Lengths above 16 go in pairs, and the counts stay those of a full tree. *)
(***************************************************************************)
LEMMA GreatestIs ==
  ASSUME NEW n \in Nat, NEW S, S \subseteq 0..n, S # {}
  PROVE  Max(S) \in S /\ \A k \in S : k <= Max(S)
<1> DEFINE K == {n - k : k \in S}
<1>0. \A k \in 0..n : n - k \in Nat
  OBVIOUS
<1>1. K \subseteq Nat /\ K # {}
  BY <1>0
<1>2. PICK m \in K : \A k \in K : m <= k
  BY <1>1, LeastNat
<1>3. PICK x \in S : m = n - x
  BY <1>2
<1>4. \A y \in S : x >= y
  <2> TAKE y \in S
  <2>1. n - x <= n - y
    BY <1>2, <1>3
  <2>2. x \in 0..n /\ y \in 0..n
    OBVIOUS
  <2> QED
    BY <2>1, <2>2
<1>5. Max(S) \in S /\ \A y \in S : Max(S) >= y
  BY <1>4, Zenon DEF Max
<1>6. Max(S) \in 0..n
  BY <1>5
<1> DEFINE top == Max(S)
<1> HIDE DEF top
<1>7. top \in 0..n /\ top \in S /\ \A y \in S : top >= y
  BY <1>5, <1>6 DEF top
<1>8. \A y \in S : y <= top
  BY <1>7
<1> QED
  BY <1>7, <1>8 DEF top

(***************************************************************************)
(* The counts of the codes of a tree: of d[l] nodes at depth l, bits[l] are *)
(* leaves and the others have two children; u[l] leaves are not deeper.     *)
(***************************************************************************)
Profile(bits, d, u, N) ==
  /\ bits \in [1..32 -> Nat] /\ d \in [1..33 -> Nat] /\ u \in [0..32 -> Nat]
  /\ d[1] = 2 /\ d[33] = 0 /\ u[0] = 0 /\ u[32] = N
  /\ \A l \in 1..32 : bits[l] <= d[l] /\ d[l + 1] = 2 * (d[l] - bits[l]) /\ u[l] = u[l - 1] + bits[l]
Bounded(bits, i) == \A l \in 1..32 : l > i => bits[l] = 0

(* One level of a profile.                                                  *)
LEMMA ProfileAt ==
  ASSUME NEW bits, NEW d, NEW u, NEW N, Profile(bits, d, u, N), NEW l \in 1..32
  PROVE  /\ bits[l] \in Nat /\ d[l] \in Nat /\ d[l + 1] \in Nat /\ u[l] \in Nat /\ u[l - 1] \in Nat
         /\ bits[l] <= d[l] /\ d[l + 1] = 2 * (d[l] - bits[l]) /\ u[l] = u[l - 1] + bits[l]
<1>1. l \in 1..33 /\ l + 1 \in 1..33 /\ l \in 0..32 /\ l - 1 \in 0..32
  OBVIOUS
<1> QED
  BY <1>1 DEF Profile

(* Below the longest length there is no node.                               *)
LEMMA NoneDeeper ==
  ASSUME NEW bits, NEW d, NEW u, NEW N, Profile(bits, d, u, N), NEW i \in 0..32, Bounded(bits, i)
  PROVE  \A l \in 1..33 : l > i => d[l] = 0
<1> DEFINE S == {k \in Nat : 33 - k > i => d[33 - k] = 0}
<1>1. 0 \in S
  BY DEF Profile
<1>2. ASSUME NEW k \in Nat, k \in S PROVE k + 1 \in S
  <2> SUFFICES ASSUME 33 - (k + 1) > i PROVE d[33 - (k + 1)] = 0
    OBVIOUS
  <2> DEFINE l == 33 - (k + 1)
  <2>1. l \in 1..32 /\ l + 1 = 33 - k /\ 33 - k > i /\ l > i
    OBVIOUS
  <2>2. d[l + 1] = 0
    BY <1>2, <2>1
  <2> HIDE DEF l
  <2>3. bits[l] = 0
    BY <2>1 DEF Bounded
  <2>4. d[l] \in Nat /\ d[l + 1] = 2 * (d[l] - bits[l])
    BY <2>1, ProfileAt
  <2>5. d[l] = 0
    BY <2>2, <2>3, <2>4
  <2> QED
    BY <2>5 DEF l
<1>3. Nat \subseteq S
  <2> HIDE DEF S
  <2> QED
    BY <1>1, <1>2, NatSet
<1> TAKE l \in 1..33
<1>4. 33 - l \in Nat /\ 33 - (33 - l) = l
  OBVIOUS
<1>5. 33 - l \in S
  BY <1>3, <1>4, Zenon
<1> QED
  BY <1>4, <1>5

(* More levels have no fewer leaves.                                        *)
LEMMA LeavesGrow ==
  ASSUME NEW bits, NEW d, NEW u, NEW N, Profile(bits, d, u, N), NEW a \in 0..32, NEW b \in 0..32, a <= b
  PROVE  u[a] <= u[b] /\ u[a] \in Nat /\ u[b] \in Nat
<1> DEFINE S == {k \in Nat : a + k <= 32 => u[a] <= u[a + k]}
<1>0. \A l \in 0..32 : u[l] \in Nat
  BY DEF Profile
<1>1. 0 \in S
  BY <1>0
<1>2. ASSUME NEW k \in Nat, k \in S PROVE k + 1 \in S
  <2> SUFFICES ASSUME a + (k + 1) <= 32 PROVE u[a] <= u[a + (k + 1)]
    OBVIOUS
  <2> DEFINE l == a + (k + 1)
  <2>1. l \in 1..32 /\ l - 1 = a + k /\ a + k <= 32
    OBVIOUS
  <2>2. u[a] <= u[l - 1]
    BY <1>2, <2>1
  <2> HIDE DEF l
  <2>3. u[l] = u[l - 1] + bits[l] /\ bits[l] \in Nat /\ u[l - 1] \in Nat
    BY <2>1, ProfileAt
  <2>4. u[a] \in Nat
    BY <1>0
  <2>5. u[a] <= u[l]
    BY <2>2, <2>3, <2>4
  <2> QED
    BY <2>5 DEF l
<1>3. Nat \subseteq S
  <2> HIDE DEF S
  <2> QED
    BY <1>1, <1>2, NatSet
<1>4. b - a \in S /\ a + (b - a) = b
  BY <1>3
<1> QED
  BY <1>0, <1>4

(* A tree with few leaves has one of them at a small depth.                 *)
LEMMA ManyNodes ==
  ASSUME NEW bits, NEW d, NEW u, NEW N, Profile(bits, d, u, N), NEW m \in 9..32,
         \A l \in 1..m - 1 : bits[l] = 0
  PROVE  d[m] >= 512
<1> DEFINE S == {k \in Nat : 9 + k <= m => d[9 + k] >= 512}
<1>0. \A l \in 1..m - 1 : d[l + 1] = 2 * d[l] /\ d[l] \in Nat
  <2> TAKE l \in 1..m - 1
  <2>1. l \in 1..32 /\ bits[l] = 0
    OBVIOUS
  <2> QED
    BY <2>1, ProfileAt
<1>1. 0 \in S
  <2>1. \A l \in 1..8 : d[l + 1] = 2 * d[l]
    BY <1>0
  <2>2. d[1] = 2
    BY DEF Profile
  <2>3. d[2] = 4 /\ d[3] = 8
    BY <2>1, <2>2
  <2>4. d[4] = 16 /\ d[5] = 32
    BY <2>1, <2>3
  <2>5. d[6] = 64 /\ d[7] = 128
    BY <2>1, <2>4
  <2>6. d[8] = 256 /\ d[9] = 512
    BY <2>1, <2>5
  <2> QED
    BY <2>6
<1>2. ASSUME NEW k \in Nat, k \in S PROVE k + 1 \in S
  <2> SUFFICES ASSUME 9 + (k + 1) <= m PROVE d[9 + (k + 1)] >= 512
    OBVIOUS
  <2> DEFINE l == 9 + k
  <2>1. l \in 1..m - 1 /\ l + 1 = 9 + (k + 1) /\ l <= m
    OBVIOUS
  <2>2. d[l] >= 512
    BY <1>2, <2>1
  <2> HIDE DEF l
  <2>3. d[l + 1] = 2 * d[l] /\ d[l] \in Nat
    BY <1>0, <2>1
  <2> QED
    BY <2>1, <2>2, <2>3
<1>3. Nat \subseteq S
  <2> HIDE DEF S
  <2> QED
    BY <1>1, <1>2, NatSet
<1>4. m - 9 \in S /\ 9 + (m - 9) = m
  BY <1>3
<1> QED
  BY <1>4

(* The nodes of the deepest level are leaves, in pairs.                     *)
LEMMA Deepest ==
  ASSUME NEW bits, NEW d, NEW u, NEW N, Profile(bits, d, u, N), NEW i \in 17..32, Bounded(bits, i),
         bits[i] > 0
  PROVE  bits[i] = d[i] /\ bits[i] >= 2 /\ d[i] = 2 * (d[i - 1] - bits[i - 1]) /\ d[i + 1] = 0
<1>1. i \in 1..32 /\ i - 1 \in 1..32 /\ (i - 1) + 1 = i /\ i + 1 \in 1..33 /\ i + 1 > i /\ i \in 0..32
  OBVIOUS
<1>2. d[i + 1] = 0
  BY <1>1, NoneDeeper
<1>3. /\ bits[i] \in Nat /\ d[i] \in Nat /\ bits[i] <= d[i] /\ d[i + 1] = 2 * (d[i] - bits[i])
  BY <1>1, ProfileAt
<1>4. bits[i - 1] \in Nat /\ d[i - 1] \in Nat /\ d[i] = 2 * (d[i - 1] - bits[i - 1])
  BY <1>1, ProfileAt
<1> QED
  BY <1>2, <1>3, <1>4

(* A tree deeper than 16 levels, of at most 255 leaves, has a leaf to       *)
(* split higher up.                                                         *)
LEMMA Shallower ==
  ASSUME NEW bits, NEW d, NEW u, NEW N \in 2..255, Profile(bits, d, u, N), NEW i \in 17..32, Bounded(bits, i),
         bits[i] > 0
  PROVE  \E l \in 1..i - 2 : bits[l] > 0
<1> SUFFICES ASSUME \A l \in 1..i - 2 : ~(bits[l] > 0) PROVE FALSE
  OBVIOUS
<1>1. /\ i \in 1..32 /\ i - 1 \in 1..32 /\ (i - 1) - 1 = i - 2 /\ i - 1 \in 9..32
      /\ i \in 0..32 /\ 32 \in 0..32 /\ i <= 32
  OBVIOUS
<1>2. \A l \in 1..i - 2 : bits[l] = 0
  <2> TAKE l \in 1..i - 2
  <2>1. l \in 1..32
    OBVIOUS
  <2>2. bits[l] \in Nat
    BY <2>1, ProfileAt
  <2> QED
    BY <2>2
<1>3. d[i - 1] >= 512
  BY <1>1, <1>2, ManyNodes
<1>4. bits[i] = d[i] /\ d[i] = 2 * (d[i - 1] - bits[i - 1])
  BY Deepest
<1>5. /\ bits[i - 1] \in Nat /\ d[i - 1] \in Nat /\ u[(i - 1) - 1] \in Nat /\ bits[i - 1] <= d[i - 1]
      /\ u[i - 1] = u[(i - 1) - 1] + bits[i - 1]
  BY <1>1, ProfileAt
<1>6. bits[i] \in Nat /\ u[i] = u[i - 1] + bits[i] /\ u[i - 1] \in Nat
  BY <1>1, ProfileAt
<1>7. u[i] <= u[32]
  BY <1>1, LeavesGrow, Zenon
<1>8. u[32] = N
  BY DEF Profile
<1> QED
  BY <1>3, <1>4, <1>5, <1>6, <1>7, <1>8

MovedPair(bits, i, j, b) ==
  /\ b \in [1..32 -> Nat]
  /\ b[i] = bits[i] - 2 /\ b[j] = bits[j] - 1
  /\ j + 1 = i - 1 => b[i - 1] = bits[i - 1] + 3
  /\ j + 1 # i - 1 => b[i - 1] = bits[i - 1] + 1 /\ b[j + 1] = bits[j + 1] + 2
  /\ \A l \in 1..32 : l \notin {i, i - 1, j, j + 1} => b[l] = bits[l]
LEMMA MovePairIs ==
  ASSUME NEW bits \in [1..32 -> Nat], NEW i \in 17..32, NEW j \in 1..i - 2, bits[i] >= 2, bits[j] > 0,
         NEW b, b = [[bits EXCEPT ![i] = @ - 2, ![i - 1] = @ + 1] EXCEPT ![j + 1] = @ + 2, ![j] = @ - 1]
  PROVE  MovedPair(bits, i, j, b)
<1>1. /\ i \in 1..32 /\ i - 1 \in 1..32 /\ j \in 1..32 /\ j + 1 \in 1..32
      /\ i # i - 1 /\ i # j /\ i # j + 1 /\ i - 1 # j /\ j # j + 1
  OBVIOUS
<1> DEFINE x == i - 1
           y == j + 1
           s == [bits EXCEPT ![i] = @ - 2, ![x] = @ + 1]
           t == [s EXCEPT ![y] = @ + 2, ![j] = @ - 1]
<1>2. b = t
  OBVIOUS
<1> HIDE DEF x, y
<1>3. /\ i \in 1..32 /\ x \in 1..32 /\ j \in 1..32 /\ y \in 1..32
      /\ i # x /\ i # j /\ i # y /\ x # j /\ j # y
  BY <1>1 DEF x, y
<1>4. \A l \in 1..32 : bits[l] \in Nat
  OBVIOUS
<1>5. /\ DOMAIN s = 1..32 /\ s[i] = bits[i] - 2 /\ s[x] = bits[x] + 1
      /\ \A l \in 1..32 : l # i /\ l # x => s[l] = bits[l]
  BY <1>3
<1> HIDE DEF s
<1>6. /\ DOMAIN t = 1..32 /\ t[y] = s[y] + 2 /\ t[j] = s[j] - 1
      /\ \A l \in 1..32 : l # y /\ l # j => t[l] = s[l]
  BY <1>3, <1>5
<1>7. t = [l \in 1..32 |-> t[l]]
  BY <1>5
<1> HIDE DEF t
<1>8. t[i] = bits[i] - 2 /\ t[j] = bits[j] - 1
  BY <1>3, <1>5, <1>6
<1>9. y = x => t[x] = bits[x] + 3
  BY <1>3, <1>4, <1>5, <1>6
<1>10. y # x => t[x] = bits[x] + 1 /\ t[y] = bits[y] + 2
  BY <1>3, <1>5, <1>6
<1>11. \A l \in 1..32 : l \notin {i, x, j, y} => t[l] = bits[l]
  BY <1>3, <1>5, <1>6
<1>12. \A l \in 1..32 : t[l] \in Nat
  <2> TAKE l \in 1..32
  <2>1. bits[l] \in Nat /\ bits[i] \in Nat /\ bits[j] \in Nat /\ bits[x] \in Nat
    BY <1>3, <1>4
  <2>2. CASE l = i
    BY <2>1, <2>2, <1>8
  <2>3. CASE l = j
    BY <2>1, <2>3, <1>8
  <2>4. CASE l = x
    BY <2>1, <2>4, <1>9, <1>10
  <2>5. CASE l = y /\ y # x
    BY <2>1, <2>5, <1>10
  <2>6. CASE l \notin {i, x, j, y}
    BY <2>1, <2>6, <1>11
  <2> QED
    BY <2>2, <2>3, <2>4, <2>5, <2>6
<1>13. t \in [1..32 -> Nat]
  BY <1>7, <1>12
<1> QED
  BY <1>2, <1>8, <1>9, <1>10, <1>11, <1>13, Zenon DEF MovedPair, x, y

(* MovePair turns one full tree into another with as many leaves.           *)
LEMMA MovedProfile ==
  ASSUME NEW bits, NEW d, NEW u, NEW N, Profile(bits, d, u, N), NEW i \in 17..32, NEW j \in 1..i - 2,
         d[i] >= 2, d[i] = 2 * (d[i - 1] - bits[i - 1]), bits[i] = d[i], bits[j] > 0,
         NEW b, MovedPair(bits, i, j, b)
  PROVE  \E d2, u2 : Profile(b, d2, u2, N)
<1> DEFINE At(l) == IF l < j THEN 0 ELSE IF l = j THEN -1 ELSE IF l < i - 1 THEN 1 ELSE IF l = i - 1 THEN 2 ELSE 0
           d2 == [l \in 1..33 |-> IF l = j + 1 THEN d[l] + 2 ELSE IF l = i THEN d[l] - 2 ELSE d[l]]
           u2 == [l \in 0..32 |-> u[l] + At(l)]
<1>1. ASSUME NEW l \in 1..32
      PROVE  /\ b[l] <= d2[l] /\ d2[l + 1] = 2 * (d2[l] - b[l]) /\ u2[l] = u2[l - 1] + b[l]
             /\ d2[l] \in Nat /\ d2[l + 1] \in Nat
  <2>1. /\ bits[l] \in Nat /\ d[l] \in Nat /\ d[l + 1] \in Nat /\ u[l] \in Nat /\ u[l - 1] \in Nat
        /\ bits[l] <= d[l] /\ d[l + 1] = 2 * (d[l] - bits[l]) /\ u[l] = u[l - 1] + bits[l]
    BY ProfileAt
  <2>2. /\ d2[l] = IF l = j + 1 THEN d[l] + 2 ELSE IF l = i THEN d[l] - 2 ELSE d[l]
        /\ d2[l + 1] = IF l = j THEN d[l + 1] + 2 ELSE IF l = i - 1 THEN d[l + 1] - 2 ELSE d[l + 1]
        /\ u2[l] = u[l] + At(l) /\ u2[l - 1] = u[l - 1] + At(l - 1)
    OBVIOUS
  <2> HIDE DEF d2, u2
  <2>3. CASE l = i
    <3>1. At(l) = 0 /\ At(l - 1) = 2 /\ b[l] = bits[l] - 2
      BY <2>3 DEF MovedPair
    <3> HIDE DEF At
    <3> QED
      BY <2>1, <2>2, <2>3, <3>1
  <2>4. CASE l = j
    <3>1. At(l) = -1 /\ At(l - 1) = 0 /\ b[l] = bits[l] - 1
      BY <2>4 DEF MovedPair
    <3> HIDE DEF At
    <3> QED
      BY <2>1, <2>2, <2>4, <3>1
  <2>5. CASE l = i - 1 /\ j + 1 = i - 1
    <3>1. At(l) = 2 /\ At(l - 1) = -1 /\ b[l] = bits[l] + 3
      BY <2>5 DEF MovedPair
    <3>2. d[l] - bits[l] >= 1 /\ d[l + 1] = d[i]
      BY <2>1, <2>5
    <3> HIDE DEF At
    <3> QED
      BY <2>1, <2>2, <2>5, <3>1, <3>2
  <2>6. CASE l = i - 1 /\ j + 1 # i - 1
    <3>1. At(l) = 2 /\ At(l - 1) = 1 /\ b[l] = bits[l] + 1
      BY <2>6 DEF MovedPair
    <3>2. d[l] - bits[l] >= 1 /\ d[l + 1] = d[i]
      BY <2>1, <2>6
    <3> HIDE DEF At
    <3> QED
      BY <2>1, <2>2, <2>6, <3>1, <3>2
  <2>7. CASE l = j + 1 /\ j + 1 # i - 1
    <3>1. At(l) = 1 /\ At(l - 1) = -1 /\ b[l] = bits[l] + 2
      BY <2>7 DEF MovedPair
    <3> HIDE DEF At
    <3> QED
      BY <2>1, <2>2, <2>7, <3>1
  <2>8. CASE l \notin {i, i - 1, j, j + 1}
    <3>1. At(l) = At(l - 1) /\ At(l) \in Int /\ b[l] = bits[l]
      BY <2>8 DEF MovedPair
    <3> HIDE DEF At
    <3> QED
      BY <2>1, <2>2, <2>8, <3>1
  <2> QED
    BY <2>3, <2>4, <2>5, <2>6, <2>7, <2>8
<1>2. d2[1] = 2 /\ d2[33] = 0 /\ u2[0] = 0 /\ u2[32] = N
  <2>1. d[1] = 2 /\ d[33] = 0 /\ u[0] = 0 /\ u[32] = N
    BY DEF Profile
  <2>2. u[32] \in Nat
    BY DEF Profile
  <2> QED
    BY <2>1, <2>2
<1>3. d2 \in [1..33 -> Nat]
  <2>1. \A l \in 1..33 : d2[l] \in Nat
    <3> TAKE l \in 1..33
    <3>1. CASE l = 33
      BY <1>2, <3>1
    <3>2. CASE l # 33
      <4>1. l \in 1..32
        BY <3>2
      <4> HIDE DEF d2
      <4> QED
        BY <1>1, <4>1
    <3> QED
      BY <3>1, <3>2
  <2>2. d2 = [l \in 1..33 |-> d2[l]]
    OBVIOUS
  <2> HIDE DEF d2
  <2> QED
    BY <2>1, <2>2
<1>4. b \in [1..32 -> Nat]
  BY DEF MovedPair
<1>5. u2 \in [0..32 -> Nat]
  <2>1. \A l \in 0..32 : u2[l] \in Nat
    <3> DEFINE S == {k \in Nat : k <= 32 => u2[k] \in Nat}
    <3>1. 0 \in S
      BY <1>2
    <3>2. ASSUME NEW k \in Nat, k \in S PROVE k + 1 \in S
      <4> SUFFICES ASSUME k + 1 <= 32 PROVE u2[k + 1] \in Nat
        OBVIOUS
      <4>1. k + 1 \in 1..32 /\ (k + 1) - 1 = k /\ u2[k] \in Nat
        BY <3>2
      <4> HIDE DEF u2
      <4>2. u2[k + 1] = u2[k] + b[k + 1] /\ b[k + 1] \in Nat
        BY <1>1, <1>4, <4>1
      <4> QED
        BY <4>1, <4>2
    <3>3. Nat \subseteq S
      <4> HIDE DEF S
      <4> QED
        BY <3>1, <3>2, NatSet
    <3> QED
      BY <3>3
  <2>2. u2 = [l \in 0..32 |-> u2[l]]
    OBVIOUS
  <2> HIDE DEF u2
  <2> QED
    BY <2>1, <2>2
<1> HIDE DEF d2, u2
<1>6. Profile(b, d2, u2, N)
  BY <1>1, <1>2, <1>3, <1>4, <1>5 DEF Profile
<1> QED
  BY <1>6

Fill(bits, N) == \E d, u : Profile(bits, d, u, N)
LEMMA MovePairFills ==
  ASSUME NEW bits, NEW N \in 2..255, Fill(bits, N), NEW i \in 17..32, Bounded(bits, i), bits[i] > 0
  PROVE  /\ Fill(MovePair(bits, i), N) /\ Bounded(MovePair(bits, i), i)
         /\ bits[i] >= 2 /\ MovePair(bits, i)[i] = bits[i] - 2
<1>1. PICK d, u : Profile(bits, d, u, N)
  BY DEF Fill
<1>2. bits[i] = d[i] /\ bits[i] >= 2 /\ d[i] = 2 * (d[i - 1] - bits[i - 1])
  BY <1>1, Deepest
<1> DEFINE S == {l \in 1..i - 2 : bits[l] > 0}
           j == Max(S)
<1>3. j \in S
  <2>1. S # {}
    BY <1>1, Shallower, ZenonT(60)
  <2>2. S \subseteq 0..32
    OBVIOUS
  <2> QED
    BY <2>1, <2>2, GreatestIs, SMTT(40)
<1>4. j \in 1..i - 2 /\ bits[j] > 0
  BY <1>3
<1>5. MovePair(bits, i) = [[bits EXCEPT ![i] = @ - 2, ![i - 1] = @ + 1] EXCEPT ![j + 1] = @ + 2, ![j] = @ - 1]
  BY Zenon DEF MovePair
<1>6. bits \in [1..32 -> Nat]
  BY <1>1 DEF Profile
<1> HIDE DEF j
<1>7. MovedPair(bits, i, j, MovePair(bits, i))
  BY <1>2, <1>4, <1>5, <1>6, MovePairIs, Zenon
<1>8. Fill(MovePair(bits, i), N)
  BY <1>1, <1>2, <1>4, <1>7, MovedProfile DEF Fill
<1>9. Bounded(MovePair(bits, i), i)
  <2> SUFFICES ASSUME NEW l \in 1..32, l > i PROVE MovePair(bits, i)[l] = 0
    BY DEF Bounded
  <2>1. l \notin {i, i - 1, j, j + 1}
    BY <1>4
  <2>2. MovePair(bits, i)[l] = bits[l]
    BY <1>7, <2>1, Zenon DEF MovedPair
  <2> QED
    BY <2>2 DEF Bounded
<1>10. MovePair(bits, i)[i] = bits[i] - 2
  BY <1>7 DEF MovedPair
<1> QED
  BY <1>2, <1>8, <1>9, <1>10

(* The leaves of the deepest level are an even number.                      *)
LEMMA InPairs ==
  ASSUME NEW bits, NEW N, Fill(bits, N), NEW i \in 17..32, Bounded(bits, i)
  PROVE  \E h \in Nat : bits[i] = 2 * h /\ (bits[i] + 1) \div 2 = h
<1>1. PICK d, u : Profile(bits, d, u, N)
  BY DEF Fill
<1>2. i \in 1..32 /\ i - 1 \in 1..32 /\ (i - 1) + 1 = i /\ i + 1 \in 1..33 /\ i + 1 > i /\ i \in 0..32
  OBVIOUS
<1>3. d[i + 1] = 0
  BY <1>1, <1>2, NoneDeeper
<1>4. /\ bits[i] \in Nat /\ d[i] \in Nat /\ bits[i] <= d[i] /\ d[i + 1] = 2 * (d[i] - bits[i])
  BY <1>1, <1>2, ProfileAt
<1>5. bits[i - 1] \in Nat /\ d[i - 1] \in Nat /\ d[i] = 2 * (d[i - 1] - bits[i - 1]) /\ bits[i - 1] <= d[i - 1]
  BY <1>1, <1>2, ProfileAt
<1> DEFINE h == d[i - 1] - bits[i - 1]
           x == bits[i]
<1>6. h \in Nat /\ x = 2 * h
  BY <1>3, <1>4, <1>5
<1> HIDE DEF h, x
<1>7. (x + 1) \div 2 = h
  BY <1>6
<1> QED
  BY <1>6, <1>7 DEF x

Banks == [1..32 -> Nat]
LEMMA FillsBank ==
  ASSUME NEW bits, NEW N, Fill(bits, N)
  PROVE  bits \in Banks
BY DEF Fill, Profile, Banks

Halved(bits, N, i, k, b) ==
  b \in Banks /\ Fill(b, N) /\ Bounded(b, i) /\ b[i] = bits[i] - 2 * k /\ (k = 0 => b = bits)
LEMMA HalvedOnce ==
  ASSUME NEW bits, NEW N \in 2..255, NEW i \in 17..32, NEW h \in Nat, bits[i] = 2 * h,
         NEW k \in 1..h, NEW b, Halved(bits, N, i, k - 1, b)
  PROVE  Halved(bits, N, i, k, MovePair(b, i))
<1>1. b[i] = 2 * h - 2 * (k - 1)
  BY DEF Halved
<1>2. b[i] > 0 /\ b[i] - 2 = 2 * h - 2 * k /\ k # 0
  BY <1>1
<1>3. Fill(b, N) /\ Bounded(b, i)
  BY SMTT(40) DEF Halved
<1>4. Fill(MovePair(b, i), N) /\ Bounded(MovePair(b, i), i) /\ MovePair(b, i)[i] = b[i] - 2
  BY <1>2, <1>3, MovePairFills, Zenon
<1>5. MovePair(b, i) \in Banks
  BY <1>4, FillsBank
<1> QED
  BY <1>2, <1>4, <1>5 DEF Halved

(* Emptied leaves a full tree with nothing at that length.                  *)
LEMMA EmptiedIs ==
  ASSUME NEW bits, NEW N \in 2..255, Fill(bits, N), NEW i \in 17..32, Bounded(bits, i)
  PROVE  /\ Fill(Emptied(bits, i), N) /\ Bounded(Emptied(bits, i), i - 1)
         /\ bits[i] = 0 => Emptied(bits, i) = bits
<1> DEFINE pairs == (bits[i] + 1) \div 2
<1>1. pairs \in Nat /\ bits[i] = 2 * pairs
  BY InPairs
<1> DEFINE Eq(f) == f = [k \in 0..pairs |-> IF k = 0 THEN bits ELSE MovePair(f[k - 1], i)]
           m == CHOOSE f : Eq(f)
           step == [a \in (1..pairs) \X Banks |-> MovePair(a[2], i)]
           X == [k \in 0..pairs |-> {b \in Banks : Halved(bits, N, i, k, b)}]
<1>2. Emptied(bits, i) = m[pairs]
  BY Zenon DEF Emptied
<1> HIDE DEF pairs
<1>3. \A k \in 0..pairs : X[k] = {b \in Banks : Halved(bits, N, i, k, b)}
  OBVIOUS
<1>4. \A k \in 1..pairs : \A b \in Banks : step[<<k, b>>] = MovePair(b, i)
  OBVIOUS
<1>5. 0 \in 0..pairs /\ pairs \in 0..pairs /\ \A k \in 1..pairs : k \in 0..pairs /\ k - 1 \in 0..pairs /\ k # 0
  BY <1>1
<1> HIDE DEF X, step
<1>6. bits \in X[0]
  <2>1. bits \in Banks
    BY FillsBank
  <2>2. bits[i] = bits[i] - 2 * 0
    BY <1>1
  <2>3. Halved(bits, N, i, 0, bits)
    BY <2>1, <2>2 DEF Halved
  <2> QED
    BY <1>3, <1>5, <2>1, <2>3
<1>7. ASSUME NEW k \in 1..pairs, NEW b \in X[k - 1] PROVE b \in Banks /\ MovePair(b, i) \in X[k]
  <2>1. b \in Banks /\ Halved(bits, N, i, k - 1, b)
    BY <1>3, <1>5, SMTT(40)
  <2>2. Halved(bits, N, i, k, MovePair(b, i))
    BY <1>1, <2>1, HalvedOnce
  <2>3. MovePair(b, i) \in Banks
    BY <2>2, Zenon DEF Halved
  <2> QED
    BY <1>3, <1>5, <2>1, <2>2, <2>3
<1>8. Makes(bits, step, pairs, X, Banks)
  <2>1. \A k \in 0..pairs : X[k] \subseteq Banks
    BY <1>3
  <2>2. ASSUME NEW k \in 1..pairs, NEW b \in X[k - 1] PROVE step[<<k, b>>] \in X[k]
    BY <1>4, <1>7, Zenon
  <2> QED
    BY <1>6, <2>1, <2>2, Zenon DEF Makes
<1>9. PICK f : IsMade(f, bits, step, pairs, X, Banks)
  BY <1>1, <1>8, Recursion
<1>10. /\ f \in [0..pairs -> Banks] /\ f[0] = bits
       /\ \A k \in 1..pairs : f[k] = step[<<k, f[k - 1]>>]
  BY <1>9, Zenon DEF IsMade
<1>11. \A k \in 1..pairs : f[k] = MovePair(f[k - 1], i)
  <2> TAKE k \in 1..pairs
  <2>1. f[k - 1] \in Banks
    BY <1>5, <1>10
  <2> QED
    BY <1>4, <1>10, <2>1, Zenon
<1>12. Eq(f)
  <2>1. \A k \in 0..pairs : f[k] = IF k = 0 THEN bits ELSE MovePair(f[k - 1], i)
    <3> TAKE k \in 0..pairs
    <3>1. CASE k = 0
      BY <1>10, <3>1
    <3>2. CASE k # 0
      <4>1. k \in 1..pairs
        BY <1>1, <3>2
      <4> QED
        BY <1>11, <3>2, <4>1, Zenon
    <3> QED
      BY <3>1, <3>2
  <2> QED
    BY <1>10, <2>1
<1>13. Eq(m)
  BY <1>12
<1> HIDE DEF m
<1>14. m[0] = bits /\ \A k \in 1..pairs : m[k] = MovePair(m[k - 1], i)
  BY <1>5, <1>13
<1>15. m[pairs] \in X[pairs]
  <2>1. m[0] \in X[0]
    BY <1>6, <1>14
  <2>2. \A k \in 1..pairs : m[k - 1] \in X[k - 1] => m[k] \in X[k]
    BY <1>7, <1>14, Zenon
  <2>3. \A k \in 0..pairs : m[k] \in X[k]
    BY <1>1, <2>1, <2>2, Along
  <2> QED
    BY <1>5, <2>3
<1>16. Halved(bits, N, i, pairs, m[pairs])
  BY <1>3, <1>5, <1>15
<1> DEFINE b == m[pairs]
<1>17. b = Emptied(bits, i) /\ Halved(bits, N, i, pairs, b)
  BY <1>2, <1>16
<1> HIDE DEF b, m
<1>18. b[i] = 0 /\ Fill(b, N) /\ Bounded(b, i)
  BY <1>1, <1>17 DEF Halved
<1>19. Bounded(b, i - 1)
  BY <1>18 DEF Bounded
<1>20. bits[i] = 0 => b = bits
  BY <1>1, <1>17 DEF Halved
<1> QED
  BY <1>17, <1>18, <1>19, <1>20

Limited(bits, N, n, b) ==
  b \in Banks /\ Fill(b, N) /\ Bounded(b, 32 - n) /\ (Bounded(bits, 16) => b = bits)
LEMMA LimitedOnce ==
  ASSUME NEW bits, NEW N \in 2..255, NEW n \in 1..16, NEW b, Limited(bits, N, n - 1, b)
  PROVE  Limited(bits, N, n, Emptied(b, MAX_CLEN + 1 - n))
<1> DEFINE i == MAX_CLEN + 1 - n
           e == Emptied(b, i)
<1>1. i \in 17..32 /\ i = 32 - (n - 1) /\ i - 1 = 32 - n /\ i > 16 /\ i \in 1..32
  BY DEF MAX_CLEN
<1>2. Fill(b, N) /\ Bounded(b, 32 - (n - 1)) /\ (Bounded(bits, 16) => b = bits)
  BY SMTT(40) DEF Limited
<1> HIDE DEF i
<1>3. Fill(e, N) /\ Bounded(e, i - 1) /\ (b[i] = 0 => e = b)
  BY <1>1, <1>2, EmptiedIs, Zenon
<1>4. e \in Banks
  BY <1>3, FillsBank
<1> HIDE DEF e
<1>5. ASSUME Bounded(bits, 16) PROVE e = bits
  <2>1. b = bits /\ bits[i] = 0
    BY <1>1, <1>2, <1>5 DEF Bounded
  <2> QED
    BY <1>3, <2>1
<1>6. Limited(bits, N, n, e)
  BY <1>1, <1>3, <1>4, <1>5 DEF Limited
<1> QED
  BY <1>6 DEF e, i

(* No code is longer than 16 bits, the counts are those of a tree with as   *)
(* many leaves, and the same if they were so before.                        *)
LEMMA LimitIs ==
  ASSUME NEW bits, NEW N \in 2..255, Fill(bits, N)
  PROVE  /\ Fill(Limit(bits), N) /\ Bounded(Limit(bits), 16)
         /\ Bounded(bits, 16) => Limit(bits) = bits
<1> DEFINE Eq(f) == f = [n \in 0..MAX_CLEN - 16 |-> IF n = 0 THEN bits ELSE Emptied(f[n - 1], MAX_CLEN + 1 - n)]
           m == CHOOSE f : Eq(f)
           step == [a \in (1..16) \X Banks |-> Emptied(a[2], MAX_CLEN + 1 - a[1])]
           X == [n \in 0..16 |-> {b \in Banks : Limited(bits, N, n, b)}]
<1>0. MAX_CLEN - 16 = 16 /\ 16 \in Nat /\ 32 - 0 = 32
  BY DEF MAX_CLEN
<1>2. Limit(bits) = m[MAX_CLEN - 16]
  BY Zenon DEF Limit
<1>3. \A n \in 0..16 : X[n] = {b \in Banks : Limited(bits, N, n, b)}
  OBVIOUS
<1>4. \A n \in 1..16 : \A b \in Banks : step[<<n, b>>] = Emptied(b, MAX_CLEN + 1 - n)
  OBVIOUS
<1>5. 0 \in 0..16 /\ 16 \in 0..16 /\ \A n \in 1..16 : n \in 0..16 /\ n - 1 \in 0..16 /\ n # 0
  OBVIOUS
<1> HIDE DEF X, step
<1>6. bits \in X[0]
  <2>1. bits \in Banks
    BY FillsBank
  <2>2. Bounded(bits, 32)
    BY DEF Bounded
  <2>3. Limited(bits, N, 0, bits)
    BY <1>0, <2>1, <2>2, Zenon DEF Limited
  <2> QED
    BY <1>3, <1>5, <2>1, <2>3
<1>7. ASSUME NEW n \in 1..16, NEW b \in X[n - 1] PROVE b \in Banks /\ Emptied(b, MAX_CLEN + 1 - n) \in X[n]
  <2>1. b \in Banks /\ Limited(bits, N, n - 1, b)
    BY <1>3, <1>5
  <2>2. Limited(bits, N, n, Emptied(b, MAX_CLEN + 1 - n))
    BY <2>1, LimitedOnce
  <2>3. Emptied(b, MAX_CLEN + 1 - n) \in Banks
    BY <2>2, Zenon DEF Limited
  <2> QED
    BY <1>3, <1>5, <2>1, <2>2, <2>3
<1>8. Makes(bits, step, 16, X, Banks)
  <2>1. \A n \in 0..16 : X[n] \subseteq Banks
    BY <1>3
  <2>2. ASSUME NEW n \in 1..16, NEW b \in X[n - 1] PROVE step[<<n, b>>] \in X[n]
    BY <1>4, <1>7, Zenon
  <2> QED
    BY <1>6, <2>1, <2>2, Zenon DEF Makes
<1>9. PICK f : IsMade(f, bits, step, 16, X, Banks)
  BY <1>0, <1>8, Recursion
<1>10. /\ f \in [0..16 -> Banks] /\ f[0] = bits
       /\ \A n \in 1..16 : f[n] = step[<<n, f[n - 1]>>]
  BY <1>9, Zenon DEF IsMade
<1>11. \A n \in 1..16 : f[n] = Emptied(f[n - 1], MAX_CLEN + 1 - n)
  <2> TAKE n \in 1..16
  <2>1. f[n - 1] \in Banks
    BY <1>5, <1>10
  <2> QED
    BY <1>4, <1>10, <2>1, Zenon
<1>12. Eq(f)
  <2>1. \A n \in 0..16 : f[n] = IF n = 0 THEN bits ELSE Emptied(f[n - 1], MAX_CLEN + 1 - n)
    <3> TAKE n \in 0..16
    <3>1. CASE n = 0
      BY <1>10, <3>1
    <3>2. CASE n # 0
      <4>1. n \in 1..16
        BY <3>2
      <4> QED
        BY <1>11, <3>2, <4>1, Zenon
    <3> QED
      BY <3>1, <3>2
  <2> QED
    BY <1>0, <1>10, <2>1
<1>13. Eq(m)
  BY <1>12
<1> HIDE DEF m
<1>14. m[0] = bits /\ \A n \in 1..16 : m[n] = Emptied(m[n - 1], MAX_CLEN + 1 - n)
  <2>1. \A n \in 0..16 : m[n] = IF n = 0 THEN bits ELSE Emptied(m[n - 1], MAX_CLEN + 1 - n)
    BY <1>0, <1>13
  <2> QED
    BY <1>5, <2>1, Zenon
<1>15. m[16] \in X[16]
  <2>1. m[0] \in X[0]
    BY <1>6, <1>14
  <2>2. \A n \in 1..16 : m[n - 1] \in X[n - 1] => m[n] \in X[n]
    BY <1>7, <1>14, Zenon
  <2>3. \A n \in 0..16 : m[n] \in X[n]
    BY <1>0, <2>1, <2>2, Along
  <2> QED
    BY <1>5, <2>3
<1>16. Limited(bits, N, 16, m[16])
  BY <1>3, <1>5, <1>15
<1>17. Limit(bits) = m[16] /\ 32 - 16 = 16
  BY <1>0, <1>2
<1> QED
  BY <1>16, <1>17 DEF Limited

(***************************************************************************)
(* The tree of the symbols of a scan.                                      *)
(***************************************************************************)
(* The pairs of a symbol.                                                   *)
Times(freq, s) == {s} \X (1..freq[s])
LEMMA TimesAre ==
  ASSUME NEW s, NEW n \in Nat
  PROVE  IsFiniteSet({s} \X (1..n)) /\ Cardinality({s} \X (1..n)) = n
<1> DEFINE P == {s} \X (1..n)
           f == [k \in 1..n |-> <<s, k>>]
<1>1. f \in Bijection(1..n, P)
  <2>1. f \in [1..n -> P]
    OBVIOUS
  <2>2. \A a, b \in 1..n : f[a] = f[b] => a = b
    OBVIOUS
  <2>3. \A o \in P : \E k \in 1..n : f[k] = o
    OBVIOUS
  <2> HIDE DEF f, P
  <2> QED
    BY <2>1, <2>2, <2>3, Zenon DEF Bijection, Injection, Surjection, IsInjective
<1> HIDE DEF f, P
<1>2. ExistsBijection(1..n, P)
  BY <1>1, Zenon DEF ExistsBijection
<1>3. IsFiniteSet(1..n) /\ Cardinality(1..n) = n
  BY FS_Interval
<1>4. IsFiniteSet(P) /\ Cardinality(P) = Cardinality(1..n)
  BY <1>2, <1>3, FS_Bijection, Zenon
<1> QED
  BY <1>3, <1>4, Zenon DEF P

(* Each symbol occurs as often as it was counted.                           *)
LEMMA OccurrencesAre ==
  ASSUME NEW freq, NEW E, E \subseteq 0..255, freq \in [E -> Nat \ {0}]
  PROVE  /\ IsFiniteSet(Occurrences(freq))
         /\ \A o \in Occurrences(freq) : o[1] \in E
         /\ \A s \in E : Cardinality({o \in Occurrences(freq) : o[1] = s}) = freq[s]
<1> DEFINE T == {Times(freq, s) : s \in E}
           f == [s \in E |-> Times(freq, s)]
<1>1. \A s \in E : freq[s] \in Nat
  OBVIOUS
<1>2. \A s \in E : IsFiniteSet(Times(freq, s)) /\ Cardinality(Times(freq, s)) = freq[s]
  BY <1>1, TimesAre DEF Times
<1>3. Occurrences(freq) = UNION T
  <2>1. DOMAIN freq = E
    OBVIOUS
  <2> QED
    BY <2>1 DEF Occurrences, Times
<1>4. IsFiniteSet(E)
  <2>0. 0 \in Int /\ 255 \in Int
    OBVIOUS
  <2>1. IsFiniteSet(0..255)
    BY <2>0, FS_Interval, Zenon
  <2> QED
    BY <2>1, FS_Subset
<1>5. f \in Surjection(E, T)
  BY DEF Surjection
<1>6. IsFiniteSet(T)
  BY <1>4, <1>5, FS_Surjection
<1>7. \A P \in T : IsFiniteSet(P)
  BY <1>2
<1>8. IsFiniteSet(UNION T)
  BY <1>6, <1>7, FS_UNION
<1>9. \A s \in E : \A o \in Times(freq, s) : o[1] = s
  BY DEF Times
<1>10. \A o \in UNION T : o[1] \in E
  BY <1>9
<1>11. \A s \in E : {o \in UNION T : o[1] = s} = Times(freq, s)
  BY <1>9
<1> QED
  BY <1>2, <1>3, <1>8, <1>10, <1>11

(* What the tree says of the lengths.                                       *)
SizesOf(E, freq, cs) ==
  /\ cs \in [E \union {PSEUDO} -> Nat]
  /\ \E d : FullTree(d, Depths(E \union {PSEUDO}, cs))
  /\ \A s \in E : cs[s] <= cs[PSEUDO]
  /\ \A s, t \in E : freq[s] > freq[t] => cs[s] <= cs[t]
LEMMA TreeSizes ==
  ASSUME NEW freq, NEW E, E \subseteq 0..255, freq \in [E -> Nat \ {0}],
         Cardinality(Occurrences(freq)) < MAX_WEIGHT
  PROVE  SizesOf(E, freq, codesizes(Counted(freq)))
<1> DEFINE D == E \union {PSEUDO}
           counted == Counted(freq)
           one == <<PSEUDO, 1>>
           occ == Occurrences(freq) \union {one}
           key == [o \in occ |-> o[1]]
<1>1. /\ IsFiniteSet(Occurrences(freq))
      /\ \A o \in Occurrences(freq) : o[1] \in E
      /\ \A s \in E : Cardinality({o \in Occurrences(freq) : o[1] = s}) = freq[s]
  BY OccurrencesAre
<1>2. D \subseteq 0..256 /\ PSEUDO \in D /\ PSEUDO \notin E
  BY DEF PSEUDO
<1>3. /\ counted \in [D -> Nat \ {0}] /\ counted[PSEUDO] = 1
      /\ \A s \in E : counted[s] = freq[s]
  BY <1>2 DEF Counted
<1>4. one[1] = PSEUDO
  OBVIOUS
<1> HIDE DEF one
<1>5. IsFiniteSet(occ) /\ Cardinality(occ) <= MAX_WEIGHT
  <2>1. IsFiniteSet(occ) /\ Cardinality(occ) <= Cardinality(Occurrences(freq)) + 1
    <3>1. Cardinality(Occurrences(freq)) \in Nat
      BY <1>1, FS_CardinalityType
    <3> DEFINE A == Occurrences(freq)
    <3> HIDE DEF A
    <3>2. IsFiniteSet(A) /\ Cardinality(A) \in Nat
      BY <1>1, <3>1 DEF A
    <3>3. /\ IsFiniteSet(A \union {one})
          /\ Cardinality(A \union {one}) = IF one \in A THEN Cardinality(A) ELSE Cardinality(A) + 1
      BY <3>2, FS_AddElement, Zenon
    <3>4. Cardinality(A \union {one}) <= Cardinality(A) + 1
      BY <3>2, <3>3
    <3> QED
      BY <3>3, <3>4 DEF A
  <2>2. Cardinality(Occurrences(freq)) \in Nat /\ Cardinality(occ) \in Nat
    BY <1>1, <2>1, FS_CardinalityType
  <2> HIDE DEF occ
  <2> QED
    BY <2>1, <2>2 DEF MAX_WEIGHT
<1>6. ASSUME NEW s \in D PROVE Cardinality(Of(occ, key, {s})) = counted[s]
  <2>1. CASE s = PSEUDO
    <3>1. Of(occ, key, {s}) = {one}
      BY <1>1, <1>2, <1>4, <2>1 DEF Of
    <3>2. Cardinality({one}) = 1
      BY FS_Singleton
    <3> QED
      BY <1>3, <2>1, <3>1, <3>2
  <2>2. CASE s # PSEUDO
    <3>1. s \in E
      BY <2>2
    <3>2. Of(occ, key, {s}) = {o \in Occurrences(freq) : o[1] = s}
      BY <1>4, <2>2 DEF Of
    <3> QED
      BY <1>1, <1>3, <3>1, <3>2
  <2> QED
    BY <2>1, <2>2
<1> HIDE DEF D, counted, occ, key
<1>7. Keyed(D, counted, occ, key)
  BY <1>6 DEF Keyed
<1>8. Sized(D, counted, codesizes(counted))
  BY <1>2, <1>3, <1>5, <1>7, CodesizesAre, Zenon
<1>9. /\ codesizes(counted) \in [D -> Nat]
      /\ \E d : FullTree(d, Depths(D, codesizes(counted)))
      /\ \A s, q \in D : Above(counted, s, q) => codesizes(counted)[s] <= codesizes(counted)[q]
  BY <1>8 DEF Sized
<1> DEFINE cs == codesizes(counted)
<1> HIDE DEF cs
<1>10. \A s \in E : cs[s] <= cs[PSEUDO]
  <2> TAKE s \in E
  <2>1. s \in D /\ s # PSEUDO
    BY <1>2 DEF D
  <2>2. Above(counted, s, PSEUDO)
    BY <2>1 DEF Above
  <2> QED
    BY <1>2, <1>9, <2>1, <2>2 DEF cs
<1>11. ASSUME NEW s \in E, NEW t \in E, freq[s] > freq[t] PROVE cs[s] <= cs[t]
  <2>1. s \in D /\ t \in D
    BY DEF D
  <2>2. Above(counted, s, t)
    BY <1>3, <1>11 DEF Above
  <2> QED
    BY <1>9, <2>1, <2>2 DEF cs
<1>12. SizesOf(E, freq, cs)
  BY <1>9, <1>10, <1>11 DEF SizesOf, D, cs
<1> QED
  BY <1>12 DEF cs, counted

(* The counts of the lengths are those of a tree.                           *)
UpTo(D, cs, l) == {s \in D : cs[s] <= l}
LEMMA UpToNext ==
  ASSUME NEW D, IsFiniteSet(D), NEW cs, \A s \in D : cs[s] \in Nat, NEW l \in Nat
  PROVE  /\ Cardinality(UpTo(D, cs, l)) \in Nat /\ Cardinality(AtDepth(D, cs, l)) \in Nat
         /\ Cardinality(UpTo(D, cs, l + 1)) = Cardinality(UpTo(D, cs, l)) + Cardinality(AtDepth(D, cs, l + 1))
<1> DEFINE A == UpTo(D, cs, l)
           B == AtDepth(D, cs, l + 1)
<1>1. A \in SUBSET D /\ B \in SUBSET D /\ AtDepth(D, cs, l) \in SUBSET D
  BY DEF UpTo, AtDepth
<1>2. A \intersect B = {}
  BY DEF UpTo, AtDepth
<1>3. UpTo(D, cs, l + 1) = A \union B
  <2>1. \A s \in D : cs[s] \in Nat
    OBVIOUS
  <2>2. \A s \in D : cs[s] <= l + 1 <=> (cs[s] <= l \/ cs[s] = l + 1)
    BY <2>1
  <2> QED
    BY <2>2 DEF UpTo, AtDepth
<1> HIDE DEF A, B
<1>4. IsFiniteSet(A) /\ IsFiniteSet(B) /\ IsFiniteSet(AtDepth(D, cs, l))
  BY <1>1, FS_Subset
<1>5. Cardinality(A) \in Nat /\ Cardinality(B) \in Nat /\ Cardinality(AtDepth(D, cs, l)) \in Nat
  BY <1>4, FS_CardinalityType
<1>6. Cardinality(A \union B) = Cardinality(A) + Cardinality(B) - Cardinality({}) /\ Cardinality({}) = 0
  BY <1>2, <1>4, FS_Union, FS_EmptySet
<1>7. Cardinality(A \union B) = Cardinality(A) + Cardinality(B)
  BY <1>5, <1>6
<1> QED
  BY <1>3, <1>5, <1>7 DEF A, B

(* The lengths of a full tree are the counts of one.                        *)
LEMMA TreeFills ==
  ASSUME NEW D, IsFiniteSet(D), NEW N, N = Cardinality(D), N > 1, NEW cs \in [D -> Nat],
         \A s \in D : cs[s] <= 32, NEW d, FullTree(d, Depths(D, cs)),
         NEW bits, bits = [l \in 1..32 |-> Cardinality(AtDepth(D, cs, l))]
  PROVE  Fill(bits, N) /\ \A s \in D : cs[s] >= 1
<1> DEFINE n == Depths(D, cs)
<1>1. n \in [Nat -> Nat] /\ \A l \in Nat : n[l] = Cardinality(AtDepth(D, cs, l)) /\ IsFiniteSet(AtDepth(D, cs, l))
  BY DepthsAre
<1>2. /\ d \in [Nat -> Nat] /\ d[0] = 1
      /\ \A l \in Nat : n[l] <= d[l] /\ d[l + 1] = 2 * (d[l] - n[l])
      /\ \E L \in Nat : \A l \in Nat : l >= L => d[l] = 0
  BY Zenon DEF FullTree
<1> HIDE DEF n
<1>3. \A l \in Nat : n[l] \in Nat /\ d[l] \in Nat /\ d[l + 1] \in Nat
  <2> TAKE l \in Nat
  <2>1. l + 1 \in Nat
    OBVIOUS
  <2> QED
    BY <1>1, <1>2, <2>1
<1>4. n[0] = 0
  <2> SUFFICES ASSUME n[0] # 0 PROVE FALSE
    OBVIOUS
  <2>1. n[0] <= d[0] /\ d[0 + 1] = 2 * (d[0] - n[0]) /\ n[0] \in Nat
    BY <1>2, <1>3
  <2>0. d[0] = 1
    BY <1>2
  <2>2. n[0] = 1 /\ d[0 + 1] = 0
    BY <2>0, <2>1
  <2> DEFINE S == {k \in Nat : d[k + 1] = 0}
  <2>3. 0 \in S
    BY <2>2
  <2>4. ASSUME NEW k \in Nat, k \in S PROVE k + 1 \in S
    <3> DEFINE m == k + 1
    <3>1. m \in Nat /\ d[m] = 0
      BY <2>4
    <3> HIDE DEF m
    <3>2. n[m] <= d[m] /\ d[m + 1] = 2 * (d[m] - n[m]) /\ n[m] \in Nat
      BY <1>2, <1>3, <3>1
    <3>3. d[m + 1] = 0
      BY <3>1, <3>2
    <3> QED
      BY <3>3 DEF m
  <2>5. Nat \subseteq S
    <3> HIDE DEF S
    <3> QED
      BY <2>3, <2>4, NatSet
  <2>6. \A s \in D : cs[s] = 0
    <3> SUFFICES ASSUME NEW s \in D, cs[s] # 0 PROVE FALSE
      OBVIOUS
    <3> DEFINE l == cs[s]
    <3>1. l \in Nat /\ l - 1 \in Nat /\ (l - 1) + 1 = l
      OBVIOUS
    <3>2. s \in AtDepth(D, cs, l)
      BY DEF AtDepth
    <3> HIDE DEF l
    <3>3. l - 1 \in S
      BY <2>5, <3>1, Zenon
    <3>4. d[l] = 0
      BY <3>1, <3>3
    <3>5. n[l] = 0
      BY <1>2, <1>3, <3>1, <3>4
    <3>6. Cardinality(AtDepth(D, cs, l)) = 0 /\ IsFiniteSet(AtDepth(D, cs, l))
      BY <1>1, <3>1, <3>5
    <3>7. AtDepth(D, cs, l) = {}
      BY <3>6, FS_EmptySet
    <3> QED
      BY <3>2, <3>7
  <2>7. AtDepth(D, cs, 0) = D
    BY <2>6 DEF AtDepth
  <2>8. n[0] = N
    BY <1>1, <2>7
  <2> QED
    BY <2>2, <2>8
<1>5. \A l \in Nat : l > 32 => n[l] = 0
  <2> TAKE l \in Nat
  <2> HAVE l > 32
  <2>1. AtDepth(D, cs, l) = {}
    BY DEF AtDepth
  <2> QED
    BY <1>1, <2>1, FS_EmptySet
<1>6. d[33] = 0
  <2> SUFFICES ASSUME d[33] # 0 PROVE FALSE
    OBVIOUS
  <2> DEFINE S == {k \in Nat : d[33 + k] > 0}
  <2>1. 0 \in S
    BY <1>3
  <2>2. ASSUME NEW k \in Nat, k \in S PROVE k + 1 \in S
    <3> DEFINE l == 33 + k
    <3>1. l \in Nat /\ l > 32 /\ 33 + (k + 1) = l + 1 /\ d[l] > 0
      BY <2>2
    <3> HIDE DEF l
    <3>2. d[l + 1] = 2 * (d[l] - n[l]) /\ n[l] = 0 /\ d[l] \in Nat
      BY <1>2, <1>3, <1>5, <3>1
    <3>3. d[l + 1] > 0
      BY <3>1, <3>2
    <3> QED
      BY <3>1, <3>3
  <2>3. Nat \subseteq S
    <3> HIDE DEF S
    <3> QED
      BY <2>1, <2>2, NatSet
  <2>4. PICK L \in Nat : \A l \in Nat : l >= L => d[l] = 0
    BY <1>2
  <2>5. d[33 + L] > 0
    BY <2>3
  <2>6. d[33 + L] = 0
    BY <2>4
  <2> QED
    BY <2>5, <2>6
<1> DEFINE e == [l \in 1..33 |-> d[l]]
           u == [l \in 0..32 |-> Cardinality(UpTo(D, cs, l))]
<1>7. e \in [1..33 -> Nat] /\ \A l \in 1..33 : e[l] = d[l]
  BY <1>3
<1>8. \A l \in 0..32 : u[l] = Cardinality(UpTo(D, cs, l))
  OBVIOUS
<1>9. u \in [0..32 -> Nat]
  <2>1. \A l \in 0..32 : Cardinality(UpTo(D, cs, l)) \in Nat
    BY UpToNext
  <2> QED
    BY <2>1
<1> HIDE DEF e, u
<1>10. \A l \in 1..32 : bits[l] = n[l]
  BY <1>1
<1>11. bits \in [1..32 -> Nat]
  <2>1. \A l \in 1..32 : Cardinality(AtDepth(D, cs, l)) \in Nat
    BY UpToNext
  <2> QED
    BY <2>1
<1>12. ASSUME NEW l \in 1..32
       PROVE  bits[l] <= e[l] /\ e[l + 1] = 2 * (e[l] - bits[l]) /\ u[l] = u[l - 1] + bits[l]
  <2>1. l \in 1..33 /\ l + 1 \in 1..33 /\ l \in Nat /\ l \in 0..32 /\ l - 1 \in 0..32 /\ l - 1 \in Nat /\ (l - 1) + 1 = l
    OBVIOUS
  <2>2. e[l] = d[l] /\ e[l + 1] = d[l + 1] /\ bits[l] = n[l]
    BY <1>7, <1>10, <2>1
  <2>3. n[l] <= d[l] /\ d[l + 1] = 2 * (d[l] - n[l])
    BY <1>2, <2>1
  <2>4. Cardinality(UpTo(D, cs, (l - 1) + 1)) = Cardinality(UpTo(D, cs, l - 1)) + Cardinality(AtDepth(D, cs, (l - 1) + 1))
    BY <2>1, UpToNext
  <2>5. u[l] = u[l - 1] + n[l]
    BY <1>1, <1>8, <2>1, <2>4
  <2> QED
    BY <2>2, <2>3, <2>5
<1>13. u[0] = 0
  <2>1. UpTo(D, cs, 0) = AtDepth(D, cs, 0)
    BY DEF UpTo, AtDepth
  <2> QED
    BY <1>1, <1>4, <1>8, <2>1
<1>14. u[32] = N
  <2>1. UpTo(D, cs, 32) = D
    BY DEF UpTo
  <2> QED
    BY <1>8, <2>1
<1>15. e[1] = 2 /\ e[33] = 0
  <2>1. d[0 + 1] = 2 * (d[0] - n[0])
    BY <1>2
  <2>2. d[1] = 2
    BY <1>2, <1>4, <2>1
  <2> QED
    BY <1>6, <1>7, <2>2
<1>16. Profile(bits, e, u, N)
  BY <1>7, <1>9, <1>11, <1>12, <1>13, <1>14, <1>15 DEF Profile
<1>17. \A s \in D : cs[s] >= 1
  <2>1. Cardinality(AtDepth(D, cs, 0)) = 0 /\ IsFiniteSet(AtDepth(D, cs, 0))
    BY <1>1, <1>4
  <2>2. AtDepth(D, cs, 0) = {}
    BY <2>1, FS_EmptySet
  <2>3. \A s \in D : cs[s] \in Nat /\ cs[s] # 0
    BY <2>2 DEF AtDepth
  <2> QED
    BY <2>3
<1> QED
  BY <1>16, <1>17 DEF Fill

(***************************************************************************)
(* One code less, and first codes that fit.                                *)
(***************************************************************************)
(* A node above one that is there is there too.                             *)
LEMMA NodesAbove ==
  ASSUME NEW bits, NEW d, NEW u, NEW N, Profile(bits, d, u, N), NEW L \in 1..32, bits[L] > 0
  PROVE  \A l \in 1..L : d[l] > 0
<1> DEFINE S == {k \in Nat : L - k >= 1 => d[L - k] > 0}
<1>1. 0 \in S
  <2>1. bits[L] \in Nat /\ d[L] \in Nat /\ bits[L] <= d[L]
    BY ProfileAt
  <2>2. L - 0 = L
    OBVIOUS
  <2> QED
    BY <2>1, <2>2
<1>2. ASSUME NEW k \in Nat, k \in S PROVE k + 1 \in S
  <2> SUFFICES ASSUME L - (k + 1) >= 1 PROVE d[L - (k + 1)] > 0
    OBVIOUS
  <2> DEFINE l == L - (k + 1)
  <2>1. l \in 1..32 /\ l + 1 = L - k /\ L - k >= 1
    OBVIOUS
  <2>2. d[l + 1] > 0
    BY <1>2, <2>1
  <2> HIDE DEF l
  <2>3. d[l] \in Nat /\ bits[l] \in Nat /\ d[l + 1] = 2 * (d[l] - bits[l])
    BY <2>1, ProfileAt
  <2>4. d[l] > 0
    BY <2>2, <2>3
  <2> QED
    BY <2>4 DEF l
<1>3. Nat \subseteq S
  <2> HIDE DEF S
  <2> QED
    BY <1>1, <1>2, NatSet
<1> TAKE l \in 1..L
<1>4. L - l \in Nat /\ L - (L - l) = l /\ l >= 1
  OBVIOUS
<1>5. L - l \in S
  BY <1>3, <1>4, Zenon
<1> QED
  BY <1>4, <1>5

(* Down to its deepest level a tree has all its leaves.                     *)
LEMMA LeavesAll ==
  ASSUME NEW bits, NEW d, NEW u, NEW N, Profile(bits, d, u, N), NEW i \in 0..32, Bounded(bits, i)
  PROVE  \A l \in 0..32 : l >= i => u[l] = N
<1> DEFINE S == {k \in Nat : 32 - k >= i => u[32 - k] = N}
<1>1. 0 \in S
  BY DEF Profile
<1>2. ASSUME NEW k \in Nat, k \in S PROVE k + 1 \in S
  <2> SUFFICES ASSUME 32 - (k + 1) >= i PROVE u[32 - (k + 1)] = N
    OBVIOUS
  <2> DEFINE l == 32 - k
  <2>1. l \in 1..32 /\ l - 1 = 32 - (k + 1) /\ l > i /\ 32 - k >= i
    OBVIOUS
  <2>2. u[l] = N
    BY <1>2, <2>1
  <2> HIDE DEF l
  <2>3. u[l - 1] \in Nat /\ u[l] = u[l - 1] + bits[l]
    BY <2>1, ProfileAt
  <2>4. bits[l] = 0
    BY <2>1 DEF Bounded
  <2>5. u[l - 1] = N
    BY <2>2, <2>3, <2>4
  <2> QED
    BY <2>1, <2>5
<1>3. Nat \subseteq S
  <2> HIDE DEF S
  <2> QED
    BY <1>1, <1>2, NatSet
<1> TAKE l \in 0..32
<1>4. 32 - l \in Nat /\ 32 - (32 - l) = l
  OBVIOUS
<1>5. 32 - l \in S
  BY <1>3, <1>4, Zenon
<1> QED
  BY <1>4, <1>5

(* One code of the longest is left unused.                                  *)
ShortBy(bits, L, b) ==
  /\ L \in 1..16 /\ bits[L] > 0 /\ Bounded(bits, L)
  /\ b = [l \in 1..16 |-> IF l = L THEN bits[l] - 1 ELSE bits[l]]
LEMMA ShortenedIs ==
  ASSUME NEW bits, NEW N \in 2..255, Fill(bits, N), Bounded(bits, 16)
  PROVE  \E L : ShortBy(bits, L, Shortened(bits))
<1>1. PICK d, u : Profile(bits, d, u, N)
  BY DEF Fill
<1>2. \A l \in 1..32 : bits[l] \in Nat
  BY <1>1, ProfileAt
<1> DEFINE S == {l \in 1..16 : bits[l] > 0}
           L == Max(S)
<1>3. S # {}
  <2> SUFFICES ASSUME S = {} PROVE FALSE
    OBVIOUS
  <2>1. Bounded(bits, 0)
    <3> SUFFICES ASSUME NEW l \in 1..32 PROVE bits[l] = 0
      BY DEF Bounded
    <3>1. CASE l > 16
      BY <3>1 DEF Bounded
    <3>2. CASE ~(l > 16)
      <4>1. l \in 1..16 /\ ~(bits[l] > 0) /\ bits[l] \in Nat
        BY <1>2, <3>2
      <4> QED
        BY <4>1
    <3> QED
      BY <3>1, <3>2
  <2>2. u[0] = N
    <3>1. 0 \in 0..32 /\ 0 >= 0
      OBVIOUS
    <3> QED
      BY <1>1, <2>1, <3>1, LeavesAll
  <2>3. u[0] = 0
    BY <1>1 DEF Profile
  <2> QED
    BY <2>2, <2>3
<1>4. L \in S /\ \A l \in S : l <= L
  <2>1. S \subseteq 0..16
    OBVIOUS
  <2> QED
    BY <1>3, <2>1, GreatestIs
<1>5. Shortened(bits) = [l \in 1..16 |-> IF l = L THEN bits[l] - 1 ELSE bits[l]]
  BY Zenon DEF Shortened
<1> HIDE DEF L
<1>6. Bounded(bits, L)
  <2> SUFFICES ASSUME NEW l \in 1..32, l > L PROVE bits[l] = 0
    BY DEF Bounded
  <2>1. CASE l > 16
    BY <2>1 DEF Bounded
  <2>2. CASE ~(l > 16)
    <3>1. l \in 1..16 /\ ~(l <= L)
      BY <1>4, <2>2
    <3>2. ~(bits[l] > 0) /\ bits[l] \in Nat
      BY <1>2, <1>4, <3>1
    <3> QED
      BY <3>2
  <2> QED
    BY <2>1, <2>2
<1>7. ShortBy(bits, L, Shortened(bits))
  BY <1>4, <1>5, <1>6 DEF ShortBy
<1> QED
  BY <1>7

(* F[l] is the first code of length l: twice what follows the codes of the  *)
(* length before; none of them is all ones.                                 *)
Fits(bits, F) ==
  /\ F \in [1..16 -> Int] /\ F[1] = 0
  /\ \A l \in 1..15 : F[l + 1] = 2 * (F[l] + bits[l])
  /\ \A l \in 1..16 : F[l] + bits[l] < Pow[l]

LEMMA FitsBefore ==
  ASSUME NEW P \in Nat, NEW P2 \in Nat, NEW d \in Nat, NEW d2 \in Nat, NEW b \in Nat,
         P2 = 2 * P, d2 = 2 * (d - b)
  PROVE  P2 - d2 = 2 * ((P - d) + b)
OBVIOUS
LEMMA FitsAfter ==
  ASSUME NEW P \in Nat, NEW P2 \in Nat, NEW Q \in Nat, NEW Q2 \in Nat, P2 = 2 * P, Q2 = 2 * Q
  PROVE  P2 - Q2 = 2 * ((P - Q) + 0)
OBVIOUS

LEMMA ShortenedFits ==
  ASSUME NEW bits, NEW d, NEW u, NEW N \in 2..255, Profile(bits, d, u, N),
         NEW L, NEW b, ShortBy(bits, L, b)
  PROVE  b \in [1..16 -> Nat] /\ \E F : Fits(b, F)
<1>1. L \in 1..16 /\ L \in 0..32 /\ L \in 1..32 /\ bits[L] > 0 /\ Bounded(bits, L)
  BY DEF ShortBy
<1>2. \A l \in 1..16 : /\ bits[l] \in Nat /\ d[l] \in Nat /\ d[l + 1] \in Nat
                       /\ bits[l] <= d[l] /\ d[l + 1] = 2 * (d[l] - bits[l])
  <2> TAKE l \in 1..16
  <2>1. l \in 1..32
    OBVIOUS
  <2> QED
    BY <2>1, ProfileAt
<1>3. \A l \in 1..16 : b[l] = IF l = L THEN bits[l] - 1 ELSE bits[l]
  BY DEF ShortBy
<1>4. \A l \in 1..16 : l > L => b[l] = 0
  <2> TAKE l \in 1..16
  <2>1. l \in 1..32
    OBVIOUS
  <2> QED
    BY <1>1, <1>3, <2>1 DEF Bounded
<1>5. bits[L] = d[L]
  <2>1. L + 1 \in 1..33 /\ L + 1 > L
    BY <1>1
  <2>2. d[L + 1] = 0
    BY <1>1, <2>1, NoneDeeper
  <2>3. bits[L] \in Nat /\ d[L] \in Nat /\ bits[L] <= d[L] /\ d[L + 1] = 2 * (d[L] - bits[L])
    BY <1>1, <1>2
  <2> QED
    BY <2>2, <2>3
<1>6. \A l \in 1..16 : l < L => d[l] > bits[l]
  <2> TAKE l \in 1..16
  <2>1. l < L => l + 1 \in 1..L
    BY <1>1
  <2>2. l < L => d[l + 1] > 0
    BY <1>1, <2>1, NodesAbove
  <2> QED
    BY <1>2, <2>2
<1>7. b \in [1..16 -> Nat]
  <2>1. \A l \in 1..16 : b[l] \in Nat
    BY <1>1, <1>2, <1>3
  <2>2. b = [l \in 1..16 |-> b[l]]
    BY DEF ShortBy
  <2> QED
    BY <2>1, <2>2
<1> DEFINE e == [l \in 1..16 |-> IF l <= L THEN d[l] ELSE Pow[l - L]]
           F == [l \in 1..16 |-> Pow[l] - e[l]]
<1>8. \A l \in 1..16 : /\ l \in 0..32 /\ l \in 0..31 /\ Pow[l] \in Nat /\ Pow[l + 1] \in Nat /\ Pow[l + 1] = 2 * Pow[l]
  <2> TAKE l \in 1..16
  <2>1. l \in 0..32 /\ l \in 0..31 /\ l + 1 \in 0..32
    OBVIOUS
  <2> QED
    BY <2>1, PowIs, PowIsNat
<1>9. \A l \in 1..16 : l > L => /\ Pow[l - L] \in Nat /\ Pow[l - L] > 0
                                /\ Pow[l + 1 - L] \in Nat /\ Pow[l + 1 - L] = 2 * Pow[l - L]
  <2> TAKE l \in 1..16
  <2> HAVE l > L
  <2>1. l - L \in 0..31 /\ l - L \in 0..32 /\ l + 1 - L = (l - L) + 1 /\ (l - L) + 1 \in 0..32
    BY <1>1
  <2>2. Pow[l - L] \in Nat \ {0} /\ Pow[(l - L) + 1] \in Nat \ {0} /\ Pow[(l - L) + 1] = 2 * Pow[l - L]
    BY <2>1, PowIs, PowIsNat
  <2> QED
    BY <2>1, <2>2
<1>10. \A l \in 1..16 : F[l] = Pow[l] - e[l] /\ e[l] = IF l <= L THEN d[l] ELSE Pow[l - L]
  OBVIOUS
<1>11. \A l \in 1..16 : e[l] \in Nat
  <2> TAKE l \in 1..16
  <2>1. CASE l <= L
    BY <1>2, <1>10, <2>1
  <2>2. CASE l > L
    <3>1. e[l] = Pow[l - L]
      BY <1>1, <1>10, <2>2
    <3> QED
      BY <1>9, <2>2, <3>1
  <2> QED
    BY <1>1, <2>1, <2>2
<1>12. F \in [1..16 -> Int]
  <2>1. \A l \in 1..16 : Pow[l] - e[l] \in Int
    BY <1>8, <1>11
  <2> HIDE DEF e
  <2> QED
    BY <2>1
<1> HIDE DEF e, F
<1>13. F[1] = 0
  <2>1. 1 \in 1..16 /\ 1 <= L /\ 0 \in 0..31 /\ 1 = 0 + 1
    BY <1>1
  <2>2. Pow[1] = 2
    BY <2>1, PowIs
  <2>3. d[1] = 2
    BY DEF Profile
  <2> QED
    BY <1>10, <2>1, <2>2, <2>3
<1>14. ASSUME NEW l \in 1..15 PROVE F[l + 1] = 2 * (F[l] + b[l])
  <2>1. l \in 1..16 /\ l + 1 \in 1..16
    OBVIOUS
  <2>2. F[l] = Pow[l] - e[l] /\ F[l + 1] = Pow[l + 1] - e[l + 1]
    BY <1>10, <2>1
  <2>3. Pow[l] \in Nat /\ Pow[l + 1] \in Nat /\ Pow[l + 1] = 2 * Pow[l]
    BY <1>8, <2>1
  <2>4. CASE l < L
    <3>1. e[l] = d[l] /\ e[l + 1] = d[l + 1] /\ b[l] = bits[l]
      BY <1>1, <1>3, <1>10, <2>1, <2>4
    <3>2. d[l] \in Nat /\ d[l + 1] \in Nat /\ bits[l] \in Nat /\ d[l + 1] = 2 * (d[l] - bits[l])
      BY <1>2, <2>1
    <3>3. Pow[l + 1] - d[l + 1] = 2 * ((Pow[l] - d[l]) + bits[l])
      BY <2>3, <3>2, FitsBefore
    <3> QED
      BY <2>2, <3>1, <3>3
  <2>5. CASE l = L
    <3>1. e[l] = d[l] /\ e[l + 1] = Pow[(l + 1) - L] /\ b[l] = bits[l] - 1 /\ bits[l] = d[l]
      BY <1>1, <1>3, <1>5, <1>10, <2>1, <2>5
    <3>2. (l + 1) - L = 0 + 1 /\ 0 \in 0..31
      BY <2>5
    <3>3. Pow[0 + 1] = 2 * Pow[0] /\ Pow[0] = 1
      BY <3>2, PowIs
    <3>4. d[l] \in Nat
      BY <1>2, <2>1
    <3>5. e[l + 1] = 2
      BY <3>1, <3>2, <3>3
    <3> QED
      BY <2>2, <2>3, <3>1, <3>4, <3>5
  <2>6. CASE l > L
    <3>1. e[l] = Pow[l - L] /\ e[l + 1] = Pow[l + 1 - L] /\ b[l] = 0
      BY <1>1, <1>4, <1>10, <2>1, <2>6
    <3>2. Pow[l - L] \in Nat /\ Pow[l + 1 - L] \in Nat /\ Pow[l + 1 - L] = 2 * Pow[l - L]
      BY <1>9, <2>1, <2>6
    <3>3. Pow[l + 1] - Pow[l + 1 - L] = 2 * ((Pow[l] - Pow[l - L]) + 0)
      BY <2>3, <3>2, FitsAfter
    <3> QED
      BY <2>2, <3>1, <3>3
  <2> QED
    BY <1>1, <2>4, <2>5, <2>6
<1>15. ASSUME NEW l \in 1..16 PROVE F[l] + b[l] < Pow[l]
  <2>1. F[l] = Pow[l] - e[l] /\ Pow[l] \in Nat
    BY <1>8, <1>10
  <2>2. bits[l] \in Nat /\ d[l] \in Nat
    BY <1>2
  <2>3. CASE l < L
    <3>1. e[l] = d[l] /\ b[l] = bits[l] /\ d[l] > bits[l]
      BY <1>1, <1>3, <1>6, <1>10, <2>3
    <3> QED
      BY <2>1, <2>2, <3>1
  <2>4. CASE l = L
    <3>1. e[l] = d[l] /\ b[l] = bits[l] - 1 /\ d[l] = bits[l]
      BY <1>1, <1>3, <1>5, <1>10, <2>4
    <3> QED
      BY <2>1, <2>2, <3>1
  <2>5. CASE l > L
    <3>1. e[l] = Pow[l - L]
      BY <1>1, <1>10, <2>5
    <3>2. b[l] = 0
      BY <1>4, <2>5
    <3>3. Pow[l - L] \in Nat /\ Pow[l - L] > 0
      BY <1>9, <2>5
    <3> QED
      BY <2>1, <3>1, <3>2, <3>3
  <2> QED
    BY <1>1, <2>3, <2>4, <2>5
<1>16. Fits(b, F)
  BY <1>12, <1>13, <1>14, <1>15 DEF Fits
<1> QED
  BY <1>7, <1>16

(* Shortened takes away one code.                                           *)
LEMMA ShortenedCount ==
  ASSUME NEW bits, NEW d, NEW u, NEW N \in 2..255, Profile(bits, d, u, N),
         NEW L, NEW b, ShortBy(bits, L, b), NEW v, Counts(b, v)
  PROVE  v[16] = N - 1
<1>1. L \in 1..16 /\ L \in 0..32 /\ Bounded(bits, L)
  BY DEF ShortBy
<1>2. u[16] = N
  <2>1. 16 \in 0..32 /\ 16 >= L
    BY <1>1
  <2> QED
    BY <1>1, <2>1, LeavesAll
<1> DEFINE S == {k \in Nat : k <= 16 => v[k] = IF k < L THEN u[k] ELSE u[k] - 1}
<1>3. 0 \in S
  <2>1. u[0] = 0 /\ v[0] = 0 /\ 0 < L
    BY <1>1 DEF Profile, Counts
  <2> QED
    BY <2>1
<1>4. ASSUME NEW k \in Nat, k \in S PROVE k + 1 \in S
  <2> SUFFICES ASSUME k + 1 <= 16 PROVE v[k + 1] = IF k + 1 < L THEN u[k + 1] ELSE u[k + 1] - 1
    OBVIOUS
  <2> DEFINE l == k + 1
  <2>1. l \in 1..16 /\ l \in 1..32 /\ l - 1 = k /\ k <= 16
    OBVIOUS
  <2>2. v[k] = IF k < L THEN u[k] ELSE u[k] - 1
    BY <1>4, <2>1
  <2> HIDE DEF l
  <2>3. v[l] = v[l - 1] + b[l]
    BY <2>1 DEF Counts
  <2>4. u[l] = u[l - 1] + bits[l] /\ u[l - 1] \in Nat /\ bits[l] \in Nat
    BY <2>1, ProfileAt
  <2>5. b[l] = IF l = L THEN bits[l] - 1 ELSE bits[l]
    BY <2>1 DEF ShortBy
  <2>6. v[l] = IF l < L THEN u[l] ELSE u[l] - 1
    BY <1>1, <2>1, <2>2, <2>3, <2>4, <2>5
  <2> QED
    BY <2>6 DEF l
<1>5. Nat \subseteq S
  <2> HIDE DEF S
  <2> QED
    BY <1>3, <1>4, NatSet
<1>6. 16 \in S
  BY <1>5
<1> QED
  BY <1>1, <1>2, <1>6

LEMMA TimesDouble ==
  ASSUME NEW x \in Int, NEW P \in Nat, NEW Q \in Nat, Q = 2 * P
  PROVE  2 * (x * P + 0) = x * Q
OBVIOUS
LEMMA TimesTwo ==
  ASSUME NEW x \in Int
  PROVE  2 * x = x * 2
OBVIOUS

(* The first code of a length, where no code is between it and another.     *)
LEMMA FirstCode ==
  ASSUME NEW bits, NEW u, Counts(bits, u), NEW F, Fits(bits, F), NEW l \in 1..16, u[l - 1] = 0
  PROVE  F[l] = 0
<1> DEFINE S == {k \in Nat : k + 1 <= 16 /\ u[k] = 0 => F[k + 1] = 0}
<1>0. u \in [0..16 -> Nat] /\ bits \in [1..16 -> Nat]
  BY DEF Counts
<1>1. 0 \in S
  BY DEF Fits
<1>2. ASSUME NEW k \in Nat, k \in S PROVE k + 1 \in S
  <2> SUFFICES ASSUME (k + 1) + 1 <= 16, u[k + 1] = 0 PROVE F[(k + 1) + 1] = 0
    OBVIOUS
  <2> DEFINE m == k + 1
  <2>1. m \in 1..15 /\ m \in 1..16 /\ m \in 0..16 /\ m - 1 = k /\ k \in 0..16 /\ m <= 16
    OBVIOUS
  <2>2. u[m] = u[m - 1] + bits[m]
    BY <2>1, Zenon DEF Counts
  <2>3. u[k] \in Nat /\ bits[m] \in Nat
    BY <1>0, <2>1
  <2>4. u[k] = 0 /\ bits[m] = 0
    BY <2>1, <2>2, <2>3
  <2>5. F[m] = 0
    BY <1>2, <2>1, <2>4
  <2> HIDE DEF m
  <2>6. F[m + 1] = 2 * (F[m] + bits[m])
    BY <2>1 DEF Fits
  <2>7. F[m + 1] = 0
    BY <2>4, <2>5, <2>6
  <2> QED
    BY <2>7 DEF m
<1>3. Nat \subseteq S
  <2> HIDE DEF S
  <2> QED
    BY <1>1, <1>2, NatSet
<1>4. l - 1 \in Nat /\ (l - 1) + 1 = l
  OBVIOUS
<1>5. l - 1 \in S
  BY <1>3, <1>4, Zenon
<1> QED
  BY <1>4, <1>5

FollowsAt(bits, F, k, l) == F[l] = (F[k] + bits[k]) * Pow[l - k]
LEMMA NextCode ==
  ASSUME NEW bits, NEW u, Counts(bits, u), NEW F, Fits(bits, F),
         NEW k \in 1..16, NEW l \in 1..16, k < l, u[k] = u[l - 1]
  PROVE  FollowsAt(bits, F, k, l)
<1> DEFINE x == F[k] + bits[k]
           S == {n \in Nat : k + (n + 1) <= 16 /\ u[k] = u[k + n] => F[k + (n + 1)] = x * Pow[n + 1]}
<1>0. u \in [0..16 -> Nat] /\ bits \in [1..16 -> Nat] /\ F \in [1..16 -> Int]
  BY DEF Counts, Fits
<1>1. x \in Int
  <2>1. F[k] \in Int /\ bits[k] \in Int
    BY <1>0
  <2> QED
    BY <2>1
<1>2. \A n \in 0..15 : Pow[n + 1] = 2 * Pow[n] /\ Pow[n] \in Nat /\ Pow[n + 1] \in Nat
  <2> TAKE n \in 0..15
  <2>1. n \in 0..31 /\ n \in 0..32 /\ n + 1 \in 0..32
    OBVIOUS
  <2> QED
    BY <2>1, PowIs, PowIsNat
<1>3. 0 \in S
  <2> SUFFICES ASSUME k + (0 + 1) <= 16 PROVE F[k + (0 + 1)] = x * Pow[0 + 1]
    OBVIOUS
  <2>1. k \in 1..15 /\ k + (0 + 1) = k + 1
    OBVIOUS
  <2>2. F[k + 1] = 2 * x
    BY <2>1 DEF Fits
  <2>3. Pow[0 + 1] = 2
    <3>1. 0 \in 0..15
      OBVIOUS
    <3>2. Pow[0 + 1] = 2 * Pow[0] /\ Pow[0] = 1
      BY <1>2, <3>1, PowIs
    <3> QED
      BY <3>2
  <2> HIDE DEF x
  <2>4. F[k + 1] = x * Pow[0 + 1]
    BY <1>1, <2>2, <2>3, TimesTwo
  <2> QED
    BY <2>1, <2>4
<1>4. ASSUME NEW n \in Nat, n \in S PROVE n + 1 \in S
  <2> SUFFICES ASSUME k + ((n + 1) + 1) <= 16, u[k] = u[k + (n + 1)]
               PROVE  F[k + ((n + 1) + 1)] = x * Pow[(n + 1) + 1]
    OBVIOUS
  <2> DEFINE m == k + (n + 1)
  <2>1. /\ m \in 1..15 /\ m \in 1..16 /\ m - 1 = k + n /\ k + n \in 0..16 /\ m + 1 = k + ((n + 1) + 1)
        /\ m - 1 \in 0..16 /\ k \in 0..16 /\ k <= m - 1 /\ n + 1 \in 0..15 /\ k + (n + 1) <= 16
    OBVIOUS
  <2>2. u[m] = u[m - 1] + bits[m] /\ u[k] <= u[m - 1]
    BY <2>1, CountsGrow, Zenon DEF Counts
  <2>3. u[k] \in Nat /\ u[m - 1] \in Nat /\ bits[m] \in Nat /\ u[m] = u[k]
    BY <1>0, <2>1
  <2>4. u[k] = u[k + n] /\ bits[m] = 0
    BY <2>1, <2>2, <2>3
  <2>5. F[m] = x * Pow[n + 1]
    BY <1>4, <2>1, <2>4
  <2> HIDE DEF m, x
  <2>6. F[m + 1] = 2 * (F[m] + bits[m])
    BY <2>1 DEF Fits
  <2>7. Pow[(n + 1) + 1] = 2 * Pow[n + 1] /\ Pow[n + 1] \in Nat /\ Pow[(n + 1) + 1] \in Nat
    BY <1>2, <2>1
  <2>8. 2 * (x * Pow[n + 1] + 0) = x * Pow[(n + 1) + 1]
    BY <1>1, <2>7, TimesDouble
  <2>9. F[m + 1] = x * Pow[(n + 1) + 1]
    BY <2>4, <2>5, <2>6, <2>8
  <2> QED
    BY <2>1, <2>9
<1>5. Nat \subseteq S
  <2> HIDE DEF S
  <2> QED
    BY <1>3, <1>4, NatSet
<1>6. l - k - 1 \in Nat /\ k + ((l - k - 1) + 1) = l /\ k + (l - k - 1) = l - 1 /\ (l - k - 1) + 1 = l - k
  OBVIOUS
<1>7. l - k - 1 \in S
  BY <1>5, <1>6, Zenon
<1> QED
  BY <1>6, <1>7 DEF FollowsAt

(* Each code is that of its length which its place says.                    *)
FromZero(L, code) == L > 0 => code[1] = 0
CodeAt(u, F, size, code, p) == code[p] = F[size[p]] + (p - u[size[p] - 1] - 1)
LEMMA CodeIs ==
  ASSUME NEW bits, NEW u, Counts(bits, u), NEW size, Lengths(u, size),
         NEW code, Codes(u[16], size, code), FromZero(u[16], code), NEW F, Fits(bits, F)
  PROVE  \A p \in 1..u[16] : CodeAt(u, F, size, code, p)
<1> DEFINE S == {n \in Nat : n + 1 <= u[16] => CodeAt(u, F, size, code, n + 1)}
<1>0. u \in [0..16 -> Nat] /\ bits \in [1..16 -> Nat] /\ F \in [1..16 -> Int] /\ u[16] \in Nat
  BY DEF Counts, Fits, Codes
<1>1. \A p \in 1..u[16] : /\ size[p] \in 1..16 /\ size[p] - 1 \in 0..16 /\ size[p] \in 0..16
                          /\ u[size[p] - 1] < p /\ p <= u[size[p]]
                          /\ u[size[p] - 1] \in Nat /\ F[size[p]] \in Int
                          /\ u[size[p]] = u[size[p] - 1] + bits[size[p]]
  <2> TAKE p \in 1..u[16]
  <2> DEFINE l == size[p]
  <2>1. LengthAt(u, p, l)
    BY Zenon DEF Lengths
  <2> HIDE DEF l
  <2>2. l \in 1..16 /\ u[l - 1] < p /\ p <= u[l]
    BY <2>1, Zenon DEF LengthAt
  <2>3. l - 1 \in 0..16 /\ l \in 0..16
    BY <2>2
  <2>4. u[l - 1] \in Nat /\ F[l] \in Int
    BY <1>0, <2>2, <2>3
  <2>5. u[l] = u[l - 1] + bits[l]
    BY <2>2, Zenon DEF Counts
  <2> QED
    BY <2>2, <2>3, <2>4, <2>5, Zenon DEF l
<1>2. 0 \in S
  <2> SUFFICES ASSUME 0 + 1 <= u[16] PROVE CodeAt(u, F, size, code, 0 + 1)
    OBVIOUS
  <2> DEFINE l == size[1]
  <2>1. 1 \in 1..u[16] /\ 0 + 1 = 1 /\ u[16] > 0
    BY <1>0
  <2>2. l \in 1..16 /\ u[l - 1] < 1 /\ u[l - 1] \in Nat
    BY <1>1, <2>1, Zenon
  <2> HIDE DEF l
  <2>3. u[l - 1] = 0
    BY <2>2
  <2>4. F[l] = 0
    BY <2>2, <2>3, FirstCode
  <2>5. code[1] = F[l] + (1 - u[l - 1] - 1)
    <3>1. code[1] = 0
      BY <2>1 DEF FromZero
    <3> QED
      BY <2>3, <2>4, <3>1
  <2> QED
    BY <2>5 DEF CodeAt, l
<1>3. ASSUME NEW n \in Nat, n \in S PROVE n + 1 \in S
  <2> SUFFICES ASSUME (n + 1) + 1 <= u[16] PROVE CodeAt(u, F, size, code, (n + 1) + 1)
    OBVIOUS
  <2> DEFINE q == n + 1
             p == (n + 1) + 1
  <2>1. q \in 1..u[16] /\ p \in 1..u[16] /\ p \in 2..u[16] /\ p = q + 1 /\ p - 1 = q /\ q <= p /\ n + 1 <= u[16]
    BY <1>0
  <2>2. CodeAt(u, F, size, code, q)
    BY <1>3, <2>1
  <2> HIDE DEF p, q
  <2> DEFINE k == size[q]
             l == size[p]
  <2>3. code[q] = F[k] + (q - u[k - 1] - 1)
    BY <2>2 DEF CodeAt
  <2>4. code[p] = (code[q] + 1) * Pow[l - k]
    BY <2>1, Zenon DEF Codes
  <2>5. k <= l
    BY <2>1, Zenon DEF Codes
  <2>6. /\ k \in 1..16 /\ k - 1 \in 0..16 /\ k \in 0..16 /\ u[k - 1] < q /\ q <= u[k]
        /\ u[k - 1] \in Nat /\ F[k] \in Int /\ u[k] = u[k - 1] + bits[k]
    BY <1>1, <2>1, Zenon
  <2>7. /\ l \in 1..16 /\ l - 1 \in 0..16 /\ l \in 0..16 /\ u[l - 1] < p /\ p <= u[l]
        /\ u[l - 1] \in Nat /\ F[l] \in Int /\ u[l] = u[l - 1] + bits[l]
    BY <1>1, <2>1, Zenon
  <2>8. q \in Nat /\ p \in Nat /\ code[q] \in Nat
    <3>1. code \in [1..u[16] -> Nat]
      BY DEF Codes
    <3> QED
      BY <2>1, <3>1
  <2> HIDE DEF k, l
  <2>9. CASE k = l
    <3>1. l - k = 0 /\ Pow[0] = 1
      BY <2>6, <2>9, PowIs
    <3>2. code[p] = code[q] + 1
      BY <2>4, <2>8, <3>1
    <3>3. code[p] = F[l] + (p - u[l - 1] - 1)
      BY <2>1, <2>3, <2>6, <2>7, <2>8, <2>9, <3>2
    <3> QED
      BY <3>3 DEF CodeAt, l, p
  <2>10. CASE k # l
    <3>1. k < l /\ k <= l - 1
      BY <2>5, <2>6, <2>7, <2>10
    <3>2. u[k] <= u[l - 1] /\ u[k] \in Nat
      BY <1>0, <2>6, <2>7, <3>1, CountsGrow, Zenon
    <3>3. u[k] = u[l - 1] /\ u[k] = q
      BY <2>1, <2>6, <2>7, <2>8, <3>2
    <3>4. F[l] = (F[k] + bits[k]) * Pow[l - k]
      <4>1. k \in 1..16
        BY <2>6
      <4>2. l \in 1..16
        BY <2>7
      <4>3. k < l
        BY <3>1
      <4>4. u[k] = u[l - 1]
        BY <3>3
      <4>5. FollowsAt(bits, F, k, l)
        BY <4>1, <4>2, <4>3, <4>4, NextCode, Zenon
      <4> QED
        BY <4>5 DEF FollowsAt
    <3>5. code[q] + 1 = F[k] + bits[k]
      <4>1. bits[k] \in Nat
        BY <1>0, <2>6
      <4> QED
        BY <2>3, <2>6, <2>8, <3>3, <4>1
    <3>6. code[p] = F[l]
      BY <2>4, <3>4, <3>5
    <3>7. code[p] = F[l] + (p - u[l - 1] - 1)
      BY <2>1, <2>7, <2>8, <3>3, <3>6
    <3> QED
      BY <3>7 DEF CodeAt, l, p
  <2> QED
    BY <2>9, <2>10
<1>4. Nat \subseteq S
  <2> HIDE DEF S
  <2> QED
    BY <1>2, <1>3, NatSet
<1> TAKE p \in 1..u[16]
<1>5. p - 1 \in Nat /\ (p - 1) + 1 = p /\ p <= u[16]
  OBVIOUS
<1>6. p - 1 \in S
  BY <1>4, <1>5, Zenon
<1> QED
  BY <1>5, <1>6

(* Of a table with such counts no code is all ones, and neither side        *)
(* refuses it.                                                              *)
LEMMA EveryCodeFits ==
  ASSUME NEW bits, NEW u, Counts(bits, u), NEW size, Lengths(u, size),
         NEW code, Codes(u[16], size, code), FromZero(u[16], code), NEW F, Fits(bits, F),
         NEW p \in 1..u[16]
  PROVE  code[p] + 1 < Pow[size[p]]
<1> DEFINE l == size[p]
<1>1. code[p] = F[l] + (p - u[l - 1] - 1)
  <2>1. CodeAt(u, F, size, code, p)
    BY CodeIs, Zenon
  <2> QED
    BY <2>1 DEF CodeAt
<1>2. LengthAt(u, p, l)
  BY Zenon DEF Lengths
<1>3. code[p] \in Nat /\ p \in Nat
  <2>1. code \in [1..u[16] -> Nat]
    BY DEF Codes
  <2> QED
    BY <2>1
<1> HIDE DEF l
<1>4. l \in 1..16 /\ u[l - 1] < p /\ p <= u[l]
  BY <1>2, Zenon DEF LengthAt
<1>5. l - 1 \in 0..16 /\ l \in 0..32
  BY <1>4
<1>6. u[l - 1] \in Nat /\ bits[l] \in Nat /\ F[l] \in Int
  BY <1>4, <1>5 DEF Counts, Fits
<1>7. u[l] = u[l - 1] + bits[l]
  BY <1>4, Zenon DEF Counts
<1>8. F[l] + bits[l] < Pow[l]
  BY <1>4, Zenon DEF Fits
<1>9. Pow[l] \in Nat
  BY <1>5, PowIsNat
<1>10. code[p] + 1 < Pow[l]
  BY <1>1, <1>3, <1>4, <1>6, <1>7, <1>8, <1>9
<1> QED
  BY <1>10 DEF l

(* Counts that fit are not refused.                                         *)
LEMMA NotRefused ==
  ASSUME NEW tbl, tbl.bits \in [1..16 -> Nat], NEW F, Fits(tbl.bits, F), CodesUpTo(tbl.bits)[16] <= 256
  PROVE  ~BadTable(tbl, FALSE)
<1> DEFINE bits == tbl.bits
           u == CodesUpTo(bits)
           size == huffsize(tbl)
           code == huffcode(size)
<1>1. bits \in [1..16 -> Nat] /\ Fits(bits, F) /\ u[16] <= 256
  OBVIOUS
<1>2. Counts(bits, u)
  BY <1>1, UpToIs, Zenon DEF Counts
<1>3. DOMAIN size = 1..u[16] /\ Len(size) = u[16] /\ Lengths(u, size)
  BY <1>1, SizesAre, Zenon DEF Lengths
<1>4. ~(Len(size) > 256) /\ (\A p \in DOMAIN size : ~(code[p] + 1 >= 2^size[p])) => ~BadTable(tbl, FALSE)
  BY Zenon DEF BadTable
<1> HIDE DEF bits, u, size
<1>5. u \in [0..16 -> Nat] /\ u[16] \in Nat
  <2>1. u \in [0..16 -> Nat] /\ 16 \in 0..16
    BY <1>2 DEF Counts
  <2> QED
    BY <2>1
<1>6. Codes(u[16], size, code) /\ FromZero(u[16], code)
  <2>1. \A p, q \in 1..u[16] : p <= q => size[p] <= size[q]
    <3>1. Lengths(u, size)
      BY <1>3
    <3> QED
      BY <1>2, <3>1, SizesGrow, Zenon
  <2>2. size \in [1..u[16] -> 1..16]
    BY <1>3, Zenon DEF Lengths
  <2>3. \A p \in 2..u[16] : size[p - 1] <= size[p]
    <3>1. \A p \in 2..u[16] : p - 1 \in 1..u[16] /\ p \in 1..u[16] /\ p - 1 <= p
      BY <1>5
    <3> QED
      BY <2>1, <3>1, Zenon
  <2> QED
    BY <1>5, <2>1, <2>2, <2>3, CodesAre, Zenon DEF Codes, FromZero
<1> HIDE DEF code
<1>7. ASSUME NEW p \in 1..u[16] PROVE ~(code[p] + 1 >= 2^size[p])
  <2>1. code[p] + 1 < Pow[size[p]]
    BY <1>1, <1>2, <1>3, <1>6, EveryCodeFits, Zenon
  <2>2. code[p] \in Nat /\ size[p] \in 1..16
    BY <1>6 DEF Codes
  <2>3. size[p] \in 0..32
    BY <2>2
  <2>4. 2^size[p] = Pow[size[p]] /\ Pow[size[p]] \in Nat
    BY <2>3, PowIs, PowIsNat
  <2>5. ~(code[p] + 1 >= Pow[size[p]])
    BY <2>1, <2>2, <2>4
  <2> QED
    BY <2>4, <2>5, Zenon
<1>8. ~(Len(size) > 256)
  <2>1. Len(size) = u[16]
    BY <1>3
  <2>2. ~(u[16] > 256)
    BY <1>1, <1>5
  <2> QED
    BY <2>1, <2>2, Zenon
<1> QED
  BY <1>3, <1>4, <1>7, <1>8, Zenon

(***************************************************************************)
(* The places of the symbols among the values of a table.                  *)
(***************************************************************************)
RankIn(S, cs, s) == 1 + Cardinality({q \in S : Precedes(cs, q, s)})
Ranking(S, cs) ==
  /\ \A s \in S : RankIn(S, cs, s) \in 1..Cardinality(S)
  /\ \A s, t \in S : Precedes(cs, s, t) => RankIn(S, cs, s) < RankIn(S, cs, t)
  /\ \A s, t \in S : RankIn(S, cs, s) = RankIn(S, cs, t) => s = t
  /\ \A p \in 1..Cardinality(S) : \E s \in S : RankIn(S, cs, s) = p
LEMMA RanksAre ==
  ASSUME NEW S, S \subseteq 0..255, IsFiniteSet(S), NEW cs, \A s \in S : cs[s] \in Nat
  PROVE  Ranking(S, cs)
<1> DEFINE B(s) == {q \in S : Precedes(cs, q, s)}
           n == Cardinality(S)
<1>1. \A s \in S : B(s) \in SUBSET S /\ s \notin B(s)
  BY DEF Precedes
<1>2. \A s \in S : IsFiniteSet(B(s)) /\ Cardinality(B(s)) \in Nat
  BY <1>1, FS_Subset, FS_CardinalityType
<1>3. \A s \in S : RankIn(S, cs, s) = Cardinality(B(s)) + 1
  <2> TAKE s \in S
  <2>1. RankIn(S, cs, s) = 1 + Cardinality(B(s))
    BY Zenon DEF RankIn
  <2> HIDE DEF B
  <2> QED
    BY <1>2, <2>1
<1>4. \A s, t \in S : Precedes(cs, s, t) => B(s) \union {s} \subseteq B(t)
  <2> SUFFICES ASSUME NEW s \in S, NEW t \in S, Precedes(cs, s, t), NEW q \in S, Precedes(cs, q, s)
               PROVE  Precedes(cs, q, t)
    OBVIOUS
  <2>1. cs[q] \in Nat /\ cs[s] \in Nat /\ cs[t] \in Nat /\ q \in 0..255 /\ s \in 0..255 /\ t \in 0..255
    OBVIOUS
  <2> QED
    BY <2>1 DEF Precedes
<1>5. n \in Nat
  BY FS_CardinalityType
<1> HIDE DEF B
<1>6. ASSUME NEW s \in S PROVE IsFiniteSet(B(s) \union {s}) /\ Cardinality(B(s) \union {s}) = Cardinality(B(s)) + 1
  <2>1. IsFiniteSet(B(s)) /\ s \notin B(s)
    BY <1>1, <1>2
  <2> QED
    BY <2>1, FS_AddElement
<1>7. ASSUME NEW s \in S PROVE RankIn(S, cs, s) \in 1..n
  <2>1. B(s) \union {s} \in SUBSET S
    BY <1>1
  <2>2. Cardinality(B(s) \union {s}) <= n
    BY <2>1, FS_Subset
  <2>3. Cardinality(B(s)) + 1 <= n /\ Cardinality(B(s)) \in Nat
    BY <1>2, <1>6, <2>2
  <2> HIDE DEF n
  <2> QED
    BY <1>3, <1>5, <2>3
<1>8. ASSUME NEW s \in S, NEW t \in S, Precedes(cs, s, t) PROVE RankIn(S, cs, s) < RankIn(S, cs, t)
  <2>1. B(s) \union {s} \in SUBSET B(t) /\ IsFiniteSet(B(t))
    BY <1>2, <1>4, <1>8
  <2>2. Cardinality(B(s) \union {s}) <= Cardinality(B(t))
    BY <2>1, FS_Subset
  <2>3. Cardinality(B(s)) + 1 <= Cardinality(B(t)) /\ Cardinality(B(s)) \in Nat /\ Cardinality(B(t)) \in Nat
    BY <1>2, <1>6, <2>2
  <2> QED
    BY <1>3, <2>3
<1>9. ASSUME NEW s \in S, NEW t \in S, RankIn(S, cs, s) = RankIn(S, cs, t) PROVE s = t
  <2> SUFFICES ASSUME s # t PROVE FALSE
    OBVIOUS
  <2>1. s \in 0..255 /\ t \in 0..255 /\ cs[s] \in Nat /\ cs[t] \in Nat
    OBVIOUS
  <2>2. Precedes(cs, s, t) \/ Precedes(cs, t, s)
    BY <2>1 DEF Precedes
  <2>3. RankIn(S, cs, s) < RankIn(S, cs, t) \/ RankIn(S, cs, t) < RankIn(S, cs, s)
    BY <1>8, <2>2
  <2>4. RankIn(S, cs, s) \in 1..n /\ RankIn(S, cs, t) \in 1..n
    BY <1>7
  <2> QED
    BY <1>5, <1>9, <2>3, <2>4
<1> DEFINE f == [s \in S |-> RankIn(S, cs, s)]
<1>10. f \in Injection(S, 1..n)
  <2>1. f \in [S -> 1..n]
    BY <1>7
  <2>2. \A s, t \in S : f[s] = f[t] => s = t
    BY <1>9
  <2> HIDE DEF f
  <2> QED
    BY <2>1, <2>2, Zenon DEF Injection, IsInjective
<1>11. IsFiniteSet(1..n) /\ Cardinality(1..n) = n
  BY <1>5, FS_Interval
<1>12. f \in Surjection(S, 1..n)
  <2> HIDE DEF f
  <2> QED
    BY <1>10, <1>11, FS_Injection
<1>13. \A p \in 1..n : \E s \in S : RankIn(S, cs, s) = p
  BY <1>12 DEF Surjection
<1> QED
  BY <1>7, <1>8, <1>9, <1>13, Zenon DEF Ranking

(* A table: its counts, its values by their places.                         *)
Symbols(cs) == DOMAIN cs \ {PSEUDO}
Sizes(cs) == [l \in 1..32 |-> Cardinality(AtDepth(DOMAIN cs, cs, l))]
LEMMA TableIs ==
  ASSUME NEW cs
  PROVE  /\ TableOf(cs).bits = Shortened(Limit(Sizes(cs)))
         /\ TableOf(cs).vals = [p \in 1..Cardinality(Symbols(cs)) |->
                                  CHOOSE s \in Symbols(cs) : RankIn(Symbols(cs), cs, s) = p]
<1>1. MAX_CLEN = 32
  BY DEF MAX_CLEN
<1> QED
  BY <1>1, Zenon DEF TableOf, Symbols, Sizes, AtDepth, RankIn

Placed(S, cs, n, vals) ==
  /\ \A p \in 1..n : vals[p] \in S /\ RankIn(S, cs, vals[p]) = p
  /\ \A s \in S : RankIn(S, cs, s) \in 1..n /\ vals[RankIn(S, cs, s)] = s
LEMMA ValuesAre ==
  ASSUME NEW S, NEW cs, Ranking(S, cs), NEW n, n = Cardinality(S),
         NEW vals, vals = [p \in 1..n |-> CHOOSE s \in S : RankIn(S, cs, s) = p]
  PROVE  Placed(S, cs, n, vals)
<1>1. \A p \in 1..n : vals[p] \in S /\ RankIn(S, cs, vals[p]) = p
  <2> TAKE p \in 1..n
  <2>1. \E s \in S : RankIn(S, cs, s) = p
    BY Zenon DEF Ranking
  <2>2. vals[p] = CHOOSE s \in S : RankIn(S, cs, s) = p
    OBVIOUS
  <2> QED
    BY <2>1, <2>2, Zenon
<1>2. \A s \in S : RankIn(S, cs, s) \in 1..n
  BY Zenon DEF Ranking
<1>3. \A s \in S : vals[RankIn(S, cs, s)] = s
  <2> TAKE s \in S
  <2> DEFINE p == RankIn(S, cs, s)
  <2>1. vals[p] \in S /\ RankIn(S, cs, vals[p]) = RankIn(S, cs, s)
    BY <1>1, <1>2
  <2> QED
    BY <2>1, Zenon DEF Ranking
<1> QED
  BY <1>1, <1>2, <1>3 DEF Placed

(* The codes of a table with all its symbols in their places.               *)
CodesAt(S, cs, size, code) ==
  [s \in S |-> Bits(code[RankIn(S, cs, s)], size[RankIn(S, cs, s)])]
LEMMA CodesOfIs ==
  ASSUME NEW tbl, NEW S, NEW cs, Ranking(S, cs), NEW n, n = Cardinality(S),
         tbl.vals = [p \in 1..n |-> CHOOSE s \in S : RankIn(S, cs, s) = p],
         DOMAIN huffsize(tbl) = 1..n
  PROVE  CodesOf(tbl) = CodesAt(S, cs, huffsize(tbl), huffcode(huffsize(tbl)))
<1> DEFINE vals == tbl.vals
           size == huffsize(tbl)
           code == huffcode(size)
           at(s) == CHOOSE p \in DOMAIN size : vals[p] = s
<1>1. /\ \A p \in 1..n : vals[p] \in S /\ RankIn(S, cs, vals[p]) = p
      /\ \A s \in S : RankIn(S, cs, s) \in 1..n /\ vals[RankIn(S, cs, s)] = s
  <2>1. Placed(S, cs, n, vals)
    BY ValuesAre, Zenon
  <2> HIDE DEF vals
  <2> QED
    BY <2>1, Zenon DEF Placed
<1>2. CodesOf(tbl) = [s \in {vals[p] : p \in DOMAIN size} |-> Bits(code[at(s)], size[at(s)])]
  BY Zenon DEF CodesOf
<1> HIDE DEF vals, code, size
<1>0. DOMAIN size = 1..n
  BY DEF size
<1>3. {vals[p] : p \in DOMAIN size} = S
  BY <1>1, <1>0
<1>4. \A s \in S : at(s) = RankIn(S, cs, s)
  <2> TAKE s \in S
  <2>1. RankIn(S, cs, s) \in DOMAIN size /\ vals[RankIn(S, cs, s)] = s
    BY <1>1, <1>0
  <2>2. at(s) \in DOMAIN size /\ vals[at(s)] = s
    BY <2>1, Zenon
  <2> HIDE DEF at
  <2> QED
    BY <1>1, <1>0, <2>2
<1> HIDE DEF at
<1>5. CodesOf(tbl) = [s \in S |-> Bits(code[at(s)], size[at(s)])]
  BY <1>2, <1>3
<1>6. \A s \in S : Bits(code[at(s)], size[at(s)]) = Bits(code[RankIn(S, cs, s)], size[RankIn(S, cs, s)])
  BY <1>4
<1> QED
  BY <1>5, <1>6, Zenon DEF CodesAt, size, code

(***************************************************************************)
(* A number, bit by bit.                                                   *)
(***************************************************************************)
LEMMA TwiceHalf ==
  ASSUME NEW v \in Nat, NEW k \in 0..15
  PROVE  v \div 2^k = 2 * (v \div 2^(k + 1)) + ((v \div 2^k) % 2)
<1>0. CASE k = 0
  BY <1>0
<1>1. CASE k = 1
  BY <1>1
<1>2. CASE k = 2
  BY <1>2
<1>3. CASE k = 3
  BY <1>3
<1>4. CASE k = 4
  BY <1>4
<1>5. CASE k = 5
  BY <1>5
<1>6. CASE k = 6
  BY <1>6
<1>7. CASE k = 7
  BY <1>7
<1>8. CASE k = 8
  BY <1>8
<1>9. CASE k = 9
  BY <1>9
<1>10. CASE k = 10
  BY <1>10
<1>11. CASE k = 11
  BY <1>11
<1>12. CASE k = 12
  BY <1>12
<1>13. CASE k = 13
  BY <1>13
<1>14. CASE k = 14
  BY <1>14
<1>15. CASE k = 15
  BY <1>15
<1> QED
  BY <1>0, <1>1, <1>2, <1>3, <1>4, <1>5, <1>6, <1>7, <1>8, <1>9, <1>10, <1>11, <1>12, <1>13, <1>14, <1>15

(* A number of k bits has none above them.                                  *)
LEMMA NothingBefore ==
  ASSUME NEW k \in 0..16, NEW v \in Nat, v < Pow[k]
  PROVE  v \div 2^k = 0
<1>0. CASE k = 0
  BY <1>0 DEF Pow
<1>1. CASE k = 1
  BY <1>1 DEF Pow
<1>2. CASE k = 2
  BY <1>2 DEF Pow
<1>3. CASE k = 3
  BY <1>3 DEF Pow
<1>4. CASE k = 4
  BY <1>4 DEF Pow
<1>5. CASE k = 5
  BY <1>5 DEF Pow
<1>6. CASE k = 6
  BY <1>6 DEF Pow
<1>7. CASE k = 7
  BY <1>7 DEF Pow
<1>8. CASE k = 8
  BY <1>8 DEF Pow
<1>9. CASE k = 9
  BY <1>9 DEF Pow
<1>10. CASE k = 10
  BY <1>10 DEF Pow
<1>11. CASE k = 11
  BY <1>11 DEF Pow
<1>12. CASE k = 12
  BY <1>12 DEF Pow
<1>13. CASE k = 13
  BY <1>13 DEF Pow
<1>14. CASE k = 14
  BY <1>14 DEF Pow
<1>15. CASE k = 15
  BY <1>15 DEF Pow
<1>16. CASE k = 16
  BY <1>16 DEF Pow
<1> QED
  BY <1>0, <1>1, <1>2, <1>3, <1>4, <1>5, <1>6, <1>7, <1>8, <1>9, <1>10, <1>11, <1>12, <1>13, <1>14, <1>15, <1>16

(* The bits of a number, the highest first.                                 *)
LEMMA BitsAre ==
  ASSUME NEW v, NEW n \in Nat
  PROVE  /\ Len(Bits(v, n)) = n
         /\ \A i \in 1..n : Bits(v, n)[i] = (v \div 2^(n - i)) % 2
<1>1. Bits(v, n) = [i \in 1..n |-> (v \div 2^(n - i)) % 2]
  BY Zenon DEF Bits
<1> QED
  BY <1>1

(* A prefix has the same elements.                                          *)
LEMMA SamePrefix ==
  ASSUME NEW m \in Nat, NEW s, NEW t, Len(s) = m, IsPrefix(s, t), NEW i \in 1..m
  PROVE  s[i] = t[i]
<1>1. SubSeq(s, 1, m)[i] = SubSeq(t, 1, m)[i]
  BY DEF IsPrefix
<1> QED
  BY <1>1

(* A code that is a prefix of another is its first bits as a number.        *)
LEMMA PrefixIs ==
  ASSUME NEW a \in Nat, NEW b \in Nat, NEW m \in 1..16, NEW n \in 1..16, m <= n,
         a < Pow[m], b < Pow[n], IsPrefix(Bits(a, m), Bits(b, n))
  PROVE  b \div 2^(n - m) = a
<1> DEFINE S == {k \in Nat : k <= m => a \div 2^(m - k) = b \div 2^(n - k)}
<1>1. \A i \in 1..m : (a \div 2^(m - i)) % 2 = (b \div 2^(n - i)) % 2
  <2> TAKE i \in 1..m
  <2>1. m \in Nat /\ n \in Nat /\ i \in 1..n
    OBVIOUS
  <2>2. Len(Bits(a, m)) = m
    BY <2>1, BitsAre
  <2>3. Bits(a, m)[i] = Bits(b, n)[i]
    BY <2>1, <2>2, SamePrefix
  <2>4. Bits(a, m)[i] = (a \div 2^(m - i)) % 2 /\ Bits(b, n)[i] = (b \div 2^(n - i)) % 2
    BY <2>1, BitsAre
  <2> QED
    BY <2>3, <2>4, Zenon
<1>2. 0 \in S
  <2>1. m - 0 = m /\ n - 0 = n /\ m \in 0..16 /\ n \in 0..16
    OBVIOUS
  <2>2. a \div 2^m = 0 /\ b \div 2^n = 0
    BY <2>1, NothingBefore
  <2> QED
    BY <2>1, <2>2
<1>3. ASSUME NEW k \in Nat, k \in S PROVE k + 1 \in S
  <2> SUFFICES ASSUME k + 1 <= m PROVE a \div 2^(m - (k + 1)) = b \div 2^(n - (k + 1))
    OBVIOUS
  <2> DEFINE x == m - (k + 1)
             y == n - (k + 1)
  <2>1. x \in 0..15 /\ y \in 0..15 /\ x + 1 = m - k /\ y + 1 = n - k /\ k + 1 \in 1..m /\ k <= m
    OBVIOUS
  <2>2. (a \div 2^x) % 2 = (b \div 2^y) % 2
    BY <1>1, <2>1
  <2>3. a \div 2^(x + 1) = b \div 2^(y + 1)
    BY <1>3, <2>1
  <2> HIDE DEF x, y
  <2>4. a \div 2^x = 2 * (a \div 2^(x + 1)) + ((a \div 2^x) % 2)
    BY <2>1, TwiceHalf
  <2>5. b \div 2^y = 2 * (b \div 2^(y + 1)) + ((b \div 2^y) % 2)
    BY <2>1, TwiceHalf
  <2>6. a \div 2^x = b \div 2^y
    BY <2>2, <2>3, <2>4, <2>5, Zenon
  <2> QED
    BY <2>6 DEF x, y
<1>4. Nat \subseteq S
  <2> HIDE DEF S
  <2> QED
    BY <1>2, <1>3, NatSet
<1>5. a \div 2^(m - m) = b \div 2^(n - m)
  <2>1. m \in Nat /\ m <= m
    OBVIOUS
  <2>2. m \in S
    BY <1>4, <2>1, Zenon
  <2> QED
    BY <2>1, <2>2
<1>6. a \div 2^(m - m) = a
  <2>1. m - m = 0 /\ 2^0 = 1
    OBVIOUS
  <2>2. a \div 1 = a
    OBVIOUS
  <2> QED
    BY <2>1, <2>2
<1> QED
  BY <1>5, <1>6

(* No code begins with another.                                             *)
LEMMA NotBefore ==
  ASSUME NEW u, NEW size, NEW L, NEW code, Codes(L, size, code),
         \A p \in 1..L : code[p] + 1 < Pow[size[p]],
         NEW p \in 1..L, NEW q \in 1..L, p # q
  PROVE  ~IsPrefix(Bits(code[p], size[p]), Bits(code[q], size[q]))
<1> SUFFICES ASSUME IsPrefix(Bits(code[p], size[p]), Bits(code[q], size[q])) PROVE FALSE
  OBVIOUS
<1> DEFINE a == code[p]
           b == code[q]
           m == size[p]
           n == size[q]
<1>1. L \in Nat /\ size \in [1..L -> 1..16] /\ code \in [1..L -> Nat]
  BY DEF Codes
<1>2. a \in Nat /\ b \in Nat /\ m \in 1..16 /\ n \in 1..16
  BY <1>1
<1>3. a + 1 < Pow[m] /\ b + 1 < Pow[n]
  OBVIOUS
<1> HIDE DEF a, b, m, n
<1>4. Pow[m] \in Nat /\ Pow[n] \in Nat
  <2>1. m \in 0..32 /\ n \in 0..32
    BY <1>2
  <2> QED
    BY <2>1, PowIsNat
<1>5. a < Pow[m] /\ b < Pow[n]
  BY <1>2, <1>3, <1>4
<1>6. IsPrefix(Bits(a, m), Bits(b, n))
  BY DEF a, b, m, n
<1>7. m <= n
  <2>1. m \in Nat /\ n \in Nat
    BY <1>2
  <2>2. Len(Bits(a, m)) = m /\ Len(Bits(b, n)) = n
    BY <2>1, BitsAre
  <2>3. Len(Bits(a, m)) <= Len(Bits(b, n))
    BY <1>6 DEF IsPrefix
  <2> QED
    BY <2>2, <2>3
<1>8. b \div 2^(n - m) = a
  BY <1>2, <1>5, <1>6, <1>7, PrefixIs
<1>9. CASE m = n
  <2>1. n - m = 0 /\ 2^0 = 1
    BY <1>2, <1>9
  <2>2. b \div 1 = b
    BY <1>2
  <2>3. a = b
    BY <1>8, <2>1, <2>2
  <2>4. p \in Nat /\ q \in Nat
    BY <1>1
  <2>5. p <= q => code[q] = code[p] + (q - p)
    BY <1>9, SameLength, Zenon DEF Codes, m, n
  <2>6. q <= p => code[p] = code[q] + (p - q)
    BY <1>9, SameLength, Zenon DEF Codes, m, n
  <2> QED
    BY <1>2, <2>3, <2>4, <2>5, <2>6 DEF a, b
<1>10. CASE m # n
  <2>1. ~(n <= m)
    BY <1>2, <1>7, <1>10
  <2>2. p < q
    <3>1. p \in Nat /\ q \in Nat
      BY <1>1
    <3>2. q <= p => n <= m
      BY Zenon DEF Codes, m, n
    <3> QED
      BY <2>1, <3>1, <3>2
  <2>3. code[q] >= (code[p] + 1) * Pow[size[q] - size[p]]
    BY <2>2, CodesBeyond, Zenon DEF Codes
  <2>4. b >= (a + 1) * Pow[n - m]
    BY <2>3 DEF a, b, m, n
  <2>5. n - m \in 1..15 /\ a \in Int /\ a >= -1
    BY <1>2, <2>1
  <2>6. b \div 2^(n - m) > a
    BY <1>2, <2>4, <2>5, PrefixOver, Zenon
  <2> QED
    BY <1>2, <1>8, <2>6
<1> QED
  BY <1>9, <1>10

(***************************************************************************)
(* Where no code had to be shortened, each symbol has its own length.      *)
(***************************************************************************)
LEMMA OwnCounts ==
  ASSUME NEW E, IsFiniteSet(E), PSEUDO \notin E,
         NEW cs \in [E \union {PSEUDO} -> Nat], \A s \in E : cs[s] <= cs[PSEUDO],
         cs[PSEUDO] \in 1..16, NEW bits, bits = [l \in 1..32 |-> Cardinality(AtDepth(E \union {PSEUDO}, cs, l))],
         NEW L, NEW b, ShortBy(bits, L, b), NEW l \in 1..16
  PROVE  b[l] = Cardinality(AtDepth(E, cs, l))
<1> DEFINE D == E \union {PSEUDO}
           m == cs[PSEUDO]
<1>1. /\ L \in 1..16 /\ bits[L] > 0 /\ Bounded(bits, L)
      /\ b[l] = IF l = L THEN bits[l] - 1 ELSE bits[l]
  BY DEF ShortBy
<1>2. \A k \in 1..32 : bits[k] = Cardinality(AtDepth(D, cs, k))
  OBVIOUS
<1>3. IsFiniteSet(D)
  BY FS_AddElement
<1>4. \A k \in 1..32 : IsFiniteSet(AtDepth(D, cs, k))
  <2> TAKE k \in 1..32
  <2>1. AtDepth(D, cs, k) \in SUBSET D
    BY DEF AtDepth
  <2> QED
    BY <1>3, <2>1, FS_Subset
<1>5. L <= m
  <2>1. L \in 1..32
    BY <1>1
  <2>2. AtDepth(D, cs, L) # {}
    <3> SUFFICES ASSUME AtDepth(D, cs, L) = {} PROVE FALSE
      OBVIOUS
    <3>1. bits[L] = 0
      BY <1>2, <2>1, FS_EmptySet
    <3> QED
      BY <1>1, <3>1
  <2>3. PICK s \in D : cs[s] = L
    BY <2>2 DEF AtDepth
  <2> QED
    BY <2>1, <2>3
<1>6. ~(m > L)
  <2> SUFFICES ASSUME m > L PROVE FALSE
    OBVIOUS
  <2>1. m \in 1..32
    OBVIOUS
  <2>2. bits[m] = 0
    BY <1>1, <2>1 DEF Bounded
  <2>3. Cardinality(AtDepth(D, cs, m)) = 0
    BY <1>2, <2>1, <2>2
  <2>4. AtDepth(D, cs, m) = {}
    BY <1>4, <2>1, <2>3, FS_EmptySet
  <2> QED
    BY <2>4 DEF AtDepth
<1>7. m = L
  BY <1>1, <1>5, <1>6
<1>8. l \in 1..32
  OBVIOUS
<1>9. CASE l # L
  <2>1. AtDepth(D, cs, l) = AtDepth(E, cs, l)
    BY <1>7, <1>9 DEF AtDepth
  <2> QED
    BY <1>1, <1>2, <1>8, <1>9, <2>1
<1>10. CASE l = L
  <2> DEFINE A == AtDepth(E, cs, l)
  <2>1. AtDepth(D, cs, l) = A \union {PSEUDO} /\ PSEUDO \notin A /\ A \in SUBSET E
    BY <1>7, <1>10 DEF AtDepth
  <2> HIDE DEF A
  <2>2. IsFiniteSet(A)
    BY <2>1, FS_Subset
  <2>3. Cardinality(A \union {PSEUDO}) = Cardinality(A) + 1
    BY <2>1, <2>2, FS_AddElement
  <2>4. Cardinality(A) \in Nat
    BY <2>2, FS_CardinalityType
  <2>5. b[l] = bits[l] - 1 /\ bits[l] = Cardinality(AtDepth(D, cs, l))
    BY <1>1, <1>2, <1>8, <1>10
  <2>6. b[l] = Cardinality(A)
    BY <2>1, <2>3, <2>4, <2>5
  <2> QED
    BY <2>6 DEF A
<1> QED
  BY <1>9, <1>10

OwnSize(E, cs, size, s) == size[RankIn(E, cs, s)] = cs[s]
LEMMA OwnLength ==
  ASSUME NEW E, E \subseteq 0..255, IsFiniteSet(E), NEW cs, \A s \in E : cs[s] \in 1..16,
         NEW b, NEW u, Counts(b, u), \A l \in 1..16 : b[l] = Cardinality(AtDepth(E, cs, l)),
         NEW size, Lengths(u, size), NEW s \in E, RankIn(E, cs, s) \in 1..u[16]
  PROVE  OwnSize(E, cs, size, s)
<1>1. \A q \in E : cs[q] \in Nat /\ q \in 0..255
  OBVIOUS
<1>2. \A l \in 0..16 : u[l] = Cardinality(UpTo(E, cs, l))
  <2> DEFINE S == {l \in Nat : l <= 16 => u[l] = Cardinality(UpTo(E, cs, l))}
  <2>1. 0 \in S
    <3>1. UpTo(E, cs, 0) = {}
      <4>1. \A q \in E : ~(cs[q] <= 0)
        OBVIOUS
      <4> QED
        BY <4>1 DEF UpTo
    <3>2. u[0] = 0
      BY DEF Counts
    <3> QED
      BY <3>1, <3>2, FS_EmptySet
  <2>2. ASSUME NEW k \in Nat, k \in S PROVE k + 1 \in S
    <3> SUFFICES ASSUME k + 1 <= 16 PROVE u[k + 1] = Cardinality(UpTo(E, cs, k + 1))
      OBVIOUS
    <3>1. k + 1 \in 1..16 /\ (k + 1) - 1 = k /\ k <= 16
      OBVIOUS
    <3>2. u[k + 1] = u[k] + b[k + 1]
      BY <3>1 DEF Counts
    <3>3. u[k] = Cardinality(UpTo(E, cs, k))
      BY <2>2, <3>1
    <3>4. b[k + 1] = Cardinality(AtDepth(E, cs, k + 1))
      BY <3>1
    <3>5. Cardinality(UpTo(E, cs, k + 1)) = Cardinality(UpTo(E, cs, k)) + Cardinality(AtDepth(E, cs, k + 1))
      BY <1>1, UpToNext
    <3> QED
      BY <3>2, <3>3, <3>4, <3>5
  <2>3. Nat \subseteq S
    <3> HIDE DEF S
    <3> QED
      BY <2>1, <2>2, NatSet
  <2> TAKE l \in 0..16
  <2>4. l \in Nat /\ l <= 16
    OBVIOUS
  <2>5. l \in S
    BY <2>3, <2>4, Zenon
  <2> QED
    BY <2>4, <2>5
<1> DEFINE l == cs[s]
           B == {q \in E : Precedes(cs, q, s)}
           p == RankIn(E, cs, s)
<1>3. l \in 1..16 /\ l - 1 \in 0..16 /\ l \in 0..16
  OBVIOUS
<1>4. p = 1 + Cardinality(B)
  BY Zenon DEF RankIn
<1>5. B \in SUBSET E /\ UpTo(E, cs, l - 1) \in SUBSET B /\ B \union {s} \in SUBSET UpTo(E, cs, l) /\ s \notin B
  <2>1. \A q \in E : cs[q] <= l - 1 => cs[q] < l
    BY <1>1, <1>3
  <2>2. \A q \in E : Precedes(cs, q, s) => cs[q] <= l
    BY <1>1, <1>3 DEF Precedes
  <2>3. ~Precedes(cs, s, s) /\ l <= l
    BY <1>1 DEF Precedes
  <2>4. \A q \in E : cs[q] < l => Precedes(cs, q, s)
    BY DEF Precedes
  <2>5. \A q \in UpTo(E, cs, l - 1) : q \in B
    BY <2>1, <2>4 DEF UpTo
  <2>6. \A q \in B \union {s} : q \in UpTo(E, cs, l)
    BY <2>2, <2>3 DEF UpTo
  <2> QED
    BY <2>3, <2>5, <2>6
<1>6. UpTo(E, cs, l) \in SUBSET E
  BY DEF UpTo
<1> HIDE DEF B, l, p
<1>7. IsFiniteSet(B) /\ IsFiniteSet(UpTo(E, cs, l))
  BY <1>5, <1>6, FS_Subset
<1>8. Cardinality(UpTo(E, cs, l - 1)) <= Cardinality(B) /\ IsFiniteSet(UpTo(E, cs, l - 1))
  BY <1>5, <1>7, FS_Subset
<1>9. Cardinality(B \union {s}) <= Cardinality(UpTo(E, cs, l))
  BY <1>5, <1>7, FS_Subset
<1>10. Cardinality(B \union {s}) = Cardinality(B) + 1
  BY <1>5, <1>7, FS_AddElement
<1>11. Cardinality(B) \in Nat /\ Cardinality(UpTo(E, cs, l)) \in Nat /\ Cardinality(UpTo(E, cs, l - 1)) \in Nat
  BY <1>7, <1>8, FS_CardinalityType
<1>12. u[l - 1] < p /\ p <= u[l] /\ p \in Nat
  BY <1>2, <1>3, <1>4, <1>8, <1>9, <1>10, <1>11
<1>13. LengthAt(u, p, l)
  BY <1>3, <1>12 DEF LengthAt
<1>14. LengthAt(u, p, size[p])
  <2>1. p \in 1..u[16]
    BY DEF p
  <2> QED
    BY <2>1, Zenon DEF Lengths
<1>15. u \in [0..16 -> Nat] /\ \A k \in 1..16 : u[k - 1] <= u[k]
  BY CountsGrow, Zenon
<1>16. p <= p
  BY <1>12
<1>17. l <= size[p] /\ size[p] <= l
  BY <1>12, <1>13, <1>14, <1>15, <1>16, LengthsGrow, Zenon
<1>18. size[p] \in 1..16
  BY <1>14, Zenon DEF LengthAt
<1>19. size[p] = l
  BY <1>3, <1>17, <1>18, Equal, Zenon
<1> QED
  BY <1>19, Zenon DEF OwnSize, p, l

(***************************************************************************)
(* The table of the lengths of a tree.                                     *)
(***************************************************************************)
(* TablesAreCodes for one table.                                            *)
Decodes(E, codes) ==
  /\ DOMAIN codes = E
  /\ \A s \in E : Len(codes[s]) \in 1..16
  /\ \A s, t \in E : s # t => ~IsPrefix(codes[s], codes[t])
Fair(E, freq, cs, codes) ==
  \A s, t \in E :
    freq[s] > freq[t] =>
      \/ Len(codes[s]) <= Len(codes[t])
      \/ cs[s] = cs[t] /\ \E q \in DOMAIN cs : cs[q] > 16

(* Numbers and symbols of a table.                                          *)
LEMMA SymbolCount ==
  ASSUME NEW n \in 1..254
  PROVE  n \in Nat /\ n <= 256
OBVIOUS
ValuesIn(cs, E) ==
  TableOf(cs).vals = [p \in 1..Cardinality(E) |-> CHOOSE s \in E : RankIn(E, cs, s) = p]
LEMMA ValuesOf ==
  ASSUME NEW cs, NEW E, Symbols(cs) = E
  PROVE  ValuesIn(cs, E)
<1>1. ValuesIn(cs, Symbols(cs))
  BY TableIs, Zenon DEF ValuesIn
<1> QED
  BY <1>1

IsCodeFor(E, cs, tbl) ==
  /\ ~BadTable(tbl, FALSE) /\ Decodes(E, CodesOf(tbl))
  /\ Lengths(CodesUpTo(tbl.bits), huffsize(tbl))
  /\ \A s \in E : Len(CodesOf(tbl)[s]) = huffsize(tbl)[RankIn(E, cs, s)]

(* A table whose counts fit and are as many as its symbols is a prefix code.*)
LEMMA PrefixCode ==
  ASSUME NEW E, NEW cs, Ranking(E, cs), NEW n, n = Cardinality(E), n \in 1..254,
         NEW tbl, tbl.vals = [p \in 1..n |-> CHOOSE s \in E : RankIn(E, cs, s) = p],
         tbl.bits \in [1..16 -> Nat], NEW F, Fits(tbl.bits, F), CodesUpTo(tbl.bits)[16] = n
  PROVE  IsCodeFor(E, cs, tbl)
<1> DEFINE bits == tbl.bits
           u == CodesUpTo(bits)
           size == huffsize(tbl)
           code == huffcode(size)
           R(s) == RankIn(E, cs, s)
<1>0. n \in Nat /\ n <= 256
  BY SymbolCount, Zenon
<1>1. ~BadTable(tbl, FALSE)
  <2>1. CodesUpTo(tbl.bits)[16] <= 256
    BY <1>0, Zenon
  <2> QED
    BY <2>1, NotRefused, Zenon
<1>2. bits \in [1..16 -> Nat] /\ Fits(bits, F) /\ u[16] = n
  OBVIOUS
<1>3. Counts(bits, u)
  BY <1>2, UpToIs, Zenon DEF Counts
<1>4. DOMAIN size = 1..n /\ Lengths(u, size)
  BY <1>2, SizesAre, Zenon DEF Lengths
<1>5. CodesOf(tbl) = CodesAt(E, cs, size, code)
  BY <1>4, CodesOfIs, Zenon
<1> HIDE DEF bits, u, size
<1>6. Codes(n, size, code) /\ FromZero(n, code)
  <2>1. \A p, q \in 1..n : p <= q => size[p] <= size[q]
    <3>1. \A p, q \in 1..u[16] : p <= q => size[p] <= size[q]
      <4>1. Lengths(u, size)
        BY <1>4
      <4> QED
        BY <1>3, <4>1, SizesGrow, Zenon
    <3> QED
      BY <1>2, <3>1, Zenon
  <2>2. size \in [1..n -> 1..16]
    BY <1>2, <1>4, Zenon DEF Lengths
  <2>3. \A p \in 2..n : size[p - 1] <= size[p]
    <3>1. \A p \in 2..n : p - 1 \in 1..n /\ p \in 1..n /\ p - 1 <= p
      OBVIOUS
    <3> QED
      BY <2>1, <3>1, Zenon
  <2> QED
    BY <1>0, <2>1, <2>2, <2>3, CodesAre, Zenon DEF Codes, FromZero
<1> HIDE DEF code
<1>7. \A p \in 1..n : code[p] + 1 < Pow[size[p]]
  <2>1. Codes(u[16], size, code) /\ FromZero(u[16], code) /\ Lengths(u, size)
    BY <1>2, <1>4, <1>6, Zenon
  <2>2. \A p \in 1..u[16] : code[p] + 1 < Pow[size[p]]
    BY <1>2, <1>3, <2>1, EveryCodeFits, Zenon
  <2> QED
    BY <1>2, <2>2, Zenon
<1>8. \A s \in E : R(s) \in 1..n
  BY Zenon DEF Ranking
<1>9. \A p \in 1..n : size[p] \in 1..16 /\ size[p] \in Nat
  <2> TAKE p \in 1..n
  <2>1. size[p] \in 1..16
    <3>1. size \in [1..n -> 1..16]
      BY <1>6, Zenon DEF Codes
    <3> QED
      BY <3>1, Zenon
  <2>2. \A l \in 1..16 : l \in Nat
    OBVIOUS
  <2> QED
    BY <2>1, <2>2, Zenon
<1> HIDE DEF R
<1>10. \A s \in E : CodesOf(tbl)[s] = Bits(code[R(s)], size[R(s)])
  BY <1>5, Zenon DEF CodesAt, R
<1>11. DOMAIN CodesOf(tbl) = E
  BY <1>5, Zenon DEF CodesAt
<1>12. \A s \in E : Len(CodesOf(tbl)[s]) = size[R(s)]
  <2> TAKE s \in E
  <2>1. size[R(s)] \in Nat
    BY <1>8, <1>9, Zenon
  <2>2. Len(Bits(code[R(s)], size[R(s)])) = size[R(s)]
    BY <2>1, BitsAre, Zenon
  <2> QED
    BY <1>10, <2>2, Zenon
<1>13. \A s \in E : Len(CodesOf(tbl)[s]) \in 1..16
  <2> TAKE s \in E
  <2>1. size[R(s)] \in 1..16
    BY <1>8, <1>9, Zenon
  <2> QED
    BY <1>12, <2>1, Zenon
<1>14. ASSUME NEW s \in E, NEW t \in E, s # t PROVE ~IsPrefix(CodesOf(tbl)[s], CodesOf(tbl)[t])
  <2>1. R(s) # R(t)
    BY <1>14, Zenon DEF Ranking, R
  <2>2. R(s) \in 1..n /\ R(t) \in 1..n
    BY <1>8, Zenon
  <2>3. ~IsPrefix(Bits(code[R(s)], size[R(s)]), Bits(code[R(t)], size[R(t)]))
    BY <1>6, <1>7, <2>1, <2>2, NotBefore, Zenon
  <2> QED
    BY <1>10, <2>3, Zenon
<1>15. Decodes(E, CodesOf(tbl))
  BY <1>11, <1>13, <1>14, Zenon DEF Decodes
<1> QED
  BY <1>1, <1>4, <1>12, <1>15, Zenon DEF IsCodeFor, bits, u, size, R

Ranked(E, cs, n, tbl, F) ==
  /\ Ranking(E, cs) /\ n = Cardinality(E) /\ n \in 1..254
  /\ tbl.vals = [p \in 1..n |-> CHOOSE s \in E : RankIn(E, cs, s) = p]
  /\ tbl.bits \in [1..16 -> Nat] /\ Fits(tbl.bits, F) /\ CodesUpTo(tbl.bits)[16] = n
LEMMA RankedIsCode ==
  ASSUME NEW E, NEW cs, NEW n, NEW tbl, NEW F, Ranked(E, cs, n, tbl, F)
  PROVE  IsCodeFor(E, cs, tbl)
BY PrefixCode, Zenon DEF Ranked

(* The lengths of a tree of at most 16 levels stay.                         *)
OwnTree(E, cs, L, b) ==
  /\ E \subseteq 0..255 /\ IsFiniteSet(E) /\ PSEUDO \notin E /\ cs \in [E \union {PSEUDO} -> Nat]
  /\ \A s \in E : cs[s] <= cs[PSEUDO]
  /\ \A s \in E \union {PSEUDO} : cs[s] \in 1..16
  /\ ShortBy([l \in 1..32 |-> Cardinality(AtDepth(E \union {PSEUDO}, cs, l))], L, b)
LEMMA OwnTreeCounts ==
  ASSUME NEW E, NEW cs, NEW L, NEW b, OwnTree(E, cs, L, b)
  PROVE  \A l \in 1..16 : b[l] = Cardinality(AtDepth(E, cs, l))
<1> DEFINE bits == [l \in 1..32 |-> Cardinality(AtDepth(E \union {PSEUDO}, cs, l))]
<1>1. /\ IsFiniteSet(E) /\ PSEUDO \notin E /\ cs \in [E \union {PSEUDO} -> Nat]
      /\ \A s \in E : cs[s] <= cs[PSEUDO]
      /\ cs[PSEUDO] \in 1..16 /\ ShortBy(bits, L, b)
  BY DEF OwnTree
<1>2. bits = [l \in 1..32 |-> Cardinality(AtDepth(E \union {PSEUDO}, cs, l))]
  OBVIOUS
<1> HIDE DEF bits
<1> QED
  BY <1>1, <1>2, OwnCounts
LEMMA OwnTreeLength ==
  ASSUME NEW E, NEW cs, NEW L, NEW b, OwnTree(E, cs, L, b), NEW u, Counts(b, u),
         NEW size, Lengths(u, size), NEW s \in E, RankIn(E, cs, s) \in 1..u[16]
  PROVE  OwnSize(E, cs, size, s)
<1>1. E \subseteq 0..255 /\ IsFiniteSet(E) /\ \A q \in E : cs[q] \in 1..16
  <2>1. \A q \in E : cs[q] \in 1..16
    BY Zenon DEF OwnTree
  <2> QED
    BY <2>1, Zenon DEF OwnTree
<1>2. \A l \in 1..16 : b[l] = Cardinality(AtDepth(E, cs, l))
  BY OwnTreeCounts, Zenon
<1> QED
  BY <1>1, <1>2, OwnLength, ZenonT(60)

(* Of the lengths of a tree, jpeg_gen_optimal_table makes a prefix code     *)
(* that is fair to the more frequent.                                       *)
LEMMA OptimalIs ==
  ASSUME NEW freq, NEW E, E \subseteq 0..255, Cardinality(E) \in 1..254,
         NEW cs, SizesOf(E, freq, cs), \A s \in DOMAIN cs : ~(cs[s] > MAX_CLEN)
  PROVE  /\ ~BadTable(TableOf(cs), FALSE) /\ Decodes(E, CodesOf(TableOf(cs)))
         /\ Fair(E, freq, cs, CodesOf(TableOf(cs)))
<1> DEFINE D == E \union {PSEUDO}
           n == Cardinality(E)
           N == Cardinality(D)
           tbl == TableOf(cs)
           first == Sizes(cs)
           lim == Limit(first)
           bits == tbl.bits
<1>1. /\ cs \in [D -> Nat] /\ \E d : FullTree(d, Depths(D, cs))
      /\ \A s \in E : cs[s] <= cs[PSEUDO]
      /\ \A s, t \in E : freq[s] > freq[t] => cs[s] <= cs[t]
  BY DEF SizesOf
<1>2. PSEUDO \notin E
  BY DEF PSEUDO
<1>3. DOMAIN cs = D /\ Symbols(cs) = E
  BY <1>1, <1>2 DEF Symbols
<1>4. IsFiniteSet(E) /\ IsFiniteSet(D) /\ N = n + 1
  <2>0. 0 \in Int /\ 255 \in Int
    OBVIOUS
  <2>1. IsFiniteSet(0..255)
    BY <2>0, FS_Interval, Zenon
  <2>2. IsFiniteSet(E)
    BY <2>1, FS_Subset
  <2> QED
    BY <1>2, <2>2, FS_AddElement
<1>5. n \in 1..254 /\ N \in 2..255 /\ N > 1 /\ n = N - 1
  <2>1. n \in 1..254
    OBVIOUS
  <2> HIDE DEF n, N
  <2> QED
    BY <1>4, <2>1
<1>6. /\ bits = Shortened(lim)
      /\ tbl.vals = [p \in 1..n |-> CHOOSE s \in E : RankIn(E, cs, s) = p]
  <2>1. TableOf(cs).bits = Shortened(Limit(Sizes(cs)))
    BY TableIs, Zenon
  <2>2. TableOf(cs).vals = [p \in 1..Cardinality(E) |-> CHOOSE s \in E : RankIn(E, cs, s) = p]
    <3>1. Symbols(cs) = E
      BY <1>3, Zenon
    <3>2. ValuesIn(cs, E)
      BY <3>1, ValuesOf, Zenon
    <3> QED
      BY <3>2, Zenon DEF ValuesIn
  <2> QED
    BY <2>1, <2>2, Zenon
<1>7. first = [l \in 1..32 |-> Cardinality(AtDepth(D, cs, l))]
  BY <1>3 DEF Sizes
<1>8. N = Cardinality(D) /\ n = Cardinality(E) /\ tbl.bits = bits
  OBVIOUS
<1> HIDE DEF D, n, N, tbl, first, lim, bits
<1>9. \A s \in D : cs[s] \in Nat /\ cs[s] <= 32
  BY <1>1, <1>3 DEF MAX_CLEN
<1>10. Fill(first, N) /\ \A s \in D : cs[s] >= 1
  <2>1. PICK d : FullTree(d, Depths(D, cs))
    BY <1>1
  <2> QED
    BY <1>1, <1>4, <1>5, <1>7, <1>8, <1>9, <2>1, TreeFills
<1>11. Fill(lim, N) /\ Bounded(lim, 16) /\ (Bounded(first, 16) => lim = first)
  BY <1>5, <1>10, LimitIs DEF lim
<1>12. PICK L : ShortBy(lim, L, bits)
  BY <1>5, <1>6, <1>11, ShortenedIs
<1>13. PICK d, u : Profile(lim, d, u, N)
  BY <1>11 DEF Fill
<1>14. PICK F : bits \in [1..16 -> Nat] /\ Fits(bits, F)
  BY <1>5, <1>12, <1>13, ShortenedFits, Zenon
<1>15. Counts(bits, CodesUpTo(bits))
  BY <1>14, UpToIs, Zenon DEF Counts
<1>16. CodesUpTo(bits)[16] = n
  BY <1>5, <1>12, <1>13, <1>15, ShortenedCount
<1>17. Ranking(E, cs)
  <2>1. \A s \in E : cs[s] \in Nat
    BY <1>9 DEF D
  <2> QED
    BY <1>4, <2>1, RanksAre
<1>18. IsCodeFor(E, cs, tbl)
  <2>1. Ranked(E, cs, n, tbl, F)
    BY <1>5, <1>6, <1>8, <1>14, <1>16, <1>17, Zenon DEF Ranked
  <2> QED
    BY <2>1, RankedIsCode, Zenon
<1>19. ASSUME NEW s \in E, NEW t \in E, freq[s] > freq[t]
       PROVE  \/ Len(CodesOf(tbl)[s]) <= Len(CodesOf(tbl)[t])
              \/ cs[s] = cs[t] /\ \E q \in DOMAIN cs : cs[q] > 16
  <2> DEFINE size == huffsize(tbl)
             p == RankIn(E, cs, s)
             q == RankIn(E, cs, t)
  <2>1. p \in 1..n /\ q \in 1..n
    BY <1>17, Zenon DEF Ranking, n
  <2>2. Len(CodesOf(tbl)[s]) = size[p] /\ Len(CodesOf(tbl)[t]) = size[q]
    BY <1>18, Zenon DEF IsCodeFor, size, p, q
  <2>3. p < q => size[p] <= size[q]
    <3>1. \A i, j \in 1..CodesUpTo(bits)[16] : i <= j => size[i] <= size[j]
      <4>1. Lengths(CodesUpTo(bits), size)
        BY <1>8, <1>18, Zenon DEF IsCodeFor, size
      <4> QED
        BY <1>15, <4>1, SizesGrow, Zenon
    <3>2. p < q => p <= q
      <4> HIDE DEF p, q
      <4> QED
        BY <1>5, <2>1
    <3> QED
      BY <1>16, <2>1, <3>1, <3>2, Zenon
  <2> HIDE DEF size, p, q
  <2>4. cs[s] <= cs[t] /\ s \in D /\ t \in D
    BY <1>1, <1>19 DEF D
  <2>5. CASE cs[s] # cs[t]
    <3>1. cs[s] < cs[t]
      BY <1>9, <2>4, <2>5
    <3>2. Precedes(cs, s, t)
      BY <3>1 DEF Precedes
    <3>3. p < q
      BY <1>17, <3>2, Zenon DEF Ranking, p, q
    <3> QED
      BY <2>2, <2>3, <3>3
  <2>6. CASE cs[s] = cs[t] /\ \A r \in D : ~(cs[r] > 16)
    <3>1. \A r \in D : cs[r] \in 1..16
      BY <1>9, <1>10, <2>6
    <3>2. Bounded(first, 16)
      <4> SUFFICES ASSUME NEW l \in 1..32, l > 16 PROVE first[l] = 0
        BY DEF Bounded
      <4>1. AtDepth(D, cs, l) = {}
        BY <3>1 DEF AtDepth
      <4> QED
        BY <1>7, <4>1, FS_EmptySet
    <3>3. lim = first
      BY <1>11, <3>2
    <3>4. OwnTree(E, cs, L, bits)
      <4>1. ShortBy([l \in 1..32 |-> Cardinality(AtDepth(E \union {PSEUDO}, cs, l))], L, bits)
        <5>1. first = [l \in 1..32 |-> Cardinality(AtDepth(E \union {PSEUDO}, cs, l))]
          BY <1>7, Zenon DEF D
        <5> QED
          BY <1>12, <3>3, <5>1, Zenon
      <4>2. \A r \in E \union {PSEUDO} : cs[r] \in 1..16
        BY <3>1, Zenon DEF D
      <4>3. cs \in [E \union {PSEUDO} -> Nat]
        BY <1>1, Zenon DEF D
      <4> QED
        BY <1>1, <1>2, <1>4, <4>1, <4>2, <4>3, Zenon DEF OwnTree
    <3>5. \A r \in E : RankIn(E, cs, r) \in 1..CodesUpTo(bits)[16]
      BY <1>16, <1>17, Zenon DEF Ranking, n
    <3>6. Lengths(CodesUpTo(bits), size)
      BY <1>8, <1>18, Zenon DEF IsCodeFor, size
    <3>7. \A r \in E : size[RankIn(E, cs, r)] = cs[r]
      <4> TAKE r \in E
      <4>1. RankIn(E, cs, r) \in 1..CodesUpTo(bits)[16]
        BY <3>5, Zenon
      <4>2. OwnSize(E, cs, size, r)
        BY <1>15, <3>4, <3>6, <4>1, OwnTreeLength, Zenon
      <4> QED
        BY <4>2, Zenon DEF OwnSize
    <3>8. size[p] = cs[s] /\ size[q] = cs[t]
      BY <3>7, Zenon DEF p, q
    <3> QED
      BY <1>9, <2>2, <2>4, <2>6, <3>8
  <2> QED
    BY <1>3, <2>5, <2>6
<1>20. Fair(E, freq, cs, CodesOf(tbl))
  BY <1>19 DEF Fair
<1> QED
  BY <1>18, <1>20, Zenon DEF IsCodeFor, tbl
============================================================================
