------------------------- MODULE DctManager_proofs -------------------------
(* For every set of sizes, every quantization table and every set of levels:*)
(* start_pass may skip the construction of a table because the method it    *)
(* was built for is noted only when it is built (TableMatchesMethod), and   *)
(* what is decoded are samples (TypeOK).                                    *)
EXTENDS DctManager, SequenceTheorems, TLAPS

(* While blocks are decoded the table is the one of the method in use, or   *)
(* no table was built at all because the component had no quantization      *)
(* table when the pass began; a table always belongs to the method it was   *)
(* noted for.                                                               *)
Noted ==
  IF cur_method = "none" THEN dct_table = Zeros
  ELSE quant_table # NoTable /\ dct_table = Multipliers(cur_method, quant_table)
Ready ==
  stage # "idle" =>
    cur_method = IF latched THEN Method(size, dct_method) ELSE "none"
Shape == dct_method \in {"islow", "ifast"} /\ latched \in BOOLEAN
TableInv == Shape /\ Noted /\ Ready

(* A method is never "none".                                                *)
LEMMA MethodIsSome == ASSUME NEW sz, NEW wanted \in {"islow", "ifast"}
                      PROVE  Method(sz, wanted) # "none"
  BY DEF Method

(* At first no table is noted.                                              *)
LEMMA TableInit == Init => TableInv
  BY DEF Init, TableInv, Shape, Noted, Ready

(* One step per action: only start_pass moves the table, only between       *)
(* passes can the method change, and a quantization table that comes during *)
(* a pass finds no multipliers built.                                       *)
LEMMA TableStep == TableInv /\ [Next]_vars => TableInv'
<1> SUFFICES ASSUME TableInv, [Next]_vars PROVE TableInv'
  OBVIOUS
<1> USE DEF TableInv
<1>1. CASE LatchQuantTable
  BY <1>1 DEF LatchQuantTable, Shape, Noted, Ready
<1>2. CASE SetMethod
  BY <1>2 DEF SetMethod, Shape, Noted, Ready
<1>3. CASE start_pass
  <2>1. Shape'
    BY <1>3 DEF start_pass, Shape
  <2>2. CASE cur_method = Method(size, dct_method) \/ quant_table = NoTable
    <3>1. Noted'
      BY <1>3, <2>2 DEF start_pass, Noted
    <3>2. quant_table = NoTable => cur_method = "none"
      BY DEF Noted
    <3>3. cur_method = Method(size, dct_method) => quant_table # NoTable
      BY <3>2, MethodIsSome DEF Shape
    <3>4. Ready'
      BY <1>3, <2>2, <3>2, <3>3 DEF start_pass, Ready
    <3> QED
      BY <2>1, <3>1, <3>4
  <2>3. CASE ~(cur_method = Method(size, dct_method) \/ quant_table = NoTable)
    <3>1. cur_method' = Method(size, dct_method)
          /\ dct_table' = Multipliers(Method(size, dct_method), quant_table)
      BY <1>3, <2>3 DEF start_pass
    <3>2. Noted' /\ Ready'
      BY <1>3, <2>3, <3>1, MethodIsSome DEF start_pass, Noted, Ready, Shape
    <3> QED
      BY <2>1, <3>2
  <2> QED
    BY <2>2, <2>3
<1>4. CASE DecodeBlock
  BY <1>4 DEF DecodeBlock, Shape, Noted, Ready
<1>5. CASE forward_DCT
  BY <1>5 DEF forward_DCT, Shape, Noted, Ready
<1>6. CASE NextBlock
  BY <1>6 DEF NextBlock, Shape, Noted, Ready
<1>7. CASE UNCHANGED vars
  BY <1>7 DEF vars, Shape, Noted, Ready
<1> QED
  BY <1>1, <1>2, <1>3, <1>4, <1>5, <1>6, <1>7 DEF Next

(* TableMatchesMethod: blocks are decoded with the multipliers of the       *)
(* method that decodes them (start_pass in jddctmgr.c), and with zeros to   *)
(* the end of a pass that began before the quantization table came.         *)
THEOREM MultipliersMatch == Spec => []TableMatchesMethod
<1>1. TableInv => TableMatchesMethod
  BY MethodIsSome DEF TableInv, Shape, Noted, Ready, TableMatchesMethod
<1> QED
  BY TableInit, TableStep, <1>1, PTL DEF Spec

-----------------------------------------------------------------------------
(* Vectors a one-dimensional kernel of n points reads, blocks of            *)
(* coefficients, and blocks of w x h samples.                               *)
Inputs(x, n) == \A k \in 0..n - 1 : x[k] \in Int
Coefficients(c) == \A v \in 0..7, u \in 0..7 : c[v][u] \in Int
Samples(y, w, h) == \A r \in 1..h, i \in 1..w : y[r][i] \in 0..255

(* The table of prepare_range_limit_table holds samples only.               *)
LEMMA Limited == \A v \in Int : RangeLimit(v) \in 0..255
  BY DEF RangeLimit

(* The output stage of a kernel adds and subtracts integers.                *)
LEMMA Halves ==
  ASSUME NEW m \in Nat, NEW n \in Nat, n <= m, NEW even \in [1..m -> Int], NEW odd \in [1..n -> Int]
  PROVE  Butterfly(even, odd) \in [1..m + n -> Int]
<1> DEFINE front == [k \in 1..m |-> even[k] + (IF k <= n THEN odd[k] ELSE 0)]
           back == [k \in 1..n |-> even[n + 1 - k] - odd[n + 1 - k]]
<1>1. front \in Seq(Int) /\ Len(front) = m
  <2>1. \A k \in 1..m : even[k] + (IF k <= n THEN odd[k] ELSE 0) \in Int
    OBVIOUS
  <2> QED
    BY <2>1
<1>2. back \in Seq(Int) /\ Len(back) = n
  <2>1. \A k \in 1..n : even[n + 1 - k] - odd[n + 1 - k] \in Int
    OBVIOUS
  <2> QED
    BY <2>1
<1>3. Len(even) = m /\ Len(odd) = n
  OBVIOUS
<1>4. Butterfly(even, odd) = front \o back
  BY <1>3 DEF Butterfly
<1> HIDE DEF front, back
<1>5. front \o back \in [1..m + n -> Int]
  BY <1>1, <1>2, ConcatProperties, LenProperties
<1> QED
  BY <1>4, <1>5

-----------------------------------------------------------------------------
(* The rounding biases and shifts of the passes.                            *)
Biases == {0, 4, 2 ^ 10, 2 ^ 15, 2 ^ 17}
Shifts == {0, 3, 11, 16, 18}

(* They keep integers.                                                      *)
LEMMA Divisor == \A bits \in Shifts : 2 ^ bits \in Nat \ {0}
<1>1. /\ 2 ^ 0 \in Nat \ {0} /\ 2 ^ 3 \in Nat \ {0} /\ 2 ^ 11 \in Nat \ {0}
      /\ 2 ^ 16 \in Nat \ {0} /\ 2 ^ 18 \in Nat \ {0}
  OBVIOUS
<1> QED
  BY <1>1, Zenon DEF Shifts

LEMMA Quotient == \A a \in Int, b \in Nat \ {0} : a \div b \in Int
  OBVIOUS

LEMMA Shift ==
  ASSUME NEW n, NEW out \in [1..n -> Int], NEW bits \in Shifts
  PROVE  [i \in DOMAIN out |-> out[i] \div 2 ^ bits] \in [1..n -> Int]
<1>1. \A b \in Nat \ {0} : [i \in DOMAIN out |-> out[i] \div b] \in [1..n -> Int]
  BY Quotient
<1> QED
  BY <1>1, Divisor, Zenon

LEMMA Biased ==
  ASSUME NEW a \in Int, NEW bias \in Biases
  PROVE  2 ^ 13 * a + bias \in Int
<1>1. 2 ^ 13 \in Int /\ 2 ^ 10 \in Int /\ 2 ^ 15 \in Int /\ 2 ^ 17 \in Int
  OBVIOUS
<1>2. bias \in Int
  BY <1>1 DEF Biases
<1> QED
  BY <1>1, <1>2

(* The rows of the workspace.                                               *)
Width(n) == IF n < 8 THEN n ELSE 8
RowOf(f, w, r) ==
  LET workspace == SubSeq(f, 1, Min({w, 8})) IN [u \in 0..Len(workspace) - 1 |-> workspace[u + 1][r]]

LEMMA WidthIsMin == \A w \in 1..16 : Min({w, 8}) = Width(w) /\ Width(w) \in 1..8
  BY DEF Min, Width

(* Every row has an integer for each input of its kernel: none reads past   *)
(* the columns the first pass filled.                                       *)
LEMMA Rows ==
  ASSUME NEW h \in Nat, NEW f, \A u \in 1..8 : f[u] \in [1..h -> Int], NEW w \in 1..16
  PROVE  \A r \in 1..h : Inputs(RowOf(f, w, r), Width(w))
<1> DEFINE n == Width(w)
           ws == SubSeq(f, 1, n)
<1>1. Min({w, 8}) = n /\ n \in 1..8
  BY WidthIsMin, Zenon
<1> HIDE DEF n
<1>2. \A i \in 1..n : i \in 1..8 /\ f[i] \in [1..h -> Int]
  <2>1. \A i \in 1..n : i \in 1..8
    BY <1>1
  <2> QED
    BY <2>1, Zenon
<1>3. Len(ws) = n /\ \A i \in 1..n : ws[i] = f[i]
  <2>1. n \in Int /\ 1 <= n /\ n - 1 + 1 = n /\ \A i \in 1..n : 1 + i - 1 = i
    BY <1>1
  <2>2. /\ Len(SubSeq(f, 1, n)) = (IF 1 <= n THEN n - 1 + 1 ELSE 0)
        /\ \A i \in 1..n - 1 + 1 : SubSeq(f, 1, n)[i] = f[1 + i - 1]
    BY <1>2, <2>1, SubSeqProperties
  <2> QED
    BY <2>1, <2>2
<1> HIDE DEF ws
<1>4. ASSUME NEW r \in 1..h, NEW k \in 0..n - 1 PROVE k \in 0..Len(ws) - 1 /\ ws[k + 1][r] \in Int
  <2>1. k + 1 \in 1..n
    BY <1>1
  <2>2. f[k + 1] \in [1..h -> Int] /\ ws[k + 1] = f[k + 1]
    BY <1>2, <1>3, <2>1
  <2> QED
    BY <1>1, <1>3, <2>2
<1>5. ASSUME NEW r \in 1..h PROVE Inputs([u \in 0..Len(ws) - 1 |-> ws[u + 1][r]], n)
  BY <1>4 DEF Inputs
<1> QED
  BY <1>1, <1>5 DEF RowOf, n, ws

(* A column of the block.                                                   *)
LEMMA Columns ==
  ASSUME NEW c, Coefficients(c), NEW u \in 1..8, NEW n \in 1..16
  PROVE  Inputs([v \in 0..7 |-> c[v][u - 1]], Width(n))
  BY DEF Coefficients, Inputs, Width

-----------------------------------------------------------------------------
(* The one-dimensional kernels, as columns and as rows, give integers.      *)
LEMMA Pass3 ==
  ASSUME NEW x, Inputs(x, Width(3)), NEW bias \in Biases, NEW bits \in Shifts
  PROVE  Pass(Idct3, x, bias, bits) \in [1..3 -> Int]
<1> DEFINE y1 == x[1]  y2 == x[2]
           dc == 2 ^ 13 * x[0] + bias
<1>1. x[0] \in Int /\ y1 \in Int /\ y2 \in Int
  BY DEF Inputs, Width
<1>2. dc \in Int
  BY <1>1, Biased, Zenon
<1>3. \A even \in [1..2 -> Int], odd \in [1..1 -> Int] : Butterfly(even, odd) \in [1..3 -> Int]
  <2>1. 2 \in Nat /\ 1 \in Nat /\ 1 <= 2 /\ 2 + 1 = 3
    OBVIOUS
  <2> QED
    BY <2>1, Halves, Zenon
<1>4. Idct3(x, dc) = Idct3(<<y1, y2>>, dc)
  BY SMT DEF Idct3
<1>5. Idct3(<<y1, y2>>, dc) \in [1..3 -> Int]
  <2> HIDE DEF y1, y2, dc
  <2> QED
    BY <1>1, <1>2, <1>3, SMT DEF Idct3, FIX
<1>6. Idct3(x, 2 ^ 13 * x[0] + bias) \in [1..3 -> Int]
  BY <1>4, <1>5, Zenon
<1> HIDE DEF y1, y2, dc
<1> QED
  BY <1>6, Shift, Zenon DEF Pass

LEMMA Pass4 ==
  ASSUME NEW x, Inputs(x, Width(4)), NEW bias \in Biases, NEW bits \in Shifts
  PROVE  Pass(Idct4, x, bias, bits) \in [1..4 -> Int]
<1> DEFINE y1 == x[1]  y2 == x[2]  y3 == x[3]
           dc == 2 ^ 13 * x[0] + bias
<1>1. x[0] \in Int /\ y1 \in Int /\ y2 \in Int /\ y3 \in Int
  BY DEF Inputs, Width
<1>2. dc \in Int
  BY <1>1, Biased, Zenon
<1>3. \A even \in [1..2 -> Int], odd \in [1..2 -> Int] : Butterfly(even, odd) \in [1..4 -> Int]
  <2>1. 2 \in Nat /\ 2 \in Nat /\ 2 <= 2 /\ 2 + 2 = 4
    OBVIOUS
  <2> QED
    BY <2>1, Halves, Zenon
<1>4. Idct4(x, dc) = Idct4(<<y1, y2, y3>>, dc)
  BY SMT DEF Idct4
<1>5. Idct4(<<y1, y2, y3>>, dc) \in [1..4 -> Int]
  <2> HIDE DEF y1, y2, y3, dc
  <2> QED
    BY <1>1, <1>2, <1>3, SMT DEF Idct4, FIX
<1>6. Idct4(x, 2 ^ 13 * x[0] + bias) \in [1..4 -> Int]
  BY <1>4, <1>5, Zenon
<1> HIDE DEF y1, y2, y3, dc
<1> QED
  BY <1>6, Shift, Zenon DEF Pass

LEMMA Pass5 ==
  ASSUME NEW x, Inputs(x, Width(5)), NEW bias \in Biases, NEW bits \in Shifts
  PROVE  Pass(Idct5, x, bias, bits) \in [1..5 -> Int]
<1> DEFINE y1 == x[1]  y2 == x[2]  y3 == x[3]  y4 == x[4]
           dc == 2 ^ 13 * x[0] + bias
<1>1. x[0] \in Int /\ y1 \in Int /\ y2 \in Int /\ y3 \in Int /\ y4 \in Int
  BY DEF Inputs, Width
<1>2. dc \in Int
  BY <1>1, Biased, Zenon
<1>3. \A even \in [1..3 -> Int], odd \in [1..2 -> Int] : Butterfly(even, odd) \in [1..5 -> Int]
  <2>1. 3 \in Nat /\ 2 \in Nat /\ 2 <= 3 /\ 3 + 2 = 5
    OBVIOUS
  <2> QED
    BY <2>1, Halves, Zenon
<1>4. Idct5(x, dc) = Idct5(<<y1, y2, y3, y4>>, dc)
  BY SMT DEF Idct5
<1>5. Idct5(<<y1, y2, y3, y4>>, dc) \in [1..5 -> Int]
  <2> HIDE DEF y1, y2, y3, y4, dc
  <2> QED
    BY <1>1, <1>2, <1>3, SMT DEF Idct5, FIX
<1>6. Idct5(x, 2 ^ 13 * x[0] + bias) \in [1..5 -> Int]
  BY <1>4, <1>5, Zenon
<1> HIDE DEF y1, y2, y3, y4, dc
<1> QED
  BY <1>6, Shift, Zenon DEF Pass

LEMMA Pass6 ==
  ASSUME NEW x, Inputs(x, Width(6)), NEW bias \in Biases, NEW bits \in Shifts
  PROVE  Pass(Idct6, x, bias, bits) \in [1..6 -> Int]
<1> DEFINE y1 == x[1]  y2 == x[2]  y3 == x[3]  y4 == x[4]
           y5 == x[5]
           dc == 2 ^ 13 * x[0] + bias
<1>1. /\ x[0] \in Int /\ y1 \in Int /\ y2 \in Int /\ y3 \in Int
      /\ y4 \in Int /\ y5 \in Int
  BY DEF Inputs, Width
<1>2. dc \in Int
  BY <1>1, Biased, Zenon
<1>3. \A even \in [1..3 -> Int], odd \in [1..3 -> Int] : Butterfly(even, odd) \in [1..6 -> Int]
  <2>1. 3 \in Nat /\ 3 \in Nat /\ 3 <= 3 /\ 3 + 3 = 6
    OBVIOUS
  <2> QED
    BY <2>1, Halves, Zenon
<1>4. Idct6(x, dc) = Idct6(<<y1, y2, y3, y4, y5>>, dc)
  BY SMT DEF Idct6
<1>5. Idct6(<<y1, y2, y3, y4, y5>>, dc) \in [1..6 -> Int]
  <2> HIDE DEF y1, y2, y3, y4, y5, dc
  <2> QED
    BY <1>1, <1>2, <1>3, SMT DEF Idct6, FIX
<1>6. Idct6(x, 2 ^ 13 * x[0] + bias) \in [1..6 -> Int]
  BY <1>4, <1>5, Zenon
<1> HIDE DEF y1, y2, y3, y4, y5, dc
<1> QED
  BY <1>6, Shift, Zenon DEF Pass

LEMMA Pass7 ==
  ASSUME NEW x, Inputs(x, Width(7)), NEW bias \in Biases, NEW bits \in Shifts
  PROVE  Pass(Idct7, x, bias, bits) \in [1..7 -> Int]
<1> DEFINE y1 == x[1]  y2 == x[2]  y3 == x[3]  y4 == x[4]
           y5 == x[5]  y6 == x[6]
           dc == 2 ^ 13 * x[0] + bias
<1>1. /\ x[0] \in Int /\ y1 \in Int /\ y2 \in Int /\ y3 \in Int
      /\ y4 \in Int /\ y5 \in Int /\ y6 \in Int
  BY DEF Inputs, Width
<1>2. dc \in Int
  BY <1>1, Biased, Zenon
<1>3. \A even \in [1..4 -> Int], odd \in [1..3 -> Int] : Butterfly(even, odd) \in [1..7 -> Int]
  <2>1. 4 \in Nat /\ 3 \in Nat /\ 3 <= 4 /\ 4 + 3 = 7
    OBVIOUS
  <2> QED
    BY <2>1, Halves, Zenon
<1>4. Idct7(x, dc) = Idct7(<<y1, y2, y3, y4, y5, y6>>, dc)
  BY SMT DEF Idct7
<1>5. Idct7(<<y1, y2, y3, y4, y5, y6>>, dc) \in [1..7 -> Int]
  <2> HIDE DEF y1, y2, y3, y4, y5, y6, dc
  <2> QED
    BY <1>1, <1>2, <1>3, SMT DEF Idct7, FIX
<1>6. Idct7(x, 2 ^ 13 * x[0] + bias) \in [1..7 -> Int]
  BY <1>4, <1>5, Zenon
<1> HIDE DEF y1, y2, y3, y4, y5, y6, dc
<1> QED
  BY <1>6, Shift, Zenon DEF Pass

LEMMA Pass8 ==
  ASSUME NEW x, Inputs(x, Width(8)), NEW bias \in Biases, NEW bits \in Shifts
  PROVE  Pass(Idct8, x, bias, bits) \in [1..8 -> Int]
<1> DEFINE y1 == x[1]  y2 == x[2]  y3 == x[3]  y4 == x[4]
           y5 == x[5]  y6 == x[6]  y7 == x[7]
           dc == 2 ^ 13 * x[0] + bias
<1>1. /\ x[0] \in Int /\ y1 \in Int /\ y2 \in Int /\ y3 \in Int
      /\ y4 \in Int /\ y5 \in Int /\ y6 \in Int /\ y7 \in Int
  BY DEF Inputs, Width
<1>2. dc \in Int
  BY <1>1, Biased, Zenon
<1>3. \A even \in [1..4 -> Int], odd \in [1..4 -> Int] : Butterfly(even, odd) \in [1..8 -> Int]
  <2>1. 4 \in Nat /\ 4 \in Nat /\ 4 <= 4 /\ 4 + 4 = 8
    OBVIOUS
  <2> QED
    BY <2>1, Halves, Zenon
<1>4. Idct8(x, dc) = Idct8(<<y1, y2, y3, y4, y5, y6, y7>>, dc)
  BY SMT DEF Idct8
<1>5. Idct8(<<y1, y2, y3, y4, y5, y6, y7>>, dc) \in [1..8 -> Int]
  <2> HIDE DEF y1, y2, y3, y4, y5, y6, y7, dc
  <2> QED
    BY <1>1, <1>2, <1>3, SMT DEF Idct8, FIX
<1>6. Idct8(x, 2 ^ 13 * x[0] + bias) \in [1..8 -> Int]
  BY <1>4, <1>5, Zenon
<1> HIDE DEF y1, y2, y3, y4, y5, y6, y7, dc
<1> QED
  BY <1>6, Shift, Zenon DEF Pass

LEMMA Pass9 ==
  ASSUME NEW x, Inputs(x, Width(9)), NEW bias \in Biases, NEW bits \in Shifts
  PROVE  Pass(Idct9, x, bias, bits) \in [1..9 -> Int]
<1> DEFINE y1 == x[1]  y2 == x[2]  y3 == x[3]  y4 == x[4]
           y5 == x[5]  y6 == x[6]  y7 == x[7]
           dc == 2 ^ 13 * x[0] + bias
<1>1. /\ x[0] \in Int /\ y1 \in Int /\ y2 \in Int /\ y3 \in Int
      /\ y4 \in Int /\ y5 \in Int /\ y6 \in Int /\ y7 \in Int
  BY DEF Inputs, Width
<1>2. dc \in Int
  BY <1>1, Biased, Zenon
<1>3. \A even \in [1..5 -> Int], odd \in [1..4 -> Int] : Butterfly(even, odd) \in [1..9 -> Int]
  <2>1. 5 \in Nat /\ 4 \in Nat /\ 4 <= 5 /\ 5 + 4 = 9
    OBVIOUS
  <2> QED
    BY <2>1, Halves, Zenon
<1>4. Idct9(x, dc) = Idct9(<<y1, y2, y3, y4, y5, y6, y7>>, dc)
  BY SMT DEF Idct9
<1>5. Idct9(<<y1, y2, y3, y4, y5, y6, y7>>, dc) \in [1..9 -> Int]
  <2> HIDE DEF y1, y2, y3, y4, y5, y6, y7, dc
  <2> QED
    BY <1>1, <1>2, <1>3, SMT DEF Idct9, FIX
<1>6. Idct9(x, 2 ^ 13 * x[0] + bias) \in [1..9 -> Int]
  BY <1>4, <1>5, Zenon
<1> HIDE DEF y1, y2, y3, y4, y5, y6, y7, dc
<1> QED
  BY <1>6, Shift, Zenon DEF Pass

LEMMA Pass10 ==
  ASSUME NEW x, Inputs(x, Width(10)), NEW bias \in Biases, NEW bits \in Shifts
  PROVE  Pass(Idct10, x, bias, bits) \in [1..10 -> Int]
<1> DEFINE y1 == x[1]  y2 == x[2]  y3 == x[3]  y4 == x[4]
           y5 == x[5]  y6 == x[6]  y7 == x[7]
           dc == 2 ^ 13 * x[0] + bias
<1>1. /\ x[0] \in Int /\ y1 \in Int /\ y2 \in Int /\ y3 \in Int
      /\ y4 \in Int /\ y5 \in Int /\ y6 \in Int /\ y7 \in Int
  BY DEF Inputs, Width
<1>2. dc \in Int
  BY <1>1, Biased, Zenon
<1>3. \A even \in [1..5 -> Int], odd \in [1..5 -> Int] : Butterfly(even, odd) \in [1..10 -> Int]
  <2>1. 5 \in Nat /\ 5 \in Nat /\ 5 <= 5 /\ 5 + 5 = 10
    OBVIOUS
  <2> QED
    BY <2>1, Halves, Zenon
<1>4. Idct10(x, dc) = Idct10(<<y1, y2, y3, y4, y5, y6, y7>>, dc)
  BY SMT DEF Idct10
<1>5. Idct10(<<y1, y2, y3, y4, y5, y6, y7>>, dc) \in [1..10 -> Int]
  <2> HIDE DEF y1, y2, y3, y4, y5, y6, y7, dc
  <2> QED
    BY <1>1, <1>2, <1>3, SMT DEF Idct10, FIX
<1>6. Idct10(x, 2 ^ 13 * x[0] + bias) \in [1..10 -> Int]
  BY <1>4, <1>5, Zenon
<1> HIDE DEF y1, y2, y3, y4, y5, y6, y7, dc
<1> QED
  BY <1>6, Shift, Zenon DEF Pass

LEMMA Pass11 ==
  ASSUME NEW x, Inputs(x, Width(11)), NEW bias \in Biases, NEW bits \in Shifts
  PROVE  Pass(Idct11, x, bias, bits) \in [1..11 -> Int]
<1> DEFINE y1 == x[1]  y2 == x[2]  y3 == x[3]  y4 == x[4]
           y5 == x[5]  y6 == x[6]  y7 == x[7]
           dc == 2 ^ 13 * x[0] + bias
<1>1. /\ x[0] \in Int /\ y1 \in Int /\ y2 \in Int /\ y3 \in Int
      /\ y4 \in Int /\ y5 \in Int /\ y6 \in Int /\ y7 \in Int
  BY DEF Inputs, Width
<1>2. dc \in Int
  BY <1>1, Biased, Zenon
<1>3. \A even \in [1..6 -> Int], odd \in [1..5 -> Int] : Butterfly(even, odd) \in [1..11 -> Int]
  <2>1. 6 \in Nat /\ 5 \in Nat /\ 5 <= 6 /\ 6 + 5 = 11
    OBVIOUS
  <2> QED
    BY <2>1, Halves, Zenon
<1>4. Idct11(x, dc) = Idct11(<<y1, y2, y3, y4, y5, y6, y7>>, dc)
  BY SMT DEF Idct11
<1>5. Idct11(<<y1, y2, y3, y4, y5, y6, y7>>, dc) \in [1..11 -> Int]
  <2> HIDE DEF y1, y2, y3, y4, y5, y6, y7, dc
  <2> QED
    BY <1>1, <1>2, <1>3, SMT DEF Idct11, FIX
<1>6. Idct11(x, 2 ^ 13 * x[0] + bias) \in [1..11 -> Int]
  BY <1>4, <1>5, Zenon
<1> HIDE DEF y1, y2, y3, y4, y5, y6, y7, dc
<1> QED
  BY <1>6, Shift, Zenon DEF Pass

LEMMA Pass12 ==
  ASSUME NEW x, Inputs(x, Width(12)), NEW bias \in Biases, NEW bits \in Shifts
  PROVE  Pass(Idct12, x, bias, bits) \in [1..12 -> Int]
<1> DEFINE y1 == x[1]  y2 == x[2]  y3 == x[3]  y4 == x[4]
           y5 == x[5]  y6 == x[6]  y7 == x[7]
           dc == 2 ^ 13 * x[0] + bias
<1>1. /\ x[0] \in Int /\ y1 \in Int /\ y2 \in Int /\ y3 \in Int
      /\ y4 \in Int /\ y5 \in Int /\ y6 \in Int /\ y7 \in Int
  BY DEF Inputs, Width
<1>2. dc \in Int
  BY <1>1, Biased, Zenon
<1>3. \A even \in [1..6 -> Int], odd \in [1..6 -> Int] : Butterfly(even, odd) \in [1..12 -> Int]
  <2>1. 6 \in Nat /\ 6 \in Nat /\ 6 <= 6 /\ 6 + 6 = 12
    OBVIOUS
  <2> QED
    BY <2>1, Halves, Zenon
<1>4. Idct12(x, dc) = Idct12(<<y1, y2, y3, y4, y5, y6, y7>>, dc)
  BY SMT DEF Idct12
<1>5. Idct12(<<y1, y2, y3, y4, y5, y6, y7>>, dc) \in [1..12 -> Int]
  <2> HIDE DEF y1, y2, y3, y4, y5, y6, y7, dc
  <2> QED
    BY <1>1, <1>2, <1>3, SMT DEF Idct12, FIX
<1>6. Idct12(x, 2 ^ 13 * x[0] + bias) \in [1..12 -> Int]
  BY <1>4, <1>5, Zenon
<1> HIDE DEF y1, y2, y3, y4, y5, y6, y7, dc
<1> QED
  BY <1>6, Shift, Zenon DEF Pass

LEMMA Pass13 ==
  ASSUME NEW x, Inputs(x, Width(13)), NEW bias \in Biases, NEW bits \in Shifts
  PROVE  Pass(Idct13, x, bias, bits) \in [1..13 -> Int]
<1> DEFINE y1 == x[1]  y2 == x[2]  y3 == x[3]  y4 == x[4]
           y5 == x[5]  y6 == x[6]  y7 == x[7]
           dc == 2 ^ 13 * x[0] + bias
<1>1. /\ x[0] \in Int /\ y1 \in Int /\ y2 \in Int /\ y3 \in Int
      /\ y4 \in Int /\ y5 \in Int /\ y6 \in Int /\ y7 \in Int
  BY DEF Inputs, Width
<1>2. dc \in Int
  BY <1>1, Biased, Zenon
<1>3. \A even \in [1..7 -> Int], odd \in [1..6 -> Int] : Butterfly(even, odd) \in [1..13 -> Int]
  <2>1. 7 \in Nat /\ 6 \in Nat /\ 6 <= 7 /\ 7 + 6 = 13
    OBVIOUS
  <2> QED
    BY <2>1, Halves, Zenon
<1>4. Idct13(x, dc) = Idct13(<<y1, y2, y3, y4, y5, y6, y7>>, dc)
  BY SMT DEF Idct13
<1>5. Idct13(<<y1, y2, y3, y4, y5, y6, y7>>, dc) \in [1..13 -> Int]
  <2> HIDE DEF y1, y2, y3, y4, y5, y6, y7, dc
  <2> QED
    BY <1>1, <1>2, <1>3, SMT DEF Idct13, FIX
<1>6. Idct13(x, 2 ^ 13 * x[0] + bias) \in [1..13 -> Int]
  BY <1>4, <1>5, Zenon
<1> HIDE DEF y1, y2, y3, y4, y5, y6, y7, dc
<1> QED
  BY <1>6, Shift, Zenon DEF Pass

LEMMA Pass14 ==
  ASSUME NEW x, Inputs(x, Width(14)), NEW bias \in Biases, NEW bits \in Shifts
  PROVE  Pass(Idct14, x, bias, bits) \in [1..14 -> Int]
<1> DEFINE y1 == x[1]  y2 == x[2]  y3 == x[3]  y4 == x[4]
           y5 == x[5]  y6 == x[6]  y7 == x[7]
           dc == 2 ^ 13 * x[0] + bias
<1>1. /\ x[0] \in Int /\ y1 \in Int /\ y2 \in Int /\ y3 \in Int
      /\ y4 \in Int /\ y5 \in Int /\ y6 \in Int /\ y7 \in Int
  BY DEF Inputs, Width
<1>2. dc \in Int
  BY <1>1, Biased, Zenon
<1>3. \A even \in [1..7 -> Int], odd \in [1..7 -> Int] : Butterfly(even, odd) \in [1..14 -> Int]
  <2>1. 7 \in Nat /\ 7 \in Nat /\ 7 <= 7 /\ 7 + 7 = 14
    OBVIOUS
  <2> QED
    BY <2>1, Halves, Zenon
<1>4. Idct14(x, dc) = Idct14(<<y1, y2, y3, y4, y5, y6, y7>>, dc)
  BY SMT DEF Idct14
<1>5. Idct14(<<y1, y2, y3, y4, y5, y6, y7>>, dc) \in [1..14 -> Int]
  <2> HIDE DEF y1, y2, y3, y4, y5, y6, y7, dc
  <2> QED
    BY <1>1, <1>2, <1>3, SMT DEF Idct14, FIX
<1>6. Idct14(x, 2 ^ 13 * x[0] + bias) \in [1..14 -> Int]
  BY <1>4, <1>5, Zenon
<1> HIDE DEF y1, y2, y3, y4, y5, y6, y7, dc
<1> QED
  BY <1>6, Shift, Zenon DEF Pass

LEMMA Pass15 ==
  ASSUME NEW x, Inputs(x, Width(15)), NEW bias \in Biases, NEW bits \in Shifts
  PROVE  Pass(Idct15, x, bias, bits) \in [1..15 -> Int]
<1> DEFINE y1 == x[1]  y2 == x[2]  y3 == x[3]  y4 == x[4]
           y5 == x[5]  y6 == x[6]  y7 == x[7]
           dc == 2 ^ 13 * x[0] + bias
<1>1. /\ x[0] \in Int /\ y1 \in Int /\ y2 \in Int /\ y3 \in Int
      /\ y4 \in Int /\ y5 \in Int /\ y6 \in Int /\ y7 \in Int
  BY DEF Inputs, Width
<1>2. dc \in Int
  BY <1>1, Biased, Zenon
<1>3. \A even \in [1..8 -> Int], odd \in [1..7 -> Int] : Butterfly(even, odd) \in [1..15 -> Int]
  <2>1. 8 \in Nat /\ 7 \in Nat /\ 7 <= 8 /\ 8 + 7 = 15
    OBVIOUS
  <2> QED
    BY <2>1, Halves, Zenon
<1>4. Idct15(x, dc) = Idct15(<<y1, y2, y3, y4, y5, y6, y7>>, dc)
  BY SMT DEF Idct15
<1>5. Idct15(<<y1, y2, y3, y4, y5, y6, y7>>, dc) \in [1..15 -> Int]
  <2> HIDE DEF y1, y2, y3, y4, y5, y6, y7, dc
  <2> QED
    BY <1>1, <1>2, <1>3, SMT DEF Idct15, FIX
<1>6. Idct15(x, 2 ^ 13 * x[0] + bias) \in [1..15 -> Int]
  BY <1>4, <1>5, Zenon
<1> HIDE DEF y1, y2, y3, y4, y5, y6, y7, dc
<1> QED
  BY <1>6, Shift, Zenon DEF Pass

LEMMA Pass16 ==
  ASSUME NEW x, Inputs(x, Width(16)), NEW bias \in Biases, NEW bits \in Shifts
  PROVE  Pass(Idct16, x, bias, bits) \in [1..16 -> Int]
<1> DEFINE y1 == x[1]  y2 == x[2]  y3 == x[3]  y4 == x[4]
           y5 == x[5]  y6 == x[6]  y7 == x[7]
           dc == 2 ^ 13 * x[0] + bias
<1>1. /\ x[0] \in Int /\ y1 \in Int /\ y2 \in Int /\ y3 \in Int
      /\ y4 \in Int /\ y5 \in Int /\ y6 \in Int /\ y7 \in Int
  BY DEF Inputs, Width
<1>2. dc \in Int
  BY <1>1, Biased, Zenon
<1>3. \A even \in [1..8 -> Int], odd \in [1..8 -> Int] : Butterfly(even, odd) \in [1..16 -> Int]
  <2>1. 8 \in Nat /\ 8 \in Nat /\ 8 <= 8 /\ 8 + 8 = 16
    OBVIOUS
  <2> QED
    BY <2>1, Halves, Zenon
<1>4. Idct16(x, dc) = Idct16(<<y1, y2, y3, y4, y5, y6, y7>>, dc)
  BY SMT DEF Idct16
<1>5. Idct16(<<y1, y2, y3, y4, y5, y6, y7>>, dc) \in [1..16 -> Int]
  <2> HIDE DEF y1, y2, y3, y4, y5, y6, y7, dc
  <2> QED
    BY <1>1, <1>2, <1>3, SMT DEF Idct16, FIX
<1>6. Idct16(x, 2 ^ 13 * x[0] + bias) \in [1..16 -> Int]
  BY <1>4, <1>5, Zenon
<1> HIDE DEF y1, y2, y3, y4, y5, y6, y7, dc
<1> QED
  BY <1>6, Shift, Zenon DEF Pass

LEMMA PairOfInts ==
  ASSUME NEW x, Inputs(x, Width(2)), NEW bias \in Biases, NEW bits \in Shifts
  PROVE  Pair(x, bias, bits) \in [1..2 -> Int]
<1>1. x[0] \in Int /\ x[1] \in Int
  BY DEF Inputs, Width
<1>2. bias \in Int
  <2>1. 4 \in Int /\ 2 ^ 10 \in Int /\ 2 ^ 15 \in Int /\ 2 ^ 17 \in Int
    OBVIOUS
  <2> QED
    BY <2>1 DEF Biases
<1>3. x[0] + bias + x[1] \in Int /\ x[0] + bias - x[1] \in Int
  BY <1>1, <1>2
<1>4. \A a, b \in Int : <<a, b>> \in [1..2 -> Int]
  OBVIOUS
<1> QED
  BY <1>3, <1>4, Divisor, Quotient, Zenon DEF Pair

LEMMA ColumnPass4 ==
  ASSUME NEW x, Inputs(x, Width(4))
  PROVE  Column4(x) \in [1..4 -> Int]
<1>1. x[0] \in Int /\ x[1] \in Int /\ x[2] \in Int /\ x[3] \in Int
  BY DEF Inputs, Width
<1>2. \A even \in [1..2 -> Int], odd \in [1..2 -> Int] : Butterfly(even, odd) \in [1..4 -> Int]
  <2>1. 2 \in Nat /\ 2 <= 2 /\ 2 + 2 = 4
    OBVIOUS
  <2> QED
    BY <2>1, Halves, Zenon
<1> QED
  BY <1>1, <1>2, SMTT(60) DEF Column4, FIX

LEMMA ColumnPass8 ==
  ASSUME NEW x, Inputs(x, Width(8))
  PROVE  Column8(x) \in [1..8 -> Int]
<1>1. x[0] \in Int
  BY DEF Inputs, Width
<1>2. Pass(Idct8, x, 2 ^ 10, 11) \in [1..8 -> Int]
  BY Pass8, Zenon DEF Biases, Shifts
<1>3. [i \in 1..8 |-> 4 * x[0]] \in [1..8 -> Int]
  BY <1>1
<1> QED
  BY <1>2, <1>3, Zenon DEF Column8

LEMMA RowPass8 ==
  ASSUME NEW x, Inputs(x, Width(8))
  PROVE  (IF NoAC(x) THEN [i \in 1..8 |-> Descale(x[0], 5)] ELSE RowPass(Idct8, x)) \in [1..8 -> Int]
<1>1. x[0] \in Int
  BY DEF Inputs, Width
<1>2. RowPass(Idct8, x) \in [1..8 -> Int]
  BY Pass8, Zenon DEF Biases, Shifts, RowPass
<1>3. Descale(x[0], 5) \in Int
  BY <1>1 DEF Descale
<1>4. [i \in 1..8 |-> Descale(x[0], 5)] \in [1..8 -> Int]
  BY <1>3
<1> QED
  BY <1>2, <1>4, Zenon

(* A pass of jpeg_idct_ifast.                                               *)
Fast(x) == IF NoAC(x) THEN [i \in 1..8 |-> x[0]] ELSE IdctFast(x)

LEMMA FastPass ==
  ASSUME NEW x, Inputs(x, Width(8))
  PROVE  /\ Fast(x) \in [1..8 -> Int]
         /\ [i \in 1..8 |-> Fast(x)[i] \div 32] \in [1..8 -> Int]
<1>1. /\ x[0] \in Int /\ x[1] \in Int /\ x[2] \in Int /\ x[3] \in Int
      /\ x[4] \in Int /\ x[5] \in Int /\ x[6] \in Int /\ x[7] \in Int
  BY DEF Inputs, Width
<1>2. \A even \in [1..4 -> Int], odd \in [1..4 -> Int] : Butterfly(even, odd) \in [1..8 -> Int]
  <2>1. 4 \in Nat /\ 4 <= 4 /\ 4 + 4 = 8
    OBVIOUS
  <2> QED
    BY <2>1, Halves, Zenon
<1>3. IdctFast(x) \in [1..8 -> Int]
  BY <1>1, <1>2, SMTT(60) DEF IdctFast
<1>4. [i \in 1..8 |-> x[0]] \in [1..8 -> Int]
  BY <1>1
<1>5. Fast(x) \in [1..8 -> Int]
  BY <1>3, <1>4, Zenon DEF Fast
<1> HIDE DEF Fast
<1> QED
  BY <1>5, Quotient

-----------------------------------------------------------------------------
(* The two-dimensional routines give a sample for every place of the block. *)
LEMMA Samples_16x16 ==
  ASSUME NEW c, Coefficients(c)
  PROVE  Samples(jpeg_idct_16x16(c), 16, 16)
<1> DEFINE f == [u \in 1..8 |-> Pass(Idct16, [v \in 0..7 |-> c[v][u - 1]], 2 ^ 10, 11)]
           row(r) == Pass(Idct16, RowOf(f, 16, r), 2 ^ 17, 18)
<1>1. 16 \in 1..16 /\ 16 \in 1..16 /\ 16 \in Nat
  OBVIOUS
<1>2. \A u \in 1..8 : Inputs([v \in 0..7 |-> c[v][u - 1]], Width(16))
  BY <1>1, Columns, Zenon
<1>3. \A u \in 1..8 : f[u] \in [1..16 -> Int]
  BY <1>2, Pass16, Zenon DEF Biases, Shifts
<1>4. \A r \in 1..16 : Inputs(RowOf(f, 16, r), Width(16))
  BY <1>1, <1>3, Rows, Zenon
<1>5. \A r \in 1..16 : row(r) \in [1..16 -> Int]
  BY <1>4, Pass16, Zenon DEF Biases, Shifts
<1> QED
  BY <1>5, Limited DEF Samples, RowOf, jpeg_idct_16x16, Inverse2D, TwoPasses

LEMMA Samples_15x15 ==
  ASSUME NEW c, Coefficients(c)
  PROVE  Samples(jpeg_idct_15x15(c), 15, 15)
<1> DEFINE f == [u \in 1..8 |-> Pass(Idct15, [v \in 0..7 |-> c[v][u - 1]], 2 ^ 10, 11)]
           row(r) == Pass(Idct15, RowOf(f, 15, r), 2 ^ 17, 18)
<1>1. 15 \in 1..16 /\ 15 \in 1..16 /\ 15 \in Nat
  OBVIOUS
<1>2. \A u \in 1..8 : Inputs([v \in 0..7 |-> c[v][u - 1]], Width(15))
  BY <1>1, Columns, Zenon
<1>3. \A u \in 1..8 : f[u] \in [1..15 -> Int]
  BY <1>2, Pass15, Zenon DEF Biases, Shifts
<1>4. \A r \in 1..15 : Inputs(RowOf(f, 15, r), Width(15))
  BY <1>1, <1>3, Rows, Zenon
<1>5. \A r \in 1..15 : row(r) \in [1..15 -> Int]
  BY <1>4, Pass15, Zenon DEF Biases, Shifts
<1> QED
  BY <1>5, Limited DEF Samples, RowOf, jpeg_idct_15x15, Inverse2D, TwoPasses

LEMMA Samples_14x14 ==
  ASSUME NEW c, Coefficients(c)
  PROVE  Samples(jpeg_idct_14x14(c), 14, 14)
<1> DEFINE f == [u \in 1..8 |-> Pass(Idct14, [v \in 0..7 |-> c[v][u - 1]], 2 ^ 10, 11)]
           row(r) == Pass(Idct14, RowOf(f, 14, r), 2 ^ 17, 18)
<1>1. 14 \in 1..16 /\ 14 \in 1..16 /\ 14 \in Nat
  OBVIOUS
<1>2. \A u \in 1..8 : Inputs([v \in 0..7 |-> c[v][u - 1]], Width(14))
  BY <1>1, Columns, Zenon
<1>3. \A u \in 1..8 : f[u] \in [1..14 -> Int]
  BY <1>2, Pass14, Zenon DEF Biases, Shifts
<1>4. \A r \in 1..14 : Inputs(RowOf(f, 14, r), Width(14))
  BY <1>1, <1>3, Rows, Zenon
<1>5. \A r \in 1..14 : row(r) \in [1..14 -> Int]
  BY <1>4, Pass14, Zenon DEF Biases, Shifts
<1> QED
  BY <1>5, Limited DEF Samples, RowOf, jpeg_idct_14x14, Inverse2D, TwoPasses

LEMMA Samples_13x13 ==
  ASSUME NEW c, Coefficients(c)
  PROVE  Samples(jpeg_idct_13x13(c), 13, 13)
<1> DEFINE f == [u \in 1..8 |-> Pass(Idct13, [v \in 0..7 |-> c[v][u - 1]], 2 ^ 10, 11)]
           row(r) == Pass(Idct13, RowOf(f, 13, r), 2 ^ 17, 18)
<1>1. 13 \in 1..16 /\ 13 \in 1..16 /\ 13 \in Nat
  OBVIOUS
<1>2. \A u \in 1..8 : Inputs([v \in 0..7 |-> c[v][u - 1]], Width(13))
  BY <1>1, Columns, Zenon
<1>3. \A u \in 1..8 : f[u] \in [1..13 -> Int]
  BY <1>2, Pass13, Zenon DEF Biases, Shifts
<1>4. \A r \in 1..13 : Inputs(RowOf(f, 13, r), Width(13))
  BY <1>1, <1>3, Rows, Zenon
<1>5. \A r \in 1..13 : row(r) \in [1..13 -> Int]
  BY <1>4, Pass13, Zenon DEF Biases, Shifts
<1> QED
  BY <1>5, Limited DEF Samples, RowOf, jpeg_idct_13x13, Inverse2D, TwoPasses

LEMMA Samples_12x12 ==
  ASSUME NEW c, Coefficients(c)
  PROVE  Samples(jpeg_idct_12x12(c), 12, 12)
<1> DEFINE f == [u \in 1..8 |-> Pass(Idct12, [v \in 0..7 |-> c[v][u - 1]], 2 ^ 10, 11)]
           row(r) == Pass(Idct12, RowOf(f, 12, r), 2 ^ 17, 18)
<1>1. 12 \in 1..16 /\ 12 \in 1..16 /\ 12 \in Nat
  OBVIOUS
<1>2. \A u \in 1..8 : Inputs([v \in 0..7 |-> c[v][u - 1]], Width(12))
  BY <1>1, Columns, Zenon
<1>3. \A u \in 1..8 : f[u] \in [1..12 -> Int]
  BY <1>2, Pass12, Zenon DEF Biases, Shifts
<1>4. \A r \in 1..12 : Inputs(RowOf(f, 12, r), Width(12))
  BY <1>1, <1>3, Rows, Zenon
<1>5. \A r \in 1..12 : row(r) \in [1..12 -> Int]
  BY <1>4, Pass12, Zenon DEF Biases, Shifts
<1> QED
  BY <1>5, Limited DEF Samples, RowOf, jpeg_idct_12x12, Inverse2D, TwoPasses

LEMMA Samples_11x11 ==
  ASSUME NEW c, Coefficients(c)
  PROVE  Samples(jpeg_idct_11x11(c), 11, 11)
<1> DEFINE f == [u \in 1..8 |-> Pass(Idct11, [v \in 0..7 |-> c[v][u - 1]], 2 ^ 10, 11)]
           row(r) == Pass(Idct11, RowOf(f, 11, r), 2 ^ 17, 18)
<1>1. 11 \in 1..16 /\ 11 \in 1..16 /\ 11 \in Nat
  OBVIOUS
<1>2. \A u \in 1..8 : Inputs([v \in 0..7 |-> c[v][u - 1]], Width(11))
  BY <1>1, Columns, Zenon
<1>3. \A u \in 1..8 : f[u] \in [1..11 -> Int]
  BY <1>2, Pass11, Zenon DEF Biases, Shifts
<1>4. \A r \in 1..11 : Inputs(RowOf(f, 11, r), Width(11))
  BY <1>1, <1>3, Rows, Zenon
<1>5. \A r \in 1..11 : row(r) \in [1..11 -> Int]
  BY <1>4, Pass11, Zenon DEF Biases, Shifts
<1> QED
  BY <1>5, Limited DEF Samples, RowOf, jpeg_idct_11x11, Inverse2D, TwoPasses

LEMMA Samples_10x10 ==
  ASSUME NEW c, Coefficients(c)
  PROVE  Samples(jpeg_idct_10x10(c), 10, 10)
<1> DEFINE f == [u \in 1..8 |-> Pass(Idct10, [v \in 0..7 |-> c[v][u - 1]], 2 ^ 10, 11)]
           row(r) == Pass(Idct10, RowOf(f, 10, r), 2 ^ 17, 18)
<1>1. 10 \in 1..16 /\ 10 \in 1..16 /\ 10 \in Nat
  OBVIOUS
<1>2. \A u \in 1..8 : Inputs([v \in 0..7 |-> c[v][u - 1]], Width(10))
  BY <1>1, Columns, Zenon
<1>3. \A u \in 1..8 : f[u] \in [1..10 -> Int]
  BY <1>2, Pass10, Zenon DEF Biases, Shifts
<1>4. \A r \in 1..10 : Inputs(RowOf(f, 10, r), Width(10))
  BY <1>1, <1>3, Rows, Zenon
<1>5. \A r \in 1..10 : row(r) \in [1..10 -> Int]
  BY <1>4, Pass10, Zenon DEF Biases, Shifts
<1> QED
  BY <1>5, Limited DEF Samples, RowOf, jpeg_idct_10x10, Inverse2D, TwoPasses

LEMMA Samples_9x9 ==
  ASSUME NEW c, Coefficients(c)
  PROVE  Samples(jpeg_idct_9x9(c), 9, 9)
<1> DEFINE f == [u \in 1..8 |-> Pass(Idct9, [v \in 0..7 |-> c[v][u - 1]], 2 ^ 10, 11)]
           row(r) == Pass(Idct9, RowOf(f, 9, r), 2 ^ 17, 18)
<1>1. 9 \in 1..16 /\ 9 \in 1..16 /\ 9 \in Nat
  OBVIOUS
<1>2. \A u \in 1..8 : Inputs([v \in 0..7 |-> c[v][u - 1]], Width(9))
  BY <1>1, Columns, Zenon
<1>3. \A u \in 1..8 : f[u] \in [1..9 -> Int]
  BY <1>2, Pass9, Zenon DEF Biases, Shifts
<1>4. \A r \in 1..9 : Inputs(RowOf(f, 9, r), Width(9))
  BY <1>1, <1>3, Rows, Zenon
<1>5. \A r \in 1..9 : row(r) \in [1..9 -> Int]
  BY <1>4, Pass9, Zenon DEF Biases, Shifts
<1> QED
  BY <1>5, Limited DEF Samples, RowOf, jpeg_idct_9x9, Inverse2D, TwoPasses

LEMMA Samples_7x7 ==
  ASSUME NEW c, Coefficients(c)
  PROVE  Samples(jpeg_idct_7x7(c), 7, 7)
<1> DEFINE f == [u \in 1..8 |-> Pass(Idct7, [v \in 0..7 |-> c[v][u - 1]], 2 ^ 10, 11)]
           row(r) == Pass(Idct7, RowOf(f, 7, r), 2 ^ 17, 18)
<1>1. 7 \in 1..16 /\ 7 \in 1..16 /\ 7 \in Nat
  OBVIOUS
<1>2. \A u \in 1..8 : Inputs([v \in 0..7 |-> c[v][u - 1]], Width(7))
  BY <1>1, Columns, Zenon
<1>3. \A u \in 1..8 : f[u] \in [1..7 -> Int]
  BY <1>2, Pass7, Zenon DEF Biases, Shifts
<1>4. \A r \in 1..7 : Inputs(RowOf(f, 7, r), Width(7))
  BY <1>1, <1>3, Rows, Zenon
<1>5. \A r \in 1..7 : row(r) \in [1..7 -> Int]
  BY <1>4, Pass7, Zenon DEF Biases, Shifts
<1> QED
  BY <1>5, Limited DEF Samples, RowOf, jpeg_idct_7x7, Inverse2D, TwoPasses

LEMMA Samples_6x6 ==
  ASSUME NEW c, Coefficients(c)
  PROVE  Samples(jpeg_idct_6x6(c), 6, 6)
<1> DEFINE f == [u \in 1..8 |-> Pass(Idct6, [v \in 0..7 |-> c[v][u - 1]], 2 ^ 10, 11)]
           row(r) == Pass(Idct6, RowOf(f, 6, r), 2 ^ 17, 18)
<1>1. 6 \in 1..16 /\ 6 \in 1..16 /\ 6 \in Nat
  OBVIOUS
<1>2. \A u \in 1..8 : Inputs([v \in 0..7 |-> c[v][u - 1]], Width(6))
  BY <1>1, Columns, Zenon
<1>3. \A u \in 1..8 : f[u] \in [1..6 -> Int]
  BY <1>2, Pass6, Zenon DEF Biases, Shifts
<1>4. \A r \in 1..6 : Inputs(RowOf(f, 6, r), Width(6))
  BY <1>1, <1>3, Rows, Zenon
<1>5. \A r \in 1..6 : row(r) \in [1..6 -> Int]
  BY <1>4, Pass6, Zenon DEF Biases, Shifts
<1> QED
  BY <1>5, Limited DEF Samples, RowOf, jpeg_idct_6x6, Inverse2D, TwoPasses

LEMMA Samples_5x5 ==
  ASSUME NEW c, Coefficients(c)
  PROVE  Samples(jpeg_idct_5x5(c), 5, 5)
<1> DEFINE f == [u \in 1..8 |-> Pass(Idct5, [v \in 0..7 |-> c[v][u - 1]], 2 ^ 10, 11)]
           row(r) == Pass(Idct5, RowOf(f, 5, r), 2 ^ 17, 18)
<1>1. 5 \in 1..16 /\ 5 \in 1..16 /\ 5 \in Nat
  OBVIOUS
<1>2. \A u \in 1..8 : Inputs([v \in 0..7 |-> c[v][u - 1]], Width(5))
  BY <1>1, Columns, Zenon
<1>3. \A u \in 1..8 : f[u] \in [1..5 -> Int]
  BY <1>2, Pass5, Zenon DEF Biases, Shifts
<1>4. \A r \in 1..5 : Inputs(RowOf(f, 5, r), Width(5))
  BY <1>1, <1>3, Rows, Zenon
<1>5. \A r \in 1..5 : row(r) \in [1..5 -> Int]
  BY <1>4, Pass5, Zenon DEF Biases, Shifts
<1> QED
  BY <1>5, Limited DEF Samples, RowOf, jpeg_idct_5x5, Inverse2D, TwoPasses

LEMMA Samples_3x3 ==
  ASSUME NEW c, Coefficients(c)
  PROVE  Samples(jpeg_idct_3x3(c), 3, 3)
<1> DEFINE f == [u \in 1..8 |-> Pass(Idct3, [v \in 0..7 |-> c[v][u - 1]], 2 ^ 10, 11)]
           row(r) == Pass(Idct3, RowOf(f, 3, r), 2 ^ 17, 18)
<1>1. 3 \in 1..16 /\ 3 \in 1..16 /\ 3 \in Nat
  OBVIOUS
<1>2. \A u \in 1..8 : Inputs([v \in 0..7 |-> c[v][u - 1]], Width(3))
  BY <1>1, Columns, Zenon
<1>3. \A u \in 1..8 : f[u] \in [1..3 -> Int]
  BY <1>2, Pass3, Zenon DEF Biases, Shifts
<1>4. \A r \in 1..3 : Inputs(RowOf(f, 3, r), Width(3))
  BY <1>1, <1>3, Rows, Zenon
<1>5. \A r \in 1..3 : row(r) \in [1..3 -> Int]
  BY <1>4, Pass3, Zenon DEF Biases, Shifts
<1> QED
  BY <1>5, Limited DEF Samples, RowOf, jpeg_idct_3x3, Inverse2D, TwoPasses

LEMMA Samples_14x7 ==
  ASSUME NEW c, Coefficients(c)
  PROVE  Samples(jpeg_idct_14x7(c), 14, 7)
<1> DEFINE f == [u \in 1..8 |-> Pass(Idct7, [v \in 0..7 |-> c[v][u - 1]], 2 ^ 10, 11)]
           row(r) == Pass(Idct14, RowOf(f, 14, r), 2 ^ 17, 18)
<1>1. 14 \in 1..16 /\ 7 \in 1..16 /\ 7 \in Nat
  OBVIOUS
<1>2. \A u \in 1..8 : Inputs([v \in 0..7 |-> c[v][u - 1]], Width(7))
  BY <1>1, Columns, Zenon
<1>3. \A u \in 1..8 : f[u] \in [1..7 -> Int]
  BY <1>2, Pass7, Zenon DEF Biases, Shifts
<1>4. \A r \in 1..7 : Inputs(RowOf(f, 14, r), Width(14))
  BY <1>1, <1>3, Rows, Zenon
<1>5. \A r \in 1..7 : row(r) \in [1..14 -> Int]
  BY <1>4, Pass14, Zenon DEF Biases, Shifts
<1> QED
  BY <1>5, Limited DEF Samples, RowOf, jpeg_idct_14x7, Inverse2D, TwoPasses

LEMMA Samples_12x6 ==
  ASSUME NEW c, Coefficients(c)
  PROVE  Samples(jpeg_idct_12x6(c), 12, 6)
<1> DEFINE f == [u \in 1..8 |-> Pass(Idct6, [v \in 0..7 |-> c[v][u - 1]], 2 ^ 10, 11)]
           row(r) == Pass(Idct12, RowOf(f, 12, r), 2 ^ 17, 18)
<1>1. 12 \in 1..16 /\ 6 \in 1..16 /\ 6 \in Nat
  OBVIOUS
<1>2. \A u \in 1..8 : Inputs([v \in 0..7 |-> c[v][u - 1]], Width(6))
  BY <1>1, Columns, Zenon
<1>3. \A u \in 1..8 : f[u] \in [1..6 -> Int]
  BY <1>2, Pass6, Zenon DEF Biases, Shifts
<1>4. \A r \in 1..6 : Inputs(RowOf(f, 12, r), Width(12))
  BY <1>1, <1>3, Rows, Zenon
<1>5. \A r \in 1..6 : row(r) \in [1..12 -> Int]
  BY <1>4, Pass12, Zenon DEF Biases, Shifts
<1> QED
  BY <1>5, Limited DEF Samples, RowOf, jpeg_idct_12x6, Inverse2D, TwoPasses

LEMMA Samples_10x5 ==
  ASSUME NEW c, Coefficients(c)
  PROVE  Samples(jpeg_idct_10x5(c), 10, 5)
<1> DEFINE f == [u \in 1..8 |-> Pass(Idct5, [v \in 0..7 |-> c[v][u - 1]], 2 ^ 10, 11)]
           row(r) == Pass(Idct10, RowOf(f, 10, r), 2 ^ 17, 18)
<1>1. 10 \in 1..16 /\ 5 \in 1..16 /\ 5 \in Nat
  OBVIOUS
<1>2. \A u \in 1..8 : Inputs([v \in 0..7 |-> c[v][u - 1]], Width(5))
  BY <1>1, Columns, Zenon
<1>3. \A u \in 1..8 : f[u] \in [1..5 -> Int]
  BY <1>2, Pass5, Zenon DEF Biases, Shifts
<1>4. \A r \in 1..5 : Inputs(RowOf(f, 10, r), Width(10))
  BY <1>1, <1>3, Rows, Zenon
<1>5. \A r \in 1..5 : row(r) \in [1..10 -> Int]
  BY <1>4, Pass10, Zenon DEF Biases, Shifts
<1> QED
  BY <1>5, Limited DEF Samples, RowOf, jpeg_idct_10x5, Inverse2D, TwoPasses

LEMMA Samples_6x3 ==
  ASSUME NEW c, Coefficients(c)
  PROVE  Samples(jpeg_idct_6x3(c), 6, 3)
<1> DEFINE f == [u \in 1..8 |-> Pass(Idct3, [v \in 0..7 |-> c[v][u - 1]], 2 ^ 10, 11)]
           row(r) == Pass(Idct6, RowOf(f, 6, r), 2 ^ 17, 18)
<1>1. 6 \in 1..16 /\ 3 \in 1..16 /\ 3 \in Nat
  OBVIOUS
<1>2. \A u \in 1..8 : Inputs([v \in 0..7 |-> c[v][u - 1]], Width(3))
  BY <1>1, Columns, Zenon
<1>3. \A u \in 1..8 : f[u] \in [1..3 -> Int]
  BY <1>2, Pass3, Zenon DEF Biases, Shifts
<1>4. \A r \in 1..3 : Inputs(RowOf(f, 6, r), Width(6))
  BY <1>1, <1>3, Rows, Zenon
<1>5. \A r \in 1..3 : row(r) \in [1..6 -> Int]
  BY <1>4, Pass6, Zenon DEF Biases, Shifts
<1> QED
  BY <1>5, Limited DEF Samples, RowOf, jpeg_idct_6x3, Inverse2D, TwoPasses

LEMMA Samples_8x16 ==
  ASSUME NEW c, Coefficients(c)
  PROVE  Samples(jpeg_idct_8x16(c), 8, 16)
<1> DEFINE f == [u \in 1..8 |-> Pass(Idct16, [v \in 0..7 |-> c[v][u - 1]], 2 ^ 10, 11)]
           row(r) == Pass(Idct8, RowOf(f, 8, r), 2 ^ 17, 18)
<1>1. 8 \in 1..16 /\ 16 \in 1..16 /\ 16 \in Nat
  OBVIOUS
<1>2. \A u \in 1..8 : Inputs([v \in 0..7 |-> c[v][u - 1]], Width(16))
  BY <1>1, Columns, Zenon
<1>3. \A u \in 1..8 : f[u] \in [1..16 -> Int]
  BY <1>2, Pass16, Zenon DEF Biases, Shifts
<1>4. \A r \in 1..16 : Inputs(RowOf(f, 8, r), Width(8))
  BY <1>1, <1>3, Rows, Zenon
<1>5. \A r \in 1..16 : row(r) \in [1..8 -> Int]
  BY <1>4, Pass8, Zenon DEF Biases, Shifts
<1> QED
  BY <1>5, Limited DEF Samples, RowOf, jpeg_idct_8x16, Inverse2D, TwoPasses

LEMMA Samples_7x14 ==
  ASSUME NEW c, Coefficients(c)
  PROVE  Samples(jpeg_idct_7x14(c), 7, 14)
<1> DEFINE f == [u \in 1..8 |-> Pass(Idct14, [v \in 0..7 |-> c[v][u - 1]], 2 ^ 10, 11)]
           row(r) == Pass(Idct7, RowOf(f, 7, r), 2 ^ 17, 18)
<1>1. 7 \in 1..16 /\ 14 \in 1..16 /\ 14 \in Nat
  OBVIOUS
<1>2. \A u \in 1..8 : Inputs([v \in 0..7 |-> c[v][u - 1]], Width(14))
  BY <1>1, Columns, Zenon
<1>3. \A u \in 1..8 : f[u] \in [1..14 -> Int]
  BY <1>2, Pass14, Zenon DEF Biases, Shifts
<1>4. \A r \in 1..14 : Inputs(RowOf(f, 7, r), Width(7))
  BY <1>1, <1>3, Rows, Zenon
<1>5. \A r \in 1..14 : row(r) \in [1..7 -> Int]
  BY <1>4, Pass7, Zenon DEF Biases, Shifts
<1> QED
  BY <1>5, Limited DEF Samples, RowOf, jpeg_idct_7x14, Inverse2D, TwoPasses

LEMMA Samples_6x12 ==
  ASSUME NEW c, Coefficients(c)
  PROVE  Samples(jpeg_idct_6x12(c), 6, 12)
<1> DEFINE f == [u \in 1..8 |-> Pass(Idct12, [v \in 0..7 |-> c[v][u - 1]], 2 ^ 10, 11)]
           row(r) == Pass(Idct6, RowOf(f, 6, r), 2 ^ 17, 18)
<1>1. 6 \in 1..16 /\ 12 \in 1..16 /\ 12 \in Nat
  OBVIOUS
<1>2. \A u \in 1..8 : Inputs([v \in 0..7 |-> c[v][u - 1]], Width(12))
  BY <1>1, Columns, Zenon
<1>3. \A u \in 1..8 : f[u] \in [1..12 -> Int]
  BY <1>2, Pass12, Zenon DEF Biases, Shifts
<1>4. \A r \in 1..12 : Inputs(RowOf(f, 6, r), Width(6))
  BY <1>1, <1>3, Rows, Zenon
<1>5. \A r \in 1..12 : row(r) \in [1..6 -> Int]
  BY <1>4, Pass6, Zenon DEF Biases, Shifts
<1> QED
  BY <1>5, Limited DEF Samples, RowOf, jpeg_idct_6x12, Inverse2D, TwoPasses

LEMMA Samples_5x10 ==
  ASSUME NEW c, Coefficients(c)
  PROVE  Samples(jpeg_idct_5x10(c), 5, 10)
<1> DEFINE f == [u \in 1..8 |-> Pass(Idct10, [v \in 0..7 |-> c[v][u - 1]], 2 ^ 10, 11)]
           row(r) == Pass(Idct5, RowOf(f, 5, r), 2 ^ 17, 18)
<1>1. 5 \in 1..16 /\ 10 \in 1..16 /\ 10 \in Nat
  OBVIOUS
<1>2. \A u \in 1..8 : Inputs([v \in 0..7 |-> c[v][u - 1]], Width(10))
  BY <1>1, Columns, Zenon
<1>3. \A u \in 1..8 : f[u] \in [1..10 -> Int]
  BY <1>2, Pass10, Zenon DEF Biases, Shifts
<1>4. \A r \in 1..10 : Inputs(RowOf(f, 5, r), Width(5))
  BY <1>1, <1>3, Rows, Zenon
<1>5. \A r \in 1..10 : row(r) \in [1..5 -> Int]
  BY <1>4, Pass5, Zenon DEF Biases, Shifts
<1> QED
  BY <1>5, Limited DEF Samples, RowOf, jpeg_idct_5x10, Inverse2D, TwoPasses

LEMMA Samples_3x6 ==
  ASSUME NEW c, Coefficients(c)
  PROVE  Samples(jpeg_idct_3x6(c), 3, 6)
<1> DEFINE f == [u \in 1..8 |-> Pass(Idct6, [v \in 0..7 |-> c[v][u - 1]], 2 ^ 10, 11)]
           row(r) == Pass(Idct3, RowOf(f, 3, r), 2 ^ 17, 18)
<1>1. 3 \in 1..16 /\ 6 \in 1..16 /\ 6 \in Nat
  OBVIOUS
<1>2. \A u \in 1..8 : Inputs([v \in 0..7 |-> c[v][u - 1]], Width(6))
  BY <1>1, Columns, Zenon
<1>3. \A u \in 1..8 : f[u] \in [1..6 -> Int]
  BY <1>2, Pass6, Zenon DEF Biases, Shifts
<1>4. \A r \in 1..6 : Inputs(RowOf(f, 3, r), Width(3))
  BY <1>1, <1>3, Rows, Zenon
<1>5. \A r \in 1..6 : row(r) \in [1..3 -> Int]
  BY <1>4, Pass3, Zenon DEF Biases, Shifts
<1> QED
  BY <1>5, Limited DEF Samples, RowOf, jpeg_idct_3x6, Inverse2D, TwoPasses

LEMMA Samples_islow ==
  ASSUME NEW c, Coefficients(c)
  PROVE  Samples(jpeg_idct_islow(c), 8, 8)
<1> DEFINE f == [u \in 1..8 |-> Column8([v \in 0..7 |-> c[v][u - 1]])]
           row(r) == IF NoAC(RowOf(f, 8, r)) THEN [i \in 1..8 |-> Descale(RowOf(f, 8, r)[0], 5)]
                     ELSE RowPass(Idct8, RowOf(f, 8, r))
<1>1. 8 \in 1..16 /\ 8 \in 1..16 /\ 8 \in Nat
  OBVIOUS
<1>2. \A u \in 1..8 : Inputs([v \in 0..7 |-> c[v][u - 1]], Width(8))
  BY <1>1, Columns, Zenon
<1>3. \A u \in 1..8 : f[u] \in [1..8 -> Int]
  BY <1>2, ColumnPass8, Zenon
<1>4. \A r \in 1..8 : Inputs(RowOf(f, 8, r), Width(8))
  BY <1>1, <1>3, Rows, Zenon
<1>5. \A r \in 1..8 : row(r) \in [1..8 -> Int]
  BY <1>4, RowPass8, Zenon
<1> QED
  BY <1>5, Limited DEF Samples, RowOf, jpeg_idct_islow, TwoPasses

LEMMA Samples_ifast ==
  ASSUME NEW c, Coefficients(c)
  PROVE  Samples(jpeg_idct_ifast(c), 8, 8)
<1> DEFINE f == [u \in 1..8 |-> Fast([v \in 0..7 |-> c[v][u - 1]])]
           row(r) == [i \in 1..8 |-> Fast(RowOf(f, 8, r))[i] \div 32]
<1>1. 8 \in 1..16 /\ 8 \in 1..16 /\ 8 \in Nat
  OBVIOUS
<1>2. \A u \in 1..8 : Inputs([v \in 0..7 |-> c[v][u - 1]], Width(8))
  BY <1>1, Columns, Zenon
<1>3. \A u \in 1..8 : f[u] \in [1..8 -> Int]
  BY <1>2, FastPass, Zenon
<1>4. \A r \in 1..8 : Inputs(RowOf(f, 8, r), Width(8))
  BY <1>1, <1>3, Rows, Zenon
<1>5. \A r \in 1..8 : row(r) \in [1..8 -> Int]
  BY <1>4, FastPass, Zenon
<1> QED
  BY <1>5, Limited DEF Samples, RowOf, jpeg_idct_ifast, Fast, TwoPasses

LEMMA Samples_16x8 ==
  ASSUME NEW c, Coefficients(c)
  PROVE  Samples(jpeg_idct_16x8(c), 16, 8)
<1> DEFINE f == [u \in 1..8 |-> Column8([v \in 0..7 |-> c[v][u - 1]])]
           row(r) == RowPass(Idct16, RowOf(f, 16, r))
<1>1. 16 \in 1..16 /\ 8 \in 1..16 /\ 8 \in Nat
  OBVIOUS
<1>2. \A u \in 1..8 : Inputs([v \in 0..7 |-> c[v][u - 1]], Width(8))
  BY <1>1, Columns, Zenon
<1>3. \A u \in 1..8 : f[u] \in [1..8 -> Int]
  BY <1>2, ColumnPass8, Zenon
<1>4. \A r \in 1..8 : Inputs(RowOf(f, 16, r), Width(16))
  BY <1>1, <1>3, Rows, Zenon
<1>5. \A r \in 1..8 : row(r) \in [1..16 -> Int]
  BY <1>4, Pass16, Zenon DEF Biases, Shifts, RowPass
<1> QED
  BY <1>5, Limited DEF Samples, RowOf, jpeg_idct_16x8, TwoPasses

LEMMA Samples_4x8 ==
  ASSUME NEW c, Coefficients(c)
  PROVE  Samples(jpeg_idct_4x8(c), 4, 8)
<1> DEFINE f == [u \in 1..8 |-> Column8([v \in 0..7 |-> c[v][u - 1]])]
           row(r) == RowPass(Idct4, RowOf(f, 4, r))
<1>1. 4 \in 1..16 /\ 8 \in 1..16 /\ 8 \in Nat
  OBVIOUS
<1>2. \A u \in 1..8 : Inputs([v \in 0..7 |-> c[v][u - 1]], Width(8))
  BY <1>1, Columns, Zenon
<1>3. \A u \in 1..8 : f[u] \in [1..8 -> Int]
  BY <1>2, ColumnPass8, Zenon
<1>4. \A r \in 1..8 : Inputs(RowOf(f, 4, r), Width(4))
  BY <1>1, <1>3, Rows, Zenon
<1>5. \A r \in 1..8 : row(r) \in [1..4 -> Int]
  BY <1>4, Pass4, Zenon DEF Biases, Shifts, RowPass
<1> QED
  BY <1>5, Limited DEF Samples, RowOf, jpeg_idct_4x8, TwoPasses

LEMMA Samples_4x4 ==
  ASSUME NEW c, Coefficients(c)
  PROVE  Samples(jpeg_idct_4x4(c), 4, 4)
<1> DEFINE f == [u \in 1..8 |-> Column4([v \in 0..7 |-> c[v][u - 1]])]
           row(r) == RowPass(Idct4, RowOf(f, 4, r))
<1>1. 4 \in 1..16 /\ 4 \in 1..16 /\ 4 \in Nat
  OBVIOUS
<1>2. \A u \in 1..8 : Inputs([v \in 0..7 |-> c[v][u - 1]], Width(4))
  BY <1>1, Columns, Zenon
<1>3. \A u \in 1..8 : f[u] \in [1..4 -> Int]
  BY <1>2, ColumnPass4, Zenon
<1>4. \A r \in 1..4 : Inputs(RowOf(f, 4, r), Width(4))
  BY <1>1, <1>3, Rows, Zenon
<1>5. \A r \in 1..4 : row(r) \in [1..4 -> Int]
  BY <1>4, Pass4, Zenon DEF Biases, Shifts, RowPass
<1> QED
  BY <1>5, Limited DEF Samples, RowOf, jpeg_idct_4x4, TwoPasses

LEMMA Samples_8x4 ==
  ASSUME NEW c, Coefficients(c)
  PROVE  Samples(jpeg_idct_8x4(c), 8, 4)
<1> DEFINE f == [u \in 1..8 |-> Column4([v \in 0..7 |-> c[v][u - 1]])]
           row(r) == RowPass(Idct8, RowOf(f, 8, r))
<1>1. 8 \in 1..16 /\ 4 \in 1..16 /\ 4 \in Nat
  OBVIOUS
<1>2. \A u \in 1..8 : Inputs([v \in 0..7 |-> c[v][u - 1]], Width(4))
  BY <1>1, Columns, Zenon
<1>3. \A u \in 1..8 : f[u] \in [1..4 -> Int]
  BY <1>2, ColumnPass4, Zenon
<1>4. \A r \in 1..4 : Inputs(RowOf(f, 8, r), Width(8))
  BY <1>1, <1>3, Rows, Zenon
<1>5. \A r \in 1..4 : row(r) \in [1..8 -> Int]
  BY <1>4, Pass8, Zenon DEF Biases, Shifts, RowPass
<1> QED
  BY <1>5, Limited DEF Samples, RowOf, jpeg_idct_8x4, TwoPasses

LEMMA Samples_2x2 ==
  ASSUME NEW c, Coefficients(c)
  PROVE  Samples(jpeg_idct_2x2(c), 2, 2)
<1> DEFINE f == [u \in 1..8 |-> Pair([v \in 0..7 |-> c[v][u - 1]], 0, 0)]
           row(r) == Pair(RowOf(f, 2, r), 4, 3)
<1>1. 2 \in 1..16 /\ 2 \in 1..16 /\ 2 \in Nat
  OBVIOUS
<1>2. \A u \in 1..8 : Inputs([v \in 0..7 |-> c[v][u - 1]], Width(2))
  BY <1>1, Columns, Zenon
<1>3. \A u \in 1..8 : f[u] \in [1..2 -> Int]
  BY <1>2, PairOfInts, Zenon DEF Biases, Shifts
<1>4. \A r \in 1..2 : Inputs(RowOf(f, 2, r), Width(2))
  BY <1>1, <1>3, Rows, Zenon
<1>5. \A r \in 1..2 : row(r) \in [1..2 -> Int]
  BY <1>4, PairOfInts, Zenon DEF Biases, Shifts
<1> QED
  BY <1>5, Limited DEF Samples, RowOf, jpeg_idct_2x2, TwoPasses

LEMMA Samples_4x2 ==
  ASSUME NEW c, Coefficients(c)
  PROVE  Samples(jpeg_idct_4x2(c), 4, 2)
<1> DEFINE f == [u \in 1..8 |-> Pair([v \in 0..7 |-> c[v][u - 1]], 0, 0)]
           row(r) == Pass(Idct4, RowOf(f, 4, r), 2 ^ 15, 16)
<1>1. 4 \in 1..16 /\ 2 \in 1..16 /\ 2 \in Nat
  OBVIOUS
<1>2. \A u \in 1..8 : Inputs([v \in 0..7 |-> c[v][u - 1]], Width(2))
  BY <1>1, Columns, Zenon
<1>3. \A u \in 1..8 : f[u] \in [1..2 -> Int]
  BY <1>2, PairOfInts, Zenon DEF Biases, Shifts
<1>4. \A r \in 1..2 : Inputs(RowOf(f, 4, r), Width(4))
  BY <1>1, <1>3, Rows, Zenon
<1>5. \A r \in 1..2 : row(r) \in [1..4 -> Int]
  BY <1>4, Pass4, Zenon DEF Biases, Shifts
<1> QED
  BY <1>5, Limited DEF Samples, RowOf, jpeg_idct_4x2, TwoPasses

LEMMA Samples_2x4 ==
  ASSUME NEW c, Coefficients(c)
  PROVE  Samples(jpeg_idct_2x4(c), 2, 4)
<1> DEFINE f == [u \in 1..8 |-> Pass(Idct4, [v \in 0..7 |-> c[v][u - 1]], 0, 0)]
           row(r) == Pair(RowOf(f, 2, r), 2 ^ 15, 16)
<1>1. 2 \in 1..16 /\ 4 \in 1..16 /\ 4 \in Nat
  OBVIOUS
<1>2. \A u \in 1..8 : Inputs([v \in 0..7 |-> c[v][u - 1]], Width(4))
  BY <1>1, Columns, Zenon
<1>3. \A u \in 1..8 : f[u] \in [1..4 -> Int]
  BY <1>2, Pass4, Zenon DEF Biases, Shifts
<1>4. \A r \in 1..4 : Inputs(RowOf(f, 2, r), Width(2))
  BY <1>1, <1>3, Rows, Zenon
<1>5. \A r \in 1..4 : row(r) \in [1..2 -> Int]
  BY <1>4, PairOfInts, Zenon DEF Biases, Shifts
<1> QED
  BY <1>5, Limited DEF Samples, RowOf, jpeg_idct_2x4, TwoPasses

LEMMA Samples_1x1 ==
  ASSUME NEW c, Coefficients(c)
  PROVE  Samples(jpeg_idct_1x1(c), 1, 1)
<1>1. Descale(c[0][0], 3) \in Int
  BY DEF Coefficients, Descale
<1> QED
  BY <1>1, Limited DEF Samples, jpeg_idct_1x1

LEMMA Samples_2x1 ==
  ASSUME NEW c, Coefficients(c)
  PROVE  Samples(jpeg_idct_2x1(c), 2, 1)
<1>1. Inputs(c[0], Width(2))
  BY DEF Coefficients, Inputs, Width
<1>2. Pair(c[0], 4, 3) \in [1..2 -> Int]
  BY <1>1, PairOfInts, Zenon DEF Biases, Shifts
<1> QED
  BY <1>2, Limited DEF Samples, jpeg_idct_2x1

LEMMA Samples_1x2 ==
  ASSUME NEW c, Coefficients(c)
  PROVE  Samples(jpeg_idct_1x2(c), 1, 2)
<1>1. Inputs([k \in 0..1 |-> c[k][0]], Width(2))
  BY DEF Coefficients, Inputs, Width
<1> DEFINE out == Pair([k \in 0..1 |-> c[k][0]], 4, 3)
<1>2. out \in [1..2 -> Int]
  BY <1>1, PairOfInts, Zenon DEF Biases, Shifts
<1>3. jpeg_idct_1x2(c) = [i \in 1..2 |-> <<RangeLimit(out[i])>>]
  BY Zenon DEF jpeg_idct_1x2
<1> HIDE DEF out
<1> QED
  BY <1>2, <1>3, Limited DEF Samples

(* Whichever routine start_pass picks.                                      *)
LEMMA BlockIsSamples ==
  ASSUME NEW sz \in KernelSizes, NEW method, NEW c, Coefficients(c)
  PROVE  Samples(inverse_DCT(sz, method, c), sz[1], sz[2])
<1>1. CASE sz[1] = sz[2]
  BY <1>1, Samples_1x1, Samples_2x2, Samples_3x3, Samples_4x4, Samples_5x5, Samples_6x6,
     Samples_7x7, Samples_islow, Samples_9x9, Samples_10x10, Samples_11x11, Samples_12x12,
     Samples_13x13, Samples_14x14, Samples_15x15, Samples_16x16, Samples_ifast,
     SMTT(60) DEF inverse_DCT, KernelSizes
<1>2. CASE sz[1] = 2 * sz[2]
  BY <1>2, Samples_16x8, Samples_14x7, Samples_12x6, Samples_10x5, Samples_8x4,
     Samples_6x3, Samples_4x2, Samples_2x1,
     SMTT(60) DEF inverse_DCT, KernelSizes
<1>3. CASE sz[2] = 2 * sz[1]
  BY <1>3, Samples_8x16, Samples_7x14, Samples_6x12, Samples_5x10, Samples_4x8,
     Samples_3x6, Samples_2x4, Samples_1x2,
     SMTT(60) DEF inverse_DCT, KernelSizes
<1> QED
  BY <1>1, <1>2, <1>3 DEF KernelSizes

(* The multipliers are integers, whichever table they were made of.         *)
LEMMA TableIsInts ==
  ASSUME TableInv, quant_table \in {NoTable, Quant}
  PROVE  Coefficients(dct_table)
<1>1. CASE cur_method = "none"
  BY <1>1 DEF TableInv, Noted, Zeros, Coefficients
<1>2. CASE cur_method # "none"
  <2>1. dct_table = Multipliers(cur_method, Quant)
    BY <1>2, Zenon DEF TableInv, Noted
  <2>2. \A v \in 0..7, u \in 0..7 : Quant[v][u] \in Int
    BY DctAssumption
  <2>3. \A v \in 0..7, u \in 0..7 : aanscales[v + 1][u + 1] \in Int
    BY DEF aanscales
  <2>4. ASSUME NEW v \in 0..7, NEW u \in 0..7
        PROVE  Descale(Quant[v][u] * aanscales[v + 1][u + 1], 12) \in Int
    <3>1. 2 ^ (12 - 1) \in Int /\ 2 ^ 12 \in Nat \ {0}
      OBVIOUS
    <3>2. Quant[v][u] * aanscales[v + 1][u + 1] \in Int
      BY <2>2, <2>3
    <3> QED
      BY <3>1, <3>2 DEF Descale
  <2>5. Coefficients(Scaled(Quant, 12))
    BY <2>4 DEF Scaled, Coefficients
  <2> QED
    BY <2>1, <2>2, <2>5 DEF Multipliers, Coefficients
<1> QED
  BY <1>1, <1>2

(* One step: only DecodeBlock makes samples, and it makes them from         *)
(* integers.                                                                *)
LEMMA TypeStep == TypeOK /\ TableInv /\ [Next]_vars => TypeOK'
<1> SUFFICES ASSUME TypeOK, TableInv, [Next]_vars PROVE TypeOK'
  OBVIOUS
<1>1. ASSUME DecodeBlock PROVE TypeOK'
  <2>1. PICK v \in 0..Min({size[2], 8}) - 1, u \in 0..Min({size[1], 8}) - 1, level \in Levels \cup {0} :
          block' = inverse_DCT(size, Method(size, dct_method),
                               [Zeros EXCEPT ![v][u] = level * dct_table[v][u]])
    BY <1>1 DEF DecodeBlock
  <2>2. size \in KernelSizes
    BY DctAssumption DEF TypeOK
  <2>3. v \in 0..7 /\ u \in 0..7
    <3>1. size[1] \in 1..16 /\ size[2] \in 1..16
      BY <2>2 DEF KernelSizes
    <3>2. Min({size[1], 8}) \in 1..8 /\ Min({size[2], 8}) \in 1..8
      BY <3>1, WidthIsMin
    <3> QED
      BY <3>2
  <2>4. level * dct_table[v][u] \in Int
    BY <2>3, TableIsInts, DctAssumption DEF TypeOK, Coefficients
  <2> DEFINE c == [Zeros EXCEPT ![v][u] = level * dct_table[v][u]]
  <2>5. Coefficients(c)
    BY <2>3, <2>4 DEF Coefficients, Zeros
  <2>6. Samples(block', size[1], size[2])
    BY <2>1, <2>2, <2>5, BlockIsSamples, Zenon
  <2> QED
    BY <1>1, <2>6 DEF DecodeBlock, TypeOK, Samples
<1>2. CASE LatchQuantTable
  BY <1>2 DEF LatchQuantTable, TypeOK
<1>3. CASE SetMethod
  BY <1>3 DEF SetMethod, TypeOK
<1>4. CASE start_pass
  <2>1. Method(size, dct_method) \in {"islow", "ifast"}
    BY DEF TypeOK, Method
  <2> QED
    BY <1>4, <2>1 DEF start_pass, TypeOK
<1>5. CASE forward_DCT
  BY <1>5 DEF forward_DCT, TypeOK
<1>6. CASE NextBlock
  BY <1>6 DEF NextBlock, TypeOK
<1>7. CASE UNCHANGED vars
  BY <1>7 DEF vars, TypeOK
<1> QED
  BY <1>1, <1>2, <1>3, <1>4, <1>5, <1>6, <1>7 DEF Next

(* TypeOK: whatever the coefficients, the quantization table and the        *)
(* method, each of the 32 sizes is decoded to a full block of 8-bit samples *)
(* (the routines of jidctint.c and jidctfst.c).                             *)
THEOREM BlocksAreSamples == Spec => []TypeOK
<1>1. Init => TypeOK
  BY DEF Init, TypeOK
<1> QED
  BY <1>1, TableInit, TableStep, TypeStep, PTL DEF Spec
=============================================================================
