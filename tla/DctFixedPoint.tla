------------------------- MODULE DctFixedPoint -------------------------
(* The fixed-point arithmetic that jidctint.c, jfdctint.c, jidctfst.c and  *)
(* jfdctfst.c share: constants scaled by 2^CONST_BITS = 2^13, right shifts  *)
(* (\div rounds down, as RIGHT_SHIFT does) and the output butterfly of a    *)
(* one-dimensional DCT.  TLC's integers are 32 bits wide and it stops on an *)
(* overflow, so every run also shows that INT32 is wide enough.             *)
EXTENDS Integers, Sequences, FiniteSetsExt

(* FIX(c) rounds c * 2^13; n is c in millionths and the result is exact for *)
(* every constant of the two files.                                         *)
FIX(n) == (n * 256 + 15625) \div 31250

(* FIX of a constant multiplied by the scale factor s[1]/s[2] that a column *)
(* pass folds into its constants.                                           *)
ScaledFIX(n, s) ==
  LET m == n * s[1]  q == m \div s[2]  r == m % s[2]
  IN  (256 * q + 15625 + (256 * r) \div s[2]) \div 31250

(* DESCALE: a right shift with rounding. *)
Descale(v, bits) == (v + 2 ^ (bits - 1)) \div 2 ^ bits

(* The final output stage of an inverse kernel: the even part plus the odd  *)
(* part going down, their difference coming back up; an odd-length kernel   *)
(* has a middle output with no odd part.                                    *)
Butterfly(even, odd) ==
  LET n == Len(odd)
  IN  [k \in 1..Len(even) |-> even[k] + (IF k <= n THEN odd[k] ELSE 0)]
        \o [k \in 1..n |-> even[n + 1 - k] - odd[n + 1 - k]]

(* A defect for TypeOK: the last part of the table is copied from a wrong   *)
(* place.                                                                   *)
Mutant_RangeLimit(v) ==
  LET i == v % 1024
  IN  IF i < 128 THEN i + 128 ELSE IF i < 512 THEN 255 ELSE IF i < 896 THEN 0 ELSE i - 640

(* IDCT_range_limit(cinfo)[v & RANGE_MASK]: the post-IDCT part of the table *)
(* that prepare_range_limit_table builds, recentred by CENTERJSAMPLE.       *)
RangeLimit(v) ==
  LET i == v % 1024
  IN  IF i < 128 THEN i + 128 ELSE IF i < 512 THEN 255 ELSE IF i < 896 THEN 0 ELSE i - 896

Zeros == [v \in 0..7 |-> [u \in 0..7 |-> 0]]
========================================================================
