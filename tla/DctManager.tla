------------------------- MODULE DctManager -------------------------
(* The DCT controllers around the kernels: jddctmgr.c picks an inverse DCT  *)
(* for the component's scaled block size at the start of every output pass  *)
(* and keeps a multiplier table per component; jcdctmgr.c picks a forward   *)
(* DCT, builds a divisor table and quantizes.  The state is one component   *)
(* of a decompressor, in buffered-image mode (several output passes over    *)
(* the same coefficients), and of a compressor that codes the decoded       *)
(* samples again with the same quantization table.                          *)
(* Abstracted: the float methods (real arithmetic), the other components    *)
(* (each has its own table and method), and the 64-entry block: the blocks  *)
(* decoded have one nonzero coefficient.                                    *)
EXTENDS InverseDct, ForwardDct, SequencesExt

CONSTANTS Sizes,      \* pairs <<DCT_h_scaled_size, DCT_v_scaled_size>> of the component
          Coded,      \* the sizes whose blocks are coded again
          Quant,      \* the component's quantization table, [0..7 -> [0..7 -> Nat]]
          Levels,     \* the quantized values the nonzero coefficient takes
          NoTable     \* "no quantization table saved yet"

(* The sizes start_pass has a kernel for (JERR_BAD_DCTSIZE).                *)
KernelSizes == {s \in (1..16) \X (1..16) : s[1] = s[2] \/ s[1] = 2 * s[2] \/ s[2] = 2 * s[1]}
ASSUME DctAssumption ==
  /\ Coded \subseteq Sizes /\ Sizes \subseteq KernelSizes
  /\ Quant \in [0..7 -> [0..7 -> Nat]] /\ Levels \subseteq Int

VARIABLES size,        \* the component's scaled size
          dct_method,  \* cinfo->dct_method, which the application may set between passes
          quant_table, \* compptr->quant_table: NoTable until the component's first scan
          cur_method,  \* the method dct_table was built for, "none" at first
          dct_table,   \* the multiplier table
          latched,     \* history: the quantization table was there when the pass began
          stage,       \* "idle", "pass", "decoded", "coded"
          coef,        \* the nonzero coefficient <<v, u, level>> of the current block
          block        \* the samples, or the coefficients they were coded to
vars == <<size, dct_method, quant_table, cur_method, dct_table, latched, stage,
          coef, block>>

(* The AA&N scale factors of both managers, 2^14 * scalefactor[row] *       *)
(* scalefactor[col].                                                        *)
aanscales == <<<<16384, 22725, 21407, 19266, 16384, 12873,  8867,  4520>>,
               <<22725, 31521, 29692, 26722, 22725, 17855, 12299,  6270>>,
               <<21407, 29692, 27969, 25172, 21407, 16819, 11585,  5906>>,
               <<19266, 26722, 25172, 22654, 19266, 15137, 10426,  5315>>,
               <<16384, 22725, 21407, 19266, 16384, 12873,  8867,  4520>>,
               <<12873, 17855, 16819, 15137, 12873, 10114,  6967,  3552>>,
               << 8867, 12299, 11585, 10426,  8867,  6967,  4799,  2446>>,
               << 4520,  6270,  5906,  5315,  4520,  3552,  2446,  1247>>>>
Scaled(quant, bits) ==
  [v \in 0..7 |-> [u \in 0..7 |-> Descale(quant[v][u] * aanscales[v + 1][u + 1], bits)]]

(* Only full-size blocks have a choice of method. *)
Method(sz, wanted) == IF sz = <<8, 8>> THEN wanted ELSE "islow"

(* The multiplier and the divisor table of a method; the extra factor 8 of  *)
(* the divisors undoes the scaling of the forward kernels.                  *)
Multipliers(method, quant) == IF method = "islow" THEN quant ELSE Scaled(quant, 12)
Divisors(method, quant) ==
  IF method = "islow" THEN [v \in 0..7 |-> [u \in 0..7 |-> 8 * quant[v][u]]] ELSE Scaled(quant, 11)

inverse_DCT(sz, method, c) ==
  CASE sz = <<8, 8>> -> IF method = "islow" THEN jpeg_idct_islow(c) ELSE jpeg_idct_ifast(c)
    [] sz = <<1, 1>> -> jpeg_idct_1x1(c)       [] sz = <<2, 2>> -> jpeg_idct_2x2(c)
    [] sz = <<3, 3>> -> jpeg_idct_3x3(c)       [] sz = <<4, 4>> -> jpeg_idct_4x4(c)
    [] sz = <<5, 5>> -> jpeg_idct_5x5(c)       [] sz = <<6, 6>> -> jpeg_idct_6x6(c)
    [] sz = <<7, 7>> -> jpeg_idct_7x7(c)       [] sz = <<9, 9>> -> jpeg_idct_9x9(c)
    [] sz = <<10, 10>> -> jpeg_idct_10x10(c)   [] sz = <<11, 11>> -> jpeg_idct_11x11(c)
    [] sz = <<12, 12>> -> jpeg_idct_12x12(c)   [] sz = <<13, 13>> -> jpeg_idct_13x13(c)
    [] sz = <<14, 14>> -> jpeg_idct_14x14(c)   [] sz = <<15, 15>> -> jpeg_idct_15x15(c)
    [] sz = <<16, 16>> -> jpeg_idct_16x16(c)   [] sz = <<16, 8>> -> jpeg_idct_16x8(c)
    [] sz = <<14, 7>> -> jpeg_idct_14x7(c)     [] sz = <<12, 6>> -> jpeg_idct_12x6(c)
    [] sz = <<10, 5>> -> jpeg_idct_10x5(c)     [] sz = <<8, 4>> -> jpeg_idct_8x4(c)
    [] sz = <<6, 3>> -> jpeg_idct_6x3(c)       [] sz = <<4, 2>> -> jpeg_idct_4x2(c)
    [] sz = <<2, 1>> -> jpeg_idct_2x1(c)       [] sz = <<8, 16>> -> jpeg_idct_8x16(c)
    [] sz = <<7, 14>> -> jpeg_idct_7x14(c)     [] sz = <<6, 12>> -> jpeg_idct_6x12(c)
    [] sz = <<5, 10>> -> jpeg_idct_5x10(c)     [] sz = <<4, 8>> -> jpeg_idct_4x8(c)
    [] sz = <<3, 6>> -> jpeg_idct_3x6(c)       [] sz = <<2, 4>> -> jpeg_idct_2x4(c)
    [] sz = <<1, 2>> -> jpeg_idct_1x2(c)

do_dct(sz, method, s) ==
  CASE sz = <<8, 8>> -> IF method = "islow" THEN jpeg_fdct_islow(s) ELSE jpeg_fdct_ifast(s)
    [] sz = <<1, 1>> -> jpeg_fdct_1x1(s)       [] sz = <<2, 2>> -> jpeg_fdct_2x2(s)
    [] sz = <<3, 3>> -> jpeg_fdct_3x3(s)       [] sz = <<4, 4>> -> jpeg_fdct_4x4(s)
    [] sz = <<5, 5>> -> jpeg_fdct_5x5(s)       [] sz = <<6, 6>> -> jpeg_fdct_6x6(s)
    [] sz = <<7, 7>> -> jpeg_fdct_7x7(s)       [] sz = <<9, 9>> -> jpeg_fdct_9x9(s)
    [] sz = <<10, 10>> -> jpeg_fdct_10x10(s)   [] sz = <<11, 11>> -> jpeg_fdct_11x11(s)
    [] sz = <<12, 12>> -> jpeg_fdct_12x12(s)   [] sz = <<13, 13>> -> jpeg_fdct_13x13(s)
    [] sz = <<14, 14>> -> jpeg_fdct_14x14(s)   [] sz = <<15, 15>> -> jpeg_fdct_15x15(s)
    [] sz = <<16, 16>> -> jpeg_fdct_16x16(s)   [] sz = <<16, 8>> -> jpeg_fdct_16x8(s)
    [] sz = <<14, 7>> -> jpeg_fdct_14x7(s)     [] sz = <<12, 6>> -> jpeg_fdct_12x6(s)
    [] sz = <<10, 5>> -> jpeg_fdct_10x5(s)     [] sz = <<8, 4>> -> jpeg_fdct_8x4(s)
    [] sz = <<6, 3>> -> jpeg_fdct_6x3(s)       [] sz = <<4, 2>> -> jpeg_fdct_4x2(s)
    [] sz = <<2, 1>> -> jpeg_fdct_2x1(s)       [] sz = <<8, 16>> -> jpeg_fdct_8x16(s)
    [] sz = <<7, 14>> -> jpeg_fdct_7x14(s)     [] sz = <<6, 12>> -> jpeg_fdct_6x12(s)
    [] sz = <<5, 10>> -> jpeg_fdct_5x10(s)     [] sz = <<4, 8>> -> jpeg_fdct_4x8(s)
    [] sz = <<3, 6>> -> jpeg_fdct_3x6(s)       [] sz = <<2, 4>> -> jpeg_fdct_2x4(s)
    [] sz = <<1, 2>> -> jpeg_fdct_1x2(s)

(* A defect for RecodingIsStable: a truncating division. *)
Mutant_Quantize(x, q) == IF x < 0 THEN -((-x) \div q) ELSE x \div q
(* forward_DCT's quantization: divide the magnitude, rounding half up. *)
Quantize(x, q) == IF x < 0 THEN -((q \div 2 - x) \div q) ELSE (x + q \div 2) \div q

(* jinit_inverse_dct: a zeroed multiplier table, built for no method. *)
Init ==
  /\ size \in Sizes /\ dct_method \in {"islow", "ifast"}
  /\ quant_table = NoTable /\ cur_method = "none" /\ dct_table = Zeros /\ latched = FALSE
  /\ stage = "idle" /\ coef = <<0, 0, 0>> /\ block = Zeros

(* The input side reaches the component's first scan and saves its table,   *)
(* between two passes or between two rows of blocks of a pass: one that     *)
(* asked for a later scan consumes the input up to it.                      *)
LatchQuantTable ==
  /\ quant_table = NoTable /\ stage \in {"idle", "pass"}
  /\ quant_table' = Quant
  /\ UNCHANGED <<size, dct_method, cur_method, dct_table, latched, stage, coef, block>>

(* Between output passes the application may ask for the other method. *)
SetMethod ==
  /\ stage = "idle"
  /\ dct_method' \in {"islow", "ifast"} \ {dct_method}
  /\ UNCHANGED <<size, quant_table, cur_method, dct_table, latched, stage, coef, block>>

(* A defect for TableMatchesMethod: the method is noted before the test     *)
(* that there is a quantization table.                                      *)
Mutant_start_pass ==
  /\ stage = "idle" /\ stage' = "pass" /\ latched' = (quant_table # NoTable)
  /\ LET method == Method(size, dct_method)
     IN  /\ cur_method' = method
         /\ dct_table' = IF cur_method = method \/ quant_table = NoTable THEN dct_table
                         ELSE Multipliers(method, quant_table)
  /\ UNCHANGED <<size, dct_method, quant_table, coef, block>>

(* start_pass of jddctmgr.c: the table is rebuilt only when it was built    *)
(* for another method, and stays zero while the component has no table.     *)
start_pass ==
  /\ stage = "idle" /\ stage' = "pass" /\ latched' = (quant_table # NoTable)
  /\ LET method == Method(size, dct_method)
     IN  IF cur_method = method \/ quant_table = NoTable
         THEN UNCHANGED <<cur_method, dct_table>>
         ELSE cur_method' = method /\ dct_table' = Multipliers(method, quant_table)
  /\ UNCHANGED <<size, dct_method, quant_table, coef, block>>

(* One block of the pass: dequantize and transform.  A component that has   *)
(* no data yet reads zeros from the coefficient controller's buffer; one    *)
(* whose data came during the pass reads them, but its multipliers are zero.*)
DecodeBlock ==
  /\ stage = "pass" /\ stage' = "decoded"
  /\ \E v \in 0..Min({size[2], 8}) - 1, u \in 0..Min({size[1], 8}) - 1, level \in Levels \cup {0} :
       /\ quant_table = NoTable => level = 0
       /\ level = 0 => v = 0 /\ u = 0
       /\ coef' = <<v, u, level>>
       /\ block' = inverse_DCT(size, Method(size, dct_method),
                               [Zeros EXCEPT ![v][u] = level * dct_table[v][u]])
  /\ UNCHANGED <<size, dct_method, quant_table, cur_method, dct_table, latched>>

(* The samples go through forward_DCT of a compressor whose component has   *)
(* the same scaled size, method and quantization table.                     *)
forward_DCT ==
  /\ stage = "decoded" /\ stage' = "coded"
  /\ quant_table # NoTable /\ size \in Coded
  /\ \E workspace \in {do_dct(size, Method(size, dct_method), block)},
        divisors \in {Divisors(Method(size, dct_method), quant_table)} :
       block' = [v \in 0..7 |-> [u \in 0..7 |-> Quantize(workspace[v][u], divisors[v][u])]]
  /\ UNCHANGED <<size, dct_method, quant_table, cur_method, dct_table, latched, coef>>

(* On to the next block, or the end of the output pass. *)
NextBlock ==
  /\ stage \in {"decoded", "coded"}
  /\ stage' \in {"pass", "idle"}
  /\ coef' = <<0, 0, 0>> /\ block' = Zeros
  /\ UNCHANGED <<size, dct_method, quant_table, cur_method, dct_table, latched>>

Next == LatchQuantTable \/ SetMethod \/ start_pass \/ DecodeBlock \/ forward_DCT \/ NextBlock
Spec == Init /\ [][Next]_vars

-----------------------------------------------------------------------------
(* The reference: the cosine basis, from cos(pi/2n) by the Chebyshev        *)
(* recurrence, scaled by 2^14.                                              *)
QuarterCos == <<0, 11585, 14189, 15137, 15582, 15826, 15973, 16069, 16135, 16182, 16217, 16244, 16265,
                16281, 16294, 16305>>                       \* 2^14 cos(pi/2n), n = 1..16
CosTable(n) ==       \* entry k + 1 is 2^14 cos(k pi/2n), k = 0..n
  FoldLeft(LAMBDA acc, k : Append(acc, Descale(2 * QuarterCos[n] * acc[k] , 14) - acc[k - 1]),
           <<16384, QuarterCos[n]>>, [k \in 1..n - 1 |-> k + 1])
Cos(table, n, k) ==
  LET a == k % (4 * n)  b == IF a > 2 * n THEN 4 * n - a ELSE a
  IN  IF b <= n THEN table[b + 1] ELSE -table[2 * n - b + 1]
(* 2^14 times the basis function of frequency u on n samples; the DC term   *)
(* has weight 1, the others sqrt(2).                                        *)
Basis(u, n) ==
  LET table == CosTable(n)
  IN  [x \in 1..n |-> IF u = 0 THEN 16384 ELSE (23170 * Cos(table, n, (2 * x - 1) * u)) \div 16384]
TrueIdct(c, amplitude, sz) ==
  LET bx == Basis(c[2], sz[1])  by == Basis(c[1], sz[2])
      sample(a, b) == Descale(((amplitude * a) \div 128) * b, 24)
  IN  [y \in 1..sz[2] |-> [x \in 1..sz[1] |-> 128 + sample(bx[x], by[y])]]

TypeOK ==
  /\ size \in Sizes /\ dct_method \in {"islow", "ifast"} /\ quant_table \in {NoTable, Quant}
  /\ cur_method \in {"none", "islow", "ifast"} /\ latched \in BOOLEAN
  /\ stage \in {"idle", "pass", "decoded", "coded"}
  /\ stage = "decoded" => \A y \in 1..size[2], x \in 1..size[1] : block[y][x] \in 0..255

(* Whatever the order in which quantization tables arrive, methods change   *)
(* and passes start: a component whose table was there when the pass began  *)
(* is decoded with the multipliers of the method that decodes it, so that   *)
(* start_pass's short cut never leaves a stale table and a component that   *)
(* was late once is caught up by the next pass; one whose table comes later *)
(* has zero multipliers to the end of the pass.                             *)
TableMatchesMethod ==
  stage \in {"decoded", "coded"} =>
    dct_table = IF latched THEN Multipliers(Method(size, dct_method), quant_table) ELSE Zeros

(* What the block stands for: a late component is shown as plain grey.      *)
Shown == IF latched THEN coef[3] ELSE 0

(* Every kernel computes the inverse DCT: a block with one coefficient is   *)
(* decoded to that cosine wave around mid-grey, to within 1 level of the    *)
(* exact value for the islow kernels and 2 for the fast one.                *)
InverseIsDct ==
  stage = "decoded" =>
    LET amplitude == Shown * Quant[coef[1]][coef[2]]
        exact == TrueIdct(coef, amplitude, size)
        tolerance == IF Method(size, dct_method) = "islow" THEN 1 ELSE 2
    IN  \A y \in 1..size[2], x \in 1..size[1] :
          block[y][x] - exact[y][x] \in -tolerance..tolerance

(* jfdctint.c says its results are those of a true DCT, scaled: coding a    *)
(* decoded block again, with the same size, method and table, gives back    *)
(* the block's quantized coefficients (none, if it was shown as grey).      *)
RecodingIsStable ==
  stage = "coded" => block = [Zeros EXCEPT ![coef[1]][coef[2]] = Shown]

(* jddctmgr.c says of a component without a quantization table: "we leave   *)
(* the multiplier table all-zero; we'll be reading zeroes from the          *)
(* coefficient controller's buffer anyway".                                 *)
ReadsZeroesAnyway ==
  stage = "decoded" /\ dct_table = Zeros => coef[3] = 0
========================================================================
