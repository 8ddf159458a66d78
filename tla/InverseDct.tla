------------------------- MODULE InverseDct -------------------------
(* jidctint.c and jidctfst.c: a dequantized coefficient block c, c[v][u]    *)
(* with v the vertical frequency, becomes h rows of w samples.  IdctN is    *)
(* the one-dimensional N-point kernel of the NxN routine (x[k] is its k-th  *)
(* input, dc the DC term already scaled and biased for rounding); every     *)
(* routine is then a column pass into the workspace and a row pass out of   *)
(* it, and jpeg_idct_WxH names the two kernels it is made of.               *)
EXTENDS DctFixedPoint

Idct3(x, dc) ==
  LET tmp12 == FIX(707107) * x[2]
  IN  Butterfly(<<dc + tmp12, dc - 2 * tmp12>>, <<FIX(1224745) * x[1]>>)

(* A defect for InverseIsDct: two inputs swapped.                           *)
Mutant_Idct4(x, dc) ==
  LET z1 == FIX(541196) * (x[1] + x[3])   tmp2 == FIX(1000000) * x[2]
  IN  Butterfly(<<dc + tmp2, dc - tmp2>>, <<z1 + FIX(765367) * x[3], z1 - FIX(1847759) * x[1]>>)
Idct4(x, dc) ==
  LET z1 == FIX(541196) * (x[1] + x[3])   tmp2 == FIX(1000000) * x[2]
  IN  Butterfly(<<dc + tmp2, dc - tmp2>>, <<z1 + FIX(765367) * x[1], z1 - FIX(1847759) * x[3]>>)

Idct5(x, dc) ==
  LET z1a == FIX(790569) * (x[2] + x[4])   z2 == FIX(353553) * (x[2] - x[4])   z3 == dc + z2
      tmp10 == z3 + z1a   tmp11 == z3 - z1a   z1b == FIX(831254) * (x[1] + x[3])
      tmp0 == z1b + FIX(513743) * x[1]   tmp1 == z1b - FIX(2176251) * x[3]
  IN  Butterfly(<<tmp10, tmp11, dc - 4 * z2>>, <<tmp0, tmp1>>)
Idct6(x, dc) ==
  LET tmp10a == FIX(707107) * x[4]   tmp1a == dc + tmp10a   tmp11 == dc - tmp10a - tmp10a
      tmp0a == FIX(1224745) * x[2]   tmp10b == tmp1a + tmp0a   tmp12 == tmp1a - tmp0a
      tmp1b == FIX(366025) * (x[1] + x[5])   tmp0b == tmp1b + FIX(1000000) * (x[1] + x[3])
      tmp2 == tmp1b + FIX(1000000) * (x[5] - x[3])   tmp1c == FIX(1000000) * (x[1] - x[3] - x[5])
  IN  Butterfly(<<tmp10b, tmp11, tmp12>>, <<tmp0b, tmp1c, tmp2>>)
Idct7(x, dc) ==
  LET tmp10a == FIX(881748) * (x[4] - x[6])   tmp12a == FIX(314692) * (x[2] - x[4])
      tmp11 == tmp10a + tmp12a + dc - FIX(1841218) * x[4]   tmp0a == x[2] + x[6]
      tmp0b == FIX(1274162) * tmp0a + dc   tmp10b == tmp10a + tmp0b - FIX(77723) * x[6]
      tmp12b == tmp12a + tmp0b - FIX(2470602) * x[2]   tmp13 == dc + FIX(1414214) * (x[4] - tmp0a)
      tmp1a == FIX(935414) * (x[1] + x[3])   tmp2a == FIX(170262) * (x[1] - x[3])
      tmp2b == -FIX(1378756) * (x[3] + x[5])   tmp1b == tmp1a + tmp2a + tmp2b
      z2 == FIX(613604) * (x[1] + x[5])   tmp0c == tmp1a - tmp2a + z2
      tmp2c == tmp2b + z2 + FIX(1870829) * x[5]
  IN  Butterfly(<<tmp10b, tmp11, tmp12b, tmp13>>, <<tmp0c, tmp1b, tmp2c>>)
Idct8(x, dc) ==
  LET z1a == FIX(541196) * (x[2] + x[6])   tmp2a == z1a + FIX(765367) * x[2]
      tmp3a == z1a - FIX(1847759) * x[6]   z3a == FIX(1000000) * x[4]   tmp0a == dc + z3a
      tmp1a == dc - z3a   tmp10 == tmp0a + tmp2a   tmp13 == tmp0a - tmp2a   tmp11 == tmp1a + tmp3a
      tmp12 == tmp1a - tmp3a   z2a == x[7] + x[3]   z3b == x[5] + x[1]
      z1b == FIX(1175876) * (z2a + z3b)   z2b == -FIX(1961571) * z2a + z1b
      z3c == -FIX(390181) * z3b + z1b   z1c == -FIX(899976) * (x[7] + x[1])
      tmp0b == FIX(298631) * x[7] + z1c + z2b   tmp3b == FIX(1501321) * x[1] + z1c + z3c
      z1d == -FIX(2562915) * (x[5] + x[3])   tmp1b == FIX(2053120) * x[5] + z1d + z3c
      tmp2b == FIX(3072711) * x[3] + z1d + z2b
  IN  Butterfly(<<tmp10, tmp11, tmp12, tmp13>>, <<tmp3b, tmp2b, tmp1b, tmp0b>>)
Idct9(x, dc) ==
  LET tmp3a == FIX(707107) * x[6]   tmp1a == dc + tmp3a   tmp2a == dc - tmp3a - tmp3a
      tmp0a == FIX(707107) * (x[2] - x[4])   tmp11 == tmp2a + tmp0a
      tmp0b == FIX(1328926) * (x[2] + x[4])   tmp2b == FIX(1083350) * x[2]   tmp3b == FIX(245576) * x[4]
      tmp10 == tmp1a + tmp0b - tmp3b   tmp12 == tmp1a - tmp0b + tmp2b   tmp13 == tmp1a - tmp2b + tmp3b
      z2 == -FIX(1224745) * x[3]   tmp2c == FIX(909039) * (x[1] + x[5])
      tmp3c == FIX(483690) * (x[1] + x[7])   tmp0c == tmp2c + tmp3c - z2
      tmp1b == FIX(1392728) * (x[5] - x[7])   tmp2d == tmp2c + z2 - tmp1b   tmp3d == tmp3c + z2 + tmp1b
      tmp1c == FIX(1224745) * (x[1] - x[5] - x[7])
  IN  Butterfly(<<tmp10, tmp11, tmp12, tmp13, tmp2a - tmp0a - tmp0a>>, <<tmp0c, tmp1c, tmp2d, tmp3d>>)
Idct10(x, dc) ==
  LET z1a == FIX(1144123) * x[4]   z2a == FIX(437016) * x[4]   tmp10a == dc + z1a   tmp11a == dc - z2a
      tmp22 == dc - 2 * (z1a - z2a)   z1b == FIX(831254) * (x[2] + x[6])
      tmp12a == z1b + FIX(513743) * x[2]   tmp13a == z1b - FIX(2176251) * x[6]
      tmp20 == tmp10a + tmp12a   tmp24 == tmp10a - tmp12a   tmp21 == tmp11a + tmp13a
      tmp23 == tmp11a - tmp13a   z3 == FIX(1000000) * x[5]   tmp11b == x[3] + x[7]
      tmp13b == x[3] - x[7]   tmp12b == FIX(309017) * tmp13b   z2b == FIX(951057) * tmp11b
      z4a == z3 + tmp12b   tmp10b == FIX(1396802) * x[1] + z2b + z4a
      tmp14 == FIX(221232) * x[1] - z2b + z4a   z2c == FIX(587785) * tmp11b
      z4b == z3 - tmp12b - FIX(500000) * tmp13b   tmp12c == FIX(1000000) * (x[1] - tmp13b) - z3
      tmp11c == FIX(1260074) * x[1] - z2c - z4b   tmp13c == FIX(642040) * x[1] - z2c + z4b
  IN  Butterfly(<<tmp20, tmp21, tmp22, tmp23, tmp24>>, <<tmp10b, tmp11c, tmp12c, tmp13c, tmp14>>)
Idct11(x, dc) ==
  LET tmp20a == FIX(2546640) * (x[4] - x[6])   tmp23a == FIX(430815) * (x[4] - x[2])
      z4a == x[2] + x[6]   z4b == z4a - x[4]   tmp25 == dc + FIX(1356928) * z4b
      tmp21 == tmp20a + tmp23a + tmp25 - FIX(1821791) * x[4]
      tmp20b == tmp20a + tmp25 + FIX(2115825) * x[6]   tmp23b == tmp23a + tmp25 - FIX(1513598) * x[2]
      tmp24a == -FIX(1155664) * z4a + tmp25   tmp22 == tmp24a - FIX(788749) * x[6]
      tmp24b == tmp24a + FIX(1944414) * x[4] - FIX(1390976) * x[2]   tmp11a == x[1] + x[3]
      tmp14a == FIX(398430) * (tmp11a + x[5] + x[7])   tmp11b == FIX(887984) * tmp11a
      tmp12a == FIX(670361) * (x[1] + x[5])   tmp13a == tmp14a + FIX(366152) * (x[1] + x[7])
      tmp10 == tmp11b + tmp12a + tmp13a - FIX(923108) * x[1]
      z1a == tmp14a - FIX(1163012) * (x[3] + x[5])   tmp12b == tmp12a + z1a - FIX(1192194) * x[5]
      z1b == -FIX(1798249) * (x[3] + x[7])   tmp11c == tmp11b + z1a + FIX(2073277) * x[3] + z1b
      tmp13b == tmp13a + z1b + FIX(2102459) * x[7]
      tmp14b == tmp14a + (-FIX(1467221) * x[3] + FIX(1001389) * x[5] - FIX(1684844) * x[7])
  IN  Butterfly(<<tmp20b, tmp21, tmp22, tmp23b, tmp24b, dc - FIX(1414214) * z4b>>,
                <<tmp10, tmp11c, tmp12b, tmp13b, tmp14b>>)
Idct12(x, dc) ==
  LET z4a == FIX(1224745) * x[4]   tmp10a == dc + z4a   tmp11a == dc - z4a   z4b == FIX(1366025) * x[2]
      z1a == FIX(1000000) * x[2]   z2a == FIX(1000000) * x[6]   tmp12a == z1a - z2a
      tmp21 == dc + tmp12a   tmp24 == dc - tmp12a   tmp12b == z4b + z2a   tmp20 == tmp10a + tmp12b
      tmp25 == tmp10a - tmp12b   tmp12c == z4b - z1a - z2a   tmp22 == tmp11a + tmp12c
      tmp23 == tmp11a - tmp12c   tmp11b == FIX(1306563) * x[3]   tmp14a == -FIX(541196) * x[3]
      tmp10b == x[1] + x[5]   tmp15a == FIX(860919) * (tmp10b + x[7])
      tmp12d == tmp15a + FIX(261052) * tmp10b   tmp10c == tmp12d + tmp11b + FIX(280144) * x[1]
      tmp13a == -FIX(1045511) * (x[5] + x[7])   tmp12e == tmp12d + tmp13a + tmp14a - FIX(1478575) * x[5]
      tmp13b == tmp13a + tmp15a - tmp11b + FIX(1586707) * x[7]
      tmp15b == tmp15a + tmp14a - FIX(676327) * x[1] - FIX(1982890) * x[7]   z1b == x[1] - x[7]
      z2b == x[3] - x[5]   z3 == FIX(541196) * (z1b + z2b)   tmp11c == z3 + FIX(765367) * z1b
      tmp14b == z3 - FIX(1847759) * z2b
  IN  Butterfly(<<tmp20, tmp21, tmp22, tmp23, tmp24, tmp25>>,
                <<tmp10c, tmp11c, tmp12e, tmp13b, tmp14b, tmp15b>>)
Idct13(x, dc) ==
  LET tmp10a == x[4] + x[6]   tmp11a == x[4] - x[6]   tmp12a == FIX(1155389) * tmp10a
      tmp13a == FIX(96835) * tmp11a + dc   tmp20 == FIX(1373119) * x[2] + tmp12a + tmp13a
      tmp22 == FIX(501487) * x[2] - tmp12a + tmp13a   tmp12b == FIX(316450) * tmp10a
      tmp13b == FIX(486915) * tmp11a + dc   tmp21 == FIX(1058554) * x[2] - tmp12b + tmp13b
      tmp25 == -FIX(1252224) * x[2] + tmp12b + tmp13b   tmp12c == FIX(435816) * tmp10a
      tmp13c == FIX(937303) * tmp11a - dc   tmp23 == -FIX(170465) * x[2] - tmp12c - tmp13c
      tmp24 == -FIX(803365) * x[2] + tmp12c - tmp13c   tmp26 == FIX(1414214) * (tmp11a - x[2]) + dc
      tmp11b == FIX(1322313) * (x[1] + x[3])   tmp12d == FIX(1163875) * (x[1] + x[5])
      tmp15a == x[1] + x[7]   tmp13d == FIX(937797) * tmp15a
      tmp10b == tmp11b + tmp12d + tmp13d - FIX(2020082) * x[1]   tmp14a == -FIX(338443) * (x[3] + x[5])
      tmp11c == tmp11b + tmp14a + FIX(837224) * x[3]   tmp12e == tmp12d + tmp14a - FIX(1572116) * x[5]
      tmp14b == -FIX(1163875) * (x[3] + x[7])   tmp11d == tmp11c + tmp14b
      tmp13e == tmp13d + tmp14b + FIX(2205608) * x[7]   tmp14c == -FIX(657218) * (x[5] + x[7])
      tmp12f == tmp12e + tmp14c   tmp13f == tmp13e + tmp14c   tmp15b == FIX(338443) * tmp15a
      tmp14d == tmp15b + FIX(318774) * x[1] - FIX(466105) * x[3]   z1 == FIX(937797) * (x[5] - x[3])
      tmp14e == tmp14d + z1   tmp15c == tmp15b + z1 + FIX(384516) * x[5] - FIX(1742346) * x[7]
  IN  Butterfly(<<tmp20, tmp21, tmp22, tmp23, tmp24, tmp25, tmp26>>,
                <<tmp10b, tmp11d, tmp12f, tmp13f, tmp14e, tmp15c>>)
Idct14(x, dc) ==
  LET z2 == FIX(1274162) * x[4]   z3a == FIX(314692) * x[4]   z4a == FIX(881748) * x[4]
      tmp10a == dc + z2   tmp11a == dc + z3a   tmp12a == dc - z4a   tmp23 == dc - 2 * (z2 + z3a - z4a)
      z3b == FIX(1105677) * (x[2] + x[6])   tmp13a == z3b + FIX(273080) * x[2]
      tmp14a == z3b - FIX(1719281) * x[6]   tmp15a == FIX(613604) * x[2] - FIX(1378756) * x[6]
      tmp20 == tmp10a + tmp13a   tmp26 == tmp10a - tmp13a   tmp21 == tmp11a + tmp14a
      tmp25 == tmp11a - tmp14a   tmp22 == tmp12a + tmp15a   tmp24 == tmp12a - tmp15a
      z4b == FIX(1000000) * x[7]   tmp14b == x[1] + x[5]   tmp11b == FIX(1334853) * (x[1] + x[3])
      tmp12b == FIX(1197449) * tmp14b   tmp10b == tmp11b + tmp12b + z4b - FIX(1126980) * x[1]
      tmp14c == FIX(752407) * tmp14b   z1 == x[1] - x[3]   tmp15b == FIX(467085) * z1 - z4b
      tmp16 == tmp14c - FIX(1061150) * x[1] + tmp15b   tmp13b == -FIX(158342) * (x[3] + x[5]) - z4b
      tmp11c == tmp11b + tmp13b - FIX(424104) * x[3]   tmp12c == tmp12b + tmp13b - FIX(2373960) * x[5]
      tmp13c == FIX(1405321) * (x[5] - x[3])   tmp14d == tmp14c + tmp13c + z4b - FIX(1690643) * x[5]
      tmp15c == tmp15b + tmp13c + FIX(674958) * x[3]   tmp13d == FIX(1000000) * (z1 - x[5]) + z4b
  IN  Butterfly(<<tmp20, tmp21, tmp22, tmp23, tmp24, tmp25, tmp26>>,
                <<tmp10b, tmp11c, tmp12c, tmp13d, tmp14d, tmp15c, tmp16>>)
Idct15(x, dc) ==
  LET tmp10a == FIX(437016) * x[6]   tmp11a == FIX(1144123) * x[6]   tmp12a == dc - tmp10a
      tmp13a == dc + tmp11a   z1 == dc - 2 * (tmp11a - tmp10a)   z4 == x[2] - x[4]   z3a == x[4] + x[2]
      tmp10b == FIX(1337629) * z3a   tmp11b == FIX(45681) * z4   z2a == FIX(1439774) * x[2]
      tmp20 == tmp13a + tmp10b + tmp11b   tmp23 == tmp12a - tmp10b + tmp11b + z2a
      tmp10c == FIX(547060) * z3a   tmp11c == FIX(399234) * z4   tmp25 == tmp13a - tmp10c - tmp11c
      tmp26 == tmp12a + tmp10c - tmp11c - z2a   tmp10d == FIX(790569) * z3a   tmp11d == FIX(353553) * z4
      tmp21 == tmp12a + tmp10d + tmp11d   tmp24 == tmp13a - tmp10d + tmp11d   tmp11e == tmp11d + tmp11d
      tmp22 == z1 + tmp11e   z3b == FIX(1224745) * x[5]   tmp13b == x[3] - x[7]
      tmp15a == FIX(831254) * (x[1] + tmp13b)   tmp11f == tmp15a + FIX(513743) * x[1]
      tmp14 == tmp15a - FIX(2176251) * tmp13b   tmp13c == -FIX(831254) * x[3]
      tmp15b == -FIX(1344997) * x[3]   z2b == x[1] - x[7]   tmp12b == z3b + FIX(1406466) * z2b
      tmp10e == tmp12b + FIX(2457432) * x[7] - tmp15b   tmp16 == tmp12b - FIX(1112435) * x[1] + tmp13c
      tmp12c == FIX(1224745) * z2b - z3b   z2c == FIX(575212) * (x[1] + x[7])
      tmp13d == tmp13c + z2c + FIX(475753) * x[1] - z3b
      tmp15c == tmp15b + z2c - FIX(869244) * x[7] + z3b
  IN  Butterfly(<<tmp20, tmp21, tmp22, tmp23, tmp24, tmp25, tmp26, z1 - tmp11e - tmp11e>>,
                <<tmp10e, tmp11f, tmp12c, tmp13d, tmp14, tmp15c, tmp16>>)
Idct16(x, dc) ==
  LET tmp1a == FIX(1306563) * x[4]   tmp2a == FIX(541196) * x[4]   tmp10a == dc + tmp1a
      tmp11a == dc - tmp1a   tmp12a == dc + tmp2a   tmp13a == dc - tmp2a   z3a == x[2] - x[6]
      z4 == FIX(275899) * z3a   z3b == FIX(1387040) * z3a   tmp0a == z3b + FIX(2562915) * x[6]
      tmp1b == z4 + FIX(899976) * x[2]   tmp2b == z3b - FIX(601345) * x[2]
      tmp3a == z4 - FIX(509796) * x[6]   tmp20 == tmp10a + tmp0a   tmp27 == tmp10a - tmp0a
      tmp21 == tmp12a + tmp1b   tmp26 == tmp12a - tmp1b   tmp22 == tmp13a + tmp2b
      tmp25 == tmp13a - tmp2b   tmp23 == tmp11a + tmp3a   tmp24 == tmp11a - tmp3a
      tmp11b == x[1] + x[5]   tmp1c == FIX(1353318) * (x[1] + x[3])   tmp2c == FIX(1247225) * tmp11b
      tmp3b == FIX(1093202) * (x[1] + x[7])   tmp10b == FIX(897168) * (x[1] - x[7])
      tmp11c == FIX(666656) * tmp11b   tmp12b == FIX(410525) * (x[1] - x[3])
      tmp0b == tmp1c + tmp2c + tmp3b - FIX(2286341) * x[1]
      tmp13b == tmp10b + tmp11c + tmp12b - FIX(1835731) * x[1]   z1a == FIX(138617) * (x[3] + x[5])
      z1b == FIX(1407404) * (x[5] - x[3])   z2a == x[3] + x[7]   z1c == -FIX(666656) * z2a
      tmp1d == tmp1c + z1a + FIX(71888) * x[3] + z1c   z2b == -FIX(1247225) * z2a
      tmp12c == tmp12b + z1b + FIX(1971951) * x[3] + z2b   z2c == -FIX(1353318) * (x[5] + x[7])
      tmp2d == tmp2c + z1a - FIX(1125726) * x[5] + z2c
      tmp3c == tmp3b + z1c + FIX(1065389) * x[7] + z2c   z2d == FIX(410525) * (x[7] - x[5])
      tmp10c == tmp10b + z2b + FIX(3141272) * x[7] + z2d
      tmp11d == tmp11c + z1b - FIX(766367) * x[5] + z2d
  IN  Butterfly(<<tmp20, tmp21, tmp22, tmp23, tmp24, tmp25, tmp26, tmp27>>,
                <<tmp0b, tmp1d, tmp2d, tmp3c, tmp10c, tmp11d, tmp12c, tmp13b>>)

(* The column pass of the 4-point-high routines rounds the odd part alone.  *)
Column4(x) ==
  LET z1 == FIX(541196) * (x[1] + x[3]) + 2 ^ 10
  IN  Butterfly(<<4 * (x[0] + x[2]), 4 * (x[0] - x[2])>>,
                <<(z1 + FIX(765367) * x[1]) \div 2 ^ 11, (z1 - FIX(1847759) * x[3]) \div 2 ^ 11>>)

(* Run kernel K on x with the DC input scaled by 2^CONST_BITS and a         *)
(* rounding bias added to it, then drop the fraction bits.                  *)
Pass(K(_, _), x, bias, bits) ==
  LET out == K(x, 2 ^ 13 * x[0] + bias) IN [i \in DOMAIN out |-> out[i] \div 2 ^ bits]
Pair(x, bias, bits) == <<(x[0] + bias + x[1]) \div 2 ^ bits, (x[0] + bias - x[1]) \div 2 ^ bits>>

(* Pass 1 fills the workspace column by column (at most 8 columns hold      *)
(* coefficients); pass 2 turns each of its h rows into w samples.           *)
TwoPasses(Column(_), Row(_), c, w, h) ==
  LET workspace == SubSeq([u \in 1..8 |-> Column([v \in 0..7 |-> c[v][u - 1]])], 1, Min({w, 8}))
      samples(x) == LET out == Row(x) IN [i \in 1..w |-> RangeLimit(out[i])]
  IN  [r \in 1..h |-> samples([u \in 0..Len(workspace) - 1 |-> workspace[u + 1][r]])]

Inverse2D(ColumnK(_, _), RowK(_, _), c, w, h) ==
  TwoPasses(LAMBDA x : Pass(ColumnK, x, 2 ^ 10, 11), LAMBDA x : Pass(RowK, x, 2 ^ 17, 18), c, w, h)

(* The islow column pass skips the kernel when all AC terms are zero.       *)
NoAC(x) == \A k \in 1..7 : x[k] = 0
Column8(x) == IF NoAC(x) THEN [i \in 1..8 |-> 4 * x[0]] ELSE Pass(Idct8, x, 2 ^ 10, 11)
RowPass(K(_, _), x) == Pass(K, x, 2 ^ 17, 18)

jpeg_idct_islow(c) ==
  TwoPasses(Column8, LAMBDA x : IF NoAC(x) THEN [i \in 1..8 |-> Descale(x[0], 5)] ELSE RowPass(Idct8, x),
            c, 8, 8)
jpeg_idct_16x16(c) == Inverse2D(Idct16, Idct16, c, 16, 16)
jpeg_idct_15x15(c) == Inverse2D(Idct15, Idct15, c, 15, 15)
jpeg_idct_14x14(c) == Inverse2D(Idct14, Idct14, c, 14, 14)
jpeg_idct_13x13(c) == Inverse2D(Idct13, Idct13, c, 13, 13)
jpeg_idct_12x12(c) == Inverse2D(Idct12, Idct12, c, 12, 12)
jpeg_idct_11x11(c) == Inverse2D(Idct11, Idct11, c, 11, 11)
jpeg_idct_10x10(c) == Inverse2D(Idct10, Idct10, c, 10, 10)
jpeg_idct_9x9(c) == Inverse2D(Idct9, Idct9, c, 9, 9)
jpeg_idct_7x7(c) == Inverse2D(Idct7, Idct7, c, 7, 7)
jpeg_idct_6x6(c) == Inverse2D(Idct6, Idct6, c, 6, 6)
jpeg_idct_5x5(c) == Inverse2D(Idct5, Idct5, c, 5, 5)
jpeg_idct_4x4(c) == TwoPasses(Column4, LAMBDA x : RowPass(Idct4, x), c, 4, 4)
jpeg_idct_3x3(c) == Inverse2D(Idct3, Idct3, c, 3, 3)
jpeg_idct_2x2(c) == TwoPasses(LAMBDA x : Pair(x, 0, 0), LAMBDA x : Pair(x, 4, 3), c, 2, 2)
jpeg_idct_1x1(c) == <<<<RangeLimit(Descale(c[0][0], 3))>>>>
jpeg_idct_16x8(c) == TwoPasses(Column8, LAMBDA x : RowPass(Idct16, x), c, 16, 8)
jpeg_idct_14x7(c) == Inverse2D(Idct7, Idct14, c, 14, 7)
jpeg_idct_12x6(c) == Inverse2D(Idct6, Idct12, c, 12, 6)
jpeg_idct_10x5(c) == Inverse2D(Idct5, Idct10, c, 10, 5)
jpeg_idct_8x4(c) == TwoPasses(Column4, LAMBDA x : RowPass(Idct8, x), c, 8, 4)
jpeg_idct_6x3(c) == Inverse2D(Idct3, Idct6, c, 6, 3)
jpeg_idct_4x2(c) == TwoPasses(LAMBDA x : Pair(x, 0, 0), LAMBDA x : Pass(Idct4, x, 2 ^ 15, 16), c, 4, 2)
jpeg_idct_2x1(c) == <<[i \in 1..2 |-> RangeLimit(Pair(c[0], 4, 3)[i])]>>
jpeg_idct_8x16(c) == Inverse2D(Idct16, Idct8, c, 8, 16)
jpeg_idct_7x14(c) == Inverse2D(Idct14, Idct7, c, 7, 14)
jpeg_idct_6x12(c) == Inverse2D(Idct12, Idct6, c, 6, 12)
jpeg_idct_5x10(c) == Inverse2D(Idct10, Idct5, c, 5, 10)
jpeg_idct_4x8(c) == TwoPasses(Column8, LAMBDA x : RowPass(Idct4, x), c, 4, 8)
jpeg_idct_3x6(c) == Inverse2D(Idct6, Idct3, c, 3, 6)
jpeg_idct_2x4(c) == TwoPasses(LAMBDA x : Pass(Idct4, x, 0, 0), LAMBDA x : Pair(x, 2 ^ 15, 16), c, 2, 4)
jpeg_idct_1x2(c) == LET out == Pair([k \in 0..1 |-> c[k][0]], 4, 3) IN [i \in 1..2 |-> <<RangeLimit(out[i])>>]

(* jidctfst.c: the AA&N kernel; every MULTIPLY drops 8 fraction bits, which *)
(* makes it faster and less exact than islow.                               *)
IdctFast(x) ==
  LET mul(v, f) == (v * f) \div 256
      tmp12 == mul(x[2] - x[6], 362) - (x[2] + x[6])
      e10 == x[0] + x[4]   e11 == x[0] - x[4]   e13 == x[2] + x[6]
      z13 == x[5] + x[3]   z10 == x[5] - x[3]   z11 == x[1] + x[7]   z12 == x[1] - x[7]
      tmp7 == z11 + z13   z5 == mul(z10 + z12, 473)
      tmp6 == mul(z10, -669) + z5 - tmp7
      tmp5 == mul(z11 - z13, 362) - tmp6
      tmp4 == mul(z12, 277) - z5 + tmp5
  IN  Butterfly(<<e10 + e13, e11 + tmp12, e11 - tmp12, e10 - e13>>, <<tmp7, tmp6, tmp5, -tmp4>>)

(* Both passes have a shortcut for a vector without AC terms; the row pass  *)
(* truncates the PASS1_BITS+3 fraction bits.                                *)
jpeg_idct_ifast(c) ==
  LET fast(x) == IF NoAC(x) THEN [i \in 1..8 |-> x[0]] ELSE IdctFast(x)
  IN  TwoPasses(fast, LAMBDA x : LET out == fast(x) IN [i \in 1..8 |-> out[i] \div 32], c, 8, 8)
========================================================================
