------------------------- MODULE ForwardDct -------------------------
(* jfdctint.c and jfdctfst.c: h rows of w samples become an 8x8 block of    *)
(* coefficients scaled up by 8; frequencies the block does not have are     *)
(* zero.  FdctN is the one-dimensional N-point kernel (center is 128 in the *)
(* row pass, which removes the sample offset, and 0 in the column pass; s   *)
(* is the scale folded into the constants of the column pass).              *)
EXTENDS DctFixedPoint

Fdct3(x, center, s) ==
  LET F(n) == ScaledFIX(n, s)   p == [i \in 0..1 |-> x[i] + x[2 - i]]   m == [i \in 0..0 |-> x[i] - x[2 - i]]
  IN  <<F(1000000) * (p[0] + x[1] - 3 * center), F(1224745) * m[0], F(707107) * (p[0] - x[1] - x[1])>>
Fdct4(x, center, s) ==
  LET F(n) == ScaledFIX(n, s)   p == [i \in 0..1 |-> x[i] + x[3 - i]]   m == [i \in 0..1 |-> x[i] - x[3 - i]]
      tmp0 == F(541196) * (m[0] + m[1])
  IN  <<F(1000000) * (p[0] + p[1] - 4 * center), tmp0 + F(765367) * m[0], F(1000000) * (p[0] - p[1]),
        tmp0 - F(1847759) * m[1]>>
Fdct5(x, center, s) ==
  LET F(n) == ScaledFIX(n, s)   p == [i \in 0..2 |-> x[i] + x[4 - i]]   m == [i \in 0..1 |-> x[i] - x[4 - i]]
      tmp10a == p[0] + p[1]   tmp11 == F(790569) * (p[0] - p[1])
      tmp10b == F(353553) * (tmp10a - 4 * x[2])   tmp10c == F(831254) * (m[0] + m[1])
  IN  <<F(1000000) * (tmp10a + x[2] - 5 * center), tmp10c + F(513743) * m[0], tmp11 + tmp10b,
        tmp10c - F(2176251) * m[1], tmp11 - tmp10b>>
Fdct6(x, center, s) ==
  LET F(n) == ScaledFIX(n, s)   p == [i \in 0..2 |-> x[i] + x[5 - i]]   m == [i \in 0..2 |-> x[i] - x[5 - i]]
      tmp10a == p[0] + p[2]   tmp10b == F(366025) * (m[0] + m[2])
  IN  <<F(1000000) * (tmp10a + p[1] - 6 * center), tmp10b + F(1000000) * (m[0] + m[1]),
        F(1224745) * (p[0] - p[2]), F(1000000) * (m[0] - m[1] - m[2]),
        F(707107) * (tmp10a - p[1] - p[1]), tmp10b + F(1000000) * (m[2] - m[1])>>
Fdct7(x, center, s) ==
  LET F(n) == ScaledFIX(n, s)   p == [i \in 0..3 |-> x[i] + x[6 - i]]   m == [i \in 0..2 |-> x[i] - x[6 - i]]
      z1a == p[0] + p[2]   z1b == z1a - p[3] - p[3]   z1c == F(353553) * z1b
      z2a == F(920609) * (p[0] - p[2])   z3 == F(314692) * (p[1] - p[2])
      z2b == F(881748) * (p[0] - p[1])   tmp1 == F(935414) * (m[0] + m[1])
      tmp2a == F(170262) * (m[0] - m[1])   tmp2b == -F(1378756) * (m[1] + m[2])
      tmp3 == F(613604) * (m[0] + m[2])   tmp2c == tmp2b + tmp3 + F(1870829) * m[2]
  IN  <<F(1000000) * (z1a + p[1] + x[3] - 7 * center), tmp1 - tmp2a + tmp3, z1c + z2a + z3,
        tmp1 + tmp2a + tmp2b, z2b + z3 - F(707107) * (p[1] - p[3]), tmp2c, z1c - z2a + z2b>>
Fdct8(x, center, s) ==
  LET F(n) == ScaledFIX(n, s)   p == [i \in 0..3 |-> x[i] + x[7 - i]]   m == [i \in 0..3 |-> x[i] - x[7 - i]]
      tmp10a == p[0] + p[3]   tmp12a == p[0] - p[3]   tmp11a == p[1] + p[2]   tmp13a == p[1] - p[2]
      z1a == F(541196) * (tmp12a + tmp13a)   tmp12b == m[0] + m[2]   tmp13b == m[1] + m[3]
      z1b == F(1175876) * (tmp12b + tmp13b)   tmp10b == -F(899976) * (m[0] + m[3])
      tmp11b == -F(2562915) * (m[1] + m[2])   tmp12c == -F(390181) * tmp12b + z1b
      tmp13c == -F(1961571) * tmp13b + z1b
  IN  <<F(1000000) * (tmp10a + tmp11a - 8 * center), F(1501321) * m[0] + tmp10b + tmp12c,
        z1a + F(765367) * tmp12a, F(3072711) * m[1] + tmp11b + tmp13c, F(1000000) * (tmp10a - tmp11a),
        F(2053120) * m[2] + tmp11b + tmp12c, z1a - F(1847759) * tmp13a,
        F(298631) * m[3] + tmp10b + tmp13c>>
Fdct9(x, center, s) ==
  LET F(n) == ScaledFIX(n, s)   p == [i \in 0..4 |-> x[i] + x[8 - i]]   m == [i \in 0..3 |-> x[i] - x[8 - i]]
      z1a == p[0] + p[2] + p[3]   z2a == p[1] + x[4]   z1b == F(1328926) * (p[0] - p[2])
      z2b == F(707107) * (p[1] - x[4] - x[4])   tmp11 == F(1224745) * m[1]
      tmp0 == F(909039) * (m[0] + m[2])   tmp1 == F(483690) * (m[0] + m[3])
      tmp2 == F(1392728) * (m[2] - m[3])
  IN  <<F(1000000) * (z1a + z2a - 9 * center), tmp11 + tmp0 + tmp1,
        F(1083350) * (p[2] - p[3]) + z1b + z2b, F(1224745) * (m[0] - m[2] - m[3]),
        F(245576) * (p[3] - p[0]) + z1b - z2b, tmp0 - tmp11 - tmp2, F(707107) * (z1a - z2a - z2a),
        tmp1 - tmp11 + tmp2>>
Fdct10(x, center, s) ==
  LET F(n) == ScaledFIX(n, s)   p == [i \in 0..4 |-> x[i] + x[9 - i]]   m == [i \in 0..4 |-> x[i] - x[9 - i]]
      tmp10a == p[0] + p[4]   tmp13a == p[0] - p[4]   tmp11a == p[1] + p[3]   tmp14 == p[1] - p[3]
      tmp12a == p[2] + p[2]   tmp10b == F(831254) * (tmp13a + tmp14)   tmp10c == m[0] + m[4]
      tmp11b == m[1] - m[3]   tmp2 == F(1000000) * m[2]
      tmp12b == F(951057) * (m[0] - m[4]) - F(587785) * (m[1] + m[3])
      tmp13b == F(309017) * (tmp10c + tmp11b) + F(500000) * tmp11b - tmp2
  IN  <<F(1000000) * (tmp10a + tmp11a + p[2] - 10 * center),
        F(1396802) * m[0] + F(1260074) * m[1] + tmp2 + F(642040) * m[3] + F(221232) * m[4],
        tmp10b + F(513743) * tmp13a, tmp12b + tmp13b,
        F(1144123) * (tmp10a - tmp12a) - F(437016) * (tmp11a - tmp12a),
        F(1000000) * (tmp10c - tmp11b - m[2]), tmp10b - F(2176251) * tmp14, tmp12b - tmp13b>>
Fdct11(x, center, s) ==
  LET F(n) == ScaledFIX(n, s)   p == [i \in 0..5 |-> x[i] + x[10 - i]]
      m == [i \in 0..4 |-> x[i] - x[10 - i]]   tmp0a == p[0] - p[5]   tmp1a == p[1] - p[5]
      tmp2a == p[2] - p[5]   tmp3a == p[3] - p[5]   tmp4a == p[4] - p[5]
      z1 == F(1356928) * (tmp0a + tmp3a) + F(201264) * (tmp2a + tmp4a)
      z2 == F(926113) * (tmp1a - tmp3a)   z3 == F(1189712) * (tmp0a - tmp1a)
      tmp1b == F(1286414) * (m[0] + m[1])   tmp2b == F(1068791) * (m[0] + m[2])
      tmp3b == F(764582) * (m[0] + m[3])
      tmp0b == tmp1b + tmp2b + tmp3b - F(1719968) * m[0] + F(398430) * m[4]
      tmp4b == -F(764582) * (m[1] + m[2])   tmp5 == -F(1399819) * (m[1] + m[3])
      tmp1c == tmp1b + tmp4b + tmp5 + F(1276417) * m[1] - F(1068791) * m[4]
      tmp10 == F(398430) * (m[2] + m[3])
      tmp2c == tmp2b + tmp4b + tmp10 - F(1989054) * m[2] + F(1399819) * m[4]
      tmp3c == tmp3b + tmp5 + tmp10 + F(1305599) * m[3] - F(1286414) * m[4]
  IN  <<F(1000000) * (p[0] + p[1] + p[2] + p[3] + p[4] + x[5] - 11 * center), tmp0b,
        z1 + z2 - F(1018301) * tmp3a - F(1390976) * tmp4a, tmp1c,
        z2 + z3 + F(62336) * tmp1a - F(1356928) * tmp2a + F(587486) * tmp4a, tmp2c,
        z1 + z3 - F(1620527) * tmp0a - F(788749) * tmp2a, tmp3c>>
Fdct12(x, center, s, w) ==
  LET F(n) == ScaledFIX(n, s)   p == [i \in 0..5 |-> x[i] + x[11 - i]]
      m == [i \in 0..5 |-> x[i] - x[11 - i]]   tmp10a == p[0] + p[5]   tmp13a == p[0] - p[5]
      tmp14a == p[1] - p[4]   tmp12a == p[2] + p[3]   tmp15a == p[2] - p[3]
      tmp10b == F(541196) * (m[1] + m[4])   tmp14b == tmp10b + F(765367) * m[1]
      tmp15b == tmp10b - F(1847759) * m[4]   tmp12b == F(1121971) * (m[0] + m[2])
      tmp13b == F(860919) * (m[0] + m[3])
      tmp10c == tmp12b + tmp13b + tmp14b - F(580775) * m[0] + F(184592) * m[5]
      tmp11a == -F(184592) * (m[2] + m[3])
      tmp12c == tmp12b + tmp11a - tmp15b - F(2339494) * m[2] + F(860919) * m[5]
      tmp13c == tmp13b + tmp11a - tmp14b + F(725788) * m[3] - F(1121971) * m[5]
      tmp11b == tmp15b + F(1306563) * (m[0] - m[3]) - F(541196) * (m[2] + m[5])
  IN  <<F(1000000) * (tmp10a + p[1] + p[4] + tmp12a - 12 * center), tmp10c,
        w * (tmp14a - tmp15a) + F(1366025) * (tmp13a + tmp15a), tmp11b, F(1224745) * (tmp10a - tmp12a),
        tmp12c, F(1000000) * (tmp13a - tmp14a - tmp15a), tmp13c>>
Fdct13(x, center, s) ==
  LET F(n) == ScaledFIX(n, s)   p == [i \in 0..6 |-> x[i] + x[12 - i]]
      m == [i \in 0..5 |-> x[i] - x[12 - i]]   tmp0a == p[0] - p[6]   tmp1a == p[1] - p[6]
      tmp2a == p[2] - p[6]   tmp3a == p[3] - p[6]   tmp4a == p[4] - p[6]   tmp5a == p[5] - p[6]
      z1 == F(1155389) * (tmp0a - tmp2a) - F(435816) * (tmp3a - tmp4a) - F(316450) * (tmp1a - tmp5a)
      z2 == F(96835) * (tmp0a + tmp2a) - F(937303) * (tmp3a + tmp4a) + F(486915) * (tmp1a + tmp5a)
      tmp1b == F(1322313) * (m[0] + m[1])   tmp2b == F(1163875) * (m[0] + m[2])
      tmp3b == F(937797) * (m[0] + m[3]) + F(338443) * (m[4] + m[5])
      tmp0b == tmp1b + tmp2b + tmp3b - F(2020082) * m[0] + F(318774) * m[4]
      tmp4b == F(937797) * (m[4] - m[5]) - F(338443) * (m[1] + m[2])
      tmp5b == -F(1163875) * (m[1] + m[3])
      tmp1c == tmp1b + tmp4b + tmp5b + F(837224) * m[1] - F(2341699) * m[4]
      tmp6 == -F(657218) * (m[2] + m[3])
      tmp2c == tmp2b + tmp4b + tmp6 - F(1572116) * m[2] + F(2260110) * m[5]
      tmp3c == tmp3b + tmp5b + tmp6 + F(2205608) * m[3] - F(1742346) * m[5]
  IN  <<F(1000000) * (p[0] + p[1] + p[2] + p[3] + p[4] + p[5] + x[6] - 13 * center), tmp0b,
        F(1373119) * tmp0a + F(1058554) * tmp1a + F(501487) * tmp2a - F(170465) * tmp3a - F(803365) * tmp4a - F(1252224) * tmp5a,
        tmp1c, z1 + z2, tmp2c, z1 - z2, tmp3c>>
Fdct14(x, center, s, w) ==
  LET F(n) == ScaledFIX(n, s)   p == [i \in 0..6 |-> x[i] + x[13 - i]]
      m == [i \in 0..6 |-> x[i] - x[13 - i]]   tmp10a == p[0] + p[6]   tmp14 == p[0] - p[6]
      tmp11a == p[1] + p[5]   tmp15 == p[1] - p[5]   tmp12a == p[2] + p[4]   tmp16 == p[2] - p[4]
      tmp13 == p[3] + p[3]   tmp10b == F(1105677) * (tmp14 + tmp15)   tmp10c == m[1] + m[2]
      tmp11b == m[5] - m[4]   tmp3 == F(1000000) * m[3]
      tmp10d == -F(158342) * tmp10c + F(1405321) * tmp11b - tmp3
      tmp11c == F(1197449) * (m[0] + m[2]) + F(752407) * (m[4] + m[6])
      tmp12b == F(1334853) * (m[0] + m[1]) + F(467085) * (m[5] - m[6])
  IN  <<F(1000000) * (tmp10a + tmp11a + tmp12a + p[3] - 14 * center),
        tmp11c + tmp12b + tmp3 - F(1126980) * m[0] - w * m[6],
        tmp10b + F(273080) * tmp14 + F(613604) * tmp16,
        tmp10d + tmp12b - F(424104) * m[1] - F(3069855) * m[5],
        F(1274162) * (tmp10a - tmp13) + F(314692) * (tmp11a - tmp13) - F(881748) * (tmp12a - tmp13),
        tmp10d + tmp11c - F(2373960) * m[2] + F(1119999) * m[4],
        tmp10b - F(1719281) * tmp15 - F(1378756) * tmp16,
        F(1000000) * (m[0] - tmp10c + m[3] - tmp11b - m[6])>>
Fdct15(x, center, s) ==
  LET F(n) == ScaledFIX(n, s)   p == [i \in 0..7 |-> x[i] + x[14 - i]]
      m == [i \in 0..6 |-> x[i] - x[14 - i]]   z1a == p[0] + p[4] + p[5]   z2a == p[1] + p[3] + p[6]
      z3a == p[2] + x[7]   z3b == z3a + z3a   tmp2a == p[2] + (p[1] + p[4]) \div 2 - x[7] - x[7]
      z1b == F(1531135) * (p[3] - tmp2a) - F(2238242) * (p[6] - tmp2a)
      z2b == F(798468) * (p[5] - tmp2a) - F(91361) * (p[0] - tmp2a)
      z3c == F(1383310) * (p[0] - p[3]) + F(946294) * (p[6] - p[5]) + F(790569) * (p[1] - p[4])
      tmp2b == F(1224745) * (m[0] - m[2] - m[3] + m[5] + m[6])
      tmp1 == F(1344997) * (m[0] - m[4] - m[5]) + F(831254) * (m[1] - m[3] - m[6])
      tmp12 == F(1224745) * m[2]
      tmp4 == F(1406466) * (m[0] - m[6]) + F(1344997) * (m[1] + m[4]) + F(575212) * (m[3] + m[5])
      tmp0 == F(475753) * m[3] - F(513743) * m[4] + F(1700498) * m[6] + tmp4 + tmp12
      tmp3 == -F(355501) * m[0] - F(2176251) * m[1] - F(869244) * m[5] + tmp4 - tmp12
  IN  <<F(1000000) * (z1a + z2a + z3a - 15 * center), tmp0, z1b + z3c, tmp1, z2b + z3c, tmp2b,
        F(1144123) * (z1a - z3b) - F(437016) * (z2a - z3b), tmp3>>
Fdct16(x, center, s) ==
  LET F(n) == ScaledFIX(n, s)   p == [i \in 0..7 |-> x[i] + x[15 - i]]
      m == [i \in 0..7 |-> x[i] - x[15 - i]]   tmp10a == p[0] + p[7]   tmp14a == p[0] - p[7]
      tmp11a == p[1] + p[6]   tmp15a == p[1] - p[6]   tmp12a == p[2] + p[5]   tmp16a == p[2] - p[5]
      tmp13a == p[3] + p[4]   tmp17 == p[3] - p[4]
      tmp10b == F(275899) * (tmp17 - tmp15a) + F(1387040) * (tmp14a - tmp16a)
      tmp11b == F(1353318) * (m[0] + m[1]) + F(410525) * (m[6] - m[7])
      tmp12b == F(1247225) * (m[0] + m[2]) + F(666656) * (m[5] + m[7])
      tmp13b == F(1093202) * (m[0] + m[3]) + F(897168) * (m[4] - m[7])
      tmp14b == F(138617) * (m[1] + m[2]) + F(1407404) * (m[6] - m[5])
      tmp15b == -F(666656) * (m[1] + m[3]) - F(1247225) * (m[4] + m[6])
      tmp16b == -F(1353318) * (m[2] + m[3]) + F(410525) * (m[5] - m[4])
      tmp10c == tmp11b + tmp12b + tmp13b - F(2286341) * m[0] + F(779654) * m[7]
      tmp11c == tmp11b + tmp14b + tmp15b + F(71888) * m[1] - F(1663905) * m[6]
      tmp12c == tmp12b + tmp14b + tmp16b - F(1125726) * m[2] + F(1227391) * m[5]
      tmp13c == tmp13b + tmp15b + tmp16b + F(1065389) * m[3] + F(2167986) * m[4]
  IN  <<F(1000000) * (tmp10a + tmp11a + tmp12a + tmp13a - 16 * center), tmp10c,
        tmp10b + F(1451775) * tmp15a + F(2172735) * tmp16a, tmp11c,
        F(1306563) * (tmp10a - tmp13a) + F(541196) * (tmp11a - tmp12a), tmp12c,
        tmp10b - F(211164) * tmp14a - F(1061594) * tmp17, tmp13c>>

(* The row passes of the 12- and the 14-point routine each use one operand  *)
(* that is not multiplied by its constant: tmp14 - tmp15 enters coefficient *)
(* 2 with weight 1 in place of 2^13, and tmp6 enters coefficient 1 with an  *)
(* excess of 1 in place of 2^13.  Their column passes have the full weight. *)
Fdct12Row(x, center, s) == Fdct12(x, center, s, 1)
Fdct12Column(x, center, s) == Fdct12(x, center, s, ScaledFIX(1000000, s))
Fdct14Row(x, center, s) == Fdct14(x, center, s, FIX(1126980) - 1)
Fdct14Column(x, center, s) == Fdct14(x, center, s, ScaledFIX(126980, s))

(* Pass 1 transforms the rows, pass 2 the columns (at most 8) of the result. *)
RowsThenColumns(Row(_), Column(_), s, w, h) ==
  LET data == SubSeq([r \in 1..h |-> Row([i \in 0..w - 1 |-> s[r][i + 1]])], 1, h)
      columns == SubSeq([u \in 1..Min({w, 8}) |-> Column([r \in 0..h - 1 |-> data[r + 1][u]])],
                        1, Min({w, 8}))
  IN  [v \in 0..7 |-> [u \in 0..7 |-> IF u < w /\ v < h THEN columns[u + 1][v + 1] ELSE 0]]

Rounded(x, bits) == SubSeq([k \in 1..Len(x) |-> Descale(x[k], bits)], 1, Len(x))

Forward2D(RowK(_, _, _), ColumnK(_, _, _), s, w, h, rowBits, scale, columnBits) ==
  RowsThenColumns(LAMBDA x : Rounded(RowK(x, 128, <<1, 1>>), rowBits),
                  LAMBDA x : Rounded(ColumnK(x, 0, scale), columnBits), s, w, h)

jpeg_fdct_16x16(s) == Forward2D(Fdct16, Fdct16, s, 16, 16, 11, <<1, 1>>, 17)
jpeg_fdct_15x15(s) == Forward2D(Fdct15, Fdct15, s, 15, 15, 13, <<256, 225>>, 15)
jpeg_fdct_14x14(s) == Forward2D(Fdct14Row, Fdct14Column, s, 14, 14, 13, <<32, 49>>, 14)
jpeg_fdct_13x13(s) == Forward2D(Fdct13, Fdct13, s, 13, 13, 13, <<128, 169>>, 14)
jpeg_fdct_12x12(s) == Forward2D(Fdct12Row, Fdct12Column, s, 12, 12, 13, <<8, 9>>, 14)
jpeg_fdct_11x11(s) == Forward2D(Fdct11, Fdct11, s, 11, 11, 12, <<128, 121>>, 15)
jpeg_fdct_10x10(s) == Forward2D(Fdct10, Fdct10, s, 10, 10, 12, <<32, 25>>, 15)
jpeg_fdct_9x9(s) == Forward2D(Fdct9, Fdct9, s, 9, 9, 12, <<128, 81>>, 15)
jpeg_fdct_islow(s) == Forward2D(Fdct8, Fdct8, s, 8, 8, 11, <<1, 1>>, 15)
jpeg_fdct_7x7(s) == Forward2D(Fdct7, Fdct7, s, 7, 7, 11, <<64, 49>>, 15)
jpeg_fdct_6x6(s) == Forward2D(Fdct6, Fdct6, s, 6, 6, 11, <<16, 9>>, 15)
jpeg_fdct_5x5(s) == Forward2D(Fdct5, Fdct5, s, 5, 5, 10, <<32, 25>>, 15)
jpeg_fdct_4x4(s) == Forward2D(Fdct4, Fdct4, s, 4, 4, 9, <<1, 1>>, 15)
jpeg_fdct_3x3(s) == Forward2D(Fdct3, Fdct3, s, 3, 3, 9, <<16, 9>>, 15)
jpeg_fdct_16x8(s) == Forward2D(Fdct16, Fdct8, s, 16, 8, 11, <<1, 1>>, 16)
jpeg_fdct_14x7(s) == Forward2D(Fdct14Row, Fdct7, s, 14, 7, 11, <<64, 49>>, 16)
jpeg_fdct_12x6(s) == Forward2D(Fdct12Row, Fdct6, s, 12, 6, 11, <<16, 9>>, 16)
jpeg_fdct_10x5(s) == Forward2D(Fdct10, Fdct5, s, 10, 5, 11, <<32, 25>>, 15)
jpeg_fdct_8x4(s) == Forward2D(Fdct8, Fdct4, s, 8, 4, 10, <<1, 1>>, 15)
jpeg_fdct_6x3(s) == Forward2D(Fdct6, Fdct3, s, 6, 3, 10, <<16, 9>>, 15)
jpeg_fdct_8x16(s) == Forward2D(Fdct8, Fdct16, s, 8, 16, 11, <<1, 1>>, 16)
jpeg_fdct_7x14(s) == Forward2D(Fdct7, Fdct14Column, s, 7, 14, 11, <<32, 49>>, 15)
jpeg_fdct_6x12(s) == Forward2D(Fdct6, Fdct12Column, s, 6, 12, 11, <<8, 9>>, 15)
jpeg_fdct_5x10(s) == Forward2D(Fdct5, Fdct10, s, 5, 10, 11, <<32, 25>>, 15)
jpeg_fdct_4x8(s) == Forward2D(Fdct4, Fdct8, s, 4, 8, 10, <<1, 1>>, 15)
jpeg_fdct_3x6(s) == Forward2D(Fdct3, Fdct6, s, 3, 6, 10, <<16, 9>>, 15)

(* The routines with a side of one or two samples need no multiplication.   *)
Two(x, center, bits) == <<(x[0] + x[1] - center) * 2 ^ bits, (x[0] - x[1]) * 2 ^ bits>>
jpeg_fdct_4x2(s) ==
  RowsThenColumns(LAMBDA x : Rounded(Fdct4(x, 128, <<1, 1>>), 8),
                  LAMBDA x : <<(x[0] + 2 + x[1]) \div 4, (x[0] + 2 - x[1]) \div 4>>, s, 4, 2)
jpeg_fdct_2x4(s) ==
  RowsThenColumns(LAMBDA x : Two(x, 256, 3),
                  LAMBDA x : Rounded(Fdct4(x, 0, <<1, 1>>), 13), s, 2, 4)
jpeg_fdct_2x2(s) == RowsThenColumns(LAMBDA x : Two(x, 256, 0), LAMBDA x : Two(x, 0, 4), s, 2, 2)
jpeg_fdct_2x1(s) == RowsThenColumns(LAMBDA x : Two(x, 256, 5), LAMBDA x : <<x[0]>>, s, 2, 1)
jpeg_fdct_1x2(s) == RowsThenColumns(LAMBDA x : <<x[0] - 128>>, LAMBDA x : Two(x, 0, 5), s, 1, 2)
jpeg_fdct_1x1(s) == RowsThenColumns(LAMBDA x : <<(x[0] - 128) * 2 ^ 6>>, LAMBDA x : <<x[0]>>, s, 1, 1)

(* jfdctfst.c: the AA&N kernel, whose outputs still carry the scale factors *)
(* that start_pass_fdctmgr folds into the divisors.                         *)
FdctFast(x, center) ==
  LET mul(v, f) == (v * f) \div 256
      p == [i \in 0..3 |-> x[i] + x[7 - i]]   m == [i \in 0..3 |-> x[i] - x[7 - i]]
      tmp10 == p[0] + p[3]   tmp13 == p[0] - p[3]   tmp11 == p[1] + p[2]   tmp12 == p[1] - p[2]
      z1 == mul(tmp12 + tmp13, 181)   odd10 == m[3] + m[2]   odd12 == m[1] + m[0]
      z5 == mul(odd10 - odd12, 98)   z2 == mul(odd10, 139) + z5   z4 == mul(odd12, 334) + z5
      z3 == mul(m[2] + m[1], 181)   z11 == m[0] + z3   z13 == m[0] - z3
  IN  <<tmp10 + tmp11 - 8 * center, z11 + z4, tmp13 + z1, z13 - z2, tmp10 - tmp11, z13 + z2,
        tmp13 - z1, z11 - z4>>
jpeg_fdct_ifast(s) == RowsThenColumns(LAMBDA x : FdctFast(x, 128), LAMBDA x : FdctFast(x, 0), s, 8, 8)
========================================================================
