------------------------- MODULE HuffmanTables -------------------------
(* What the Huffman encoder and decoder share: tables as DHT markers carry  *)
(* them, the codes both sides derive from them, bit strings, and the zigzag *)
(* orders of the block sizes (jutils.c, jdhuff.c).                          *)
(* A table is [bits, vals]: bits[l] codes of length l, and their symbols in *)
(* the order of their codes.                                                *)
EXTENDS Integers, Sequences, SequencesExt, FiniteSetsExt

(* The marker codes.                                                        *)
M == [SOF0 |-> 192, SOF1 |-> 193, SOF2 |-> 194, SOF9 |-> 201, SOF10 |-> 202, SOF15 |-> 207,
      DHT |-> 196, DAC |-> 204, RST0 |-> 208, SOI |-> 216, EOI |-> 217, SOS |-> 218,
      DQT |-> 219, DNL |-> 220, DRI |-> 221, APP0 |-> 224, APP14 |-> 238, COM |-> 254,
      TEM |-> 1]
JFIF == <<74, 70, 73, 70, 0>>
ADOBE == <<65, 100, 111, 98, 101>>

Bits(v, n) == [i \in 1..n |-> (v \div 2^(n - i)) % 2]
Number(bs) == FoldLeft(LAMBDA a, b : 2 * a + b, 0, bs)
NBits(v) == CHOOSE n \in 0..30 : v < 2^n /\ (n > 0 => 2^(n - 1) <= v)
AbsVal(x) == IF x < 0 THEN -x ELSE x

(* huffsize and huffcode of jpeg_make_[cd]_derived_tbl; upto[l] codes have  *)
(* at most l bits.                                                          *)
CodesUpTo(bits) ==
  LET upto[l \in 0..16] == IF l = 0 THEN 0 ELSE upto[l - 1] + bits[l]
  IN  [l \in 0..16 |-> upto[l]]
huffsize(tbl) ==
  LET upto == CodesUpTo(tbl.bits)
  IN  [p \in 1..upto[16] |-> CHOOSE l \in 1..16 : upto[l - 1] < p /\ p <= upto[l]]
huffcode(sizes) ==
  LET code[p \in 1..Len(sizes)] ==
        IF p = 1 THEN 0 ELSE (code[p - 1] + 1) * 2^(sizes[p] - sizes[p - 1])
  IN  [p \in 1..Len(sizes) |-> code[p]]

(* The tables both sides refuse: too many codes for their length, and, for  *)
(* DC, symbols that are no category.                                        *)
BadTable(tbl, isDC) ==
  LET size == huffsize(tbl)  code == huffcode(size)
  IN  \/ Len(size) > 256
      \/ \E p \in DOMAIN size :
           /\ p = Len(size) \/ size[p + 1] > size[p]
           /\ code[p] + 1 >= 2^size[p]
      \/ /\ isDC
         /\ \E p \in DOMAIN size : tbl.vals[p] > 15

(* jpeg_make_c_derived_tbl: the code of every symbol of a good table.       *)
CodesOf(tbl) ==
  LET size == huffsize(tbl)  code == huffcode(size)
      at(s) == CHOOSE p \in DOMAIN size : tbl.vals[p] = s
  IN  [s \in {tbl.vals[p] : p \in DOMAIN size} |-> Bits(code[at(s)], size[at(s)])]

(* jpeg_make_d_derived_tbl: for each length the largest code, -1 without    *)
(* one, and what takes a code to its symbol.  A defect for CodesAreFound:   *)
(* no code of 16 bits.                                                      *)
Mutant_DerivedTbl(tbl) ==
  LET code == huffcode(huffsize(tbl))
      last == CodesUpTo(tbl.bits)
  IN  [maxcode |-> [l \in 1..17 |-> IF l = 17 THEN 1048575
                                    ELSE IF l = 16 \/ tbl.bits[l] = 0 THEN -1 ELSE code[last[l]]],
       valoffset |-> [l \in 1..16 |-> IF tbl.bits[l] = 0 THEN 0 ELSE last[l] - code[last[l]]],
       vals |-> tbl.vals]
DerivedTbl(tbl) ==
  LET code == huffcode(huffsize(tbl))
      last == CodesUpTo(tbl.bits)
  IN  [maxcode |-> [l \in 1..17 |-> IF l = 17 THEN 1048575
                                    ELSE IF tbl.bits[l] = 0 THEN -1 ELSE code[last[l]]],
       valoffset |-> [l \in 1..16 |-> IF tbl.bits[l] = 0 THEN 0 ELSE last[l] - code[last[l]]],
       vals |-> tbl.vals]

(* jpeg_natural_order2..7 and jpeg_natural_order: the place, by rows of     *)
(* eight, of each coefficient of an n x n block in zigzag order.            *)
natural_order(n) ==
  LET Diag(p) == (p \div 8) + (p % 8)
      Before(p, q) == \/ Diag(p) < Diag(q)
                      \/ /\ Diag(p) = Diag(q)
                         /\ IF Diag(p) % 2 = 0 THEN p > q ELSE p < q
      places == {8 * r + c : r, c \in 0..n - 1}
      Rank(p) == 1 + Cardinality({q \in places : Before(q, p)})
  IN  [i \in 1..n * n |-> CHOOSE p \in places : Rank(p) = i]

(* The place for coefficient i of the tables a DQT or a frame may hold, by  *)
(* their number of coefficients.                                            *)
Order == [n \in 1..8 |-> natural_order(n)]
OrderFor(count) == Order[IF \E n \in 2..7 : n * n = count THEN CHOOSE n \in 2..7 : n * n = count ELSE 8]

(* coef_limit: the coefficients an IDCT of v x h outputs needs are those up *)
(* to the one at its far corner (jpeg_zigzag_order and its kin).            *)
coef_limit(lim_Se, v, h) ==
  LET n == CHOOSE m \in 1..8 : m * m = lim_Se + 1
      at(x) == IF x \in 1..n THEN x - 1 ELSE n - 1
      corner == 8 * at(v) + at(h)
  IN  CHOOSE i \in 1..lim_Se + 1 : Order[n][i] = corner
========================================================================
