------------------------ MODULE ArithmeticEncoder ------------------------
(* jcarith.c: the binary decisions that describe a block, and the coder     *)
(* that turns them into bytes.  A decision is <<bin, 0 or 1>>.  e holds the *)
(* registers c and a, the counter ct, the byte in buffer that a carry may   *)
(* still change (-1 at first), the sc FF bytes stacked and the zc zero      *)
(* bytes pending behind it, out, the bins, the next coefficient k and the   *)
(* DC prediction.  One component, one block in every MCU.                   *)
EXTENDS ArithmeticTable

emit_byte(e, val) == [e EXCEPT !.out = Append(@, val)]
Stuffed(e, val) == IF val = 255 THEN emit_byte(emit_byte(e, 255), 0) ELSE emit_byte(e, val)
PendingZeros(e) == [e EXCEPT !.out = @ \o [i \in 1..e.zc |-> 0], !.zc = 0]

(* A carry goes through the stacked FFs, which become zeros, to the buffer. *)
CarryOver(e) ==
  LET f == IF e.buffer >= 0 THEN Stuffed(PendingZeros(e), e.buffer + 1) ELSE e
  IN  [f EXCEPT !.zc = @ + f.sc, !.sc = 0]
(* No carry can come any more: the buffer and the stacked FFs are output.   *)
BufferOut(e) ==
  IF e.buffer = 0 THEN [e EXCEPT !.zc = @ + 1]
  ELSE IF e.buffer > 0 THEN emit_byte(PendingZeros(e), e.buffer) ELSE e
StackOut(e) ==
  [PendingZeros(e) EXCEPT !.out = @ \o [i \in 1..2 * e.sc |-> IF i % 2 = 1 THEN 255 ELSE 0],
                          !.sc = 0]
NoCarry(e) == LET f == BufferOut(e) IN IF e.sc = 0 THEN f ELSE StackOut(f)

ByteOut(e) ==
  LET temp == e.c \div 2^19
      f == IF temp = 255 THEN [e EXCEPT !.sc = @ + 1]
           ELSE [IF temp > 255 THEN CarryOver(e) ELSE NoCarry(e) EXCEPT !.buffer = temp % 256]
  IN  [f EXCEPT !.c = @ % 2^19, !.ct = 8]

RECURSIVE Renormalize(_)
Renormalize(e) ==
  LET shifted == [e EXCEPT !.a = 2 * @, !.c = 2 * @, !.ct = @ - 1]
      f == IF shifted.ct = 0 THEN ByteOut(shifted) ELSE shifted
  IN  IF f.a < 32768 THEN Renormalize(f) ELSE f

(* The less probable symbol takes the upper part of the interval, unless    *)
(* it is the larger one.                                                    *)
Code(e, st, row, mps, lps) ==
  LET a == e.a - Qe(row)
      coded == [e EXCEPT !.c = IF lps = (a >= Qe(row)) THEN @ + a ELSE @,
                         !.a = IF lps = (a >= Qe(row)) THEN Qe(row) ELSE a]
  IN  IF ~lps /\ a >= 32768 THEN coded
      ELSE Renormalize([coded EXCEPT !.bins = (st :> Estimated(row, mps, lps)) @@ @])
arith_encode(e, decision) ==
  LET sv == Stat(e.bins, decision[1]) IN Code(e, decision[1], Row(sv), sv[2], decision[2] # sv[2])
Encoded(e, decisions) == FoldLeft(arith_encode, e, decisions)

(* Termination: the value of the interval with the most trailing zeros, and *)
(* of its bytes none at the end that are zero.                              *)
LastBytes(f, high, low) ==
  LET g == Stuffed(PendingZeros(f), high)
  IN  IF high = 0 /\ low = 0 THEN f.out ELSE IF low = 0 THEN g.out ELSE Stuffed(g, low).out
finish_pass(e) ==
  LET temp == ((e.a - 1 + e.c) \div 65536) * 65536
      c == (IF temp < e.c THEN temp + 32768 ELSE temp) * 2^e.ct
  IN  LastBytes(IF c >= 2^27 THEN CarryOver(e) ELSE NoCarry(e),
                (c \div 2^19) % 256, (c \div 2^11) % 256)

--------------------------------------------------------------------------
(* The category of a magnitude v, and its bits below the highest one.       *)
Magnitude(place, v) ==
  LET n == NBits(v)
      pattern == Bits(v, n)
  IN  [i \in 1..n |-> <<CategoryBin(place, i), 1>>] \o <<<<CategoryBin(place, n + 1), 0>>>>
        \o SubSeq([i \in 1..n |-> <<PatternBin(place, n + 1), pattern[i]>>], 2, n)

DcDecisions(st, place, sign, rest) == <<<<st, 1>>, <<st + 1, sign>>>> \o Magnitude(place, rest)
EncodeDc(e, cond, m) ==
  LET v == m - e.last_dc_val
      st == DcBin(e.dc_context)
      sign == IF v < 0 THEN 1 ELSE 0
      rest == AbsVal(v) - 1
      coded == Encoded(e, DcDecisions(st, DcPlace(e.dc_context, sign), sign, rest))
  IN  IF v = 0 THEN [arith_encode(e, <<st, 0>>) EXCEPT !.dc_context = 0]
      ELSE [coded EXCEPT !.last_dc_val = m, !.dc_context = DcContext(cond, sign, TopBit(NBits(rest)))]
encode_mcu_DC_first(e, scan, cond, block) == EncodeDc(e, cond, block[0] \div 2^scan.Al)
encode_mcu_DC_refine(e, scan, block) ==
  arith_encode(e, <<fixed_bin, (block[0] \div 2^scan.Al) % 2>>)

(* The coefficients from e.k on, n the next nonzero one; EOBx is the last   *)
(* one an earlier scan has sent, and no end of block can come up to there.  *)
Newly(block, n) == <<<<NonzeroBin(n), 1>>, <<fixed_bin, IF block[n] < 0 THEN 1 ELSE 0>>>>
UpTo(k, n, EOBx) ==
  (IF k > EOBx THEN <<<<EobBin(k), 0>>>> ELSE <<>>) \o [i \in 1..n - k |-> <<NonzeroBin(k + i - 1), 0>>]
Coefficient(block, scan, cond, n) ==
  LET abs == AbsVal(block[n]) \div 2^scan.Al
  IN  IF scan.Ah = 0 THEN Newly(block, n) \o Magnitude(AcPlace(n, cond.K), abs - 1)
      ELSE IF abs > 1 THEN <<<<MoreBin(n), abs % 2>>>> ELSE Newly(block, n)
RECURSIVE EncodeAc(_, _, _, _, _)
EncodeAc(e, scan, cond, block, EOBx) ==
  LET nonzero == {n \in e.k..scan.Se : AbsVal(block[n]) \div 2^scan.Al > 0}
      n == Min(nonzero)
      coded == Encoded(e, UpTo(e.k, n, EOBx) \o Coefficient(block, scan, cond, n))
  IN  IF e.k > scan.Se THEN e
      ELSE IF nonzero = {} THEN arith_encode(e, <<EobBin(e.k), 1>>)
      ELSE EncodeAc([coded EXCEPT !.k = n + 1], scan, cond, block, EOBx)

encode_mcu_AC_first(e, scan, cond, block) ==
  EncodeAc([e EXCEPT !.k = scan.Ss], scan, cond, block, 0)
encode_mcu_AC_refine(e, scan, cond, block) ==
  LET sent == {k \in 1..scan.Se : AbsVal(block[k]) \div 2^scan.Ah > 0}
  IN  EncodeAc([e EXCEPT !.k = scan.Ss], scan, cond, block, IF sent = {} THEN 0 ELSE Max(sent))
encode_mcu_sequential(e, scan, cond, block) ==
  encode_mcu_AC_first(EncodeDc(e, cond, block[0]), [scan EXCEPT !.Ss = 1], cond, block)

encode_mcu(e, image, scan, block) ==
  IF ~image.progressive THEN encode_mcu_sequential(e, scan, image.cond, block)
  ELSE IF scan.Ah = 0
  THEN IF scan.Ss = 0 THEN encode_mcu_DC_first(e, scan, image.cond, block)
                      ELSE encode_mcu_AC_first(e, scan, image.cond, block)
  ELSE IF scan.Ss = 0 THEN encode_mcu_DC_refine(e, scan, block)
                      ELSE encode_mcu_AC_refine(e, scan, image.cond, block)

(* CALCULATE_SPECTRAL_CONDITIONING: a progressive AC scan sets Kx.          *)
arith_ac_K(image, scan) ==
  IF image.progressive /\ scan.Se > 0 THEN scan.Ss + (8 + scan.Se - scan.Ss) \div 16
  ELSE image.cond.K
(* A restart begins everything anew.                                        *)
start_pass ==
  [c |-> 0, a |-> 65536, sc |-> 0, zc |-> 0, ct |-> 11, buffer |-> -1, out |-> <<>>, bins |-> <<>>,
   k |-> 0, last_dc_val |-> 0, dc_context |-> 0]
Segments(image, scan) ==
  LET N == Len(image.blocks)
      interval == IF image.restart = 0 THEN N ELSE image.restart
      group(i) == SubSeq(image.blocks, (i - 1) * interval + 1, Min({i * interval, N}))
      coded(i) == FoldLeft(LAMBDA e, b : encode_mcu(e, image, scan, b), start_pass, group(i))
  IN  [i \in 1..(N + interval - 1) \div interval |->
         [rst |-> IF i = 1 THEN -1 ELSE (i - 2) % 8, bytes |-> finish_pass(coded(i))]]
==========================================================================
