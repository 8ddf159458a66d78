------------------------- MODULE HuffmanEncoder -------------------------
(* jchuff.c: from the coefficients of a scan to its entropy-coded bytes.    *)
(* A block is [0..lim_Se -> Int], by place in the zigzag order; a scan is   *)
(* [Ss, Se, Ah, Al].  One component, one block in every MCU.  The working   *)
(* state emits tokens: symbols of the DC and AC tables, raw bits, restarts. *)
(* The statistics pass counts the symbols, the output pass codes them and   *)
(* packs the bits into bytes.  Abstracted: a destination that suspends and  *)
(* coefficients too large for 8-bit samples (JERR_BAD_DCT_COEF).            *)
EXTENDS OptimalTable, Functions

CONSTANTS EOBMAX,   \* the longest end-of-band run, 16r7FFF in the code
          CORRMAX   \* the correction bits buffered before a flush,
                    \* MAX_CORR_BITS - DCTSIZE2 + 1 = 937 in the code

ASSUME HuffmanAssumption == EOBMAX \in 1..32767 /\ CORRMAX \in Nat

emit(e, kind, v, n) == [e EXCEPT !.out = Append(@, [kind |-> kind, v |-> v, n |-> n])]
emit_dc_symbol(e, symbol) == emit(e, "dc", symbol, 0)
emit_ac_symbol(e, symbol) == emit(e, "ac", symbol, 0)
emit_bits(e, code, size) == emit(e, "bits", code % 2^size, size)
emit_buffered_bits(e, bits) == FoldLeft(LAMBDA a, b : emit_bits(a, b, 1), e, bits)
ZRL(e, n) == FoldLeft(LAMBDA a, i : emit_ac_symbol(a, 240), e, [i \in 1..n |-> i])

(* A defect for RoundTrip: the buffered correction bits are dropped.        *)
Mutant_emit_eobrun(e) ==
  IF e.EOBRUN = 0 THEN e
  ELSE LET nbits == NBits(e.EOBRUN) - 1
           run == emit_ac_symbol(e, nbits * 16)
           all == IF nbits > 0 THEN emit_bits(run, e.EOBRUN, nbits) ELSE run
       IN  [all EXCEPT !.EOBRUN = 0, !.bit_buffer = <<>>]

emit_eobrun(e) ==
  IF e.EOBRUN = 0 THEN e
  ELSE LET nbits == NBits(e.EOBRUN) - 1
           run == emit_ac_symbol(e, nbits * 16)
           all == IF nbits > 0 THEN emit_bits(run, e.EOBRUN, nbits) ELSE run
       IN  [emit_buffered_bits(all, e.bit_buffer) EXCEPT !.EOBRUN = 0, !.bit_buffer = <<>>]

emit_restart(e) ==
  [emit(emit_eobrun(e), "rst", e.next_restart_num, 0) EXCEPT !.last_dc_val = 0]

(* The restart every encode_mcu routine begins with and the count it ends   *)
(* with.                                                                    *)
Restarted(e, interval) ==
  LET due == interval > 0 /\ e.restarts_to_go = 0
      f == IF due THEN emit_restart(e) ELSE e
  IN  IF interval = 0 THEN e
      ELSE [f EXCEPT !.restarts_to_go = (IF due THEN interval ELSE @) - 1,
                     !.next_restart_num = IF due THEN (@ + 1) % 8 ELSE @]

(* A value: its category in a symbol, with the run before it, then as many  *)
(* bits, those of value - 1 when it is negative.                            *)
Coded(e, kind, run, value) ==
  LET n == NBits(AbsVal(value))
      s == emit(e, kind, 16 * run + n, 0)
  IN  IF n = 0 THEN s ELSE emit_bits(s, IF value < 0 THEN value - 1 ELSE value, n)

encode_mcu_DC_first(e, scan, block) ==
  LET dc == block[0] \div 2^scan.Al
  IN  [Coded(e, "dc", 0, dc - e.last_dc_val) EXCEPT !.last_dc_val = dc]

encode_mcu_DC_refine(e, scan, block) == emit_bits(e, block[0] \div 2^scan.Al, 1)

(* The nonzero AC coefficients from Ss to Se, each after the run of zeros   *)
(* before it; s holds the encoder and the place of the last one.            *)
Magnitude(block, k, Al) == AbsVal(block[k]) \div 2^Al
Nonzeros(scan, block) ==
  SelectSeq([i \in 1..scan.Se + 1 - scan.Ss |-> scan.Ss + i - 1],
            LAMBDA k : Magnitude(block, k, scan.Al) > 0)
CodedAfter(e, run, value) == Coded(ZRL(emit_eobrun(e), run \div 16), "ac", run % 16, value)
RunLengths(e, scan, block) ==
  LET value(k) == (IF block[k] < 0 THEN -1 ELSE 1) * Magnitude(block, k, scan.Al)
      Step(s, k) == [last |-> k, e |-> CodedAfter(s.e, k - s.last - 1, value(k))]
  IN  FoldLeft(Step, [e |-> e, last |-> scan.Ss - 1], Nonzeros(scan, block))

FirstBandEnd(s, scan) ==
  LET run == [s.e EXCEPT !.EOBRUN = @ + 1]
  IN  IF s.last = scan.Se THEN s.e ELSE IF run.EOBRUN = EOBMAX THEN emit_eobrun(run) ELSE run
encode_mcu_AC_first(e, scan, block) == FirstBandEnd(RunLengths(e, scan, block), scan)

(* A refinement: s holds, besides, the zeros r and the correction bits BR   *)
(* not yet sent.  Sixteen zeros and more are sent only before the last      *)
(* coefficient that becomes nonzero, EOB.                                   *)
Zeros16(s, n) ==
  LET first == emit_buffered_bits(ZRL(emit_eobrun(s.e), 1), s.BR)
  IN  IF n = 0 THEN s
      ELSE [s EXCEPT !.e = ZRL(first, n - 1), !.r = @ - 16 * n, !.BR = <<>>]
NewlyNonzero(z, sign) ==
  LET symbol == emit_ac_symbol(emit_eobrun(z.e), z.r * 16 + 1)
  IN  [z EXCEPT !.e = emit_buffered_bits(emit_bits(symbol, sign, 1), z.BR), !.r = 0, !.BR = <<>>]
RefineOne(s, k, value, temp, EOB) ==
  LET z == Zeros16(s, IF k > EOB THEN 0 ELSE s.r \div 16)
  IN  IF temp > 1 THEN [z EXCEPT !.BR = Append(@, temp % 2)]
      ELSE NewlyNonzero(z, IF value < 0 THEN 0 ELSE 1)
CountZeros(s, k) == [s EXCEPT !.r = @ + k - s.last - 1, !.last = k]
Appended(s) == [s.e EXCEPT !.EOBRUN = @ + 1, !.bit_buffer = @ \o s.BR]
FlushFull(run) ==
  IF run.EOBRUN = EOBMAX \/ Len(run.bit_buffer) > CORRMAX THEN emit_eobrun(run) ELSE run
RefinedBandEnd(s) == IF s.r = 0 /\ s.BR = <<>> THEN s.e ELSE FlushFull(Appended(s))
encode_mcu_AC_refine(e, scan, block) ==
  LET newly == {k \in scan.Ss..scan.Se : Magnitude(block, k, scan.Al) = 1}
      EOB == IF newly = {} THEN 0 ELSE Max(newly)
      Step(s, k) == RefineOne(CountZeros(s, k), k, block[k], Magnitude(block, k, scan.Al), EOB)
      start == [e |-> e, last |-> scan.Ss - 1, r |-> 0, BR |-> <<>>]
  IN  RefinedBandEnd(CountZeros(FoldLeft(Step, start, Nonzeros(scan, block)), scan.Se + 1))

EndBlock(s, scan) == IF s.last < scan.Se THEN emit_ac_symbol(s.e, 0) ELSE s.e
encode_one_block(e, scan, block) ==
  EndBlock(RunLengths(encode_mcu_DC_first(e, scan, block), [scan EXCEPT !.Ss = 1], block), scan)

(* The statistics pass of a sequential scan has a routine of its own.       *)
htest_one_block(e, scan, block) ==
  LET Step(s, k) ==
        LET r == k - s.last - 1
        IN  [last |-> k, e |-> emit_ac_symbol(ZRL(s.e, r \div 16),
                                              (r % 16) * 16 + NBits(AbsVal(block[k])))]
      dc == emit_dc_symbol(e, NBits(AbsVal(block[0] - e.last_dc_val)))
      s == FoldLeft(Step, [e |-> dc, last |-> 0], Nonzeros([scan EXCEPT !.Ss = 1], block))
  IN  [EndBlock(s, scan) EXCEPT !.last_dc_val = block[0]]

encode_mcu(e, image, scan, gather, block) ==
  LET f == Restarted(e, image.restart)
  IN  IF ~image.progressive
      THEN IF gather THEN htest_one_block(f, scan, block) ELSE encode_one_block(f, scan, block)
      ELSE IF scan.Ah = 0
      THEN IF scan.Ss = 0 THEN encode_mcu_DC_first(f, scan, block)
                          ELSE encode_mcu_AC_first(f, scan, block)
      ELSE IF scan.Ss = 0 THEN encode_mcu_DC_refine(f, scan, block)
                          ELSE encode_mcu_AC_refine(f, scan, block)

start_pass_huff(image) ==
  [out |-> <<>>, mcus |-> 0, last_dc_val |-> 0, EOBRUN |-> 0, bit_buffer |-> <<>>,
   restarts_to_go |-> image.restart, next_restart_num |-> 0]

(* The tokens of a pass over the scan.                                      *)
RECURSIVE EncodeFrom(_, _, _, _)
EncodeFrom(e, image, scan, gather) ==
  IF e.mcus = Len(image.blocks) THEN emit_eobrun(e).out
  ELSE LET coded == encode_mcu(e, image, scan, gather, image.blocks[e.mcus + 1])
       IN  EncodeFrom([coded EXCEPT !.mcus = @ + 1], image, scan, gather)
ScanTokens(image, scan, gather) == EncodeFrom(start_pass_huff(image), image, scan, gather)

--------------------------------------------------------------------------
Counts(tokens, kind) ==
  LET of == SelectSeq(tokens, LAMBDA t : t.kind = kind)
  IN  [s \in {of[i].v : i \in DOMAIN of} |-> Cardinality({i \in DOMAIN of : of[i].v = s})]

(* The tables a scan uses; those sent are in the file already.              *)
Used(scan) == (IF scan.Ss = 0 /\ scan.Ah = 0 THEN {"dc"} ELSE {})
                \union (IF scan.Se > 0 THEN {"ac"} ELSE {})
Gathered(stats, scan, tables) ==
  LET new(kind) == IF kind \in Used(scan) THEN jpeg_gen_optimal_table(Counts(stats, kind))
                   ELSE tables[kind]
  IN  [dc |-> new("dc"), ac |-> new("ac"), sent |-> tables.sent \ Used(scan)]
finish_pass_gather(image, scan, tables) == Gathered(ScanTokens(image, scan, TRUE), scan, tables)

(* emit_bits_s and flush_bits_s: bytes, each FF followed by a zero, the     *)
(* last one filled up with ones.                                            *)
Packed(bits) ==
  LET padded == bits \o <<1, 1, 1, 1, 1, 1, 1>>
      byte(i) == Number(SubSeq(padded, 8 * i - 7, 8 * i))
  IN  FlattenSeq([i \in 1..Len(padded) \div 8 |->
                    IF byte(i) = 255 THEN <<255, 0>> ELSE <<byte(i)>>])

(* The output pass: the segments, as bytes, each with the number of the     *)
(* restart marker before it.                                                *)
SegmentsOf(tokens, dc, ac) ==
  LET BitsOf(t) == IF t.kind = "dc" THEN dc[t.v] ELSE IF t.kind = "ac" THEN ac[t.v]
                   ELSE Bits(t.v, t.n)
      rsts == SelectSeq([i \in DOMAIN tokens |-> i], LAMBDA i : tokens[i].kind = "rst")
      starts == <<0>> \o rsts
      ends == Append(rsts, Len(tokens) + 1)
      coded(i) == [j \in 1..ends[i] - starts[i] - 1 |-> BitsOf(tokens[starts[i] + j])]
  IN  [i \in DOMAIN starts |->
         [rst |-> IF i = 1 THEN -1 ELSE tokens[starts[i]].v, bytes |-> Packed(FlattenSeq(coded(i)))]]
Segments(image, scan, tables) ==
  SegmentsOf(ScanTokens(image, scan, FALSE),
             IF "dc" \in Used(scan) THEN CodesOf(tables.dc) ELSE <<>>,
             IF "ac" \in Used(scan) THEN CodesOf(tables.ac) ELSE <<>>)
==========================================================================
