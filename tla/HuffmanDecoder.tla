------------------------- MODULE HuffmanDecoder -------------------------
(* jdhuff.c: decoding the MCUs of a scan, each of one block, from a source  *)
(* that may run out of data in the middle of one.  An MCU that suspends is  *)
(* decoded again from its start, over the coefficients it stored meanwhile. *)
(* e is the decoder's saved state, m the marker reader's (MarkerReader).    *)
(* While an MCU is decoded w holds the working copies: m and bits, the bit  *)
(* buffer, first bit first; v the number or symbol last received; the       *)
(* block; EOBRUN and last_dc_val; insufficient_data; ok, FALSE once it must *)
(* suspend.  Abstracted: all warnings but BogusProgression.                 *)
EXTENDS MarkerReader, ScanProgression

MIN_GET_BITS == 25
HUFF_LOOKAHEAD == 8

--------------------------------------------------------------------------
(* Zero bits stand for those of a segment that ended too early.             *)
NoMoreBytes(w, nbits) ==
  IF nbits <= Len(w.bits) THEN w
  ELSE [w EXCEPT !.insufficient_data = TRUE,
                 !.bits = @ \o [i \in 1..MIN_GET_BITS - Len(@) |-> 0]]

RECURSIVE jpeg_fill_bit_buffer(_, _)
MarkerMet(w, p, nbits) ==
  NoMoreBytes([w EXCEPT !.m.unread_marker = Byte(p), !.m.pos = p + 1], nbits)
(* A defect for TypeOK: the byte after an FF is taken to be there.          *)
Mutant_NextByte(w, p, q, nbits) ==
  LET More(c, n) == jpeg_fill_bit_buffer([w EXCEPT !.bits = @ \o Bits(c, 8), !.m.pos = n], nbits)
  IN  IF ~Has(p, 1) THEN [w EXCEPT !.ok = FALSE]
      ELSE IF q = p THEN More(Byte(p), p + 1)
      ELSE IF Byte(q) = 0 THEN More(255, q + 1) ELSE MarkerMet(w, q, nbits)

(* From p, the next byte that is not an FF is at q.                         *)
NextByte(w, p, q, nbits) ==
  LET More(c, n) == jpeg_fill_bit_buffer([w EXCEPT !.bits = @ \o Bits(c, 8), !.m.pos = n], nbits)
  IN  IF ~Has(p, 1) \/ ~Has(q, 1) THEN [w EXCEPT !.ok = FALSE]
      ELSE IF q = p THEN More(Byte(p), p + 1)
      ELSE IF Byte(q) = 0 THEN More(255, q + 1) ELSE MarkerMet(w, q, nbits)
jpeg_fill_bit_buffer(w, nbits) ==
  IF w.m.unread_marker # 0 THEN NoMoreBytes(w, nbits)
  ELSE IF ~w.ok \/ Len(w.bits) >= MIN_GET_BITS THEN w
  ELSE NextByte(w, w.m.pos, PastFill(w.m.pos), nbits)

(* CHECK_BIT_BUFFER and GET_BITS.                                           *)
Check(w, nbits) == IF Len(w.bits) < nbits THEN jpeg_fill_bit_buffer(w, nbits) ELSE w
GET_BITS(w, nbits) ==
  IF ~w.ok THEN w
  ELSE [w EXCEPT !.v = Number(SubSeq(w.bits, 1, nbits)), !.bits = SubSeq(@, nbits + 1, Len(@))]
Receive(w, nbits) == GET_BITS(Check(w, nbits), nbits)
HUFF_EXTEND(x, s) == IF x < 2^(s - 1) THEN x - 2^s + 1 ELSE x

(* The code so far is w.v, of l bits.                                       *)
RECURSIVE Lengthen(_, _, _)
Longer(w, code) == [w EXCEPT !.v = 2 * code + @]
Lengthen(w, tbl, l) ==
  IF ~w.ok THEN w
  ELSE IF w.v > tbl.maxcode[l] THEN Lengthen(Longer(Receive(w, 1), w.v), tbl, l + 1)
  ELSE [w EXCEPT !.v = IF l > 16 THEN 0 ELSE tbl.vals[w.v + tbl.valoffset[l]]]
jpeg_huff_decode(w, tbl, min_bits) == Lengthen(Receive(w, min_bits), tbl, min_bits)

(* The lookahead table finds the codes of up to 8 bits.                     *)
Lookup(f, tbl) ==
  LET look(l) == Number(SubSeq(f.bits, 1, l))
      found == {l \in 1..HUFF_LOOKAHEAD : look(l) <= tbl.maxcode[l]}
      nb == Min(found)
      few == Len(f.bits) < HUFF_LOOKAHEAD
  IN  IF ~f.ok THEN f
      ELSE IF few \/ found = {} THEN jpeg_huff_decode(f, tbl, IF few THEN 1 ELSE HUFF_LOOKAHEAD + 1)
      ELSE [f EXCEPT !.v = tbl.vals[look(nb) + tbl.valoffset[nb]],
                     !.bits = SubSeq(@, nb + 1, Len(@))]
HUFF_DECODE(w, tbl) ==
  Lookup(IF Len(w.bits) < HUFF_LOOKAHEAD THEN jpeg_fill_bit_buffer(w, 0) ELSE w, tbl)

--------------------------------------------------------------------------
(* Places after the last of the order stand for coefficient 63, which no    *)
(* block smaller than 8 x 8 uses.                                           *)
Put(block, k, value) == IF k \in DOMAIN block THEN [block EXCEPT ![k] = value] ELSE block

(* As many bits as the symbol in w.v tells, for a difference.               *)
Extended(w) ==
  LET g == Receive(w, w.v)
  IN  IF ~w.ok \/ w.v = 0 THEN w
      ELSE IF g.ok THEN [g EXCEPT !.v = HUFF_EXTEND(@, w.v)] ELSE g
StoreDc(w, e) ==
  LET s == w.last_dc_val + w.v
  IN  IF w.ok THEN [w EXCEPT !.last_dc_val = s, !.block = Put(@, 0, s * 2^e.Al)] ELSE w
decode_mcu_DC_first(w, e) == StoreDc(Extended(HUFF_DECODE(w, e.dc_tbl)), e)

decode_mcu_DC_refine(w, e) ==
  LET g == Receive(w, 1)
      bit == (g.block[0] \div 2^e.Al) % 2
  IN  IF ~g.ok \/ g.v = 0 \/ bit = 1 THEN g
      ELSE [g EXCEPT !.block = Put(@, 0, @[0] + 2^e.Al)]

(* The run of blocks an EOBn symbol announces, this one included.           *)
EndOfBand(h, r) ==
  LET g == Receive(h, r) IN IF r = 0 THEN [h EXCEPT !.EOBRUN = 1]
                            ELSE IF ~g.ok THEN g ELSE [g EXCEPT !.EOBRUN = 2^r + g.v]

RECURSIVE AcFirst(_, _, _)
AcPut(g, k, s, Al) ==
  IF g.ok THEN [g EXCEPT !.block = Put(@, k, HUFF_EXTEND(g.v, s) * 2^Al)] ELSE g
CountDown(band) == IF band.ok THEN [band EXCEPT !.EOBRUN = @ - 1] ELSE band
FirstSymbol(h, e, k) ==
  LET r == h.v \div 16
      s == h.v % 16
  IN  IF ~h.ok THEN h
      ELSE IF s > 0 THEN AcFirst(AcPut(Receive(h, s), k + r, s, e.Al), e, k + r + 1)
      ELSE IF r = 15 THEN AcFirst(h, e, k + 16)
      ELSE CountDown(EndOfBand(h, r))
AcFirst(w, e, k) ==
  IF ~w.ok \/ k > e.Se THEN w ELSE FirstSymbol(HUFF_DECODE(w, e.ac_tbl), e, k)
decode_mcu_AC_first(w, e) ==
  IF w.EOBRUN > 0 THEN [w EXCEPT !.EOBRUN = @ - 1] ELSE AcFirst(w, e, e.Ss)

(* A correction bit moves a nonzero coefficient away from zero, once.       *)
Corrected(coef, Al) ==
  IF (coef \div 2^Al) % 2 = 1 THEN coef
  ELSE IF coef >= 0 THEN coef + 2^Al ELSE coef - 2^Al
Correct(w, e, k) ==
  LET g == Receive(w, 1)
  IN  IF w.block[k] = 0 \/ ~g.ok \/ g.v = 0 THEN IF w.block[k] = 0 THEN w ELSE g
      ELSE [g EXCEPT !.block = Put(@, k, Corrected(@[k], e.Al))]

(* Pass r zeros and the nonzero coefficients among them; k where it stops.  *)
RECURSIVE PassZeros(_, _, _, _)
PassZeros(w, e, k, r) ==
  IF ~w.ok THEN w
  ELSE IF k > e.Se \/ (w.block[k] = 0 /\ r = 0) THEN [w EXCEPT !.k = k]
  ELSE PassZeros(Correct(w, e, k), e, k + 1, IF w.block[k] = 0 THEN r - 1 ELSE r)

RECURSIVE CorrectRest(_, _, _)
CorrectRest(w, e, k) ==
  IF ~w.ok THEN w
  ELSE IF k > e.Se THEN [w EXCEPT !.EOBRUN = @ - 1] ELSE CorrectRest(Correct(w, e, k), e, k + 1)

RECURSIVE AcRefine(_, _, _)
AfterRun(z, e) == AcRefine(z, e, z.k + 1)
Newly(z, value) ==
  IF z.ok THEN [z EXCEPT !.block = Put(@, z.k, value), !.newnz = @ \union {z.k}] ELSE z
RefineSymbol(h, e, k) ==
  LET r == h.v \div 16
      g == Receive(h, 1)
      value == IF g.v = 1 THEN 2^e.Al ELSE -(2^e.Al)
  IN  IF ~h.ok THEN h
      ELSE IF h.v % 16 > 0 THEN AfterRun(Newly(PassZeros(g, e, k, r), value), e)
      ELSE IF r = 15 THEN AfterRun(PassZeros(h, e, k, r), e)
      ELSE CorrectRest(EndOfBand(h, r), e, k)
AcRefine(w, e, k) ==
  IF ~w.ok \/ k > e.Se THEN w ELSE RefineSymbol(HUFF_DECODE(w, e.ac_tbl), e, k)

(* A defect for SuspensionInvisible: no undo.                               *)
Mutant_decode_mcu_AC_refine(w, e) ==
  IF w.EOBRUN > 0 THEN CorrectRest(w, e, e.Ss) ELSE AcRefine(w, e, e.Ss)

(* undoit: coefficients that became nonzero must be zero again, or a second *)
(* try would take them for ones to correct.                                 *)
Undone(g) ==
  IF g.ok THEN g ELSE [g EXCEPT !.block = [k \in DOMAIN @ |-> IF k \in g.newnz THEN 0 ELSE @[k]]]
decode_mcu_AC_refine(w, e) ==
  Undone(IF w.EOBRUN > 0 THEN CorrectRest(w, e, e.Ss) ELSE AcRefine(w, e, e.Ss))

(* Coefficients from coef_limit on are decoded and dropped, all of them,    *)
(* with the DC difference, when the component is not needed.                *)
RECURSIVE Sequential(_, _, _)
SequentialSymbol(h, e, k) ==
  LET r == h.v \div 16
      s == h.v % 16
      stored == k < e.coef_limit
  IN  IF ~h.ok THEN h
      ELSE IF s > 0
      THEN Sequential(IF stored THEN AcPut(Receive(h, s), k + r, s, 0) ELSE Receive(h, s),
                      e, k + r + 1)
      ELSE IF r = 15 THEN Sequential(h, e, k + 16) ELSE h
Sequential(w, e, k) ==
  IF ~w.ok \/ k > e.Se THEN w ELSE SequentialSymbol(HUFF_DECODE(w, e.ac_tbl), e, k)
Skipped(d, w) == [d EXCEPT !.block = w.block, !.last_dc_val = w.last_dc_val]
decode_mcu_sub(w, e) ==
  LET dc == decode_mcu_DC_first(w, e)
  IN  Sequential(IF e.coef_limit > 0 THEN dc ELSE Skipped(dc, w), e, 1)

--------------------------------------------------------------------------
(* process_restart; m.ret tells whether it suspended, and the bits left     *)
(* are gone by then.                                                        *)
process_restart(m, e) ==
  LET met == read_restart_marker([m EXCEPT !.discarded_bytes = @ + (Len(e.bits) \div 8)])
      dropped == [e EXCEPT !.bits = <<>>]
  IN  [m |-> met,
       e |-> IF met.ret # "ok" THEN dropped
             ELSE [dropped EXCEPT !.last_dc_val = 0, !.EOBRUN = 0,
                                  !.restarts_to_go = m.restart_interval,
                                  !.insufficient_data = @ /\ met.unread_marker # 0]]

(* decode_mcu: the restart when it is due, then the routine of the scan,    *)
(* unless the segment is known to have run out.  What suspends returns the  *)
(* state as it was, but for the block and for what the restart did.         *)
AfterRestart(m, e) ==
  IF m.restart_interval > 0 /\ e.restarts_to_go = 0 THEN process_restart(m, e)
  ELSE [m |-> Return(m, "ok"), e |-> e]
Working(r, block) ==
  [m |-> r.m, bits |-> r.e.bits, v |-> 0, k |-> 0, ok |-> TRUE, newnz |-> {},
   block |-> block, EOBRUN |-> r.e.EOBRUN, last_dc_val |-> r.e.last_dc_val,
   insufficient_data |-> r.e.insufficient_data]
DecodeBlock(w, e) ==
  IF e.method = "DC_refine" THEN decode_mcu_DC_refine(w, e)
  ELSE IF e.insufficient_data THEN w
  ELSE IF e.method = "DC_first" THEN decode_mcu_DC_first(w, e)
  ELSE IF e.method = "AC_first" THEN decode_mcu_AC_first(w, e)
  ELSE IF e.method = "AC_refine" THEN decode_mcu_AC_refine(w, e)
  ELSE decode_mcu_sub(w, e)
Outcome(r, block, d) ==
  IF r.m.ret # "ok" THEN [m |-> r.m, e |-> r.e, block |-> block]
  ELSE IF ~d.ok THEN [m |-> Suspend(r.m), e |-> r.e, block |-> d.block]
  ELSE [m |-> d.m, block |-> d.block,
        e |-> [r.e EXCEPT !.bits = d.bits, !.EOBRUN = d.EOBRUN,
                          !.last_dc_val = d.last_dc_val,
                          !.insufficient_data = d.insufficient_data,
                          !.restarts_to_go = @ - 1]]
decode_mcu(m, e, block) ==
  LET r == AfterRestart(m, e) IN Outcome(r, block, DecodeBlock(Working(r, block), r.e))

start_pass_huff_decoder(m, lim_Se, limit) ==
  LET scan == m.scan
      progressive == m.frame.progressive
      comp == scan.comps[1]
      needsDC == ~progressive \/ (scan.Ss = 0 /\ scan.Ah = 0)
      needsAC == IF progressive THEN scan.Ss > 0 ELSE lim_Se > 0
      Missing(tbls, no, isDC) == no \notin DOMAIN tbls \/ BadTable(tbls[no], isDC)
      method == IF ~progressive THEN "sequential"
                ELSE IF scan.Ss = 0 THEN IF scan.Ah = 0 THEN "DC_first" ELSE "DC_refine"
                ELSE IF scan.Ah = 0 THEN "AC_first" ELSE "AC_refine"
  IN  IF progressive /\ BadProgression(scan, lim_Se) THEN [ret |-> "BAD_PROGRESSION"]
      ELSE IF \/ needsDC /\ Missing(m.dc_huff_tbls, comp.dc, TRUE)
              \/ needsAC /\ Missing(m.ac_huff_tbls, comp.ac, FALSE)
      THEN [ret |-> "BAD_HUFF_TABLE"]
      ELSE [ret |-> "ok", method |-> method,
            dc_tbl |-> IF needsDC THEN DerivedTbl(m.dc_huff_tbls[comp.dc]) ELSE <<>>,
            ac_tbl |-> IF needsAC THEN DerivedTbl(m.ac_huff_tbls[comp.ac]) ELSE <<>>,
            Ss |-> scan.Ss, Se |-> IF progressive THEN scan.Se ELSE lim_Se,
            Al |-> IF progressive THEN scan.Al ELSE 0,
            coef_limit |-> limit, last_dc_val |-> 0, EOBRUN |-> 0, bits |-> <<>>,
            insufficient_data |-> FALSE, restarts_to_go |-> m.restart_interval]
=========================================================================
