------------------------ MODULE ArithmeticDecoder ------------------------
(* jdarith.c: decoding the MCUs of a scan, each of one block.  The source   *)
(* must not run out: this decoder cannot suspend (CANT_SUSPEND).            *)
(* While an MCU is decoded w holds m, the marker reader, the decoder's      *)
(* registers and bins, the DC prediction, the block, v the decision or      *)
(* value last decoded, and ok.  ct is -16 before the first byte and -1      *)
(* after a bad code, which ends the segment.                                *)
EXTENDS MarkerReader, ArithmeticTable

(* The next byte; past a marker there are only zeros.  From p, the next     *)
(* byte that is not an FF is at q.                                          *)
DataAt(w, p, q) ==
  LET Got(data, n) == [w EXCEPT !.c = 256 * @ + data, !.m.pos = n]
  IN  IF ~Has(p, 1) \/ ~Has(q, 1) THEN [w EXCEPT !.ok = FALSE]
      ELSE IF q = p THEN Got(Byte(p), p + 1)
      ELSE IF Byte(q) = 0 THEN Got(255, q + 1)
      ELSE [Got(0, q + 1) EXCEPT !.m.unread_marker = Byte(q)]
NextData(w) ==
  IF w.m.unread_marker # 0 THEN [w EXCEPT !.c = 256 * @]
  ELSE DataAt(w, w.m.pos, PastFill(w.m.pos))

RECURSIVE Renormalize(_)
Refilled(w, ct) ==
  IF ct >= 0 THEN [w EXCEPT !.ct = ct, !.a = 2 * @]
  ELSE [w EXCEPT !.ct = ct + 1, !.a = IF ct + 1 = 0 THEN 65536 ELSE 2 * @]
Renormalize(w) ==
  IF ~w.ok \/ w.a >= 32768 THEN w
  ELSE IF w.ct > 0 THEN Renormalize([w EXCEPT !.ct = @ - 1, !.a = 2 * @])
  ELSE Renormalize(Refilled(NextData(w), w.ct + 7))

(* The decision, from the subinterval the code lies in.                     *)
Decide(w, st, row, mps) ==
  LET a == w.a - Qe(row)
      upper == w.c >= a * 2^w.ct
      lps == upper = (a >= Qe(row))
      d == [w EXCEPT !.v = IF lps THEN 1 - mps ELSE mps,
                     !.c = IF upper THEN @ - a * 2^w.ct ELSE @,
                     !.a = IF upper THEN Qe(row) ELSE a]
  IN  IF ~w.ok THEN [w EXCEPT !.v = 0]
      ELSE IF ~upper /\ a >= 32768 THEN d
      ELSE [d EXCEPT !.bins = (st :> Estimated(row, mps, lps)) @@ @]
DecideFrom(w, st) == LET sv == Stat(w.bins, st) IN Decide(w, st, Row(sv), sv[2])
arith_decode(w, st) == DecideFrom(Renormalize(w), st)

BadCode(w) == [w EXCEPT !.ct = -1]
Bad(w) == w.ct = -1 \/ ~w.ok

--------------------------------------------------------------------------
(* A nonzero value: its category, which may overflow, then its bits.        *)
RECURSIVE Category(_, _, _)
FurtherCategory(d, place, n) ==
  IF d.v = 0 THEN [d EXCEPT !.n = n - 1]
  ELSE IF n = 16 THEN BadCode(d) ELSE Category(d, place, n + 1)
Category(w, place, n) == FurtherCategory(arith_decode(w, CategoryBin(place, n)), place, n)
RECURSIVE Pattern(_, _, _, _)
NextBit(d, st, v, n) == Pattern(d, st, 2 * v + d.v, n)
Pattern(w, st, v, n) ==
  IF ~w.ok \/ n = 0 THEN [w EXCEPT !.v = v + 1] ELSE NextBit(arith_decode(w, st), st, v, n - 1)
Signed(d, sign) == IF sign = 1 THEN [d EXCEPT !.v = -@] ELSE d
Magnitude(d, place) ==
  IF Bad(d) \/ d.n = 0 THEN [d EXCEPT !.v = 1]
  ELSE Pattern(d, PatternBin(place, d.n + 1), 1, d.n - 1)
Value(w, place, sign) == Signed(Magnitude(Category(w, place, 1), place), sign)

Predicted(x, sign, cond) ==
  IF Bad(x) THEN x
  ELSE [x EXCEPT !.last_dc_val = @ + x.v, !.dc_context = DcContext(cond, sign, TopBit(x.n))]
DcValue(s, cond) == Predicted(Value(s, DcPlace(s.dc_context, s.v), s.v), s.v, cond)
DcNonzero(d, cond) ==
  IF d.v = 0 THEN [d EXCEPT !.dc_context = 0]
  ELSE DcValue(arith_decode(d, DcBin(d.dc_context) + 1), cond)
DecodeDc(w, cond) == DcNonzero(arith_decode(w, DcBin(w.dc_context)), cond)
StoreDc(w, e) == IF Bad(w) THEN w ELSE [w EXCEPT !.block[0] = w.last_dc_val * 2^e.Al]
decode_mcu_DC_first(w, e) == StoreDc(DecodeDc(w, e.cond), e)
decode_mcu_DC_refine(w, e) ==
  LET d == arith_decode(w, fixed_bin)
  IN  IF d.v = 0 \/ (d.block[0] \div 2^e.Al) % 2 = 1 THEN d
      ELSE [d EXCEPT !.block[0] = @ + 2^e.Al]

(* To the next coefficient the scan makes nonzero, or, in a refinement,     *)
(* finds so.                                                                *)
RECURSIVE NextNonzero(_, _, _)
NextNonzero(w, e, k) ==
  LET known == e.method = "AC_refine" /\ w.block[k] # 0
      d == IF known THEN w ELSE arith_decode(w, NonzeroBin(k))
  IN  IF k > e.Se THEN BadCode(w)
      ELSE IF known \/ d.v = 1 \/ ~d.ok THEN [d EXCEPT !.k = k]
      ELSE NextNonzero(d, e, k + 1)

RECURSIVE AcFirst(_, _, _)
AcStored(x, e) ==
  IF Bad(x) THEN x ELSE AcFirst([x EXCEPT !.block[x.k] = x.v * 2^e.Al], e, x.k + 1)
AcValue(z, e) ==
  LET s == arith_decode(z, fixed_bin)
  IN  IF Bad(z) THEN z ELSE AcStored(Value(s, AcPlace(z.k, e.cond.K), s.v), e)
AcFirst(w, e, k) ==
  LET b == arith_decode(w, EobBin(k))
  IN  IF Bad(w) \/ k > e.Se THEN w
      ELSE IF b.v = 1 \/ ~b.ok THEN b ELSE AcValue(NextNonzero(b, e, k), e)
decode_mcu_AC_first(w, e) == AcFirst(w, e, e.Ss)
decode_mcu_sequential(w, e) == AcFirst(decode_mcu_DC_first(w, e), e, 1)

RECURSIVE AcRefine(_, _, _, _)
AcCorrected(z, e, kex) ==
  LET known == z.block[z.k] # 0
      d == arith_decode(z, IF known THEN MoreBin(z.k) ELSE fixed_bin)
      away(coef) == IF coef < 0 THEN coef - 2^e.Al ELSE coef + 2^e.Al
      value == IF known THEN IF d.v = 1 THEN away(z.block[z.k]) ELSE z.block[z.k]
               ELSE IF d.v = 1 THEN -(2^e.Al) ELSE 2^e.Al
  IN  IF Bad(z) THEN z ELSE AcRefine([d EXCEPT !.block[z.k] = value], e, kex, z.k + 1)
AcRefine(w, e, kex, k) ==
  LET b == IF k > kex THEN arith_decode(w, EobBin(k)) ELSE [w EXCEPT !.v = 0]
  IN  IF Bad(w) \/ k > e.Se THEN w
      ELSE IF b.v = 1 \/ ~b.ok THEN b ELSE AcCorrected(NextNonzero(b, e, k), e, kex)
decode_mcu_AC_refine(w, e) ==
  LET sent == {k \in 1..e.Se : w.block[k] # 0}
  IN  AcRefine(w, e, IF sent = {} THEN 0 ELSE Max(sent), e.Ss)

--------------------------------------------------------------------------
Fresh(e, interval) ==
  [e EXCEPT !.bins = <<>>, !.c = 0, !.a = 0, !.ct = -16, !.last_dc_val = 0, !.dc_context = 0,
            !.restarts_to_go = interval]
process_restart(m, e) ==
  LET met == read_restart_marker(m)
  IN  [m |-> IF met.ret = "suspended" THEN Return(met, "CANT_SUSPEND") ELSE met,
       e |-> Fresh(e, m.restart_interval)]

AfterRestart(m, e) ==
  IF m.restart_interval > 0 /\ e.restarts_to_go = 0 THEN process_restart(m, e)
  ELSE [m |-> Return(m, "ok"), e |-> e]
Working(r, block) ==
  [m |-> r.m, c |-> r.e.c, a |-> r.e.a, ct |-> r.e.ct, bins |-> r.e.bins, v |-> 0,
   n |-> 0, k |-> 0, ok |-> TRUE, block |-> block,
   last_dc_val |-> r.e.last_dc_val, dc_context |-> r.e.dc_context]
DecodeBlock(w, e) ==
  IF e.method = "DC_refine" THEN decode_mcu_DC_refine(w, e)
  ELSE IF w.ct = -1 THEN w
  ELSE IF e.method = "DC_first" THEN decode_mcu_DC_first(w, e)
  ELSE IF e.method = "AC_first" THEN decode_mcu_AC_first(w, e)
  ELSE IF e.method = "AC_refine" THEN decode_mcu_AC_refine(w, e)
  ELSE decode_mcu_sequential(w, e)
Outcome(r, block, d) ==
  IF r.m.ret # "ok" THEN [m |-> r.m, e |-> r.e, block |-> block]
  ELSE [m |-> IF d.ok THEN d.m ELSE Return(d.m, "CANT_SUSPEND"), block |-> d.block,
        e |-> [r.e EXCEPT !.c = d.c, !.a = d.a, !.ct = d.ct, !.bins = d.bins,
                          !.last_dc_val = d.last_dc_val, !.dc_context = d.dc_context,
                          !.restarts_to_go = IF d.m.restart_interval > 0 THEN @ - 1 ELSE @]]
decode_mcu(m, e, block) ==
  LET r == AfterRestart(m, e) IN Outcome(r, block, DecodeBlock(Working(r, block), r.e))

(* The parameters of a progressive scan are checked as in jdhuff.c.         *)
Conditioning(m, comp) ==
  LET dc == IF comp.dc \in DOMAIN m.arith THEN m.arith[comp.dc] ELSE 16
      ac == 16 + comp.ac
  IN  [L |-> dc % 16, U |-> dc \div 16, K |-> IF ac \in DOMAIN m.arith THEN m.arith[ac] ELSE 5]
start_pass(m, lim_Se) ==
  LET scan == m.scan
      progressive == m.frame.progressive
      method == IF ~progressive THEN "sequential"
                ELSE IF scan.Ss = 0 THEN IF scan.Ah = 0 THEN "DC_first" ELSE "DC_refine"
                ELSE IF scan.Ah = 0 THEN "AC_first" ELSE "AC_refine"
  IN  Fresh([ret |-> "ok", method |-> method, cond |-> Conditioning(m, scan.comps[1]),
             Ss |-> scan.Ss, Se |-> IF progressive THEN scan.Se ELSE lim_Se,
             Al |-> IF progressive THEN scan.Al ELSE 0,
             bins |-> <<>>, c |-> 0, a |-> 0, ct |-> -16, last_dc_val |-> 0, dc_context |-> 0,
             restarts_to_go |-> 0], m.restart_interval)
==========================================================================
