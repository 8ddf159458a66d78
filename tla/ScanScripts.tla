-------------------------- MODULE ScanScripts --------------------------
(* Scan scripts: those jcparam.c makes, the check and the reduction of      *)
(* jcmaster.c, and what the decoder makes of their scans (ScanProgression). *)
EXTENDS ScanProgression

DCTSIZE2 == 64
MAX_COMPONENTS == 10
MAX_COMPS_IN_SCAN == 4
MAX_AH_AL == 10

(* jcparam.c: components are numbered from 1.                               *)
Scan(comps, Ss, Se, Ah, Al) == [comps |-> comps, Ss |-> Ss, Se |-> Se, Ah |-> Ah, Al |-> Al]
fill_a_scan(ci, Ss, Se, Ah, Al) == <<Scan(<<ci>>, Ss, Se, Ah, Al)>>
fill_scans(ncomps, Ss, Se, Ah, Al) == [ci \in 1..ncomps |-> Scan(<<ci>>, Ss, Se, Ah, Al)]
fill_dc_scans(ncomps, Ah, Al) ==
  IF ncomps <= MAX_COMPS_IN_SCAN THEN <<Scan([ci \in 1..ncomps |-> ci], 0, 0, Ah, Al)>>
  ELSE fill_scans(ncomps, 0, 0, Ah, Al)

jpeg_simple_progression(ncomps, ycc) ==
  IF ncomps = 3 /\ ycc
  THEN fill_dc_scans(ncomps, 0, 1)
         \o fill_a_scan(1, 1, 5, 0, 2) \o fill_a_scan(3, 1, 63, 0, 1)
         \o fill_a_scan(2, 1, 63, 0, 1) \o fill_a_scan(1, 6, 63, 0, 2)
         \o fill_a_scan(1, 1, 63, 2, 1) \o fill_dc_scans(ncomps, 1, 0)
         \o fill_a_scan(3, 1, 63, 1, 0) \o fill_a_scan(2, 1, 63, 1, 0)
         \o fill_a_scan(1, 1, 63, 1, 0)
  ELSE fill_dc_scans(ncomps, 0, 1)
         \o fill_scans(ncomps, 1, 5, 0, 2) \o fill_scans(ncomps, 6, 63, 0, 2)
         \o fill_scans(ncomps, 1, 63, 2, 1) \o fill_dc_scans(ncomps, 1, 0)
         \o fill_scans(ncomps, 1, 63, 1, 0)

-----------------------------------------------------------------------------
Carries(scan, c, k) == c \in Range(scan.comps) /\ k \in scan.Ss..scan.Se
progressive_mode(script) == script[1].Ss # 0 \/ script[1].Se # DCTSIZE2 - 1

(* The Al coefficient k of component c has reached before scan n.           *)
last_bitpos(script, n, c, k) ==
  LET earlier == {i \in 1..n - 1 : Carries(script[i], c, k)}
  IN  IF earlier = {} THEN -1 ELSE script[Max(earlier)].Al

(* A defect for ScriptsDecode: a refinement may skip a bit.                 *)
Mutant_ContinuesProgression(script, n, c, k) ==
  LET last == last_bitpos(script, n, c, k)
  IN  IF last < 0 THEN script[n].Ah = 0 ELSE script[n].Ah = last
ContinuesProgression(script, n, c, k) ==
  LET last == last_bitpos(script, n, c, k)
  IN  IF last < 0 THEN script[n].Ah = 0 ELSE script[n].Ah = last /\ script[n].Al = script[n].Ah - 1

GoodScan(script, n) ==
  LET s == script[n]
  IN  IF progressive_mode(script)
      THEN /\ s.Ss \in 0..DCTSIZE2 - 1 /\ s.Se \in s.Ss..DCTSIZE2 - 1
           /\ s.Ah \in 0..MAX_AH_AL /\ s.Al \in 0..MAX_AH_AL
           /\ IF s.Ss = 0 THEN s.Se = 0 ELSE Len(s.comps) = 1
           /\ \A c \in Range(s.comps) :
                /\ s.Ss # 0 => last_bitpos(script, n, c, 0) >= 0
                /\ \A k \in s.Ss..s.Se : ContinuesProgression(script, n, c, k)
      ELSE /\ s.Ss = 0 /\ s.Se = DCTSIZE2 - 1 /\ s.Ah = 0 /\ s.Al = 0
           /\ \A i \in 1..n - 1 : Range(s.comps) \intersect Range(script[i].comps) = {}

validate_script(script, num_components) ==
  /\ script # <<>>
  /\ \A n \in DOMAIN script :
       /\ Len(script[n].comps) \in 1..MAX_COMPS_IN_SCAN
       /\ Range(script[n].comps) \subseteq 1..num_components
       /\ \A i \in 1..Len(script[n].comps) - 1 : script[n].comps[i] < script[n].comps[i + 1]
       /\ GoodScan(script, n)
  /\ \A c \in 1..num_components : \E n \in DOMAIN script : Carries(script[n], c, 0)

(* For blocks smaller than 8 x 8.                                           *)
reduce_script(script, lim) ==
  LET out[n \in 0..Len(script)] ==
        IF n = 0 THEN <<>>
        ELSE IF script[n].Ss > lim THEN out[n - 1]
        ELSE Append(out[n - 1], [script[n] EXCEPT !.Se = Min({@, lim})])
  IN  out[Len(script)]

-----------------------------------------------------------------------------
(* The last coefficient of a block, by the size of the block.               *)
Limits == {n * n - 1 : n \in 1..8}

(* The bits a decoder has of component c after the first n scans.           *)
BitsAfter(script, n, c, lim) ==
  LET bits[i \in 0..n] ==
        IF i = 0 THEN [k \in 0..lim |-> -1]
        ELSE IF c \in Range(script[i].comps) THEN Progressed(bits[i - 1], script[i])
        ELSE bits[i - 1]
  IN  bits[n]
Decodable(script, lim) ==
  \A n \in DOMAIN script :
    /\ ~BadProgression(script[n], lim)
    /\ \A c \in Range(script[n].comps) :
         ~BogusProgression(BitsAfter(script, n - 1, c, lim), script[n])
========================================================================
