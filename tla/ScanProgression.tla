------------------------ MODULE ScanProgression ------------------------
(* start_pass_huff_decoder (jdhuff.c): what a decoder checks of a scan of a *)
(* progressive file and notes of it.  A scan is [comps, Ss, Se, Ah, Al];    *)
(* the bits of a component tell for each of its coefficients how far        *)
(* earlier scans have brought it, -1 when none has.                         *)
EXTENDS Integers, Sequences, FiniteSetsExt

BadProgression(scan, lim) ==
  \/ scan.Ss = 0 /\ scan.Se # 0
  \/ scan.Ss > 0 /\ (scan.Se < scan.Ss \/ scan.Se > lim \/ Len(scan.comps) # 1)
  \/ scan.Ah # 0 /\ scan.Ah - 1 # scan.Al
  \/ scan.Al > 13
(* What earns a warning, JWRN_BOGUS_PROGRESSION, of a component's bits.      *)
BogusProgression(bits, scan) ==
  \/ scan.Ss > 0 /\ bits[0] < 0
  \/ \E k \in scan.Ss..scan.Se : scan.Ah # Max({bits[k], 0})
Progressed(bits, scan) ==
  [k \in DOMAIN bits |-> IF k \in scan.Ss..scan.Se THEN scan.Al ELSE bits[k]]
========================================================================
