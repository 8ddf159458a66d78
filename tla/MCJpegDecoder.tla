-------------------------- MODULE MCJpegDecoder --------------------------
(* Small images for TLC: two iMCU rows of one or two MCUs, with an odd      *)
(* height, their geometry computed from the frame.                          *)
EXTENDS JpegDecoder

Samp(h, v) == [h |-> h, v |-> v]
Frame(width, height, comps, scale, fancy) ==
  [size |-> [h |-> width, v |-> height], comps |-> comps, block |-> 8, num |-> scale, denom |-> 8,
   fancy |-> fancy]
Subsampled == <<Samp(1, 2), Samp(1, 1)>>
Eighth == Frame(16, 20, Subsampled, 1, TRUE)                    \* 3 rows, one in a row group pair
Narrow == Frame(8, 20, Subsampled, 1, TRUE)
Quarter == Frame(16, 12, <<Samp(1, 1), Samp(1, 1)>>, 2, TRUE)   \* two row groups per iMCU row
Tall == Frame(8, 48, <<Samp(1, 4), Samp(1, 1)>>, 1, TRUE)        \* strips of four rows, the last half full
Merged(v) == Frame(16, 8 * v + 1, <<Samp(2, v), Samp(1, 1), Samp(1, 1)>>, 5, FALSE)

(* Frames of any sampling factors and scale, at sizes off the grid.        *)
McFrames ==
  {[size |-> size, comps |-> <<Samp(h, v), c>>, block |-> block, num |-> num, denom |-> 8,
    fancy |-> fancy] :
     size \in {[h |-> 17, v |-> 9], [h |-> 33, v |-> 20]}, h \in 1..4, v \in {1, 2, 4},
     c \in {Samp(1, 1), Samp(2, 1), Samp(1, 2)}, block \in {5, 8}, num \in {1, 3, 7, 16},
     fancy \in BOOLEAN}

(* What a scan of the components S has, and the MCUs a whole one codes.     *)
Scan(f, S) ==
  [mcus |-> MCUs_per_row(f, S), rows |-> MCU_rows_per_iMCU_row(f, S, 0),
   last |-> MCU_rows_per_iMCU_row(f, S, total_iMCU_rows(f) - 1)]
Whole(f, S) == MCUs_per_row(f, S) * MCU_rows_in_scan(f, S)

Image(f, S, scans, units, progressive) ==
  [units |-> units, progressive |-> progressive,
   multiple |-> has_multiple_scans(f, S, progressive), merged |-> use_merged_upsample(f),
   total |-> total_iMCU_rows(f), v |-> max_samp_factor(f, "v"), m |-> min_DCT_scaled_size(f),
   height |-> output_size(f, "v"), scans |-> scans]

Mcus(n) == [i \in 1..n |-> "MCU"]
Baseline(f, lost) ==
  Image(f, DOMAIN f.comps, <<Scan(f, DOMAIN f.comps)>>,
        <<"TABLES", "SOS">> \o Mcus(Whole(f, DOMAIN f.comps) - lost) \o <<"EOI">>, FALSE)
TwoScans(f, S, T, lostS, lostT, progressive) ==
  Image(f, S, <<Scan(f, S), Scan(f, T)>>,
        <<"SOS">> \o Mcus(Whole(f, S) - lostS) \o <<"TABLES", "SOS">>
                       \o Mcus(Whole(f, T) - lostT) \o <<"EOI">>, progressive)
NoSecond(f, S, progressive) ==
  Image(f, S, <<Scan(f, S), Scan(f, S)>>,
        <<"SOS">> \o Mcus(Whole(f, S) - 1) \o <<"EOI">>, progressive)

(* A baseline file, whole and truncated in the second MCU row; files of two *)
(* scans, one component each or successive approximations, whole, cut       *)
(* within a scan, or without the second scan.                               *)
McImages ==
  {Baseline(Eighth, lost) : lost \in 0..1} \union {Baseline(f, 0) : f \in {Quarter, Tall}}
    \union {Baseline(Merged(v), 0) : v \in 1..2}
    \union {TwoScans(Narrow, {1}, {2}, 0, lost, FALSE) : lost \in 0..1}
    \union {TwoScans(Eighth, 1..2, 1..2, lost, 0, TRUE) : lost \in 0..1}
    \union {NoSecond(Eighth, 1..2, TRUE), NoSecond(Narrow, {1}, FALSE)}

Mode(buffered, raw, merged, quant) ==
  [buffered |-> buffered, raw |-> raw, merged |-> merged, quant |-> quant]
McModes ==
  {Mode(b, FALSE, FALSE, q) : b \in BOOLEAN, q \in {"none", "one", "two"}}
    \union {Mode(b, FALSE, TRUE, "none") : b \in BOOLEAN}
    \union {Mode(b, TRUE, FALSE, "none") : b \in BOOLEAN}

========================================================================
