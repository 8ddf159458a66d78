--------------------------- MODULE FrameLayout ---------------------------
(* The geometry of a decompression: the grid of blocks and MCUs of a frame  *)
(* (jdinput.c), the size it is decoded at (jpeg_core_output_dimensions and  *)
(* jpeg_calc_output_dimensions) and the blocks each MCU of a scan outputs   *)
(* (decompress_onepass).  A frame is                                        *)
(*   [size, comps, block, num, denom, fancy]: the image's size and, per     *)
(* component, the sampling factors, both by dimension "h" and "v"; the      *)
(* block size; scale_num, scale_denom and do_fancy_upsampling.              *)
EXTENDS Integers, Sequences, FiniteSetsExt

DCTSIZE == 8
D_MAX_BLOCKS_IN_MCU == 10
jdiv_round_up(a, b) == (a + b - 1) \div b

(* The frames get_sof and initial_setup accept (JERR_EMPTY_IMAGE,           *)
(* JERR_BAD_SAMPLING, the block sizes of Se). Their limits on the size, the *)
(* precision and the number of components are not needed. The scale is any. *)
Accepted(f) ==
  /\ f.size \in [h : Nat \ {0}, v : Nat \ {0}]
  /\ f.comps \in Seq([h : 1..4, v : 1..4]) /\ f.comps # <<>>
  /\ f.block \in 1..16 /\ f.num \in Nat /\ f.denom \in Nat /\ f.fancy \in BOOLEAN

(* initial_setup. *)
max_samp_factor(f, d) == Max({f.comps[c][d] : c \in DOMAIN f.comps})
size_in_blocks(f, c, d) ==
  jdiv_round_up(f.size[d] * f.comps[c][d], max_samp_factor(f, d) * f.block)
total_iMCU_rows(f) == jdiv_round_up(f.size["v"], max_samp_factor(f, "v") * f.block)
(* The scan S is the set of its components; it is the file's first one.     *)
has_multiple_scans(f, S, progressive) == Cardinality(S) < Len(f.comps) \/ progressive

(* jpeg_core_output_dimensions: the scale is rounded up to n / block.       *)
min_DCT_scaled_size(f) ==
  LET enough == {n \in 1..15 : f.num * f.block <= f.denom * n}
  IN  IF enough = {} THEN 16 ELSE Min(enough)
output_size(f, d) == jdiv_round_up(f.size[d] * min_DCT_scaled_size(f), f.block)

(* jpeg_calc_output_dimensions: a subsampled component is brought up to the *)
(* output's size by larger IDCTs, as far as there are any.                  *)
ssize(f, c, d) ==
  LET limit == IF f.fancy THEN DCTSIZE ELSE DCTSIZE \div 2
  IN  Min({s \in {1, 2, 4, 8, 16} :
             \/ min_DCT_scaled_size(f) * s > limit
             \/ max_samp_factor(f, d) % (f.comps[c][d] * s * 2) # 0})

(* A defect for LayoutCoversImage: any ratio of the two sizes is left.      *)
Mutant_DCT_scaled_size(f, c) ==
  [h |-> min_DCT_scaled_size(f) * ssize(f, c, "h"), v |-> min_DCT_scaled_size(f) * ssize(f, c, "v")]

(* No IDCT is more than twice as wide as high, or as high as wide.          *)
DCT_scaled_size(f, c) ==
  LET h == min_DCT_scaled_size(f) * ssize(f, c, "h")
      v == min_DCT_scaled_size(f) * ssize(f, c, "v")
  IN  [h |-> Min({h, v * 2}), v |-> Min({v, h * 2})]

downsampled_size(f, c, d) ==
  jdiv_round_up(f.size[d] * f.comps[c][d] * DCT_scaled_size(f, c)[d],
                max_samp_factor(f, d) * f.block)

(* use_merged_upsample, for YCbCr shown as RGB.                             *)
use_merged_upsample(f) ==
  LET n == min_DCT_scaled_size(f)
  IN  /\ ~f.fancy /\ Len(f.comps) = 3
      /\ f.comps[1].h = 2 /\ f.comps[1].v <= 2
      /\ \A c \in 2..3 : f.comps[c] = [h |-> 1, v |-> 1]
      /\ \A c \in 1..3 : DCT_scaled_size(f, c) = [h |-> n, v |-> n]

-----------------------------------------------------------------------------
(* per_scan_setup: a scan of one component has MCUs of one block, and only  *)
(* as many as the component has blocks.                                     *)
MCUs_per_row(f, S) ==
  IF Cardinality(S) = 1 THEN size_in_blocks(f, CHOOSE c \in S : TRUE, "h")
  ELSE jdiv_round_up(f.size["h"], max_samp_factor(f, "h") * f.block)
MCU_rows_in_scan(f, S) ==
  IF Cardinality(S) = 1 THEN size_in_blocks(f, CHOOSE c \in S : TRUE, "v") ELSE total_iMCU_rows(f)
MCU_size(f, S, c, d) == IF Cardinality(S) = 1 THEN 1 ELSE f.comps[c][d]
MCU_fits(f, S) ==
  Cardinality(S) = 1 \/ MapThenSumSet(LAMBDA c : f.comps[c].h * f.comps[c].v, S) <= D_MAX_BLOCKS_IN_MCU
last_col_width(f, S, c) ==
  LET w == MCU_size(f, S, c, "h")  tmp == size_in_blocks(f, c, "h") % w
  IN  IF tmp = 0 THEN w ELSE tmp
last_row_height(f, c) ==
  LET tmp == size_in_blocks(f, c, "v") % f.comps[c].v
  IN  IF tmp = 0 THEN f.comps[c].v ELSE tmp

(* start_iMCU_row: MCU rows in iMCU row i of a scan.                        *)
MCU_rows_per_iMCU_row(f, S, i) ==
  LET c == CHOOSE k \in S : TRUE
  IN  IF Cardinality(S) > 1 THEN 1
      ELSE IF i < total_iMCU_rows(f) - 1 THEN f.comps[c].v ELSE last_row_height(f, c)

(* decompress_onepass: where the blocks of component c go that MCU x of MCU *)
(* row y of iMCU row i outputs; dummy blocks are skipped.                   *)
OutputBlocks(f, S, c, i, y, x) ==
  LET useful_width == IF x < MCUs_per_row(f, S) - 1 THEN MCU_size(f, S, c, "h")
                      ELSE last_col_width(f, S, c)
      useful(yindex) == i < total_iMCU_rows(f) - 1 \/ y + yindex < last_row_height(f, c)
  IN  {[row |-> i * f.comps[c].v + y + yindex, col |-> x * MCU_size(f, S, c, "h") + xindex] :
         yindex \in {n \in 0..MCU_size(f, S, c, "v") - 1 : useful(n)},
         xindex \in 0..useful_width - 1}

(* jinit_upsampler: the rows (columns) of a component in a row group, which *)
(* must divide those of the output.                                         *)
in_group(f, c, d) == (f.comps[c][d] * DCT_scaled_size(f, c)[d]) \div min_DCT_scaled_size(f)
Upsampled(f, c) ==
  \A d \in {"h", "v"} : max_samp_factor(f, d) % in_group(f, c, d) = 0
=========================================================================
