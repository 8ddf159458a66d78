-------------------------- MODULE JpegDecoder --------------------------
(* libjpeg's decompressor as the application drives it: the API calls of    *)
(* jdapimin.c and jdapistd.c, the input controller (jdinput.c), the         *)
(* coefficient controller (jdcoefct.c), the main and the postprocessing     *)
(* controllers (jdmainct.c, jdpostct.c), the upsamplers' row bookkeeping    *)
(* (jdsample.c, jdmerge.c) and the pass control of jdmaster.c.              *)
(* The data source may suspend: bytes arrive at any time, in chunks of any  *)
(* size, and a call that runs out of them returns and is made again later.  *)
(*                                                                          *)
(* Abstracted: a compressed image is a sequence of units, "TABLES" (SOF and *)
(* table markers), "SOS", "MCU" and "EOI"; a sample row is the number of    *)
(* the image row it shows and the number of the last scan that reached it.  *)
(* A call that consumes input takes one step per unit, so that a suspension *)
(* can fall between any two; nothing else runs meanwhile except the source. *)
EXTENDS FrameLayout

CONSTANTS
  Images,      \* records: units, progressive, multiple, merged, the geometry below, and per scan
               \*   [mcus, rows, last]: MCUs per MCU row, MCU rows per iMCU row and in the last one
  Frames,      \* further frames, whose geometry only is checked
  Modes,       \* [buffered, raw, merged: BOOLEAN, quant: {"none", "one", "two"}]
  MaxLines,    \* bound: the lines an application asks for at once
  MaxPasses,   \* bound: output passes per image in buffered-image mode
  MaxImages,   \* bound: images decoded with one decompression object
  None

(* The geometry initial_setup computes: iMCU rows, output rows per row     *)
(* group, row groups per iMCU row, output height.  "scans" has a record for *)
(* every SOS; use_merged_upsample takes at most two rows to a group, and    *)
(* master_selection quantizes no raw data (JERR_NOTIMPL).                   *)
Units == {"TABLES", "SOS", "MCU", "EOI"}
ASSUME DecoderAssumption ==
  /\ \A im \in Images :
       /\ im.total \in Nat \ {0} /\ im.v \in 1..4 /\ im.m \in 1..16
       /\ im.height \in ((im.total - 1) * im.v * im.m + 1)..(im.total * im.v * im.m)
       /\ im.units \in Seq(Units) /\ im.scans \in Seq([mcus : Nat, rows : Nat, last : Nat])
       /\ Cardinality({i \in 1..Len(im.units) : im.units[i] = "SOS"}) <= Len(im.scans)
       /\ im.progressive \in BOOLEAN /\ im.multiple \in BOOLEAN
       /\ im.merged \in BOOLEAN /\ (im.merged => im.v <= 2)
  /\ \A m \in Modes :
       /\ m.buffered \in BOOLEAN /\ m.raw \in BOOLEAN /\ m.merged \in BOOLEAN
       /\ m.quant \in {"none", "one", "two"} /\ (m.raw => m.quant = "none")
  /\ \A f \in Frames : Accepted(f)
  /\ MaxLines \in Nat /\ MaxPasses \in Nat /\ MaxImages \in Nat
  /\ None \notin Nat \X Nat

VARIABLES image, mode,
          avail, pos,    \* units the source has delivered, units consumed
          global_state,
          call, ask,     \* the API call in progress, and the lines it asks for
          ip,            \* input side: the input controller and the coefficient controller
          op,            \* output side: coefficient, main, post controllers, upsampler, master
          delivered,     \* rows handed to the application in this output pass
          passes, images
vars == <<image, mode, avail, pos, global_state, call, ask, ip, op, delivered, passes, images>>
frame == <<image, mode, images>>

TotalRows == image.total     \* total_iMCU_rows
V == image.v                 \* max_v_samp_factor
M == image.m                 \* min_DCT_v_scaled_size
Height == image.height       \* output_height

Unit == IF pos < avail THEN image.units[pos + 1] ELSE "none"
FullBuffer == image.multiple \/ mode.buffered      \* use_c_buffer

-----------------------------------------------------------------------------
(* Input side *)

NoInput(im) ==     \* reset_input_controller
  [eoi |-> FALSE, inheaders |-> TRUE, data |-> FALSE, scan |-> 0, row |-> 0, mcu |-> 0, voff |-> 0,
   got |-> [r \in 0..im.total - 1 |-> 0]]

(* start_input_pass: consume_input becomes the coefficient controller's. *)
start_input_pass(i) == [i EXCEPT !.data = TRUE, !.row = 0, !.mcu = 0, !.voff = 0]

(* start_iMCU_row: MCU rows in this iMCU row. *)
MCU_rows(i) ==
  IF i.row < TotalRows - 1 THEN image.scans[i.scan].rows ELSE image.scans[i.scan].last

(* One decoded MCU, with the counters that let the loop resume after a      *)
(* suspension; the scan's last MCU ends the input pass.                     *)
NextMcu(i) ==
  IF i.mcu + 1 < image.scans[i.scan].mcus THEN [i EXCEPT !.mcu = @ + 1]
  ELSE IF i.voff + 1 < MCU_rows(i) THEN [i EXCEPT !.mcu = 0, !.voff = @ + 1]
  ELSE [i EXCEPT !.mcu = 0, !.voff = 0, !.row = @ + 1, !.got[i.row] = i.scan,
                 !.data = i.row + 1 < TotalRows]

(* Mutant: a pending output scan that never comes is left alone. *)
Mutant_consume_markers ==
  /\ ~ip.data /\ ~ip.eoi /\ Unit \in {"TABLES", "SOS", "EOI"}
  /\ pos' = pos + 1 /\ UNCHANGED op
  /\ ip' = CASE Unit = "TABLES" -> ip
             [] Unit = "EOI" -> [ip EXCEPT !.eoi = TRUE]
             [] Unit = "SOS" -> LET i == [ip EXCEPT !.scan = @ + 1, !.inheaders = FALSE]
                                IN  IF ip.inheaders THEN i ELSE start_input_pass(i)

(* consume_markers: one marker.  At EOI a pending output scan that never    *)
(* came is lowered to the last one read.                                    *)
consume_markers ==
  /\ ~ip.data /\ ~ip.eoi /\ Unit \in {"TABLES", "SOS", "EOI"}
  /\ pos' = pos + 1
  /\ \/ /\ Unit = "TABLES"
        /\ UNCHANGED <<ip, op>>
     \/ /\ Unit = "SOS"
        /\ ip' = LET i == [ip EXCEPT !.scan = @ + 1, !.inheaders = FALSE]
                 IN  IF ip.inheaders THEN i ELSE start_input_pass(i)
        /\ UNCHANGED op
     \/ /\ Unit = "EOI"
        /\ ip' = [ip EXCEPT !.eoi = TRUE]
        /\ op' = IF op.scan > ip.scan /\ ~ip.inheaders THEN [op EXCEPT !.scan = ip.scan] ELSE op

(* decode_mcu within consume_data or decompress_onepass.  A marker in the   *)
(* scan's data stays unread: the rest of the scan is decoded as zeros.      *)
consume_data ==
  /\ ip.data /\ Unit # "none"
  /\ pos' = IF Unit = "MCU" THEN pos + 1 ELSE pos
  /\ ip' = NextMcu(ip)
  /\ UNCHANGED op

Consume == (consume_markers \/ consume_data) /\ UNCHANGED <<frame, avail, ask, delivered, passes>>
Suspended == Unit = "none" /\ ~(ip.eoi /\ ~ip.data)

-----------------------------------------------------------------------------
(* Output side *)

NoOutput(im) ==
  [scan |-> 0, row |-> 0, line |-> 0, full |-> FALSE, group |-> 0, held |-> <<0, 0>>,
   next |-> 0, togo |-> 0, color |-> <<0, 0, 0>>, spare |-> None, dummy |-> FALSE, crank |-> FALSE,
   colormap |-> FALSE, smooth |-> FALSE, start |-> 0, strip |-> 0,
   saved |-> [r \in 0..im.v * im.m * im.total - 1 |-> None]]

(* The image row shown by row k of row group g of the iMCU row buf[1]. *)
RowOf(buf, g, k) == <<buf[1] * M * V + g * V + k, buf[2]>>

(* sep_upsample: fill the colour buffer from the next row group when it is  *)
(* used up, then convert as many of its rows as fit.                        *)
sep_upsample(o, room) ==
  LET o1 == IF o.next >= V THEN [o EXCEPT !.color = <<o.held[1], o.held[2], o.group>>, !.next = 0]
            ELSE o
      n == Min({V - o1.next, o1.togo, room})
  IN  [rows |-> [j \in 1..n |-> RowOf(o1.color, o1.color[3], o1.next + j - 1)],
       o |-> [o1 EXCEPT !.togo = @ - n, !.next = @ + n,
                        !.group = IF o1.next + n >= V THEN @ + 1 ELSE @]]

(* Mutant: the second row is dropped when there is no room for it. *)
Mutant_merged_2v_upsample(o, room) ==
  LET n == Min({2, o.togo, room})
  IN  [rows |-> [j \in 1..n |-> RowOf(o.held, o.group, j - 1)],
       o |-> [o EXCEPT !.togo = @ - n, !.group = @ + 1]]

(* merged_2v_upsample makes two rows at once and keeps the second one when  *)
(* there is room for one only; merged_1v_upsample makes one row.            *)
merged_2v_upsample(o, room) ==
  IF o.spare # None
  THEN [rows |-> <<o.spare>>, o |-> [o EXCEPT !.spare = None, !.togo = @ - 1, !.group = @ + 1]]
  ELSE LET n == Min({2, o.togo, room})
       IN  [rows |-> [j \in 1..n |-> RowOf(o.held, o.group, j - 1)],
            o |-> [o EXCEPT !.togo = @ - n, !.spare = IF n > 1 THEN None ELSE RowOf(o.held, o.group, 1),
                            !.group = IF n > 1 THEN @ + 1 ELSE @]]
merged_1v_upsample(o) ==
  [rows |-> <<RowOf(o.held, o.group, 0)>>, o |-> [o EXCEPT !.group = @ + 1]]
upsample(o, room) ==
  IF ~mode.merged THEN sep_upsample(o, room)
  ELSE IF V = 2 THEN merged_2v_upsample(o, room) ELSE merged_1v_upsample(o)

(* Mutant: the row group counter is not reset. *)
Mutant_Main(o) == IF o.group >= M THEN [o EXCEPT !.full = FALSE] ELSE o

(* process_data_simple_main: a row group used up, or the whole buffer. *)
Main(o) == IF o.group >= M THEN [o EXCEPT !.full = FALSE, !.group = 0] ELSE o

(* post_process_prepass: save the rows in the full-image buffer, strip by   *)
(* strip, and let the quantizer see them; nothing reaches the application.  *)
post_process_prepass(o) ==
  LET u == upsample(o, V - o.strip)  n == Len(u.rows)  at == o.start + o.strip
      wrap == o.strip + n >= V
  IN  [u.o EXCEPT !.saved = [r \in DOMAIN o.saved |->
                              IF r \in at..at + n - 1 THEN u.rows[r - at + 1] ELSE o.saved[r]],
                  !.strip = IF wrap THEN 0 ELSE @ + n,
                  !.start = IF wrap THEN @ + V ELSE @,
                  !.line = @ + n]

(* post_process_2pass: hand out saved rows, up to the end of the strip, of  *)
(* the room and of the image.                                               *)
post_process_2pass(o, room) ==
  LET n == Min({V - o.strip, room, Height - o.start})  wrap == o.strip + n >= V
  IN  [rows |-> [j \in 1..n |-> o.saved[o.start + o.strip + j - 1]],
       o |-> [o EXCEPT !.strip = IF wrap THEN 0 ELSE @ + n, !.start = IF wrap THEN @ + V ELSE @]]

(* post_process_1pass converts at most a strip of V rows at a time. *)
post_process(o, room) ==
  IF o.crank THEN post_process_2pass(o, room)
  ELSE LET u == upsample(o, IF mode.quant = "none" THEN room ELSE Min({room, V}))
       IN  [rows |-> u.rows, o |-> Main(u.o)]

(* smoothing_ok: a progressive image of which the DC values are known and   *)
(* some AC coefficients are not.                                            *)
smoothing_ok == image.progressive /\ ip.scan < Len(image.scans)

(* prepare_for_output_pass: the second half of a two-pass quantization, or  *)
(* a new pass over the coefficients.                                        *)
prepare_for_output_pass(o) ==
  IF o.dummy THEN [o EXCEPT !.dummy = FALSE, !.crank = TRUE, !.start = 0, !.strip = 0, !.line = 0]
  ELSE [o EXCEPT !.dummy = mode.quant = "two" /\ ~o.colormap, !.crank = FALSE,
                 !.row = 0, !.line = 0, !.full = FALSE, !.group = 0,
                 !.next = V, !.togo = Height, !.spare = None, !.start = 0, !.strip = 0,
                 !.smooth = FullBuffer /\ smoothing_ok]

(* Mutant: off by one, the row being decoded is taken for a decoded one. *)
Mutant_NeedInput ==
  IF ~FullBuffer THEN ip.row <= op.row
  ELSE /\ op.smooth => ~ip.eoi
       /\ ip.scan < op.scan
            \/ (ip.scan = op.scan /\ ip.row < op.row + (IF op.smooth THEN 2 ELSE 0))

(* Mutant: smoothing waits for the row it shows only. *)
Mutant_Smoothing ==
  IF ~FullBuffer THEN ip.row <= op.row
  ELSE /\ op.smooth => ~ip.eoi
       /\ ip.scan < op.scan \/ (ip.scan = op.scan /\ ip.row <= op.row)

(* The input a row of output still has to wait for: decompress_data wants   *)
(* the row of the output scan, decompress_smooth_data also the next row     *)
(* while DC values are read, decompress_onepass the row itself.             *)
NeedInput ==
  IF ~FullBuffer THEN ip.row <= op.row
  ELSE IF op.smooth
  THEN /\ ip.scan <= op.scan /\ ~ip.eoi
       /\ ~(ip.scan = op.scan /\ ip.row > op.row + (IF ip.scan = 1 THEN 1 ELSE 0))
  ELSE ip.scan < op.scan \/ (ip.scan = op.scan /\ ip.row <= op.row)

-----------------------------------------------------------------------------
(* use_merged_upsample takes row groups of one or two rows only. *)
ModesFor(im) == {m \in Modes : m.merged => im.merged}

(* API calls.  Return ends the call; the application may repeat it. *)

Return == call' = "none"
Idle == call = "none"

Init ==
  /\ image \in Images /\ mode \in ModesFor(image)
  /\ avail = 0 /\ pos = 0 /\ global_state = "START"
  /\ call = "none" /\ ask = 0 /\ ip = NoInput(image) /\ op = NoOutput(image) /\ delivered = <<>>
  /\ passes = 0 /\ images = 0

DataArrives ==
  /\ avail < Len(image.units)
  /\ avail' \in avail + 1..Len(image.units)
  /\ UNCHANGED <<frame, pos, global_state, call, ask, ip, op, delivered, passes>>

(* jpeg_read_header: reset on the first call, then markers up to the SOS. *)
jpeg_read_header ==
  /\ Idle /\ images < MaxImages
  /\ global_state \in {"START", "INHEADER"} /\ global_state' = "INHEADER"
  /\ call' = "read_header"
  /\ ip' = IF global_state = "START" THEN NoInput(image) ELSE ip
  /\ UNCHANGED <<frame, avail, pos, ask, op, delivered, passes>>

(* jpeg_start_decompress: master_selection starts the first input pass; a   *)
(* file with several scans is read to its end first.                        *)
jpeg_start_decompress ==
  /\ Idle /\ global_state \in {"READY", "PRELOAD"} \union (IF mode.buffered THEN {} ELSE {"PRESCAN"})
  /\ IF global_state = "READY" /\ mode.buffered
     THEN global_state' = "BUFIMAGE" /\ Return
     ELSE /\ global_state' = IF global_state = "READY" THEN "PRELOAD" ELSE global_state
          /\ call' = IF global_state = "PRESCAN" THEN "prescan" ELSE "preload"
  /\ ip' = IF global_state = "READY" THEN start_input_pass(ip) ELSE ip
  /\ UNCHANGED <<frame, avail, pos, ask, op, delivered, passes>>

(* jpeg_start_output: choose the scan to show, at most the last one known   *)
(* to exist; made again, for the same scan, after a suspension.             *)
jpeg_start_output ==
  /\ Idle /\ mode.buffered /\ global_state \in {"BUFIMAGE", "PRESCAN"}
  /\ passes < MaxPasses \/ global_state = "PRESCAN"
  /\ \E n \in 1..Len(image.scans) :
       LET o == [op EXCEPT !.scan = IF ip.eoi /\ n > ip.scan THEN ip.scan ELSE n]
       IN  IF global_state = "PRESCAN"
           THEN n = op.scan /\ op' = o /\ UNCHANGED <<passes, delivered>>
           ELSE op' = prepare_for_output_pass(o) /\ passes' = passes + 1 /\ delivered' = <<>>
  /\ global_state' = "PRESCAN" /\ call' = "prescan"
  /\ UNCHANGED <<frame, avail, pos, ask, ip>>

jpeg_read_scanlines ==
  /\ Idle /\ global_state = "SCANNING" /\ op.line < Height
  /\ ask' \in 1..MaxLines /\ call' = "read"
  /\ UNCHANGED <<frame, avail, pos, global_state, ip, op, delivered, passes>>

jpeg_read_raw_data ==
  /\ Idle /\ global_state = "RAW_OK" /\ op.line < Height
  /\ call' = "raw"
  /\ UNCHANGED <<frame, avail, pos, global_state, ask, ip, op, delivered, passes>>

(* jpeg_consume_input from the application, to read ahead of the output. *)
jpeg_consume_input ==
  /\ Idle /\ global_state \in {"PRELOAD", "PRESCAN", "SCANNING", "RAW_OK", "BUFIMAGE", "BUFPOST", "STOPPING"}
  /\ FullBuffer \/ ~ip.data           \* dummy_consume_data reads nothing
  /\ ~Suspended /\ ~ip.eoi
  /\ call' = "consume"
  /\ UNCHANGED <<frame, avail, pos, global_state, ask, ip, op, delivered, passes>>

(* jpeg_finish_output may end the pass before its last line. *)
jpeg_finish_output ==
  /\ Idle /\ mode.buffered /\ global_state \in {"SCANNING", "RAW_OK", "BUFPOST"}
  /\ global_state' = "BUFPOST" /\ call' = "finish_output"
  /\ UNCHANGED <<frame, avail, pos, ask, ip, op, delivered, passes>>

jpeg_finish_decompress ==
  /\ Idle
  /\ \/ global_state \in {"SCANNING", "RAW_OK"} /\ ~mode.buffered /\ op.line >= Height
     \/ global_state \in {"BUFIMAGE", "STOPPING"}
  /\ global_state' = "STOPPING" /\ call' = "finish"
  /\ UNCHANGED <<frame, avail, pos, ask, ip, op, delivered, passes>>

(* jpeg_abort: the image pool is released and the object can be used again, *)
(* with a new source.                                                       *)
Release ==
  /\ global_state' = "START" /\ Return /\ images' = images + 1 /\ UNCHANGED <<image, mode>>
  /\ avail' = 0 /\ pos' = 0 /\ delivered' = <<>> /\ passes' = 0 /\ ask' = 0
  /\ ip' = NoInput(image) /\ op' = NoOutput(image)
jpeg_abort_decompress == Idle /\ global_state # "START" /\ Release

-----------------------------------------------------------------------------
(* What the calls in progress do, one unit or one row at a time. *)

(* The call's next act is to fill the main controller's buffer. *)
NeedsRow == /\ call \in {"prescan", "read", "raw"} /\ ~op.full /\ ~op.crank
            /\ call = "prescan" => op.dummy /\ op.line < Height

(* A call that needs input and finds none returns without having moved. *)
Suspend ==
  /\ Suspended
  /\ \/ call \in {"read_header", "consume"}
     \/ (call = "preload" /\ image.multiple /\ ~ip.eoi)
     \/ (NeedsRow /\ NeedInput)
     \/ (call = "finish_output" /\ ip.scan <= op.scan /\ ~ip.eoi)
     \/ (call = "finish" /\ ~ip.eoi)
  /\ Return
  /\ UNCHANGED <<frame, avail, pos, global_state, ask, ip, op, delivered, passes>>

HeaderStep ==
  /\ call = "read_header" /\ consume_markers
  /\ IF ip'.inheaders THEN UNCHANGED <<global_state, call>> ELSE global_state' = "READY" /\ Return
  /\ UNCHANGED <<frame, avail, ask, delivered, passes>>

(* One call of consume_input: up to the end of an iMCU row or to a marker   *)
(* that starts or ends a scan.                                              *)
ConsumeStep ==
  /\ call = "consume" /\ Consume
  /\ call' = IF ip'.row # ip.row \/ ip'.data # ip.data \/ ip'.eoi THEN "none" ELSE call
  /\ UNCHANGED global_state

(* jpeg_start_decompress: absorb the whole file, then set up the pass. *)
PreloadStep ==
  /\ call = "preload"
  /\ IF image.multiple /\ ~ip.eoi
     THEN Consume /\ UNCHANGED <<global_state, call>>
     ELSE /\ op' = prepare_for_output_pass([op EXCEPT !.scan = ip.scan])
          /\ global_state' = "PRESCAN" /\ call' = "prescan" /\ delivered' = <<>>
          /\ UNCHANGED <<frame, avail, pos, ask, ip, passes>>

(* decompress_data and its variants: more input, or the next iMCU row. *)
FillMain ==
  /\ NeedsRow
  /\ IF NeedInput THEN Consume
     ELSE /\ op' = [op EXCEPT !.full = TRUE, !.row = @ + 1,
                              !.held = <<op.row, IF FullBuffer THEN ip.got[op.row] ELSE 1>>]
          /\ UNCHANGED <<frame, avail, pos, ask, ip, delivered, passes>>
  /\ UNCHANGED <<global_state, call>>

(* output_pass_setup's loop over the dummy pass of a two-pass quantization, *)
(* then on to real output.                                                  *)
PrescanStep ==
  /\ call = "prescan"
  /\ IF op.dummy /\ op.line < Height
     THEN op.full /\ op' = Main(post_process_prepass(op)) /\ UNCHANGED <<global_state, call>>
     ELSE IF op.dummy
     THEN op' = prepare_for_output_pass([op EXCEPT !.colormap = TRUE]) /\ UNCHANGED <<global_state, call>>
     ELSE global_state' = (IF mode.raw THEN "RAW_OK" ELSE "SCANNING") /\ Return /\ UNCHANGED op
  /\ UNCHANGED <<frame, avail, pos, ask, ip, delivered, passes>>

ReadStep ==
  /\ call = "read" /\ (op.full \/ op.crank)
  /\ LET p == post_process(op, ask)
     IN  op' = [p.o EXCEPT !.line = @ + Len(p.rows)] /\ delivered' = delivered \o p.rows
  /\ Return
  /\ UNCHANGED <<frame, avail, pos, global_state, ask, ip, passes>>

(* jpeg_read_raw_data hands out a whole iMCU row, past the bottom if need be. *)
RawStep ==
  /\ call = "raw" /\ op.full
  /\ op' = [op EXCEPT !.full = FALSE, !.line = @ + V * M]
  /\ delivered' = delivered \o [j \in 1..V * M |-> RowOf(op.held, 0, j - 1)]
  /\ Return
  /\ UNCHANGED <<frame, avail, pos, global_state, ask, ip, passes>>

FinishOutputStep ==
  /\ call = "finish_output"
  /\ IF ip.scan <= op.scan /\ ~ip.eoi THEN Consume /\ UNCHANGED <<global_state, call>>
     ELSE /\ global_state' = "BUFIMAGE" /\ Return
          /\ UNCHANGED <<frame, avail, pos, ask, ip, op, delivered, passes>>

(* jpeg_finish_decompress: read on to the EOI, then release the image. *)
FinishStep ==
  /\ call = "finish"
  /\ IF ~ip.eoi THEN Consume /\ UNCHANGED <<global_state, call>> ELSE Release

Step == \/ Suspend \/ HeaderStep \/ ConsumeStep \/ PreloadStep \/ FillMain \/ PrescanStep
        \/ ReadStep \/ RawStep \/ FinishOutputStep \/ FinishStep
(* The calls that take the application through an image. *)
Drive == \/ jpeg_read_header \/ jpeg_start_decompress \/ jpeg_read_scanlines \/ jpeg_read_raw_data
         \/ jpeg_start_output \/ jpeg_finish_output \/ jpeg_finish_decompress
Next == DataArrives \/ Step \/ Drive \/ jpeg_consume_input \/ jpeg_abort_decompress
Spec == Init /\ [][Next]_vars

(* The application's thread goes on making calls, and the source goes on    *)
(* delivering; nothing makes one call rather than another.                  *)
FairSpec == Spec /\ WF_vars(Step \/ Drive \/ jpeg_consume_input) /\ WF_vars(DataArrives)

-----------------------------------------------------------------------------
Row == (0..TotalRows * V * M - 1) \X (0..Len(image.scans))

(* Types of the decompressor's state. *)
TypeOK ==
  /\ mode \in ModesFor(image) /\ pos \in 0..avail /\ avail \in 0..Len(image.units)
  /\ global_state \in {"START", "INHEADER", "READY", "PRELOAD", "PRESCAN", "SCANNING", "RAW_OK",
                       "BUFIMAGE", "BUFPOST", "STOPPING"}
  /\ call \in {"none", "read_header", "preload", "prescan", "read", "raw", "consume",
               "finish_output", "finish"}
  /\ ip.row \in 0..TotalRows /\ ip.scan \in 0..Len(image.scans) /\ op.row \in 0..TotalRows
  /\ op.group \in 0..M - 1 /\ op.strip \in 0..V - 1 /\ op.togo \in 0..Height
  /\ \A r \in DOMAIN op.saved : op.saved[r] \in Row \union {None}
  /\ passes \in 0..MaxPasses /\ images \in 0..MaxImages

(* However the source chops the file, however many lines the application    *)
(* asks for at once and whatever buffers lie between (spare row, colour     *)
(* buffer, strip, full image), scanlines come out once each, in order, and  *)
(* never past the image's last line, but where post_process_2pass lets      *)
(* them: it bounds the rows it emits by those from the start of the strip   *)
(* to the bottom, not from next_row, so that a last strip of more than two  *)
(* rows may add padding.                                                    *)
PastBottom ==
  LET left == ((Height - 1) % V) + 1
  IN  IF mode.quant = "two" THEN Min({V - left, left - 1}) ELSE 0
RowsInOrder ==
  global_state = "SCANNING" =>
    /\ Len(delivered) = op.line /\ op.line <= Height + PastBottom
    /\ \A i \in 1..Min({Height, op.line}) : delivered[i] # None /\ delivered[i][1] = i - 1

(* A row shows the scan the application asked for, or a later one: output   *)
(* never overtakes the input it depends on.                                 *)
ShowsRequestedScan ==
  global_state \in {"SCANNING", "RAW_OK"} =>
    \A i \in DOMAIN delivered : delivered[i] # None => delivered[i][2] >= op.scan

(* Interblock smoothing reads DC values of the next iMCU row, which must    *)
(* have been decoded by then.                                               *)
SmoothingSeesNeighbours ==
  [][op.smooth /\ ~op.full /\ op'.full /\ op.row + 1 < TotalRows => ip.got[op.row + 1] # 0]_vars

(* Whatever the sampling factors, the block size and the scale, every       *)
(* component gets a size there is an IDCT for; the MCUs of a scan, one      *)
(* component or all, output every block of the image once and no dummy one; *)
(* and the planes, upsampled, reach the output's last row and column.  One  *)
(* initial state is enough to evaluate it.                                  *)
Kernels == {s \in [h : 1..16, v : 1..16] : s.h = s.v \/ s.h = 2 * s.v \/ s.v = 2 * s.h}
EveryBlockOnce(f, S) ==
  \A c \in S :
    LET MCUs == {m \in (0..total_iMCU_rows(f) - 1) \X (0..3) \X (0..MCUs_per_row(f, S) - 1) :
                   m[2] < MCU_rows_per_iMCU_row(f, S, m[1])}
        Out(m) == OutputBlocks(f, S, c, m[1], m[2], m[3])
        Grid == [row : 0..size_in_blocks(f, c, "v") - 1, col : 0..size_in_blocks(f, c, "h") - 1]
    IN  /\ UNION {Out(m) : m \in MCUs} = Grid
        /\ \A m, k \in MCUs : Out(m) \cap Out(k) # {} => m = k
PlaneReachesEnd(f, c, d) ==
  /\ size_in_blocks(f, c, d) * DCT_scaled_size(f, c)[d] >= downsampled_size(f, c, d)
  /\ downsampled_size(f, c, d) * (max_samp_factor(f, d) \div in_group(f, c, d)) >= output_size(f, d)
LayoutCoversImage ==
  (avail = 0 /\ global_state = "START" /\ mode.quant = "two" /\ image.m = 2) =>
    \A f \in Frames :
      /\ \A c \in DOMAIN f.comps :
           /\ DCT_scaled_size(f, c) \in Kernels /\ EveryBlockOnce(f, {c})
           /\ (\A d \in {"h", "v"} : max_samp_factor(f, d) % f.comps[c][d] = 0) =>
                Upsampled(f, c) /\ \A d \in {"h", "v"} : PlaneReachesEnd(f, c, d)
      /\ MCU_fits(f, DOMAIN f.comps) => EveryBlockOnce(f, DOMAIN f.comps)

(* An image that was begun is released, complete or truncated: no call      *)
(* waits for input that will not come.                                      *)
Finishes == global_state # "START" ~> global_state = "START"
========================================================================
