------------------------- MODULE CompressMaster -------------------------
(* jcmaster.c: which scans a compression writes (ScanScripts) and the       *)
(* passes it takes, with the calls of jcapistd.c and jcapimin.c that drive  *)
(* it.                                                                      *)
(* The application asks for an image [blocks, lim_Se, quant, restart,       *)
(* scan_info, optimize, tables, ...]; scan_info <<>> is no script.          *)
EXTENDS MarkerWriter, ScanScripts
ArithEnc == INSTANCE ArithmeticEncoder

-----------------------------------------------------------------------------
(* A piece of the file is a header, or the entropy-coded segment seg of     *)
(* scan n, with the restart marker that precedes it unless it is the        *)
(* scan's first.                                                            *)
Header(bytes) == [scan |-> 0, seg |-> 0, rst |-> <<>>, bytes |-> bytes]
PutHeader(c, bytes) == [c EXCEPT !.pieces = Append(@, Header(bytes))]

(* jinit_c_master_control: c is the image with the mode and script that     *)
(* will be used, and the master's state.                                    *)
jinit_c_master_control(request) ==
  LET progressive == request.scan_info # <<>> /\ progressive_mode(request.scan_info)
      small == BlockSize(request.lim_Se) < 8
      script == IF request.scan_info = <<>> THEN <<>>
                ELSE IF small THEN reduce_script(request.scan_info, request.lim_Se)
                ELSE request.scan_info
      num_scans == IF script = <<>> THEN 1 ELSE Len(script)
      optimize == request.optimize \/ ((progressive \/ small) /\ ~request.arith)
  IN  [image |-> [request EXCEPT !.scan_info = script, !.progressive = progressive,
                                 !.optimize = optimize],
       pass_type |-> "main", scan_number |-> 0, pass_number |-> 0, is_last_pass |-> FALSE,
       total_passes |-> IF optimize THEN 2 * num_scans ELSE num_scans,
       gather |-> FALSE, call_pass_startup |-> FALSE, scan |-> <<>>,
       tables |-> request.tables, last_restart_interval |-> 0, pieces |-> <<>>]

select_scan_parameters(c) ==
  [c EXCEPT !.scan = IF c.image.progressive THEN c.image.scan_info[c.scan_number + 1]
                     ELSE Scan(<<1>>, 0, c.image.lim_Se, 0, 0)]

PutScanHeader(c) ==
  [PutHeader(c, write_scan_header(c.image, c.scan, c.tables, c.last_restart_interval))
     EXCEPT !.tables.sent = @ \union Used(c.scan), !.last_restart_interval = c.image.restart]
pass_startup(c) ==
  PutScanHeader(PutHeader([c EXCEPT !.call_pass_startup = FALSE], write_frame_header(c.image)))

(* The entropy coder's start_pass, what it changes outside the coder.       *)
StartCoder(c) ==
  IF c.image.arith THEN [c EXCEPT !.image.cond.K = ArithEnc!arith_ac_K(c.image, c.scan)] ELSE c

(* The main pass of optimized coding and huff_opt passes gather statistics; *)
(* a DC refinement has no use for them, and is output at once.              *)
prepare_for_pass(c) ==
  LET main == c.pass_type = "main"
      selected == IF c.pass_type = "output" /\ c.image.optimize THEN c ELSE select_scan_parameters(c)
      skip == c.pass_type = "huff_opt" /\ selected.scan.Ss = 0 /\ selected.scan.Ah # 0
      p == StartCoder(IF skip THEN [selected EXCEPT !.pass_type = "output", !.pass_number = @ + 1]
                      ELSE selected)
      framed == IF p.scan_number = 0 THEN PutHeader(p, write_frame_header(p.image)) ELSE p
  IN  [IF p.pass_type = "output" THEN PutScanHeader(framed) ELSE p
         EXCEPT !.gather = p.pass_type = "huff_opt" \/ (main /\ p.image.optimize),
                !.call_pass_startup = main /\ ~p.image.optimize,
                !.is_last_pass = p.pass_number = p.total_passes - 1]

(* The data of a pass, from first iMCU row to last.                         *)
PutSegments(c, segs) ==
  LET piece(i) == [scan |-> c.scan_number + 1, seg |-> i, bytes |-> segs[i].bytes,
                   rst |-> IF i = 1 THEN <<>> ELSE emit_marker(M.RST0 + segs[i].rst)]
  IN  [c EXCEPT !.pieces = @ \o [i \in DOMAIN segs |-> piece(i)]]
compress_data(c) ==
  IF c.gather THEN c
  ELSE IF c.image.arith THEN PutSegments(c, ArithEnc!Segments(c.image, c.scan))
  ELSE PutSegments(c, Segments(c.image, c.scan, c.tables))

finish_pass_master(c) ==
  LET optimize == c.image.optimize
      scan_done == c.pass_type = "output" \/ (c.pass_type = "main" /\ ~optimize)
  IN  [c EXCEPT !.tables = IF c.gather THEN finish_pass_gather(c.image, c.scan, @) ELSE @,
                !.scan_number = IF scan_done THEN @ + 1 ELSE @,
                !.pass_type = IF c.pass_type = "output" /\ optimize THEN "huff_opt" ELSE "output",
                !.pass_number = @ + 1]

(* The loop of jpeg_finish_compress.                                        *)
RECURSIVE LastPasses(_)
LastPasses(c) ==
  IF c.is_last_pass THEN c
  ELSE LastPasses(finish_pass_master(compress_data(prepare_for_pass(c))))

(* jpeg_start_compress, the markers of the application, the scanlines of    *)
(* the whole image, jpeg_finish_compress.                                   *)
jpeg_start_compress(c) == prepare_for_pass(PutHeader(c, write_file_header(c.image)))
jpeg_write_scanlines(c) == compress_data(IF c.call_pass_startup THEN pass_startup(c) ELSE c)
jpeg_finish_compress(c) == PutHeader(LastPasses(finish_pass_master(c)), write_file_trailer)
Compress(request) ==
  jpeg_finish_compress(jpeg_write_scanlines(
    PutHeader(jpeg_start_compress(jinit_c_master_control(request)), request.extra)))
FileOf(pieces) == FlattenSeq([i \in DOMAIN pieces |-> pieces[i].rst \o pieces[i].bytes])
=========================================================================
