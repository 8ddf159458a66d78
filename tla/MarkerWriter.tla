-------------------------- MODULE MarkerWriter --------------------------
(* jcmarker.c: the markers around the entropy-coded segments, as bytes.     *)
(* The frame has one component, with one MCU per block in a single row.     *)
EXTENDS HuffmanEncoder

emit_2bytes(v) == <<v \div 256, v % 256>>
emit_marker(mark) == <<255, mark>>
(* jpeg_write_marker; its length counts itself.                             *)
write_marker_header(marker, datalen) == emit_marker(marker) \o emit_2bytes(datalen + 2)
Marker(marker, data) == write_marker_header(marker, Len(data)) \o data

emit_jfif_app0(unit, x, y) ==
  Marker(M.APP0, JFIF \o <<1, 1, unit>> \o emit_2bytes(x) \o emit_2bytes(y) \o <<0, 0>>)
emit_adobe_app14(transform) == Marker(M.APP14, ADOBE \o <<0, 100, 0, 0, 0, 0, transform>>)

prec(quant) == IF \E i \in DOMAIN quant : quant[i] > 255 THEN 1 ELSE 0
emit_dqt(index, quant) ==
  Marker(M.DQT, <<index + 16 * prec(quant)>> \o
                FlattenSeq([i \in DOMAIN quant |->
                  IF prec(quant) = 1 THEN emit_2bytes(quant[i]) ELSE <<quant[i]>>]))
emit_dht(index, is_ac, tbl) ==
  Marker(M.DHT, <<index + IF is_ac THEN 16 ELSE 0>> \o tbl.bits \o tbl.vals)
(* One marker with the conditioning <<index, value>> of every table used.   *)
emit_dac(entries) == IF entries = <<>> THEN <<>> ELSE Marker(M.DAC, FlattenSeq(entries))
emit_dri(interval) == Marker(M.DRI, emit_2bytes(interval))
emit_sof(code, height, width, id, quant_tbl_no) ==
  Marker(code, <<8>> \o emit_2bytes(height) \o emit_2bytes(width) \o <<1, id, 17, quant_tbl_no>>)
emit_sos(scan, id) == Marker(M.SOS, <<1, id, 0, scan.Ss, scan.Se, 16 * scan.Ah + scan.Al>>)
emit_pseudo_sos(lim_Se) == Marker(M.SOS, <<0, 0, lim_Se, 0>>)

BlockSize(lim_Se) == CHOOSE n \in 1..8 : n * n = lim_Se + 1

write_file_header(image) ==
  emit_marker(M.SOI)
    \o (IF image.jfif THEN emit_jfif_app0(1, 72, 300) ELSE <<>>)
    \o (IF image.adobe THEN emit_adobe_app14(1) ELSE <<>>)

write_frame_header(image) ==
  LET n == BlockSize(image.lim_Se)
      is_baseline == ~image.arith /\ ~image.progressive /\ n = 8 /\ prec(image.quant) = 0
      code == IF image.arith THEN IF image.progressive THEN M.SOF10 ELSE M.SOF9
              ELSE IF image.progressive THEN M.SOF2 ELSE IF is_baseline THEN M.SOF0 ELSE M.SOF1
  IN  emit_dqt(0, image.quant)
        \o emit_sof(code, n, n * Len(image.blocks), 1, 0)
        \o (IF image.progressive /\ n # 8 THEN emit_pseudo_sos(image.lim_Se) ELSE <<>>)

(* Tables the scan uses are written unless sent before, conditioning        *)
(* always, and the restart interval when it is not the last one written.    *)
write_scan_header(image, scan, tables, last_restart_interval) ==
  LET unsent == IF image.arith THEN {} ELSE Used(scan) \ tables.sent
      conditioned == IF image.arith THEN Used(scan) ELSE {}
  IN  emit_dac((IF "dc" \in conditioned THEN <<<<0, image.cond.L + 16 * image.cond.U>>>> ELSE <<>>)
                 \o IF "ac" \in conditioned THEN <<<<16, image.cond.K>>>> ELSE <<>>)
        \o (IF "dc" \in unsent THEN emit_dht(0, FALSE, tables.dc) ELSE <<>>)
        \o (IF "ac" \in unsent THEN emit_dht(0, TRUE, tables.ac) ELSE <<>>)
        \o (IF image.restart # last_restart_interval THEN emit_dri(image.restart) ELSE <<>>)
        \o emit_sos(scan, 1)

write_file_trailer == emit_marker(M.EOI)
=========================================================================
