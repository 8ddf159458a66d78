-------------------------- MODULE MarkerReader --------------------------
(* jdmarker.c: reading markers from a source that may run out of data.      *)
(* file is the whole stream and avail what the source has handed over so    *)
(* far; a routine that needs a byte it does not have returns "suspended"    *)
(* and, after more data came, is called again and starts over from pos, the *)
(* place of its last INPUT_SYNC, with the tables it stored meanwhile.       *)
(* m is the part of cinfo and of the marker reader these routines change,   *)
(* with ret the outcome: "ok", "suspended", "SOS", "EOI" or an error.       *)
(* Quantization values are kept by place; a place not mentioned is 1.       *)
(* Abstracted: components but the first one's data, and warnings.           *)
EXTENDS HuffmanTables, Functions

VARIABLES file, avail

Byte(p) == file[p + 1]
Word(p) == 256 * Byte(p) + Byte(p + 1)
Slice(p, n) == SubSeq(file, p + 1, p + n)
Has(p, n) == p + n <= avail

Return(m, ret) == [m EXCEPT !.ret = ret]
Suspend(m) == Return(m, "suspended")
Done(m, n) == [m EXCEPT !.ret = "ok", !.pos = @ + n]
(* src->skip_input_data: to where the data may not have come yet.           *)
skip_input_data(m, n) == [m EXCEPT !.pos = @ + IF n > 0 THEN n ELSE 0]

SavedCodes == {M.COM} \union (M.APP0..M.APP0 + 15)

reset_marker_reader ==
  [ret |-> "ok", pos |-> 0, unread_marker |-> 0, saw_SOI |-> FALSE, saw_SOF |-> FALSE,
   discarded_bytes |-> 0, cur_marker |-> <<>>, input_scan_number |-> 0,
   next_restart_num |-> 0, marker_list |-> <<>>, limit |-> [c \in SavedCodes |-> 0],
   dc_huff_tbls |-> <<>>, ac_huff_tbls |-> <<>>, quant_tbls |-> <<>>,
   arith |-> <<>>, restart_interval |-> 0, jfif |-> <<>>, adobe |-> <<>>,
   frame |-> <<>>, scan |-> <<>>]

(* An APP0 or APP14 that is saved at all is saved far enough to be         *)
(* examined.                                                                *)
jpeg_save_markers(m, code, length) ==
  LET least == IF code = M.APP0 THEN 14 ELSE IF code = M.APP14 THEN 12 ELSE 0
  IN  [m EXCEPT !.limit[code] = IF length > 0 THEN Max({length, least}) ELSE 0]

--------------------------------------------------------------------------
get_soi(m) ==
  IF m.saw_SOI THEN Return(m, "SOI_DUPLICATE")
  ELSE [m EXCEPT !.ret = "ok", !.saw_SOI = TRUE, !.restart_interval = 0,
                 !.arith = <<>>, !.jfif = <<>>, !.adobe = <<>>]

get_sof(m, is_baseline, is_prog, is_arith) ==
  LET p == m.pos
      num_components == Byte(p + 7)
      length == 8 + 3 * num_components
      component(i) == [id |-> Byte(p + 5 + 3 * i), samp |-> Byte(p + 6 + 3 * i),
                       tq |-> Byte(p + 7 + 3 * i)]
  IN  IF ~Has(p, 8) THEN Suspend(m)
      ELSE IF m.saw_SOF THEN Return(m, "SOF_DUPLICATE")
      ELSE IF 0 \in {Word(p + 3), Word(p + 5), num_components} THEN Return(m, "EMPTY_IMAGE")
      ELSE IF Word(p) # length THEN Return(m, "BAD_LENGTH")
      ELSE IF ~Has(p, length) THEN Suspend(m)
      ELSE [Done(m, length) EXCEPT
              !.saw_SOF = TRUE,
              !.frame = [baseline |-> is_baseline, progressive |-> is_prog, arith |-> is_arith,
                         precision |-> Byte(p + 2), height |-> Word(p + 3),
                         width |-> Word(p + 5),
                         comps |-> [i \in 1..num_components |-> component(i)]]]

(* The components are looked up one after the other as their bytes come.    *)
get_sos(m) ==
  LET p == m.pos
      n == Byte(p + 2)
      id(i) == Byte(p + 1 + 2 * i)
      unknown == \E i \in 1..n : /\ Has(p, 3 + 2 * i)
                                 /\ \A c \in Range(m.frame.comps) : c.id # id(i)
      q == p + 3 + 2 * n
  IN  IF ~m.saw_SOF THEN Return(m, "SOS_NO_SOF")
      ELSE IF ~Has(p, 3) THEN Suspend(m)
      ELSE IF Word(p) # 2 * n + 6 \/ n > 4 \/ (n = 0 /\ ~m.frame.progressive)
      THEN Return(m, "BAD_LENGTH")
      ELSE IF unknown THEN Return(m, "BAD_COMPONENT_ID")
      ELSE IF ~Has(q, 3) THEN Suspend(m)
      ELSE [Done(m, 6 + 2 * n) EXCEPT
              !.scan = [comps |-> [i \in 1..n |->
                                     [id |-> id(i), dc |-> Byte(p + 2 + 2 * i) \div 16,
                                      ac |-> Byte(p + 2 + 2 * i) % 16]],
                        Ss |-> Byte(q), Se |-> Byte(q + 1),
                        Ah |-> Byte(q + 2) \div 16, Al |-> Byte(q + 2) % 16],
              !.next_restart_num = 0,
              !.input_scan_number = IF n > 0 THEN @ + 1 ELSE @]

(* In the three loops below q is the local read position and length what    *)
(* the marker still announces.  An entry is stored when it is complete;     *)
(* pos moves when the marker is.                                            *)
Finished(m, q, length) == IF length # 0 THEN Return(m, "BAD_LENGTH") ELSE Done(m, q - m.pos)

RECURSIVE DacEntries(_, _, _)
DacEntries(m, q, length) ==
  LET index == Byte(q)  val == Byte(q + 1)
  IN  IF length <= 0 THEN Finished(m, q, length)
      ELSE IF ~Has(q, 2) THEN Suspend(m)
      ELSE IF index >= 32 THEN Return(m, "DAC_INDEX")
      ELSE IF index < 16 /\ val % 16 > val \div 16 THEN Return(m, "DAC_VALUE")
      ELSE DacEntries([m EXCEPT !.arith = (index :> val) @@ @], q + 2, length - 2)

RECURSIVE HuffmanEntries(_, _, _)
HuffmanEntries(m, q, length) ==
  LET bits == Slice(q + 1, 16)
      count == FoldLeft(+, 0, bits)
      index == Byte(q) % 16
      tbl == [bits |-> bits, vals |-> Slice(q + 17, count)]
      rest(n) == HuffmanEntries(n, q + 17 + count, length - 17 - count)
  IN  IF length <= 16 THEN Finished(m, q, length)
      ELSE IF ~Has(q, 17) THEN Suspend(m)
      ELSE IF count > 256 \/ count > length - 17 THEN Return(m, "BAD_HUFF_TABLE")
      ELSE IF ~Has(q, 17 + count) THEN Suspend(m)
      ELSE IF Byte(q) >= 32 \/ index >= 4 THEN Return(m, "DHT_INDEX")
      ELSE IF Byte(q) >= 16 THEN rest([m EXCEPT !.ac_huff_tbls = (index :> tbl) @@ @])
      ELSE rest([m EXCEPT !.dc_huff_tbls = (index :> tbl) @@ @])

(* A table shorter than 64 entries takes all the marker has left, the other *)
(* values become 1; values read before a suspension are already in place.   *)
RECURSIVE QuantEntries(_, _, _)
QuantEntries(m, q, length) ==
  LET n == Byte(q) % 16
      width == IF Byte(q) < 16 THEN 1 ELSE 2
      left == length - 1
      short == left < 64 * width
      count == IF short THEN left \div width ELSE 64
      got == Min({count, (avail - q - 1) \div width})
      value(i) == IF width = 1 THEN Byte(q + i) ELSE Word(q + 2 * i - 1)
      order == OrderFor(count)
      old == IF ~short /\ n \in DOMAIN m.quant_tbls THEN m.quant_tbls[n] ELSE <<>>
      read == [place \in {order[i] : i \in 1..got} |->
                 value(CHOOSE i \in 1..got : order[i] = place)]
      stored == [m EXCEPT !.quant_tbls = (n :> (read @@ old)) @@ @]
  IN  IF length <= 0 THEN Finished(m, q, length)
      ELSE IF ~Has(q, 1) THEN Suspend(m)
      ELSE IF n >= 4 THEN Return(m, "DQT_INDEX")
      ELSE IF got < count THEN Suspend(stored)
      ELSE QuantEntries(stored, q + 1 + width * count, left - width * count)

Announced(m) == Word(m.pos) - 2
get_dac(m) == IF Has(m.pos, 2) THEN DacEntries(m, m.pos + 2, Announced(m)) ELSE Suspend(m)
get_dht(m) == IF Has(m.pos, 2) THEN HuffmanEntries(m, m.pos + 2, Announced(m)) ELSE Suspend(m)
get_dqt(m) == IF Has(m.pos, 2) THEN QuantEntries(m, m.pos + 2, Announced(m)) ELSE Suspend(m)

get_dri(m) ==
  IF ~Has(m.pos, 2) THEN Suspend(m)
  ELSE IF Word(m.pos) # 4 THEN Return(m, "BAD_LENGTH")
  ELSE IF ~Has(m.pos, 4) THEN Suspend(m)
  ELSE [Done(m, 4) EXCEPT !.restart_interval = Word(m.pos + 2)]

--------------------------------------------------------------------------
examine_app0(m, data) ==
  IF Len(data) >= 14 /\ IsPrefix(JFIF, data)
  THEN [m EXCEPT !.jfif = [major |-> data[6], minor |-> data[7], unit |-> data[8],
                           x |-> 256 * data[9] + data[10], y |-> 256 * data[11] + data[12]]]
  ELSE m
examine_app14(m, data) ==
  IF Len(data) >= 12 /\ IsPrefix(ADOBE, data)
  THEN [m EXCEPT !.adobe = [transform |-> data[12]]] ELSE m
Examine(m, data) ==
  IF m.unread_marker = M.APP0 THEN examine_app0(m, data)
  ELSE IF m.unread_marker = M.APP14 THEN examine_app14(m, data) ELSE m

get_interesting_appn(m) ==
  LET length == Word(m.pos) - 2
      numtoread == Max({0, Min({14, length})})
  IN  IF ~Has(m.pos, 2) \/ ~Has(m.pos, 2 + numtoread) THEN Suspend(m)
      ELSE skip_input_data(Done(Examine(m, Slice(m.pos + 2, numtoread)), 2 + numtoread),
                           length - numtoread)

skip_variable(m) ==
  IF ~Has(m.pos, 2) THEN Suspend(m)
  ELSE skip_input_data(Done(m, 2), Word(m.pos) - 2)

(* A saved marker keeps its progress across suspensions.                    *)
Collect(m) ==
  LET cur == m.cur_marker
      take == Min({cur.data_length - Len(cur.data), Max({0, avail - m.pos})})
      data == cur.data \o Slice(m.pos, take)
      moved == [m EXCEPT !.pos = @ + take]
  IN  IF Len(data) < cur.data_length
      THEN Suspend([moved EXCEPT !.cur_marker.data = data])
      ELSE skip_input_data(
             Done(Examine([moved EXCEPT
                             !.marker_list = Append(@, [marker |-> m.unread_marker,
                                                        original_length |-> cur.original_length,
                                                        data |-> data]),
                             !.cur_marker = <<>>], data), 0),
             cur.original_length - cur.data_length)
save_marker(m) ==
  LET length == Word(m.pos) - 2
  IN  IF m.cur_marker # <<>> THEN Collect(m)
      ELSE IF ~Has(m.pos, 2) THEN Suspend(m)
      ELSE IF length < 0 THEN Done(m, 2)
      ELSE Collect([m EXCEPT !.pos = @ + 2,
                             !.cur_marker = [original_length |-> length, data |-> <<>>,
                                data_length |-> Min({length, m.limit[m.unread_marker]})]])

(* process_APPn and process_COM.                                            *)
process_marker(m) ==
  IF m.limit[m.unread_marker] > 0 THEN save_marker(m)
  ELSE IF m.unread_marker \in {M.APP0, M.APP14} THEN get_interesting_appn(m)
  ELSE skip_variable(m)

--------------------------------------------------------------------------
(* The first place from p on that holds no FF, as far as the data goes.     *)
PastFill(p) == CHOOSE q \in p..Max({p, avail}) :
                 /\ \A i \in p..q - 1 : Byte(i) = 255
                 /\ q >= avail \/ Byte(q) # 255

RECURSIVE next_marker(_)
next_marker(m) ==
  LET q == PastFill(m.pos)
  IN  IF ~Has(m.pos, 1) THEN Suspend(m)
      ELSE IF q = m.pos THEN next_marker([m EXCEPT !.pos = @ + 1, !.discarded_bytes = @ + 1])
      ELSE IF ~Has(q, 1) THEN Suspend(m)
      ELSE IF Byte(q) = 0 THEN next_marker([m EXCEPT !.pos = q + 1, !.discarded_bytes = @ + 2])
      ELSE [m EXCEPT !.ret = "ok", !.pos = q + 1, !.unread_marker = Byte(q),
                     !.discarded_bytes = 0]

first_marker(m) ==
  IF ~Has(m.pos, 2) THEN Suspend(m)
  ELSE IF Slice(m.pos, 2) # <<255, M.SOI>> THEN Return(m, "NO_SOI")
  ELSE [Done(m, 2) EXCEPT !.unread_marker = M.SOI]

Process(m) ==
  LET code == m.unread_marker
  IN  IF code = M.SOI THEN get_soi(m)
      ELSE IF code = M.SOF0 THEN get_sof(m, TRUE, FALSE, FALSE)
      ELSE IF code = M.SOF1 THEN get_sof(m, FALSE, FALSE, FALSE)
      ELSE IF code = M.SOF2 THEN get_sof(m, FALSE, TRUE, FALSE)
      ELSE IF code = M.SOF9 THEN get_sof(m, FALSE, FALSE, TRUE)
      ELSE IF code = M.SOF10 THEN get_sof(m, FALSE, TRUE, TRUE)
      ELSE IF code = M.SOS THEN get_sos(m)
      ELSE IF code = M.EOI THEN Return(m, "ok")
      ELSE IF code = M.DAC THEN get_dac(m)
      ELSE IF code = M.DHT THEN get_dht(m)
      ELSE IF code = M.DQT THEN get_dqt(m)
      ELSE IF code = M.DRI THEN get_dri(m)
      ELSE IF code \in SavedCodes THEN process_marker(m)
      ELSE IF code \in (M.RST0..M.RST0 + 7) \union {M.TEM} THEN Return(m, "ok")
      ELSE IF code = M.DNL THEN skip_variable(m)
      ELSE IF code \in M.SOF0..M.SOF15 THEN Return(m, "SOF_UNSUPPORTED")
      ELSE Return(m, "UNKNOWN_MARKER")

RECURSIVE read_markers(_)
Processed(m, code) ==
  LET consumed == [m EXCEPT !.unread_marker = 0]
  IN  IF m.ret # "ok" THEN m
      ELSE IF code = M.SOS THEN Return(consumed, "SOS")
      ELSE IF code = M.EOI THEN Return(consumed, "EOI")
      ELSE read_markers(consumed)
AtMarker(m) == IF m.ret # "ok" THEN m ELSE Processed(Process(m), m.unread_marker)
read_markers(m) ==
  AtMarker(IF m.unread_marker # 0 THEN Return(m, "ok")
           ELSE IF ~m.saw_SOI THEN first_marker(m) ELSE next_marker(m))

--------------------------------------------------------------------------
(* A defect for ResyncInPlace: only one lost interval is expected.          *)
Mutant_ResyncAction(marker, desired) ==
  LET Rst(n) == M.RST0 + ((n + 8) % 8)
  IN  IF marker < M.SOF0 THEN 2
      ELSE IF marker \notin M.RST0..M.RST0 + 7 THEN 3
      ELSE IF marker = Rst(desired + 1) THEN 3
      ELSE IF marker = Rst(desired - 1) THEN 2
      ELSE 1

(* What jpeg_resync_to_restart does on meeting marker where RSTn, n desired,*)
(* was due: 1 takes it for the one desired, 2 scans to the next marker,     *)
(* 3 leaves it, as if the desired one had been there.                       *)
ResyncAction(marker, desired) ==
  LET Rst(n) == M.RST0 + ((n + 8) % 8)
  IN  IF marker < M.SOF0 THEN 2
      ELSE IF marker \notin M.RST0..M.RST0 + 7 THEN 3
      ELSE IF marker \in {Rst(desired + 1), Rst(desired + 2)} THEN 3
      ELSE IF marker \in {Rst(desired - 1), Rst(desired - 2)} THEN 2
      ELSE 1

RECURSIVE jpeg_resync_to_restart(_, _)
jpeg_resync_to_restart(m, desired) ==
  LET action == ResyncAction(m.unread_marker, desired)
  IN  IF m.ret # "ok" THEN m
      ELSE IF action = 1 THEN [m EXCEPT !.unread_marker = 0]
      ELSE IF action = 3 THEN m ELSE jpeg_resync_to_restart(next_marker(m), desired)

RestartMet(m) == IF m.ret = "ok" THEN [m EXCEPT !.next_restart_num = (@ + 1) % 8] ELSE m
MeetRestart(m) ==
  IF m.ret = "ok" /\ m.unread_marker = M.RST0 + m.next_restart_num
  THEN [m EXCEPT !.unread_marker = 0] ELSE jpeg_resync_to_restart(m, m.next_restart_num)
read_restart_marker(m) ==
  RestartMet(MeetRestart(IF m.unread_marker # 0 THEN Return(m, "ok") ELSE next_marker(m)))
=========================================================================
