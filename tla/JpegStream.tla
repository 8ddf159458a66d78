--------------------------- MODULE JpegStream ---------------------------
(* The input side of a decompressor on a byte stream: the input controller  *)
(* (jdinput.c) reads markers up to a scan, the entropy decoder its MCUs     *)
(* into the coefficient buffer (consume_data), then markers again, while    *)
(* the source hands over the file in pieces of any size.  The files are     *)
(* written by the compressor (CompressMaster and below), some of them       *)
(* damaged on the way; a job is [image, file, damage, lost], lost the       *)
(* <<scan, block>> pairs whose data the damage took.                        *)
(* Abstracted: components but one, the color and IDCT side (JpegDecoder,    *)
(* DctManager), and warnings.                                               *)
EXTENDS CompressMaster

CONSTANTS Jobs,         \* the files to decode
          Chunks        \* the sizes of the pieces that arrive, besides "the rest"

VARIABLES job,          \* the one being decoded
          avail,        \* the bytes the source has handed over
          waiting,      \* the last call returned JPEG_SUSPENDED
          phase,        \* "markers" or "scan" (consume_input), "done", "error"
          inheaders,    \* 1 before the first SOS, 2 after a pseudo SOS, 0 after
          lim_Se,       \* the last coefficient of a block, -1 while unknown
          m,            \* the marker reader
          e,            \* the entropy decoder
          blocks,       \* the coefficients, by block and place in zigzag order
          coef_bits,    \* the precision each coefficient has reached, -1 none
          quant_table,  \* the table saved for the component
          mcu,          \* the next MCU of the scan
          call          \* the state when the call in progress was first made,
                        \* <<>> between calls
vars == <<job, avail, waiting, phase, inheaders, lim_Se, m, e, blocks, coef_bits,
          quant_table, mcu, call>>

image == job.image
stream == job.file

INSTANCE HuffmanDecoder WITH file <- stream
ArithDec == INSTANCE ArithmeticDecoder WITH file <- stream
Whole == INSTANCE HuffmanDecoder WITH file <- stream, avail <- Len(stream)

Init ==
  /\ job \in Jobs
  /\ avail = 0 /\ waiting = TRUE /\ phase = "markers" /\ inheaders = 1 /\ lim_Se = -1
  /\ m = FoldLeft(LAMBDA r, s : jpeg_save_markers(r, s[1], s[2]), reset_marker_reader,
                  image.save)
  /\ e = <<>> /\ blocks = <<>> /\ coef_bits = <<>> /\ quant_table = <<>>
  /\ mcu = 1 /\ call = <<>>

(* fill_input_buffer found no data; the application calls again after more  *)
(* came.                                                                    *)
DataArrives ==
  /\ waiting /\ avail < Len(stream)
  /\ \E n \in Chunks \union {Len(stream) - avail} :
       avail + n <= Len(stream) /\ avail' = avail + n
  /\ waiting' = FALSE
  /\ UNCHANGED <<job, phase, inheaders, lim_Se, m, e, blocks, coef_bits, quant_table, mcu, call>>

Suspended ==
  /\ waiting' = TRUE
  /\ call' = IF call = <<>>
             THEN [m |-> m, e |-> e, block |-> IF phase = "scan" THEN blocks[mcu] ELSE <<>>]
             ELSE call
Returned == waiting' = FALSE /\ call' = <<>>

Fail == Returned /\ phase' = "error" /\
        UNCHANGED <<inheaders, lim_Se, e, blocks, coef_bits, quant_table, mcu>>

(* initial_setup: the block size, which a file with other blocks than 8 x 8 *)
(* gives as the Se of its first or pseudo SOS.                              *)
BlockLimit(r) ==
  IF r.frame.baseline \/ (r.frame.progressive /\ r.scan.comps # <<>>) THEN 63
  ELSE IF r.scan.Se \in {n * n - 1 : n \in 1..8} THEN r.scan.Se
  ELSE IF r.scan.Se \in {n * n - 1 : n \in 9..16} THEN 63 ELSE -1

Blocks(r, lim) == (r.frame.width + BlockSize(lim) - 1) \div BlockSize(lim)

(* start_input_pass; arithmetic coding checks a progressive scan the same   *)
(* way and needs no tables.                                                 *)
start_input_pass(r, lim) ==
  LET no == r.frame.comps[1].tq
      limit == coef_limit(lim, image.scaled[1], image.scaled[2])
      pass == IF r.frame.arith THEN ArithDec!start_pass(r, lim)
              ELSE start_pass_huff_decoder(r, lim, IF image.needed THEN limit ELSE 0)
      bad == r.frame.arith /\ r.frame.progressive /\ BadProgression(r.scan, lim)
      known == IF coef_bits = <<>> THEN [k \in 0..lim |-> -1] ELSE coef_bits
  IN  IF (quant_table = <<>> /\ no \notin DOMAIN r.quant_tbls) \/ bad \/ pass.ret # "ok"
      THEN Fail
      ELSE /\ Returned /\ phase' = "scan" /\ inheaders' = 0 /\ lim_Se' = lim /\ mcu' = 1
           /\ e' = pass
           /\ blocks' = IF blocks # <<>> THEN blocks
                        ELSE [b \in 1..Blocks(r, lim) |-> [k \in 0..lim |-> 0]]
           /\ coef_bits' = IF r.frame.progressive THEN Progressed(known, r.scan) ELSE known
           /\ quant_table' = IF quant_table # <<>> THEN quant_table ELSE r.quant_tbls[no]

ReachedSOS(r) ==
  LET lim == IF inheaders = 1 THEN BlockLimit(r) ELSE lim_Se
  IN  IF lim = -1 THEN Fail
      ELSE IF inheaders = 0 /\ ~r.frame.progressive THEN Fail \* JERR_EOI_EXPECTED
      ELSE IF r.scan.comps = <<>>
      THEN /\ Returned /\ lim_Se' = lim
           /\ inheaders' = IF inheaders = 0 THEN 0 ELSE 2
           /\ UNCHANGED <<phase, e, blocks, coef_bits, quant_table, mcu>>
      ELSE start_input_pass(r, lim)

ReachedEOI(r) ==
  IF inheaders > 0 /\ r.saw_SOF THEN Fail
  ELSE /\ Returned /\ phase' = "done"
       /\ UNCHANGED <<inheaders, lim_Se, e, blocks, coef_bits, quant_table, mcu>>

consume_markers ==
  /\ phase = "markers" /\ ~waiting
  /\ \E r \in {read_markers(m)} :
       /\ m' = r
       /\ IF r.ret = "suspended"
          THEN Suspended /\ UNCHANGED <<phase, inheaders, lim_Se, e, blocks, coef_bits,
                                        quant_table, mcu>>
          ELSE IF r.ret = "SOS" THEN ReachedSOS(r)
          ELSE IF r.ret = "EOI" THEN ReachedEOI(r) ELSE Fail
  /\ UNCHANGED <<job, avail>>

(* One MCU of consume_data; after the last one, finish_input_pass.          *)
decode_one(r, d, block) ==
  IF r.frame.arith THEN ArithDec!decode_mcu(r, d, block) ELSE decode_mcu(r, d, block)
consume_data ==
  /\ phase = "scan" /\ ~waiting
  /\ \E r \in {decode_one(m, e, blocks[mcu])} :
       /\ m' = r.m /\ e' = r.e /\ blocks' = [blocks EXCEPT ![mcu] = r.block]
       /\ IF r.m.ret = "suspended" THEN Suspended /\ UNCHANGED <<phase, mcu>>
          ELSE IF r.m.ret = "CANT_SUSPEND" THEN Returned /\ phase' = "error" /\ UNCHANGED mcu
          ELSE /\ Returned /\ mcu' = mcu + 1
               /\ phase' = IF mcu = Len(blocks) THEN "markers" ELSE "scan"
  /\ UNCHANGED <<job, avail, inheaders, lim_Se, coef_bits, quant_table>>

Next == DataArrives \/ consume_markers \/ consume_data
Spec == Init /\ [][Next]_vars

--------------------------------------------------------------------------
(* What the compressor was given, as far as the scans read so far tell.     *)
Known(value, k, Al) ==
  IF k = 0 THEN (value \div 2^Al) * 2^Al
  ELSE LET t == (AbsVal(value) \div 2^Al) * 2^Al IN IF value < 0 THEN -t ELSE t
Right(b) ==
  \A k \in 0..lim_Se :
    IF image.progressive
    THEN coef_bits[k] >= 0 => blocks[b][k] = Known(image.blocks[b][k], k, coef_bits[k])
    ELSE (image.arith \/ k < e.coef_limit) => blocks[b][k] = image.blocks[b][k]

BetweenScans == phase \in {"markers", "done"} /\ blocks # <<>>
(* The arithmetic decoder gives up when it has to wait (JERR_CANT_SUSPEND). *)
GaveUp == m.ret = "CANT_SUSPEND" /\ avail < Len(stream)
Lost(b) == \E n \in 1..m.input_scan_number : <<n, b>> \in job.lost

(* TypeOK: the state is what the declarations above say; the decoder reads  *)
(* no byte it was not given (a skipped marker may end beyond them), never   *)
(* holds more than 32 bits nor, in arithmetic coding, a code beyond its     *)
(* interval.                                                                *)
TypeOK ==
  /\ avail \in 0..Len(stream) /\ waiting \in BOOLEAN
  /\ phase \in {"markers", "scan", "done", "error"} /\ inheaders \in 0..2
  /\ lim_Se \in -1..63 /\ m.pos \in Nat /\ m.unread_marker \in 0..254
  /\ \A b \in DOMAIN blocks : blocks[b] \in [0..lim_Se -> -32768..32767]
  /\ phase = "scan" => mcu \in DOMAIN blocks /\ m.pos <= avail
  /\ (phase = "scan" /\ ~m.frame.arith) => Len(e.bits) <= 32
  /\ (phase = "scan" /\ m.frame.arith) =>
       /\ e.ct \in {-16, -1} \union 0..7
       /\ e.ct >= 0 => e.a \in 0..65536 /\ e.c \in 0..e.a * 2^e.ct - 1

(* SuspensionInvisible: a call that was suspended and repeated as data came *)
(* in, in whatever pieces, leaves the state one call on the whole file      *)
(* leaves (the suspension contract of jdmarker.c and jdhuff.c).             *)
SuspensionInvisible ==
  [][call # <<>> /\ call' = <<>> =>
       IF phase = "markers" THEN m' = Whole!read_markers(call.m)
       ELSE [m |-> m', e |-> e', block |-> blocks'[mcu]]
              = Whole!decode_mcu(call.m, call.e, call.block)]_vars

(* RoundTrip: of a file that came undamaged, every coefficient has the      *)
(* value that was compressed, to the precision its scans have reached, with *)
(* the quantization table, the APPn data and the saved markers it was       *)
(* written with, and the file is never refused, unless an arithmetic-coded  *)
(* one comes in pieces.                                                     *)
RoundTrip ==
  job.damage = "none" =>
    /\ phase = "error" => GaveUp
    /\ BetweenScans => \A b \in DOMAIN blocks : Right(b)
    /\ phase = "done" =>
         /\ Len(blocks) = Len(image.blocks)
         /\ \A i \in 0..lim_Se :
              LET place == OrderFor(lim_Se + 1)[i + 1]
              IN  place \in DOMAIN quant_table /\ quant_table[place] = image.quant[i + 1]
         /\ (m.jfif # <<>>) = image.jfif /\ (m.adobe # <<>>) = image.adobe
         /\ m.marker_list = image.saved

(* ResyncInPlace: up to two lost restart intervals in a row, one that came  *)
(* twice, a restart marker that became another marker or no marker at all,  *)
(* cost only the blocks of the intervals hit: all others are right and in   *)
(* their places (jpeg_resync_to_restart).                                   *)
ResyncInPlace ==
  job.damage # "none" =>
    /\ phase = "error" => GaveUp
    /\ BetweenScans => \A b \in DOMAIN blocks : Lost(b) \/ Right(b)
=========================================================================
