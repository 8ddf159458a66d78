------------------------- MODULE JpegDecoder_proofs -------------------------
(* However the source chops the file, the decompressor's state keeps its    *)
(* types, its rows come out in order and no output overtakes the input it   *)
(* shows: proved for every image geometry, every mode and every request.    *)
EXTENDS JpegDecoder, FiniteSetTheorems, SequenceTheorems, TLAPS

LOCAL Order == INSTANCE WellFoundedInduction

C == V * M                       \* output rows per iMCU row
NumScans == Len(image.scans)
Merged2 == mode.merged /\ V = 2
Merged1 == mode.merged /\ V # 2
Active == global_state \in {"PRESCAN", "SCANNING", "RAW_OK"}

(* The decompressor's records, field by field.                              *)
Place == Nat \X Nat
InputType ==
  [eoi : BOOLEAN, inheaders : BOOLEAN, data : BOOLEAN, scan : Nat, row : 0..TotalRows,
   mcu : Nat, voff : Nat, got : [0..TotalRows - 1 -> Nat]]
OutputType ==
  [scan : Nat, row : 0..TotalRows, line : Nat, full : BOOLEAN, group : 0..M - 1, held : Place,
   next : 0..V, togo : 0..Height, color : Nat \X Nat \X Nat, spare : Place \union {None},
   dummy : BOOLEAN, crank : BOOLEAN, colormap : BOOLEAN, smooth : BOOLEAN, start : Nat,
   strip : 0..V - 1, saved : [0..V * M * TotalRows - 1 -> Row \union {None}]]

Types ==
  /\ image \in Images /\ mode \in ModesFor(image)
  /\ avail \in 0..Len(image.units) /\ pos \in 0..avail
  /\ ip \in InputType /\ op \in OutputType
  /\ delivered \in Seq(Place \union {None}) /\ ask \in Nat
  /\ passes \in 0..MaxPasses /\ images \in 0..MaxImages

(* Where the API's state machine stands.                                    *)
CallsMatch ==
  /\ global_state \in {"START", "INHEADER", "READY", "PRELOAD", "PRESCAN", "SCANNING", "RAW_OK",
                       "BUFIMAGE", "BUFPOST", "STOPPING"}
  /\ \/ call = "none"
     \/ call = "read_header" /\ global_state = "INHEADER"
     \/ call = "preload" /\ global_state = "PRELOAD"
     \/ call = "prescan" /\ global_state = "PRESCAN"
     \/ call = "read" /\ global_state = "SCANNING" /\ ask # 0 /\ op.line < Height
     \/ call = "raw" /\ global_state = "RAW_OK" /\ op.line < Height
     \/ call = "consume" /\ global_state \notin {"START", "INHEADER", "READY"}
     \/ call = "finish_output" /\ global_state = "BUFPOST"
     \/ call = "finish" /\ global_state = "STOPPING"
  /\ global_state # "START" => images < MaxImages
  /\ global_state = "SCANNING" => ~mode.raw
  /\ global_state = "RAW_OK" => mode.raw

(* The input side: one scan for every SOS consumed, every row of the scans  *)
(* before it decoded, and of its own the rows behind the input row.         *)
InputInv ==
  /\ ip.scan = Cardinality({i \in 1..pos : image.units[i] = "SOS"})
  /\ ip.inheaders <=> ip.scan = 0
  /\ ip.inheaders <=> global_state \in {"START", "INHEADER"}
  /\ global_state = "START" => pos = 0 /\ call = "none"
  /\ ip.inheaders => ~ip.data /\ ip.row = 0
  /\ global_state = "READY" => ~ip.data /\ ~ip.eoi /\ ip.row = 0 /\ ip.scan = 1
  /\ ip.data => ip.row < TotalRows /\ ~ip.eoi
  /\ ip.inheaders \/ global_state = "READY" \/ ip.data \/ ip.row = TotalRows
  /\ \A r \in 0..TotalRows - 1 :
       ip.got[r] = IF r < ip.row THEN ip.scan ELSE IF ip.inheaders THEN 0 ELSE ip.scan - 1
  /\ ip.eoi => op.scan <= ip.scan
  /\ ~FullBuffer /\ global_state = "PRELOAD" => ip.data /\ ip.scan = 1 /\ call # "consume"

(* Rows of a row group that are out while others wait.                      *)
Part(o) ==
  IF mode.merged THEN IF V = 2 /\ o.spare # None THEN 1 ELSE 0
  ELSE IF o.next = V THEN 0 ELSE o.next

(* The lines converted are those of the row groups used up, and what is     *)
(* left of one shows the image row that comes next.                         *)
Position(o) ==
  /\ o.full => o.row >= 1 /\ o.held[1] = o.row - 1
  /\ mode.raw => o.line = C * (IF o.full THEN o.row - 1 ELSE o.row)
  /\ ~mode.raw =>
       /\ o.line = IF o.full THEN C * (o.row - 1) + V * o.group + Part(o) ELSE C * o.row
       /\ ~o.full => o.group = 0 /\ Part(o) = 0
       /\ o.line <= Height /\ (~Merged1 => o.togo = Height - o.line)
       /\ ~mode.merged => o.next # 0
       /\ ~mode.merged /\ o.next # V => o.color[1] = o.row - 1 /\ o.color[3] = o.group
       /\ Merged2 /\ o.spare # None => o.spare[1] = o.line

(* What waits to be shown is from the scan asked for, or a later one.       *)
Fresh(o) ==
  /\ o.full => o.scan <= o.held[2] /\ o.held[2] <= NumScans
  /\ ~mode.merged /\ o.next # V => o.scan <= o.color[2] /\ o.color[2] <= NumScans
  /\ Merged2 /\ o.spare # None => o.scan <= o.spare[2] /\ o.spare[2] <= NumScans

(* A saved row is in its place.                                             *)
SavedRow(o, r) == o.saved[r] # None /\ o.saved[r][1] = r
SavedFresh(o) == \A r \in DOMAIN o.saved : o.saved[r] # None => o.scan <= o.saved[r][2]

(* The first pass of a two-pass quantization saves the lines converted.     *)
Saving(o) ==
  /\ o.start = o.line - Part(o) /\ o.strip = Part(o)
  /\ \A r \in 0..o.line - 1 : SavedRow(o, r)

(* The second one hands them out, strip by strip.                           *)
Showing(o) ==
  /\ o.line = o.start + o.strip
  /\ \E k \in Nat : o.start = V * k
  /\ \A r \in 0..Height - 1 : SavedRow(o, r)

OutputInv ==
  /\ global_state \in {"START", "INHEADER", "READY", "PRELOAD"} => op = NoOutput(image)
  /\ op.dummy => global_state = "PRESCAN" /\ mode.quant = "two" /\ ~op.crank /\ ~op.colormap
  /\ op.crank => mode.quant = "two" /\ op.colormap
  /\ op.smooth => FullBuffer
  /\ ~op.colormap /\ ~op.dummy => \A r \in DOMAIN op.saved : op.saved[r] = None
  /\ ~FullBuffer => op.scan <= 1
  /\ Active =>
       /\ op.scan >= 1 /\ op.scan <= NumScans
       /\ ~op.crank => Position(op) /\ Fresh(op)
       /\ op.dummy => Saving(op)
       /\ op.crank => Showing(op)
       /\ op.dummy \/ op.crank => SavedFresh(op)
  /\ global_state = "PRESCAN" =>
       /\ delivered = <<>>
       /\ ~op.dummy => op.line = 0

(* The rows handed out in this pass.                                        *)
DeliveredInv ==
  /\ RowsInOrder
  /\ ShowsRequestedScan

DInv == Types /\ CallsMatch /\ InputInv /\ OutputInv /\ DeliveredInv

-----------------------------------------------------------------------------
(* The geometry of the image being decoded ...                              *)
LEMMA GeometryFits ==
  ASSUME Types
  PROVE  /\ TotalRows \in Nat \ {0} /\ V \in 1..4 /\ M \in 1..16 /\ C \in Nat \ {0}
         /\ Height \in Nat \ {0} /\ C * (TotalRows - 1) < Height /\ Height <= C * TotalRows
         /\ V * M * TotalRows = C * TotalRows
         /\ NumScans \in Nat /\ image.units \in Seq(Units) /\ Len(image.units) \in Nat
         /\ image.merged \in BOOLEAN /\ image.multiple \in BOOLEAN
<1>1. image \in Images
  BY DEF Types
<1>2. /\ image.total \in Nat \ {0} /\ image.v \in 1..4 /\ image.m \in 1..16
      /\ image.height \in ((image.total - 1) * image.v * image.m + 1)
                              ..(image.total * image.v * image.m)
      /\ image.units \in Seq(Units) /\ image.scans \in Seq([mcus : Nat, rows : Nat, last : Nat])
      /\ image.merged \in BOOLEAN /\ image.multiple \in BOOLEAN
  BY <1>1, DecoderAssumption
<1>3. Len(image.units) \in Nat /\ NumScans \in Nat
  BY <1>2 DEF NumScans
<1>4. /\ TotalRows \in Nat \ {0} /\ V \in 1..4 /\ M \in 1..16
      /\ Height \in ((TotalRows - 1) * V * M + 1)..(TotalRows * V * M)
  BY <1>2 DEF TotalRows, V, M, Height
<1>5. C \in Nat \ {0}
  BY <1>4 DEF C
<1>6. /\ (TotalRows - 1) * V * M = C * (TotalRows - 1)
      /\ TotalRows * V * M = C * TotalRows /\ V * M * TotalRows = C * TotalRows
  BY <1>4 DEF C
<1>7. C * (TotalRows - 1) \in Nat /\ C * TotalRows \in Nat
  BY <1>4, <1>5
<1>8. /\ Height \in Int /\ Height >= C * (TotalRows - 1) + 1 /\ Height <= C * TotalRows
  BY <1>4, <1>6, <1>7
<1> QED
  BY <1>2, <1>3, <1>4, <1>5, <1>6, <1>7, <1>8

(* ... its numbers ...                                                      *)
LEMMA Geometry ==
  ASSUME Types
  PROVE  /\ TotalRows \in Nat /\ TotalRows >= 1 /\ V \in Nat /\ V >= 1 /\ V <= 4
         /\ M \in Nat /\ M >= 1 /\ M <= 16 /\ C \in Nat /\ C >= 1
         /\ Height \in Nat /\ Height >= 1 /\ NumScans \in Nat
<1>1. /\ TotalRows \in Nat \ {0} /\ V \in 1..4 /\ M \in 1..16 /\ C \in Nat \ {0}
      /\ Height \in Nat \ {0} /\ NumScans \in Nat
  BY GeometryFits, Zenon
<1> QED
  BY <1>1

(* ... and the rows that fit into it.                                       *)
LEMMA RowsFit ==
  ASSUME Types
  PROVE  /\ C * (TotalRows - 1) < Height /\ Height <= C * TotalRows
         /\ V * M * TotalRows = C * TotalRows /\ C = V * M
BY GeometryFits DEF C

(* The modes an image is decoded in.                                        *)
LEMMA ModeFacts ==
  ASSUME Types
  PROVE  /\ mode \in Modes /\ (mode.merged => image.merged)
         /\ mode.buffered \in BOOLEAN /\ mode.raw \in BOOLEAN /\ mode.merged \in BOOLEAN
         /\ mode.quant \in {"none", "one", "two"} /\ (mode.raw => mode.quant = "none")
         /\ mode.merged => V \in {1, 2}
         /\ FullBuffer \in BOOLEAN
<1>1. mode \in Modes /\ image \in Images /\ (mode.merged => image.merged)
  BY DEF Types, ModesFor
<1>2. image.merged => image.v <= 2
  BY <1>1, DecoderAssumption
<1>3. /\ mode.buffered \in BOOLEAN /\ mode.raw \in BOOLEAN /\ mode.merged \in BOOLEAN
      /\ mode.quant \in {"none", "one", "two"} /\ (mode.raw => mode.quant = "none")
  BY <1>1, DecoderAssumption
<1>4. mode.merged => V \in {1, 2}
  BY <1>1, <1>2, Geometry DEF V
<1>5. FullBuffer \in BOOLEAN
  BY DEF FullBuffer
<1> QED
  BY <1>1, <1>3, <1>4, <1>5

(* The least of three numbers.                                              *)
LEMMA LeastOfThree ==
  ASSUME NEW a \in Int, NEW b \in Int, NEW c \in Int
  PROVE  /\ Min({a, b, c}) \in {a, b, c}
         /\ Min({a, b, c}) <= a /\ Min({a, b, c}) <= b /\ Min({a, b, c}) <= c
<1>1. \E x \in {a, b, c} : \A y \in {a, b, c} : x <= y
  <2>1. CASE a <= b /\ a <= c
    BY <2>1
  <2>2. CASE b <= a /\ b <= c
    BY <2>2
  <2>3. CASE c <= a /\ c <= b
    BY <2>3
  <2> QED
    BY <2>1, <2>2, <2>3
<1> DEFINE m == CHOOSE x \in {a, b, c} : \A y \in {a, b, c} : x <= y
<1>2. m \in {a, b, c} /\ \A y \in {a, b, c} : m <= y
  BY <1>1
<1>3. Min({a, b, c}) = m
  BY DEF Min
<1> HIDE DEF m
<1> QED
  BY <1>2, <1>3

(* ... and of two.                                                          *)
LEMMA LeastOfTwo ==
  ASSUME NEW a \in Int, NEW b \in Int
  PROVE  Min({a, b}) \in {a, b} /\ Min({a, b}) <= a /\ Min({a, b}) <= b
<1>1. {a, b} = {a, b, b}
  OBVIOUS
<1> QED
  BY <1>1, LeastOfThree

(* A function on 1..n is a sequence of n elements.                          *)
LEMMA RowsAreSequence ==
  ASSUME NEW S, NEW n \in Nat, NEW f \in [1..n -> S]
  PROVE  f \in Seq(S) /\ Len(f) = n
OBVIOUS

(* The fields of a record of the output side.                               *)
LEMMA OutputFields ==
  ASSUME NEW o \in OutputType
  PROVE  /\ o.scan \in Nat /\ o.row \in 0..TotalRows /\ o.line \in Nat /\ o.full \in BOOLEAN
         /\ o.group \in 0..M - 1 /\ o.held \in Place /\ o.next \in 0..V /\ o.togo \in 0..Height
         /\ o.color \in Nat \X Nat \X Nat /\ o.spare \in Place \union {None}
         /\ o.dummy \in BOOLEAN /\ o.crank \in BOOLEAN /\ o.colormap \in BOOLEAN
         /\ o.smooth \in BOOLEAN /\ o.start \in Nat /\ o.strip \in 0..V - 1
         /\ o.saved \in [0..V * M * TotalRows - 1 -> Row \union {None}]
BY DEF OutputType

(* What an upsampler leaves after n more lines, before the main controller  *)
(* looks whether the row group, or the whole buffer, is used up.            *)
Ahead(o, n) ==
  /\ o.group \in 0..M
  /\ n = C * (o.row - 1) + V * o.group + Part(o)
  /\ n <= Height /\ (~Merged1 => o.togo = Height - n)
  /\ ~mode.merged => o.next # 0
  /\ ~mode.merged /\ o.next # V => o.color[1] = o.row - 1 /\ o.color[3] = o.group
  /\ Merged2 /\ o.spare # None => o.spare[1] = n
  /\ o.group = M => Part(o) = 0

(* The rows an upsampler makes: the next ones, from the scan asked for.     *)
NextRows(rows, line, least) ==
  \A j \in 1..Len(rows) : /\ rows[j] \in Place /\ rows[j][1] = line + j - 1
                          /\ least <= rows[j][2] /\ rows[j][2] <= NumScans

(* A row of a row group is the line it stands for.                          *)
LEMMA RowIsLine ==
  ASSUME Types, NEW buf, NEW row \in Nat, buf[1] = row, NEW g \in Nat, NEW k \in Nat
  PROVE  RowOf(buf, g, k) = <<C * row + V * g + k, buf[2]>>
<1>1. V \in Nat /\ M \in Nat
  BY Geometry
<1>2. row * M * V = C * row
  BY <1>1 DEF C
<1>3. g * V = V * g
  BY <1>1
<1>4. buf[1] * M * V + g * V + k = C * row + V * g + k
  BY <1>2, <1>3
<1> QED
  BY <1>4 DEF RowOf

(* sep_upsample goes on with the colour buffer, or fills it from the next   *)
(* row group.                                                               *)
LEMMA SepUpsample ==
  ASSUME Types, Position(op), Fresh(op), op.full, op.line < Height, ~mode.raw, ~mode.merged,
         NEW room \in Nat, room >= 1
  PROVE  LET u == sep_upsample(op, room)
         IN /\ Len(u.rows) \in 1..room /\ u.rows \in Seq(Place)
            /\ NextRows(u.rows, op.line, op.scan)
            /\ Ahead(u.o, op.line + Len(u.rows)) /\ Fresh(u.o)
            /\ u.o = [op EXCEPT !.next = u.o.next, !.togo = u.o.togo, !.group = u.o.group,
                                !.color = u.o.color]
            /\ u.o.next \in 0..V /\ u.o.togo \in 0..Height /\ u.o.color \in Nat \X Nat \X Nat
<1> DEFINE o1 == IF op.next >= V
                 THEN [op EXCEPT !.color = <<op.held[1], op.held[2], op.group>>, !.next = 0]
                 ELSE op
           n == Min({V - o1.next, o1.togo, room})
           rows == [j \in 1..n |-> RowOf(o1.color, o1.color[3], o1.next + j - 1)]
           o == [o1 EXCEPT !.togo = @ - n, !.next = @ + n,
                           !.group = IF o1.next + n >= V THEN @ + 1 ELSE @]
<1>1. sep_upsample(op, room) = [rows |-> rows, o |-> o]
  BY DEF sep_upsample
<1>2. op \in OutputType
  BY DEF Types
<1>3. /\ V \in Nat /\ V >= 1 /\ M \in Nat /\ M >= 1 /\ C \in Nat /\ Height \in Nat
      /\ NumScans \in Nat
  BY Geometry
<1>4. /\ op.row \in Nat /\ op.line \in Nat /\ op.group \in 0..M - 1 /\ op.next \in 0..V
      /\ op.color \in Nat \X Nat \X Nat /\ op.held \in Place /\ op.scan \in Nat
      /\ op.togo \in 0..Height
  BY <1>2, <1>3, OutputFields
<1>5. /\ op.row >= 1 /\ op.held[1] = op.row - 1 /\ op.togo = Height - op.line /\ op.next # 0
      /\ op.next # V => op.color[1] = op.row - 1 /\ op.color[3] = op.group
  BY DEF Position, Merged1
<1>6. op.line = C * (op.row - 1) + V * op.group + (IF op.next = V THEN 0 ELSE op.next)
  BY DEF Position, Part
<1>7. /\ op.scan <= op.held[2] /\ op.held[2] <= NumScans
      /\ op.next # V => op.scan <= op.color[2] /\ op.color[2] <= NumScans
  BY DEF Fresh
<1>8. /\ o1 = [op EXCEPT !.next = o1.next, !.color = o1.color]
      /\ DOMAIN o1 = DOMAIN op
      /\ o1.togo = op.togo /\ o1.group = op.group
  BY <1>2 DEF OutputType
<1>9. /\ o1.next = IF op.next = V THEN 0 ELSE op.next
      /\ o1.color = IF op.next = V THEN <<op.held[1], op.held[2], op.group>> ELSE op.color
  <2>1. op.next >= V <=> op.next = V
    BY <1>3, <1>4
  <2> QED
    BY <1>2, <2>1 DEF OutputType
<1>10. /\ o1.color \in Nat \X Nat \X Nat /\ o1.color[1] = op.row - 1 /\ o1.color[3] = op.group
       /\ op.scan <= o1.color[2] /\ o1.color[2] <= NumScans
  <2>1. op.held[1] \in Nat /\ op.held[2] \in Nat /\ op.group \in Nat
    BY <1>3, <1>4 DEF Place
  <2> HIDE DEF o1
  <2>2. CASE op.next = V
    <3>1. o1.color = <<op.held[1], op.held[2], op.group>>
      BY <1>9, <2>2
    <3> QED
      BY <1>5, <1>7, <2>1, <3>1
  <2>3. CASE op.next # V
    BY <1>4, <1>5, <1>7, <1>9, <2>3
  <2> QED
    BY <2>2, <2>3
<1> HIDE DEF o1
<1>11. o1.next \in Nat /\ o1.next < V /\ o1.togo = Height - op.line
  BY <1>3, <1>4, <1>5, <1>8, <1>9
<1>12. op.line = C * (op.row - 1) + V * op.group + o1.next
  BY <1>6, <1>9
<1>13. n \in Nat /\ n >= 1 /\ n <= room /\ n <= V - o1.next /\ n <= Height - op.line
  <2> DEFINE a == V - o1.next  b == o1.togo
  <2>1. a \in Int /\ b \in Int /\ a >= 1 /\ b >= 1 /\ b = Height - op.line
    BY <1>3, <1>4, <1>11
  <2> HIDE DEF a, b
  <2>2. n = Min({a, b, room})
    BY DEF a, b
  <2> HIDE DEF n
  <2>3. n \in {a, b, room} /\ n <= a /\ n <= b /\ n <= room
    <3>1. a \in Int /\ b \in Int /\ room \in Int
      BY <2>1
    <3>2. /\ Min({a, b, room}) \in {a, b, room}
          /\ Min({a, b, room}) <= a /\ Min({a, b, room}) <= b /\ Min({a, b, room}) <= room
      BY <3>1, LeastOfThree, Zenon
    <3> QED
      BY <2>2, <3>2, Zenon
  <2> QED
    BY <2>1, <2>3 DEF a
<1> HIDE DEF n
<1>14. ASSUME NEW j \in 1..n
       PROVE  /\ rows[j] = <<op.line + j - 1, o1.color[2]>>
              /\ op.line + j - 1 \in Nat
  <2>1. /\ o1.next + j - 1 \in Nat /\ op.row - 1 \in Nat /\ op.group \in Nat
        /\ op.line + j - 1 \in Nat
    <3>1. o1.next \in Nat /\ n \in Nat /\ j \in 1..n
      BY <1>11, <1>13
    <3>2. op.line \in Nat /\ op.group \in Nat /\ op.row - 1 \in Nat
      BY <1>3, <1>4, <1>5
    <3> QED
      BY <3>1, <3>2
  <2>2. RowOf(o1.color, op.group, o1.next + j - 1)
            = <<C * (op.row - 1) + V * op.group + (o1.next + j - 1), o1.color[2]>>
    <3> DEFINE row == op.row - 1  k == o1.next + j - 1
    <3>1. o1.color[1] = row /\ row \in Nat /\ k \in Nat
      BY <1>10, <2>1, Zenon
    <3> HIDE DEF row, k
    <3>2. RowOf(o1.color, op.group, k) = <<C * row + V * op.group + k, o1.color[2]>>
      BY <2>1, <3>1, RowIsLine, SMTT(30)
    <3> QED
      BY <3>2, Zenon DEF row, k
  <2>3. C * (op.row - 1) \in Int /\ V * op.group \in Int
    BY <1>3, <2>1
  <2>4. C * (op.row - 1) + V * op.group + (o1.next + j - 1) = op.line + j - 1
    BY <1>11, <1>12, <1>13, <2>3
  <2> QED
    BY <1>10, <2>1, <2>2, <2>4
<1> HIDE DEF rows
<1>15. o1.color[2] \in Nat
  BY <1>10
<1>16. rows \in [1..n -> Place]
  <2>1. DOMAIN rows = 1..n /\ rows = [j \in 1..n |-> rows[j]]
    BY DEF rows
  <2>2. ASSUME NEW j \in 1..n PROVE rows[j] \in Place
    <3>1. rows[j] = <<op.line + j - 1, o1.color[2]>> /\ op.line + j - 1 \in Nat
      BY <1>14
    <3> QED
      BY <1>15, <3>1 DEF Place
  <2> QED
    BY <2>1, <2>2
<1>17. rows \in Seq(Place) /\ Len(rows) = n
  BY <1>13, <1>16, RowsAreSequence
<1>18. NextRows(rows, op.line, op.scan)
  <2> SUFFICES ASSUME NEW j \in 1..n
               PROVE  /\ rows[j] \in Place /\ rows[j][1] = op.line + j - 1
                      /\ op.scan <= rows[j][2] /\ rows[j][2] <= NumScans
    BY <1>17 DEF NextRows
  <2> QED
    BY <1>10, <1>14, <1>16
<1>19. /\ o.next = o1.next + n /\ o.togo = o1.togo - n /\ o.color = o1.color
       /\ o.group = IF o1.next + n >= V THEN op.group + 1 ELSE op.group
       /\ o.row = op.row /\ o.full = op.full /\ o.held = op.held /\ o.scan = op.scan
       /\ o.spare = op.spare
  BY <1>2, <1>8 DEF OutputType
<1>20. o = [op EXCEPT !.next = o.next, !.togo = o.togo, !.group = o.group, !.color = o.color]
  BY <1>2, <1>8 DEF OutputType
<1> HIDE DEF o
<1>21. /\ o.next \in 0..V /\ o.next # 0 /\ o.togo = Height - (op.line + n)
       /\ o.togo \in 0..Height /\ op.line + n <= Height /\ op.line + n \in Nat
       /\ o.next # V => o.next = o1.next + n /\ o.group = op.group
       /\ o.next = V => o.group = op.group + 1
       /\ o.group \in 0..M /\ (o.group = M => o.next = V)
  BY <1>3, <1>4, <1>11, <1>13, <1>19
<1>22. Part(o) = IF o.next = V THEN 0 ELSE o.next
  BY DEF Part
<1>23. op.line + n = C * (o.row - 1) + V * o.group + Part(o)
  <2>1. C * (op.row - 1) \in Int /\ V * op.group \in Int /\ V * (op.group + 1) = V * op.group + V
    BY <1>3, <1>4
  <2>2. op.line + n = C * (op.row - 1) + V * op.group + (o1.next + n)
    BY <1>11, <1>12, <1>13, <2>1
  <2>3. CASE o.next = V
    <3>1. o1.next + n = V
      BY <1>19, <2>3
    <3>2. C * (op.row - 1) + V * op.group + V = C * (op.row - 1) + V * (op.group + 1) + 0
      BY <1>3, <2>1
    <3> QED
      BY <1>19, <1>21, <1>22, <2>2, <2>3, <3>1, <3>2
  <2>4. CASE o.next # V
    BY <1>19, <1>21, <1>22, <2>2, <2>4
  <2> QED
    BY <2>3, <2>4
<1>24. Ahead(o, op.line + n)
  BY <1>10, <1>19, <1>21, <1>22, <1>23 DEF Ahead, Merged2
<1>25. Fresh(o)
  BY <1>7, <1>10, <1>19 DEF Fresh, Merged2
<1>26. Len(rows) \in 1..room
  BY <1>13, <1>17
<1> DEFINE u == sep_upsample(op, room)
<1>27. u.rows = rows /\ u.o = o
  BY <1>1
<1>28. o.color \in Nat \X Nat \X Nat
  BY <1>10, <1>19
<1> HIDE DEF u
<1>29. /\ Len(u.rows) \in 1..room /\ u.rows \in Seq(Place) /\ NextRows(u.rows, op.line, op.scan)
       /\ Ahead(u.o, op.line + Len(u.rows)) /\ Fresh(u.o)
       /\ u.o = [op EXCEPT !.next = u.o.next, !.togo = u.o.togo, !.group = u.o.group,
                           !.color = u.o.color]
       /\ u.o.next \in 0..V /\ u.o.togo \in 0..Height /\ u.o.color \in Nat \X Nat \X Nat
  BY <1>17, <1>18, <1>20, <1>21, <1>24, <1>25, <1>26, <1>27, <1>28, Zenon
<1> QED
  BY <1>29 DEF u

(* A row made of the buffer in hand can be shown.                           *)
LEMMA RowInHand ==
  ASSUME Types, Position(op), Fresh(op), op.full, ~mode.raw, NEW k \in Nat
  PROVE  LET r == RowOf(op.held, op.group, k)
         IN /\ r \in Place /\ r # None /\ r[1] = C * (op.row - 1) + V * op.group + k
            /\ op.scan <= r[2] /\ r[2] <= NumScans
<1> DEFINE line == C * (op.row - 1) + V * op.group + k
<1>1. op \in OutputType
  BY DEF Types
<1>2. V \in Nat /\ M \in Nat /\ M >= 1 /\ C \in Nat
  BY Geometry
<1>3. /\ op.row \in Nat /\ op.group \in 0..M - 1 /\ op.held \in Place
      /\ op.row >= 1 /\ op.held[1] = op.row - 1
      /\ op.scan <= op.held[2] /\ op.held[2] <= NumScans
  BY <1>1, <1>2, OutputFields DEF Position, Fresh
<1>4. op.row - 1 \in Nat /\ op.group \in Nat /\ op.held[2] \in Nat
  BY <1>2, <1>3 DEF Place
<1>5. RowOf(op.held, op.group, k) = <<line, op.held[2]>>
  BY <1>3, <1>4, RowIsLine
<1>6. line \in Nat
  <2>1. C * (op.row - 1) \in Nat /\ V * op.group \in Nat
    BY <1>2, <1>4
  <2> QED
    BY <2>1
<1> HIDE DEF line
<1>7. <<line, op.held[2]>> \in Place
  BY <1>4, <1>6 DEF Place
<1>8. <<line, op.held[2]>> # None
  BY <1>7, DecoderAssumption DEF Place
<1> QED
  BY <1>3, <1>4, <1>5, <1>6, <1>7, <1>8 DEF line

(* merged_2v_upsample makes the two rows of a row group, and holds back the *)
(* second one that has no room.                                             *)
LEMMA MergedTwoRows ==
  ASSUME Types, Position(op), Fresh(op), op.full, op.line < Height, ~mode.raw, mode.merged, V = 2,
         NEW room \in Nat, room >= 1
  PROVE  LET u == merged_2v_upsample(op, room)
         IN /\ Len(u.rows) \in 1..room /\ u.rows \in Seq(Place)
            /\ NextRows(u.rows, op.line, op.scan)
            /\ Ahead(u.o, op.line + Len(u.rows)) /\ Fresh(u.o)
            /\ u.o = [op EXCEPT !.togo = u.o.togo, !.group = u.o.group, !.spare = u.o.spare]
            /\ u.o.togo \in 0..Height /\ u.o.spare \in Place \union {None}
<1> DEFINE u == merged_2v_upsample(op, room)
           base == C * (op.row - 1) + V * op.group
<1>1. op \in OutputType
  BY DEF Types
<1>2. V \in Nat /\ M \in Nat /\ M >= 1 /\ C \in Nat /\ Height \in Nat
  BY Geometry
<1>3. /\ op.row \in Nat /\ op.line \in Nat /\ op.group \in 0..M - 1
      /\ op.scan \in Nat /\ op.spare \in Place \union {None} /\ op.togo \in 0..Height
  BY <1>1, <1>2, OutputFields
<1>4. op.togo = Height - op.line
  BY DEF Position, Merged1
<1>5. op.line = base + (IF op.spare # None THEN 1 ELSE 0)
  BY DEF Position, Part
<1>6. /\ base \in Int /\ base + V = C * (op.row - 1) + V * (op.group + 1)
  <2>1. C * (op.row - 1) \in Int /\ V * op.group \in Int /\ V * (op.group + 1) = V * op.group + V
    BY <1>2, <1>3
  <2> QED
    BY <1>2, <2>1
<1>7. CASE op.spare # None
  <2> DEFINE o == [op EXCEPT !.spare = None, !.togo = @ - 1, !.group = @ + 1]
  <2>1. u = [rows |-> <<op.spare>>, o |-> o]
    BY <1>7 DEF merged_2v_upsample
  <2>2. /\ o.spare = None /\ o.togo = op.togo - 1 /\ o.group = op.group + 1 /\ o.row = op.row
        /\ o.held = op.held /\ o.full = op.full /\ o.scan = op.scan
        /\ o = [op EXCEPT !.togo = o.togo, !.group = o.group, !.spare = o.spare]
    BY <1>1 DEF OutputType
  <2> HIDE DEF o
  <2>3. /\ op.spare \in Place /\ op.spare[1] = op.line
        /\ op.scan <= op.spare[2] /\ op.spare[2] <= NumScans
    BY <1>3, <1>7 DEF Position, Fresh, Merged2
  <2>4. <<op.spare>> \in Seq(Place) /\ Len(<<op.spare>>) = 1
    BY <2>3
  <2>5. NextRows(<<op.spare>>, op.line, op.scan)
    <3>1. \A j \in 1..1 : op.line + j - 1 = op.line /\ <<op.spare>>[j] = op.spare
      BY <1>3
    <3> QED
      BY <2>3, <2>4, <3>1 DEF NextRows
  <2>6. op.line + 1 = C * (o.row - 1) + V * o.group + Part(o)
    <3>1. Part(o) = 0
      BY <2>2 DEF Part
    <3>2. op.line + 1 = base + V
      BY <1>5, <1>6, <1>7
    <3>3. base + V \in Int
      BY <1>2, <1>6
    <3> HIDE DEF base
    <3> QED
      BY <1>6, <2>2, <3>1, <3>2, <3>3
  <2>7. /\ o.group \in 0..M /\ o.togo = Height - (op.line + 1) /\ op.line + 1 <= Height
        /\ o.togo \in 0..Height /\ Part(o) = 0
    BY <1>2, <1>3, <1>4, <2>2 DEF Part
  <2>8. Ahead(o, op.line + 1)
    BY <2>2, <2>6, <2>7 DEF Ahead
  <2>9. Fresh(o)
    BY <2>2 DEF Fresh
  <2>10. u.rows = <<op.spare>> /\ u.o = o
    BY <2>1
  <2>11. 1 \in 1..room
    OBVIOUS
  <2> HIDE DEF u
  <2>12. /\ Len(u.rows) \in 1..room /\ u.rows \in Seq(Place) /\ NextRows(u.rows, op.line, op.scan)
         /\ Ahead(u.o, op.line + Len(u.rows)) /\ Fresh(u.o)
         /\ u.o = [op EXCEPT !.togo = u.o.togo, !.group = u.o.group, !.spare = u.o.spare]
         /\ u.o.togo \in 0..Height /\ u.o.spare \in Place \union {None}
    BY <2>2, <2>4, <2>5, <2>7, <2>8, <2>9, <2>10, <2>11, Zenon
  <2> QED
    BY <2>12 DEF u
<1>8. CASE op.spare = None
  <2> DEFINE n == Min({2, op.togo, room})
             held(k) == RowOf(op.held, op.group, k)
             rows == [j \in 1..n |-> held(j - 1)]
             o == [op EXCEPT !.togo = @ - n, !.spare = IF n > 1 THEN None ELSE held(1),
                             !.group = IF n > 1 THEN @ + 1 ELSE @]
  <2>1. u = [rows |-> rows, o |-> o]
    BY <1>8 DEF merged_2v_upsample
  <2>2. /\ \A k \in Nat : /\ held(k) \in Place /\ held(k) # None /\ held(k)[1] = base + k
                          /\ op.scan <= held(k)[2] /\ held(k)[2] <= NumScans
    BY RowInHand
  <2> HIDE DEF held, u
  <2>3. n \in 1..2 /\ n <= room /\ n <= op.togo
    <3>1. op.togo \in Int /\ op.togo >= 1 /\ room \in Int /\ 2 \in Int
      BY <1>2, <1>3, <1>4
    <3>2. n \in {2, op.togo, room} /\ n <= 2 /\ n <= op.togo /\ n <= room
      BY <3>1, LeastOfThree, Zenon
    <3> HIDE DEF n
    <3> QED
      BY <3>1, <3>2
  <2> HIDE DEF n
  <2>4. op.line = base
    BY <1>5, <1>6, <1>8
  <2>5. ASSUME NEW j \in 1..n
        PROVE  /\ rows[j] \in Place /\ rows[j][1] = op.line + j - 1
               /\ op.scan <= rows[j][2] /\ rows[j][2] <= NumScans
    <3>1. rows[j] = held(j - 1) /\ j - 1 \in Nat
      BY <2>3
    <3>2. base + (j - 1) = op.line + j - 1
      BY <1>6, <2>3, <2>4
    <3> HIDE DEF rows, base
    <3> QED
      BY <2>2, <3>1, <3>2
  <2>6. rows \in Seq(Place) /\ Len(rows) = n
    <3>1. n \in Nat /\ rows \in [1..n -> Place]
      BY <2>3, <2>5
    <3> QED
      BY <3>1, RowsAreSequence
  <2>7. NextRows(rows, op.line, op.scan)
    BY <2>5, <2>6 DEF NextRows
  <2>8. /\ o.spare = (IF n > 1 THEN None ELSE held(1)) /\ o.togo = op.togo - n
        /\ o.group = (IF n > 1 THEN op.group + 1 ELSE op.group) /\ o.row = op.row
        /\ o.held = op.held /\ o.full = op.full /\ o.scan = op.scan
        /\ o = [op EXCEPT !.togo = o.togo, !.group = o.group, !.spare = o.spare]
    BY <1>1 DEF OutputType
  <2> HIDE DEF o, rows
  <2>9. /\ held(1) \in Place /\ held(1) # None /\ held(1)[1] = base + 1
        /\ op.scan <= held(1)[2] /\ held(1)[2] <= NumScans
    BY <2>2
  <2>10. /\ o.togo = Height - (op.line + n) /\ op.line + n <= Height /\ o.togo \in 0..Height
         /\ o.group \in 0..M /\ o.spare \in Place \union {None}
         /\ o.spare # None => n = 1 /\ o.spare = held(1)
         /\ o.group = M => n = 2
         /\ n = 2 => o.spare = None
    BY <1>2, <1>3, <1>4, <2>3, <2>8, <2>9
  <2>11. Part(o) = IF n = 1 THEN 1 ELSE 0
    BY <2>3, <2>8, <2>9 DEF Part
  <2>12. op.line + n = C * (o.row - 1) + V * o.group + Part(o)
    <3>1. CASE n = 1
      <4>1. op.line + n = base + 1 /\ o.group = op.group
        BY <2>4, <2>8, <3>1
      <4> QED
        BY <2>8, <2>11, <3>1, <4>1
    <3>2. CASE n = 2
      <4>1. op.line + n = base + V /\ o.group = op.group + 1
        BY <2>4, <2>8, <3>2
      <4>2. base + V \in Int
        BY <1>2, <1>6
      <4> HIDE DEF base
      <4> QED
        BY <1>6, <2>8, <2>11, <3>2, <4>1, <4>2
    <3> QED
      BY <2>3, <3>1, <3>2
  <2>13. o.spare # None => o.spare[1] = op.line + n
    BY <2>4, <2>9, <2>10
  <2>14. Ahead(o, op.line + n)
    BY <2>8, <2>10, <2>11, <2>12, <2>13 DEF Ahead
  <2>15. Fresh(o)
    BY <2>8, <2>9, <2>10 DEF Fresh
  <2>16. u.rows = rows /\ u.o = o
    BY <2>1
  <2>17. n \in 1..room
    BY <2>3
  <2>18. /\ Len(u.rows) \in 1..room /\ u.rows \in Seq(Place) /\ NextRows(u.rows, op.line, op.scan)
         /\ Ahead(u.o, op.line + Len(u.rows)) /\ Fresh(u.o)
         /\ u.o = [op EXCEPT !.togo = u.o.togo, !.group = u.o.group, !.spare = u.o.spare]
         /\ u.o.togo \in 0..Height /\ u.o.spare \in Place \union {None}
    BY <2>6, <2>7, <2>8, <2>10, <2>14, <2>15, <2>16, <2>17, Zenon
  <2> QED
    BY <2>18 DEF u
<1> QED
  BY <1>7, <1>8

(* merged_1v_upsample makes the one row of a row group.                     *)
LEMMA MergedOneRow ==
  ASSUME Types, Position(op), Fresh(op), op.full, op.line < Height, ~mode.raw, mode.merged, V = 1
  PROVE  LET u == merged_1v_upsample(op)
         IN /\ Len(u.rows) = 1 /\ u.rows \in Seq(Place)
            /\ NextRows(u.rows, op.line, op.scan)
            /\ Ahead(u.o, op.line + 1) /\ Fresh(u.o)
            /\ u.o = [op EXCEPT !.group = u.o.group]
<1> DEFINE u == merged_1v_upsample(op)
           row == RowOf(op.held, op.group, 0)
           o == [op EXCEPT !.group = @ + 1]
           base == C * (op.row - 1) + V * op.group
<1>1. op \in OutputType
  BY DEF Types
<1>2. V \in Nat /\ M \in Nat /\ M >= 1 /\ C \in Nat /\ Height \in Nat
  BY Geometry
<1>3. op.row \in Nat /\ op.line \in Nat /\ op.group \in 0..M - 1
  BY <1>1, <1>2, OutputFields
<1>4. op.line = base /\ Part(op) = 0
  <2>1. Part(op) = 0
    BY DEF Part
  <2>2. base \in Int
    BY <1>2, <1>3
  <2>3. op.line = base + 0
    BY <2>1 DEF Position
  <2> QED
    BY <2>1, <2>2, <2>3
<1>5. /\ row \in Place /\ row[1] = base + 0
      /\ op.scan <= row[2] /\ row[2] <= NumScans
  BY RowInHand
<1>6. u = [rows |-> <<row>>, o |-> o]
  BY DEF merged_1v_upsample
<1>7. /\ o.group = op.group + 1 /\ o.row = op.row
      /\ o.held = op.held /\ o.full = op.full /\ o.scan = op.scan
      /\ o = [op EXCEPT !.group = o.group]
  BY <1>1 DEF OutputType
<1> HIDE DEF o, row, u
<1>8. <<row>> \in Seq(Place) /\ Len(<<row>>) = 1
  BY <1>5
<1>9. NextRows(<<row>>, op.line, op.scan)
  <2>1. op.line + 1 - 1 = base + 0 /\ <<row>>[1] = row
    BY <1>3, <1>4
  <2>2. \A j \in 1..1 : j = 1
    OBVIOUS
  <2> HIDE DEF base
  <2> QED
    BY <1>5, <1>8, <2>1, <2>2 DEF NextRows
<1>10. op.line + 1 = C * (o.row - 1) + V * o.group + Part(o)
  <2>1. Part(o) = 0
    BY DEF Part
  <2>2. C * (op.row - 1) \in Int /\ V * op.group \in Int /\ V * (op.group + 1) = V * op.group + 1
    BY <1>2, <1>3
  <2> QED
    BY <1>4, <1>7, <2>1, <2>2
<1>11. o.group \in 0..M /\ op.line + 1 <= Height /\ Part(o) = 0
  BY <1>2, <1>3, <1>7 DEF Part
<1>12. Ahead(o, op.line + 1)
  BY <1>7, <1>10, <1>11 DEF Ahead, Merged1, Merged2
<1>13. Fresh(o)
  BY <1>7 DEF Fresh, Merged2
<1>14. u.rows = <<row>> /\ u.o = o
  BY <1>6
<1>15. /\ Len(u.rows) = 1 /\ u.rows \in Seq(Place) /\ NextRows(u.rows, op.line, op.scan)
       /\ Ahead(u.o, op.line + 1) /\ Fresh(u.o) /\ u.o = [op EXCEPT !.group = u.o.group]
  BY <1>7, <1>8, <1>9, <1>12, <1>13, <1>14, Zenon
<1> QED
  BY <1>15 DEF u

(* Whichever upsampler the mode selects, it hands on the next rows and      *)
(* touches nothing but its own counters and buffers.                        *)
LEMMA UpsampleGoesOn ==
  ASSUME Types, Position(op), Fresh(op), op.full, op.line < Height, ~mode.raw,
         NEW room \in Nat, room >= 1
  PROVE  LET u == upsample(op, room)
         IN /\ Len(u.rows) \in 1..room /\ u.rows \in Seq(Place)
            /\ NextRows(u.rows, op.line, op.scan)
            /\ Ahead(u.o, op.line + Len(u.rows)) /\ Fresh(u.o)
            /\ u.o.next \in 0..V /\ u.o.togo \in 0..Height /\ u.o.color \in Nat \X Nat \X Nat
            /\ u.o.spare \in Place \union {None}
            /\ u.o = [op EXCEPT !.next = u.o.next, !.togo = u.o.togo, !.group = u.o.group,
                                !.color = u.o.color, !.spare = u.o.spare]
<1> DEFINE u == upsample(op, room)
           Goal(w) == /\ Len(w.rows) \in 1..room /\ w.rows \in Seq(Place)
                      /\ NextRows(w.rows, op.line, op.scan)
                      /\ Ahead(w.o, op.line + Len(w.rows)) /\ Fresh(w.o)
                      /\ w.o.next \in 0..V /\ w.o.togo \in 0..Height
                      /\ w.o.color \in Nat \X Nat \X Nat /\ w.o.spare \in Place \union {None}
                      /\ w.o = [op EXCEPT !.next = w.o.next, !.togo = w.o.togo,
                                          !.group = w.o.group, !.color = w.o.color,
                                          !.spare = w.o.spare]
<1>1. op \in OutputType
  BY DEF Types
<1>2. /\ op.next \in 0..V /\ op.togo \in 0..Height /\ op.color \in Nat \X Nat \X Nat
      /\ op.spare \in Place \union {None}
  BY <1>1, OutputFields
<1>3. CASE ~mode.merged
  <2> DEFINE w == sep_upsample(op, room)
  <2>1. u = w
    BY <1>3 DEF upsample
  <2>2. /\ Len(w.rows) \in 1..room /\ w.rows \in Seq(Place)
        /\ NextRows(w.rows, op.line, op.scan)
        /\ Ahead(w.o, op.line + Len(w.rows)) /\ Fresh(w.o)
        /\ w.o = [op EXCEPT !.next = w.o.next, !.togo = w.o.togo, !.group = w.o.group,
                            !.color = w.o.color]
        /\ w.o.next \in 0..V /\ w.o.togo \in 0..Height /\ w.o.color \in Nat \X Nat \X Nat
    BY <1>3, SepUpsample, Zenon
  <2> HIDE DEF w, u
  <2>3. /\ w.o.spare = op.spare
        /\ w.o = [op EXCEPT !.next = w.o.next, !.togo = w.o.togo, !.group = w.o.group,
                            !.color = w.o.color, !.spare = w.o.spare]
    BY <1>1, <2>2 DEF OutputType
  <2>4. Goal(w)
    BY <1>2, <2>2, <2>3
  <2> QED
    BY <2>1, <2>4 DEF u
<1>4. CASE mode.merged /\ V = 2
  <2> DEFINE w == merged_2v_upsample(op, room)
  <2>1. u = w
    BY <1>4 DEF upsample
  <2>2. /\ Len(w.rows) \in 1..room /\ w.rows \in Seq(Place)
        /\ NextRows(w.rows, op.line, op.scan)
        /\ Ahead(w.o, op.line + Len(w.rows)) /\ Fresh(w.o)
        /\ w.o = [op EXCEPT !.togo = w.o.togo, !.group = w.o.group, !.spare = w.o.spare]
        /\ w.o.togo \in 0..Height /\ w.o.spare \in Place \union {None}
    BY <1>4, MergedTwoRows, Zenon
  <2> HIDE DEF w, u
  <2>3. /\ w.o.next = op.next /\ w.o.color = op.color
        /\ w.o = [op EXCEPT !.next = w.o.next, !.togo = w.o.togo, !.group = w.o.group,
                            !.color = w.o.color, !.spare = w.o.spare]
    BY <1>1, <2>2 DEF OutputType
  <2>4. Goal(w)
    BY <1>2, <2>2, <2>3
  <2> QED
    BY <2>1, <2>4 DEF u
<1>5. CASE mode.merged /\ V # 2
  <2> DEFINE w == merged_1v_upsample(op)
  <2>1. u = w
    BY <1>5 DEF upsample
  <2>2. V = 1
    BY <1>5, ModeFacts
  <2>3. /\ Len(w.rows) = 1 /\ w.rows \in Seq(Place)
        /\ NextRows(w.rows, op.line, op.scan)
        /\ Ahead(w.o, op.line + 1) /\ Fresh(w.o)
        /\ w.o = [op EXCEPT !.group = w.o.group]
    BY <1>5, <2>2, MergedOneRow, Zenon
  <2> HIDE DEF w, u
  <2>4. /\ w.o.next = op.next /\ w.o.color = op.color
        /\ w.o.togo = op.togo /\ w.o.spare = op.spare
        /\ w.o = [op EXCEPT !.next = w.o.next, !.togo = w.o.togo, !.group = w.o.group,
                            !.color = w.o.color, !.spare = w.o.spare]
    BY <1>1, <2>3 DEF OutputType
  <2>5. 1 \in 1..room
    OBVIOUS
  <2>6. Goal(w)
    BY <1>2, <2>3, <2>4, <2>5
  <2> QED
    BY <2>1, <2>6 DEF u
<1> QED
  BY <1>3, <1>4, <1>5

(* The main controller leaves the lines converted at a row group again.     *)
LEMMA MainKeepsPosition ==
  ASSUME Types, NEW o, NEW f, NEW n \in Nat, Ahead(o, n), Fresh(o), ~mode.raw,
         op.row >= 1, op.held[1] = op.row - 1,
         o.row = op.row, o.held = op.held, o.full = TRUE, o.next \in 0..V,
         f.scan = o.scan, f.row = o.row, f.held = o.held, f.next = o.next, f.togo = o.togo,
         f.color = o.color, f.spare = o.spare, f.line = n,
         f.group = IF o.group >= M THEN 0 ELSE o.group,
         f.full = IF o.group >= M THEN FALSE ELSE TRUE
  PROVE  Position(f) /\ Fresh(f)
<1>1. /\ V \in Nat /\ M \in Nat /\ C \in Nat /\ Height \in Nat /\ op.row \in Nat
  BY Geometry, OutputFields DEF Types
<1>2. /\ o.group \in 0..M /\ n = C * (op.row - 1) + V * o.group + Part(o)
      /\ Part(f) = Part(o)
  BY DEF Ahead, Part
<1>3. /\ n <= Height /\ (~Merged1 => f.togo = Height - n)
      /\ ~mode.merged => f.next # 0
      /\ Merged2 /\ f.spare # None => f.spare[1] = n
  BY DEF Ahead
<1>4. Fresh(f)
  BY <1>1, <1>2 DEF Fresh
<1>5. CASE o.group = M
  <2>1. Part(o) = 0 /\ f.group = 0 /\ ~f.full
    BY <1>1, <1>5 DEF Ahead
  <2>2. n = C * op.row
    <3>1. C * (op.row - 1) + V * M + 0 = C * op.row
      <4>1. C = V * M /\ C * (op.row - 1) = C * op.row - C
        BY <1>1 DEF C
      <4>2. C * op.row \in Int
        BY <1>1
      <4> QED
        BY <1>1, <4>1, <4>2
    <3> QED
      BY <1>2, <1>5, <2>1, <3>1
  <2>3. ~mode.merged => f.next = V
    BY <2>1, <1>3 DEF Part
  <2> QED
    BY <1>2, <1>3, <1>4, <2>1, <2>2, <2>3 DEF Position
<1>6. CASE o.group # M
  <2>1. f.group = o.group /\ f.full
    <3>1. o.group \in 0..M /\ M \in Nat
      BY <1>1, <1>2
    <3>2. ~(o.group >= M)
      BY <1>6, <3>1
    <3>3. f.full = TRUE /\ f.group = o.group
      BY <3>2, Zenon
    <3> QED
      BY <3>3, Zenon
  <2>2. ~mode.merged /\ f.next # V => f.color[1] = f.row - 1 /\ f.color[3] = f.group
    BY <2>1 DEF Ahead
  <2> QED
    BY <1>2, <1>3, <1>4, <2>1, <2>2 DEF Position
<1> QED
  BY <1>5, <1>6

(* No step changes the image or the mode, and with them all they determine. *)
Frame == image' = image /\ mode' = mode
LEMMA FrameGeometry ==
  ASSUME Frame
  PROVE  /\ TotalRows' = TotalRows /\ V' = V /\ M' = M /\ C' = C /\ Height' = Height
         /\ NumScans' = NumScans /\ Merged1' = Merged1 /\ Merged2' = Merged2
         /\ FullBuffer' = FullBuffer /\ PastBottom' = PastBottom /\ Row' = Row
         /\ InputType' = InputType /\ OutputType' = OutputType
         /\ NoOutput(image)' = NoOutput(image) /\ NoInput(image)' = NoInput(image)
<1>1. /\ TotalRows' = TotalRows /\ V' = V /\ M' = M /\ Height' = Height
      /\ NumScans' = NumScans /\ FullBuffer' = FullBuffer
  BY DEF Frame, TotalRows, V, M, Height, NumScans, FullBuffer
<1>2. C' = C /\ Merged1' = Merged1 /\ Merged2' = Merged2
  BY <1>1 DEF Frame, C, Merged1, Merged2
<1>3. PastBottom' = PastBottom
  BY <1>1 DEF Frame, PastBottom
<1>4. Row' = Row
  BY <1>1 DEF Frame, Row
<1>5. InputType' = InputType /\ OutputType' = OutputType
  BY <1>1, <1>4 DEF InputType, OutputType
<1>6. NoOutput(image)' = NoOutput(image) /\ NoInput(image)' = NoInput(image)
  BY DEF Frame
<1> QED
  BY <1>1, <1>2, <1>3, <1>4, <1>5, <1>6

(* What is said of the output side is said of its record alone.             *)
LEMMA FrameOutput ==
  ASSUME Frame
  PROVE  /\ Part(op)' = Part(op') /\ (Position(op)' <=> Position(op'))
         /\ (Fresh(op)' <=> Fresh(op')) /\ (SavedFresh(op)' <=> SavedFresh(op'))
         /\ (Saving(op)' <=> Saving(op')) /\ (Showing(op)' <=> Showing(op'))
<1>1. /\ V' = V /\ M' = M /\ C' = C /\ Height' = Height /\ mode' = mode
      /\ NumScans' = NumScans /\ Merged1' = Merged1 /\ Merged2' = Merged2
  BY FrameGeometry DEF Frame
<1>2. Part(op)' = Part(op')
  BY <1>1 DEF Part
<1>3. Position(op)' <=> Position(op')
  BY <1>1, <1>2 DEF Position
<1>4. Fresh(op)' <=> Fresh(op')
  BY <1>1 DEF Fresh
<1>5. SavedFresh(op)' <=> SavedFresh(op')
  BY DEF SavedFresh
<1>6. Saving(op)' <=> Saving(op')
  BY <1>2 DEF Saving, SavedRow
<1>7. Showing(op)' <=> Showing(op')
  BY <1>1 DEF Showing, SavedRow
<1> QED
  BY <1>2, <1>3, <1>4, <1>5, <1>6, <1>7

(* The scans begun in the first n units.                                    *)
ScansRead(n) == Cardinality({i \in 1..n : image.units[i] = "SOS"})
LEMMA ScansReadBegins ==
  ScansRead(0) = 0
<1>1. {i \in 1..0 : image.units[i] = "SOS"} = {}
  OBVIOUS
<1> QED
  BY <1>1, FS_EmptySet DEF ScansRead

LEMMA ScansReadNext ==
  ASSUME Types, NEW n \in Nat
  PROVE  /\ ScansRead(n) \in Nat
         /\ ScansRead(n + 1) = ScansRead(n) + (IF image.units[n + 1] = "SOS" THEN 1 ELSE 0)
<1> DEFINE S(k) == {i \in 1..k : image.units[i] = "SOS"}
<1>1. IsFiniteSet(S(n))
  <2>1. IsFiniteSet(1..n)
    BY FS_Interval
  <2> QED
    BY <2>1, FS_Subset
<1>2. S(n + 1) = IF image.units[n + 1] = "SOS" THEN S(n) \union {n + 1} ELSE S(n)
  OBVIOUS
<1>3. n + 1 \notin S(n)
  OBVIOUS
<1>4. Cardinality(S(n)) \in Nat
  BY <1>1, FS_CardinalityType
<1>5. Cardinality(S(n) \union {n + 1}) = Cardinality(S(n)) + 1
  BY <1>1, <1>3, FS_AddElement
<1> QED
  BY <1>2, <1>4, <1>5 DEF ScansRead

LEMMA ScansReadBound ==
  ASSUME Types, NEW n \in 0..Len(image.units)
  PROVE  ScansRead(n) <= NumScans
<1> DEFINE S == {i \in 1..n : image.units[i] = "SOS"}
           All == {i \in 1..Len(image.units) : image.units[i] = "SOS"}
<1>1. Len(image.units) \in Nat /\ NumScans \in Nat
  BY GeometryFits
<1>2. IsFiniteSet(All)
  <2>1. IsFiniteSet(1..Len(image.units))
    BY <1>1, FS_Interval
  <2> QED
    BY <2>1, FS_Subset
<1>3. S \subseteq All
  BY <1>1
<1>4. IsFiniteSet(S) /\ Cardinality(S) <= Cardinality(All)
  BY <1>2, <1>3, FS_Subset
<1>5. Cardinality(All) <= NumScans
  BY DecoderAssumption DEF Types, NumScans
<1>6. Cardinality(S) \in Nat /\ Cardinality(All) \in Nat
  BY <1>2, <1>4, FS_CardinalityType
<1> QED
  BY <1>1, <1>4, <1>5, <1>6 DEF ScansRead

(* What an image begins with.                                               *)
LEMMA BeginsTyped ==
  ASSUME image \in Images
  PROVE  NoInput(image) \in InputType /\ NoOutput(image) \in OutputType
<1>1. /\ image.total \in Nat \ {0} /\ image.v \in 1..4 /\ image.m \in 1..16
      /\ image.height \in ((image.total - 1) * image.v * image.m + 1)
                              ..(image.total * image.v * image.m)
  BY DecoderAssumption
<1>2. NoInput(image) \in InputType
  <2>1. [r \in 0..image.total - 1 |-> 0] \in [0..TotalRows - 1 -> Nat]
    BY <1>1 DEF TotalRows
  <2>2. 0 \in 0..TotalRows
    BY <1>1 DEF TotalRows
  <2> QED
    BY <2>1, <2>2 DEF NoInput, InputType
<1>3. image.height \in Nat
  <2>1. (image.total - 1) * image.v * image.m \in Nat
    BY <1>1
  <2>2. image.total * image.v * image.m \in Nat
    BY <1>1
  <2> QED
    BY <1>1, <2>1, <2>2
<1>4. /\ [r \in 0..image.v * image.m * image.total - 1 |-> None]
           \in [0..V * M * TotalRows - 1 -> Row \union {None}]
      /\ 0 \in 0..TotalRows /\ 0 \in 0..M - 1 /\ 0 \in 0..V /\ 0 \in 0..V - 1 /\ 0 \in 0..Height
      /\ <<0, 0>> \in Place /\ <<0, 0, 0>> \in Nat \X Nat \X Nat
  BY <1>1, <1>3 DEF V, M, TotalRows, Height, Place
<1>5. NoOutput(image) \in OutputType
  BY <1>4 DEF NoOutput, OutputType
<1> QED
  BY <1>2, <1>5

(* The state of an image that is still to be begun.                         *)
Begun == ip = NoInput(image) /\ op = NoOutput(image) /\ delivered = <<>> /\ pos = 0
LEMMA BegunHolds ==
  ASSUME Types, Begun, global_state = "START", call = "none"
  PROVE  CallsMatch /\ InputInv /\ OutputInv /\ DeliveredInv
<1>1. CallsMatch
  BY DEF CallsMatch
<1>2. InputInv
  <2>1. ScansRead(pos) = 0
    BY ScansReadBegins DEF Begun
  <2>2. \A r \in 0..TotalRows - 1 : ip.got[r] = 0
    BY DEF Begun, NoInput, TotalRows
  <2>3. /\ ip.scan = 0 /\ ip.inheaders /\ ~ip.data /\ ~ip.eoi /\ ip.row = 0
    BY DEF Begun, NoInput
  <2> QED
    BY <2>1, <2>2, <2>3 DEF InputInv, ScansRead, Begun
<1>3. OutputInv
  <2>1. /\ ~op.dummy /\ ~op.crank /\ ~op.smooth /\ op.scan = 0
        /\ \A r \in DOMAIN op.saved : op.saved[r] = None
    BY DEF Begun, NoOutput
  <2> QED
    BY <2>1 DEF OutputInv, Active, Begun
<1>4. DeliveredInv
  BY DEF DeliveredInv, RowsInOrder, ShowsRequestedScan
<1> QED
  BY <1>1, <1>2, <1>3, <1>4

LEMMA InitInv ==
  Init => DInv
<1> SUFFICES ASSUME Init PROVE DInv
  OBVIOUS
<1>1. Types
  <2>1. image \in Images
    BY DEF Init
  <2>2. NoInput(image) \in InputType /\ NoOutput(image) \in OutputType
    BY <2>1, BeginsTyped
  <2>3. Len(image.units) \in Nat /\ 0 \in 0..MaxPasses /\ 0 \in 0..MaxImages
    BY <2>1, DecoderAssumption
  <2> QED
    BY <2>1, <2>2, <2>3 DEF Init, Types
<1>2. Begun /\ global_state = "START" /\ call = "none"
  BY DEF Init, Begun
<1> QED
  BY <1>1, <1>2, BegunHolds DEF DInv

-----------------------------------------------------------------------------
(* A marker read ...                                                        *)
LEMMA MarkerRead ==
  ASSUME Types, InputInv, consume_markers
  PROVE  /\ pos' = pos + 1 /\ pos' \in 0..avail /\ ip' \in InputType
         /\ ip'.scan = ScansRead(pos') /\ ip'.got = ip.got /\ ~ip.data /\ ~ip.eoi
         /\ \/ ip' = ip /\ op' = op
            \/ /\ ip'.scan = ip.scan + 1 /\ ~ip'.inheaders /\ ~ip'.eoi /\ op' = op
               /\ ip'.data = ~ip.inheaders /\ ip'.row = 0
            \/ /\ ip'.scan = ip.scan /\ ip'.eoi /\ ~ip'.data /\ ip'.row = ip.row
               /\ ip'.inheaders = ip.inheaders
               /\ op' = IF op.scan > ip.scan /\ ~ip.inheaders THEN [op EXCEPT !.scan = ip.scan] ELSE op
<1>1. ip \in InputType /\ pos \in 0..avail /\ avail \in Nat /\ 0 \in 0..TotalRows
  BY Geometry, GeometryFits DEF Types
<1>2. pos < avail /\ Unit = image.units[pos + 1] /\ ~ip.data /\ ~ip.eoi /\ pos' = pos + 1
  BY DEF consume_markers, Unit
<1>3. pos' \in 0..avail /\ pos \in Nat
  BY <1>1, <1>2
<1>4. /\ ScansRead(pos) = ip.scan /\ (ip.inheaders => ip.row = 0)
      /\ ScansRead(pos') = ScansRead(pos) + (IF Unit = "SOS" THEN 1 ELSE 0)
  BY <1>2, <1>3, ScansReadNext DEF InputInv, ScansRead
<1>5. ip.scan \in Nat
  BY <1>1 DEF InputType
<1>6. CASE Unit = "TABLES" /\ ip' = ip /\ op' = op
  BY <1>1, <1>2, <1>3, <1>4, <1>5, <1>6
<1>7. CASE /\ Unit = "SOS" /\ op' = op
           /\ ip' = LET i == [ip EXCEPT !.scan = @ + 1, !.inheaders = FALSE]
                    IN  IF ip.inheaders THEN i ELSE start_input_pass(i)
  <2> DEFINE n == ip.scan + 1
             i == [ip EXCEPT !.scan = n, !.inheaders = FALSE]
  <2>1. n \in Nat
    BY <1>5
  <2>2. ip' = IF ip.inheaders THEN i ELSE start_input_pass(i)
    BY <1>7
  <2> HIDE DEF n
  <2>3. /\ i \in InputType /\ i.scan = n /\ i.got = ip.got /\ i.inheaders = FALSE
        /\ i.eoi = ip.eoi /\ i.data = ip.data /\ i.row = ip.row
    BY <1>1, <2>1 DEF InputType
  <2> HIDE DEF i
  <2>4. LET j == start_input_pass(i)
        IN /\ j \in InputType /\ j.scan = i.scan /\ j.got = i.got /\ j.inheaders = i.inheaders
           /\ j.eoi = i.eoi /\ j.data = TRUE /\ j.row = 0
    BY <1>1, <2>3 DEF InputType, start_input_pass
  <2>5. /\ ip' \in InputType /\ ip'.scan = n /\ ip'.got = ip.got /\ ip'.inheaders = FALSE
        /\ ip'.eoi = ip.eoi /\ ip'.data = (IF ip.inheaders THEN ip.data ELSE TRUE)
        /\ ip'.row = (IF ip.inheaders THEN ip.row ELSE 0)
    BY <2>2, <2>3, <2>4, Zenon
  <2>6. n = ip.scan + 1
    BY DEF n
  <2>7. ip.inheaders \in BOOLEAN
    BY <1>1 DEF InputType
  <2>8. ip'.row = 0 /\ ~ip'.eoi
    BY <1>2, <1>4, <2>5, Zenon
  <2>9. ip'.data = ~ip.inheaders
    <3>1. ip.data = FALSE
      BY <1>1, <1>2 DEF InputType
    <3>2. CASE ip.inheaders
      BY <2>5, <3>1, <3>2, Zenon
    <3>3. CASE ~ip.inheaders
      BY <2>5, <3>3, Zenon
    <3> QED
      BY <3>2, <3>3
  <2>10. ip'.scan = ScansRead(pos')
    BY <1>4, <1>5, <1>7, <2>5, <2>6
  <2> QED
    BY <1>2, <1>3, <1>7, <2>5, <2>6, <2>8, <2>10, <2>9
<1>8. CASE /\ Unit = "EOI" /\ ip' = [ip EXCEPT !.eoi = TRUE]
           /\ op' = IF op.scan > ip.scan /\ ~ip.inheaders THEN [op EXCEPT !.scan = ip.scan] ELSE op
  <2> DEFINE i == [ip EXCEPT !.eoi = TRUE]
  <2>1. /\ i \in InputType /\ i.scan = ip.scan /\ i.got = ip.got
        /\ i.inheaders = ip.inheaders /\ i.eoi = TRUE /\ i.data = ip.data /\ i.row = ip.row
    BY <1>1 DEF InputType
  <2> HIDE DEF i
  <2>2. ip' = i
    BY <1>8 DEF i
  <2>3. ScansRead(pos') = ip.scan
    BY <1>4, <1>5, <1>8
  <2> QED
    BY <1>2, <1>3, <1>8, <2>1, <2>2, <2>3
<1> QED
  BY <1>6, <1>7, <1>8 DEF consume_markers

(* ... and an MCU decoded.                                                  *)
LEMMA DataRead ==
  ASSUME Types, InputInv, consume_data
  PROVE  /\ pos' \in 0..avail /\ ip' \in InputType /\ op' = op
         /\ ip'.scan = ip.scan /\ ip'.scan = ScansRead(pos')
         /\ ip'.inheaders = ip.inheaders /\ ip'.eoi = ip.eoi /\ ip.data
         /\ \/ ip'.row = ip.row /\ ip'.data = ip.data /\ ip'.got = ip.got
            \/ /\ ip'.row = ip.row + 1 /\ (ip'.data <=> ip.row + 1 < TotalRows)
               /\ ip'.got = [ip.got EXCEPT ![ip.row] = ip.scan]
<1>1. ip \in InputType /\ pos \in 0..avail /\ avail \in Nat /\ TotalRows \in Nat
  BY Geometry, GeometryFits DEF Types
<1>2. /\ pos < avail /\ Unit = image.units[pos + 1] /\ ip.data /\ op' = op
      /\ pos' = (IF Unit = "MCU" THEN pos + 1 ELSE pos) /\ ip' = NextMcu(ip)
  BY DEF consume_data, Unit
<1>3. pos' \in 0..avail /\ pos \in Nat
  BY <1>1, <1>2
<1>4. ScansRead(pos') = ip.scan
  <2>1. ScansRead(pos) = ip.scan
    BY DEF InputInv, ScansRead
  <2>2. CASE Unit = "MCU"
    <3>1. ScansRead(pos + 1) = ScansRead(pos) + 0 /\ ScansRead(pos) \in Nat
      BY <1>2, <1>3, <2>2, ScansReadNext
    <3> QED
      BY <1>2, <2>1, <2>2, <3>1
  <2>3. CASE Unit # "MCU"
    BY <1>2, <2>1, <2>3
  <2> QED
    BY <2>2, <2>3
<1>5. ip.row < TotalRows /\ ip.row \in Nat /\ ip.scan \in Nat /\ ip.mcu \in Nat /\ ip.voff \in Nat
  BY <1>1, <1>2 DEF InputInv, InputType
<1>6. CASE ip' = [ip EXCEPT !.mcu = @ + 1]
  <2> DEFINE n == ip.mcu + 1
             i == [ip EXCEPT !.mcu = n]
  <2>1. n \in Nat
    BY <1>5
  <2>2. ip' = i
    BY <1>6
  <2> HIDE DEF n
  <2>3. /\ i \in InputType /\ i.scan = ip.scan /\ i.inheaders = ip.inheaders
        /\ i.eoi = ip.eoi /\ i.row = ip.row /\ i.data = ip.data /\ i.got = ip.got
    BY <1>1, <2>1 DEF InputType
  <2> HIDE DEF i
  <2> QED
    BY <1>2, <1>3, <1>4, <2>2, <2>3
<1>7. CASE ip' = [ip EXCEPT !.mcu = 0, !.voff = @ + 1]
  <2> DEFINE n == ip.voff + 1
             i == [ip EXCEPT !.mcu = 0, !.voff = n]
  <2>1. n \in Nat
    BY <1>5
  <2>2. ip' = i
    BY <1>7
  <2> HIDE DEF n
  <2>3. /\ i \in InputType /\ i.scan = ip.scan /\ i.inheaders = ip.inheaders
        /\ i.eoi = ip.eoi /\ i.row = ip.row /\ i.data = ip.data /\ i.got = ip.got
    BY <1>1, <2>1 DEF InputType
  <2> HIDE DEF i
  <2> QED
    BY <1>2, <1>3, <1>4, <2>2, <2>3
<1>8. CASE ip' = [ip EXCEPT !.mcu = 0, !.voff = 0, !.row = @ + 1, !.got[ip.row] = ip.scan,
                            !.data = ip.row + 1 < TotalRows]
  <2>1. /\ ip'.scan = ip.scan /\ ip'.inheaders = ip.inheaders
        /\ ip'.eoi = ip.eoi /\ ip'.row = ip.row + 1 /\ ip'.data = (ip.row + 1 < TotalRows)
        /\ ip'.got = [ip.got EXCEPT ![ip.row] = ip.scan]
    BY <1>1, <1>8 DEF InputType
  <2>2. [ip.got EXCEPT ![ip.row] = ip.scan] \in [0..TotalRows - 1 -> Nat]
    BY <1>1, <1>5 DEF InputType
  <2>3. ip.row + 1 \in 0..TotalRows
    BY <1>1, <1>5
  <2>4. ip' \in InputType
    <3> DEFINE got == [ip.got EXCEPT ![ip.row] = ip.scan]
               more == ip.row + 1 < TotalRows
               row == ip.row + 1
               i == [ip EXCEPT !.mcu = 0, !.voff = 0, !.row = row, !.got = got, !.data = more]
    <3>1. more \in BOOLEAN /\ row \in 0..TotalRows /\ got \in [0..TotalRows - 1 -> Nat]
      BY <2>2, <2>3
    <3>2. ip' = i
      BY <1>1, <1>8 DEF InputType
    <3> HIDE DEF got, more, row
    <3>3. i \in InputType
      BY <1>1, <3>1 DEF InputType
    <3> QED
      BY <3>2, <3>3
  <2> QED
    BY <1>2, <1>3, <1>4, <2>1, <2>4
<1>9. \/ ip' = [ip EXCEPT !.mcu = @ + 1]
      \/ ip' = [ip EXCEPT !.mcu = 0, !.voff = @ + 1]
      \/ ip' = [ip EXCEPT !.mcu = 0, !.voff = 0, !.row = @ + 1, !.got[ip.row] = ip.scan,
                          !.data = ip.row + 1 < TotalRows]
  BY <1>2 DEF NextMcu
<1> QED
  BY <1>6, <1>7, <1>8, <1>9

(* Reading on, past the header: the input side keeps its account, and the   *)
(* output side is left alone but for a scan that will not come.             *)
LEMMA ConsumeInput ==
  ASSUME Types, InputInv, Frame, global_state' = global_state,
         ~ip.inheaders, global_state # "READY", FullBuffer \/ global_state # "PRELOAD",
         consume_markers \/ consume_data
  PROVE  /\ pos' \in 0..avail /\ ip' \in InputType /\ InputInv'
         /\ op' = op \/ (ip.scan < op.scan /\ op' = [op EXCEPT !.scan = ip.scan])
         /\ ip.scan \in Nat \ {0}
<1>1. /\ TotalRows \in Nat /\ TotalRows >= 1 /\ ip \in InputType /\ op \in OutputType
      /\ TotalRows' = TotalRows /\ (FullBuffer' <=> FullBuffer)
  BY Geometry, FrameGeometry DEF Types
<1>2. /\ ip.scan \in Nat /\ ip.row \in 0..TotalRows /\ ip.got \in [0..TotalRows - 1 -> Nat]
      /\ op.scan \in Nat
  BY <1>1 DEF InputType, OutputType
<1>3. /\ ip.scan # 0 /\ global_state \notin {"START", "INHEADER", "READY"}
      /\ ip.data \/ ip.row = TotalRows
      /\ \A r \in 0..TotalRows - 1 : ip.got[r] = IF r < ip.row THEN ip.scan ELSE ip.scan - 1
      /\ ip.eoi => op.scan <= ip.scan
  BY DEF InputInv
<1>4. ScansRead(pos)' = ScansRead(pos')
  BY DEF ScansRead, Frame
<1>5. FullBuffer' \/ global_state' # "PRELOAD"
  BY <1>1
<1> DEFINE Core == /\ ip'.scan = ScansRead(pos') /\ ip'.scan # 0 /\ ~ip'.inheaders
                   /\ ip'.data => ip'.row < TotalRows /\ ~ip'.eoi
                   /\ ip'.data \/ ip'.row = TotalRows
                   /\ \A r \in 0..TotalRows - 1 :
                        ip'.got[r] = IF r < ip'.row THEN ip'.scan ELSE ip'.scan - 1
                   /\ ip'.eoi => op'.scan <= ip'.scan
<1>6. Core => InputInv'
  <2> SUFFICES ASSUME Core PROVE InputInv'
    OBVIOUS
  <2>1. ScansRead(pos)' = Cardinality({i \in 1..pos : image.units[i] = "SOS"})'
    BY DEF ScansRead
  <2> QED
    BY <1>1, <1>3, <1>4, <1>5, <2>1 DEF InputInv
<1>7. CASE consume_markers
  <2>1. /\ pos' \in 0..avail /\ ip' \in InputType
        /\ ip'.scan = ScansRead(pos') /\ ip'.got = ip.got /\ ~ip.data /\ ~ip.eoi
        /\ \/ ip' = ip /\ op' = op
           \/ /\ ip'.scan = ip.scan + 1 /\ ~ip'.inheaders /\ ~ip'.eoi /\ op' = op
              /\ ip'.data = ~ip.inheaders /\ ip'.row = 0
           \/ /\ ip'.scan = ip.scan /\ ip'.eoi /\ ~ip'.data /\ ip'.row = ip.row
              /\ ip'.inheaders = ip.inheaders
              /\ op' = IF op.scan > ip.scan /\ ~ip.inheaders THEN [op EXCEPT !.scan = ip.scan] ELSE op
    BY <1>7, MarkerRead, Zenon
  <2>2. ip.row = TotalRows
    BY <1>3, <2>1
  <2>3. CASE ip' = ip /\ op' = op
    <3>1. Core
      BY <1>2, <1>3, <2>1, <2>2, <2>3
    <3> QED
      BY <1>2, <1>3, <1>6, <2>1, <2>3, <3>1
  <2>4. CASE /\ ip'.scan = ip.scan + 1 /\ ~ip'.inheaders /\ ~ip'.eoi /\ op' = op
             /\ ip'.data = ~ip.inheaders /\ ip'.row = 0
    <3>1. \A r \in 0..TotalRows - 1 : ip'.got[r] = ip.scan
      BY <1>2, <1>3, <2>1, <2>2
    <3>2. /\ ip'.scan = ScansRead(pos') /\ ip'.scan # 0 /\ ~ip'.inheaders /\ ~ip'.eoi
      BY <1>2, <2>1, <2>4
    <3>3. ip'.data
      BY <2>4
    <3>4. ip'.row < TotalRows
      BY <1>1, <2>4
    <3>5. \A r \in 0..TotalRows - 1 :
            ip'.got[r] = IF r < ip'.row THEN ip'.scan ELSE ip'.scan - 1
      BY <1>2, <2>4, <3>1
    <3>6. Core
      BY <3>2, <3>3, <3>4, <3>5
    <3> QED
      BY <1>2, <1>3, <1>6, <2>1, <2>4, <3>6
  <2>5. CASE /\ ip'.scan = ip.scan /\ ip'.eoi /\ ~ip'.data /\ ip'.row = ip.row
             /\ ip'.inheaders = ip.inheaders
             /\ op' = IF op.scan > ip.scan /\ ~ip.inheaders THEN [op EXCEPT !.scan = ip.scan] ELSE op
    <3>1. op' = op \/ (ip.scan < op.scan /\ op' = [op EXCEPT !.scan = ip.scan])
      BY <1>2, <2>5
    <3>2. op'.scan <= ip.scan
      <4>1. CASE op.scan > ip.scan
        <5>1. op' = [op EXCEPT !.scan = ip.scan]
          BY <2>5, <4>1
        <5>2. op'.scan = ip.scan
          BY <1>1, <5>1 DEF OutputType
        <5> QED
          BY <1>2, <5>2
      <4>2. CASE ~(op.scan > ip.scan)
        BY <1>2, <2>5, <4>2
      <4> QED
        BY <4>1, <4>2
    <3>3. ~ip'.inheaders
      BY <2>5
    <3>4. /\ ip'.scan = ScansRead(pos') /\ ip'.scan # 0
          /\ ip'.data => ip'.row < TotalRows /\ ~ip'.eoi
          /\ ip'.data \/ ip'.row = TotalRows
      BY <1>3, <2>1, <2>2, <2>5
    <3>5. \A r \in 0..TotalRows - 1 :
            ip'.got[r] = IF r < ip'.row THEN ip'.scan ELSE ip'.scan - 1
      BY <1>1, <1>3, <2>1, <2>2, <2>5
    <3>6. ip'.eoi => op'.scan <= ip'.scan
      BY <2>5, <3>2
    <3>7. Core
      BY <3>3, <3>4, <3>5, <3>6
    <3> QED
      BY <1>2, <1>3, <1>6, <2>1, <3>1, <3>7
  <2> QED
    BY <2>1, <2>3, <2>4, <2>5
<1>8. CASE consume_data
  <2>1. /\ pos' \in 0..avail /\ ip' \in InputType /\ op' = op
        /\ ip'.scan = ip.scan /\ ip'.scan = ScansRead(pos')
        /\ ip'.inheaders = ip.inheaders /\ ip'.eoi = ip.eoi /\ ip.data
        /\ \/ ip'.row = ip.row /\ ip'.data = ip.data /\ ip'.got = ip.got
           \/ /\ ip'.row = ip.row + 1 /\ (ip'.data <=> ip.row + 1 < TotalRows)
              /\ ip'.got = [ip.got EXCEPT ![ip.row] = ip.scan]
    BY <1>8, DataRead, Zenon
  <2>2. ip.row < TotalRows /\ ~ip.eoi
    BY <2>1 DEF InputInv
  <2>3. ~ip'.inheaders
    BY <2>1
  <2>4. CASE ip'.row = ip.row /\ ip'.data = ip.data /\ ip'.got = ip.got
    <3>1. Core
      BY <1>2, <1>3, <2>1, <2>2, <2>3, <2>4
    <3> QED
      BY <1>2, <1>3, <1>6, <2>1, <3>1
  <2>5. CASE /\ ip'.row = ip.row + 1 /\ (ip'.data <=> ip.row + 1 < TotalRows)
             /\ ip'.got = [ip.got EXCEPT ![ip.row] = ip.scan]
    <3>1. ASSUME NEW r \in 0..TotalRows - 1
          PROVE  ip'.got[r] = IF r < ip.row + 1 THEN ip.scan ELSE ip.scan - 1
      <4>1. ip.got[r] = IF r < ip.row THEN ip.scan ELSE ip.scan - 1
        BY <1>3, <2>2
      <4>2. r \in Int /\ ip.row \in Int
        BY <1>1, <1>2
      <4>3. CASE r = ip.row
        <5>1. ip'.got[r] = ip.scan
          BY <1>1, <1>2, <2>5, <4>3
        <5> QED
          BY <4>2, <4>3, <5>1
      <4>4. CASE r # ip.row
        <5>1. ip'.got[r] = ip.got[r]
          BY <1>1, <1>2, <2>5, <4>4
        <5> QED
          BY <4>1, <4>2, <4>4, <5>1
      <4> QED
        BY <4>3, <4>4
    <3>2. ip'.data \/ ip'.row = TotalRows
      BY <1>1, <1>2, <2>2, <2>5
    <3>3. Core
      BY <1>2, <1>3, <2>1, <2>2, <2>3, <2>5, <3>1, <3>2
    <3> QED
      BY <1>2, <1>3, <1>6, <2>1, <3>3
  <2> QED
    BY <2>1, <2>4, <2>5
<1> QED
  BY <1>7, <1>8

(* Meanwhile the output side waits; a pending scan is lowered at most.      *)
LEMMA OutputWaits ==
  ASSUME Types, OutputInv, DeliveredInv, Frame, global_state' = global_state,
         delivered' = delivered, ip.scan \in Nat \ {0},
         op' = op \/ (ip.scan < op.scan /\ op' = [op EXCEPT !.scan = ip.scan])
  PROVE  op' \in OutputType /\ OutputInv' /\ DeliveredInv' /\ op'.line = op.line
<1>1. op \in OutputType /\ op.scan \in Nat /\ NumScans \in Nat
  BY OutputFields, Geometry DEF Types
<1>2. /\ op' \in OutputType /\ op'.row = op.row /\ op'.line = op.line /\ op'.full = op.full
      /\ op'.group = op.group /\ op'.held = op.held /\ op'.next = op.next /\ op'.togo = op.togo
      /\ op'.color = op.color /\ op'.spare = op.spare /\ op'.dummy = op.dummy
      /\ op'.crank = op.crank /\ op'.colormap = op.colormap /\ op'.smooth = op.smooth
      /\ op'.start = op.start /\ op'.strip = op.strip /\ op'.saved = op.saved
  BY <1>1 DEF OutputType
<1>3. /\ op'.scan \in Nat /\ op'.scan <= op.scan /\ (op.scan >= 1 => op'.scan >= 1)
      /\ op = NoOutput(image) => op' = op
  <2>1. CASE op' = op
    BY <1>1, <2>1
  <2>2. CASE ip.scan < op.scan /\ op' = [op EXCEPT !.scan = ip.scan]
    <3>1. op'.scan = ip.scan
      BY <1>1, <2>2 DEF OutputType
    <3>2. op # NoOutput(image)
      <4>1. NoOutput(image).scan = 0
        BY DEF NoOutput
      <4> QED
        BY <1>1, <2>2, <4>1
    <3> QED
      BY <1>1, <2>2, <3>1, <3>2
  <2> QED
    BY <2>1, <2>2
<1>4. /\ (FullBuffer' <=> FullBuffer) /\ mode' = mode /\ NumScans' = NumScans
      /\ NoOutput(image)' = NoOutput(image) /\ Height' = Height /\ PastBottom' = PastBottom
      /\ Merged2' = Merged2 /\ Merged1' = Merged1 /\ V' = V
  BY FrameGeometry DEF Frame
<1>5. Part(op') = Part(op) /\ (Position(op') <=> Position(op))
  BY <1>2 DEF Part, Position
<1>6. Fresh(op) => Fresh(op')
  <2> SUFFICES ASSUME Fresh(op) PROVE Fresh(op')
    OBVIOUS
  <2>1. /\ op.held \in Place /\ op.color \in Nat \X Nat \X Nat
        /\ op.spare \in Place \union {None}
    BY <1>1, OutputFields
  <2>2. /\ op.held[2] \in Nat /\ op.color[2] \in Nat
        /\ op.spare # None => op.spare[2] \in Nat
    BY <2>1 DEF Place
  <2> HIDE DEF Place
  <2> QED
    BY <1>1, <1>2, <1>3, <2>2 DEF Fresh
<1>7. Saving(op) => Saving(op')
  BY <1>2, <1>5 DEF Saving, SavedRow
<1>8. Showing(op) => Showing(op')
  BY <1>2 DEF Showing, SavedRow
<1>9. SavedFresh(op) => SavedFresh(op')
  <2> SUFFICES ASSUME SavedFresh(op), NEW r \in DOMAIN op.saved, op.saved[r] # None
               PROVE  op'.scan <= op.saved[r][2]
    BY <1>2 DEF SavedFresh
  <2>1. op.scan <= op.saved[r][2]
    BY DEF SavedFresh
  <2>2. op.saved[r] \in Row
    BY <1>1, OutputFields
  <2>3. op.saved[r][2] \in Nat
    BY <2>2, <1>1 DEF Row, NumScans
  <2> QED
    BY <1>1, <1>3, <2>1, <2>3
<1>10. OutputInv'
  <2>1. /\ Position(op)' <=> Position(op)
        /\ Fresh(op) => Fresh(op)'
        /\ Saving(op) => Saving(op)'
        /\ Showing(op) => Showing(op)'
        /\ SavedFresh(op) => SavedFresh(op)'
    BY <1>5, <1>6, <1>7, <1>8, <1>9, FrameOutput
  <2>2. global_state' \in {"START", "INHEADER", "READY", "PRELOAD"} => op' = NoOutput(image)'
    BY <1>3, <1>4 DEF OutputInv
  <2>3. /\ op'.dummy => global_state' = "PRESCAN" /\ mode'.quant = "two" /\ ~op'.crank /\ ~op'.colormap
        /\ op'.crank => mode'.quant = "two" /\ op'.colormap
        /\ op'.smooth => FullBuffer'
        /\ ~op'.colormap /\ ~op'.dummy => \A r \in DOMAIN op'.saved : op'.saved[r] = None
    BY <1>2, <1>4 DEF OutputInv
  <2>4. ~FullBuffer' => op'.scan <= 1
    BY <1>1, <1>3, <1>4 DEF OutputInv
  <2>5. Active' => Active
    BY DEF Active
  <2>6. ASSUME Active PROVE op'.scan >= 1 /\ op'.scan <= NumScans'
    <3>1. op.scan >= 1 /\ op.scan <= NumScans
      BY <2>6 DEF OutputInv
    <3> QED
      BY <1>1, <1>3, <1>4, <3>1
  <2>7. ASSUME Active
        PROVE  /\ ~op'.crank => Position(op)' /\ Fresh(op)'
               /\ op'.dummy => Saving(op)'
               /\ op'.crank => Showing(op)'
               /\ op'.dummy \/ op'.crank => SavedFresh(op)'
    BY <1>2, <2>1, <2>7 DEF OutputInv
  <2>8. global_state' = "PRESCAN" => delivered' = <<>> /\ (~op'.dummy => op'.line = 0)
    BY <1>2 DEF OutputInv
  <2> QED
    BY <2>2, <2>3, <2>4, <2>5, <2>6, <2>7, <2>8 DEF OutputInv
<1>11. DeliveredInv'
  <2>1. RowsInOrder'
    BY <1>2, <1>4 DEF DeliveredInv, RowsInOrder
  <2>2. ShowsRequestedScan'
    <3> SUFFICES ASSUME global_state \in {"SCANNING", "RAW_OK"}, NEW i \in DOMAIN delivered,
                        delivered[i] # None
                 PROVE  op'.scan <= delivered[i][2]
      BY DEF ShowsRequestedScan
    <3>1. delivered[i][2] >= op.scan
      BY DEF DeliveredInv, ShowsRequestedScan
    <3>2. delivered[i] \in Place
      BY DEF Types
    <3>3. delivered[i][2] \in Nat
      BY <3>2 DEF Place
    <3> QED
      BY <1>1, <1>3, <3>1, <3>3
  <2> QED
    BY <2>1, <2>2 DEF DeliveredInv
<1> QED
  BY <1>2, <1>10, <1>11

-----------------------------------------------------------------------------
(* The parts of the invariant that a step leaves alone.                     *)
LEMMA TypesStay ==
  ASSUME Types, Frame, ip' \in InputType, op' \in OutputType,
         avail' \in 0..Len(image.units), pos' \in 0..avail', ask' \in Nat,
         delivered' \in Seq(Place \union {None}),
         passes' \in 0..MaxPasses, images' \in 0..MaxImages
  PROVE  Types'
<1>1. InputType' = InputType /\ OutputType' = OutputType
  BY FrameGeometry
<1> QED
  BY <1>1 DEF Types, Frame, ModesFor, Place

(* From one state of the API to another, past the header.                   *)
Later == {"PRESCAN", "SCANNING", "RAW_OK", "BUFIMAGE", "BUFPOST", "STOPPING"}
LEMMA InputStays ==
  ASSUME Types, InputInv, Frame, ip' = ip, pos' = pos,
         op'.scan = op.scan \/ (ip.eoi => op'.scan <= ip.scan),
         \/ /\ global_state' = global_state /\ (call' = "none" \/ global_state # "START")
            /\ FullBuffer \/ global_state # "PRELOAD" \/ call' # "consume"
         \/ global_state \in Later \union {"PRELOAD"} /\ global_state' \in Later
  PROVE  InputInv'
<1>1. ScansRead(pos)' = ScansRead(pos) /\ TotalRows' = TotalRows /\ (FullBuffer' <=> FullBuffer)
  BY FrameGeometry DEF ScansRead, Frame
<1>2. /\ ip.scan = ScansRead(pos)' /\ (ip.inheaders <=> ip.scan = 0)
      /\ ip.inheaders => ~ip.data /\ ip.row = 0
      /\ ip.data => ip.row < TotalRows' /\ ~ip.eoi
      /\ \A r \in 0..TotalRows' - 1 :
           ip.got[r] = IF r < ip.row THEN ip.scan ELSE IF ip.inheaders THEN 0 ELSE ip.scan - 1
      /\ ip.eoi => op'.scan <= ip.scan
  BY <1>1 DEF InputInv, ScansRead
<1>3. CASE /\ global_state' = global_state /\ (call' = "none" \/ global_state # "START")
           /\ FullBuffer \/ global_state # "PRELOAD" \/ call' # "consume"
  <2>1. /\ ip.inheaders <=> global_state' \in {"START", "INHEADER"}
        /\ global_state' = "START" => pos' = 0 /\ call' = "none"
        /\ global_state' = "READY" => ~ip.data /\ ~ip.eoi /\ ip.row = 0 /\ ip.scan = 1
        /\ ip.inheaders \/ global_state' = "READY" \/ ip.data \/ ip.row = TotalRows'
        /\ ~FullBuffer' /\ global_state' = "PRELOAD" => ip.data /\ ip.scan = 1 /\ call' # "consume"
    BY <1>1, <1>3 DEF InputInv
  <2> QED
    BY <1>2, <2>1 DEF InputInv, ScansRead
<1>4. CASE global_state \in Later \union {"PRELOAD"} /\ global_state' \in Later
  <2>1. /\ ~ip.inheaders /\ (ip.data \/ ip.row = TotalRows')
    BY <1>1, <1>4 DEF InputInv, Later
  <2>2. global_state' \notin {"START", "INHEADER", "READY", "PRELOAD"}
    BY <1>4 DEF Later
  <2> QED
    BY <1>2, <2>1, <2>2 DEF InputInv, ScansRead
<1> QED
  BY <1>3, <1>4

LEMMA OutputStays ==
  ASSUME Types, OutputInv, DeliveredInv, Frame, op' = op, delivered' = delivered,
         \/ global_state' = global_state
         \/ /\ global_state # "PRESCAN" /\ global_state' \notin {"PRESCAN", "SCANNING", "RAW_OK"}
            /\ \/ global_state' \notin {"START", "INHEADER", "READY", "PRELOAD"}
               \/ global_state \in {"START", "INHEADER", "READY", "PRELOAD"}
  PROVE  OutputInv' /\ DeliveredInv'
<1>1. /\ (FullBuffer' <=> FullBuffer) /\ mode' = mode /\ NumScans' = NumScans
      /\ NoOutput(image)' = NoOutput(image) /\ Height' = Height /\ PastBottom' = PastBottom
  BY FrameGeometry DEF Frame
<1>2. /\ Position(op)' <=> Position(op)
      /\ Fresh(op)' <=> Fresh(op)
      /\ Saving(op)' <=> Saving(op)
      /\ Showing(op)' <=> Showing(op)
      /\ SavedFresh(op)' <=> SavedFresh(op)
  BY FrameOutput
<1>3. /\ ~op.colormap /\ ~op.dummy => \A r \in DOMAIN op.saved : op.saved[r] = None
      /\ ~FullBuffer => op.scan <= 1
      /\ op.crank => mode.quant = "two" /\ op.colormap
      /\ op.smooth => FullBuffer
  BY DEF OutputInv
<1>4. /\ global_state' \in {"START", "INHEADER", "READY", "PRELOAD"} => op = NoOutput(image)'
      /\ op.dummy => global_state' = "PRESCAN" /\ mode.quant = "two" /\ ~op.crank /\ ~op.colormap
      /\ global_state' = "PRESCAN" => delivered = <<>> /\ (~op.dummy => op.line = 0)
      /\ Active' => Active
  BY <1>1 DEF OutputInv, Active
<1>5. Active => /\ op.scan >= 1 /\ op.scan <= NumScans
                /\ ~op.crank => Position(op) /\ Fresh(op)
                /\ op.dummy => Saving(op)
                /\ op.crank => Showing(op)
                /\ op.dummy \/ op.crank => SavedFresh(op)
  BY DEF OutputInv
<1>6. OutputInv'
  BY <1>1, <1>2, <1>3, <1>4, <1>5 DEF OutputInv
<1>7. DeliveredInv'
  BY <1>1 DEF DeliveredInv, RowsInOrder, ShowsRequestedScan
<1> QED
  BY <1>6, <1>7

(* The state as the type lemma wants it.                                    *)
LEMMA TypeFacts ==
  ASSUME Types
  PROVE  /\ ip \in InputType /\ op \in OutputType
         /\ avail \in 0..Len(image.units) /\ pos \in 0..avail /\ ask \in Nat
         /\ delivered \in Seq(Place \union {None})
         /\ passes \in 0..MaxPasses /\ images \in 0..MaxImages
         /\ Len(image.units) \in Nat /\ avail \in Nat
<1>1. Len(image.units) \in Nat
  BY GeometryFits
<1> QED
  BY <1>1 DEF Types

LEMMA DataArrivesKeeps ==
  ASSUME DInv, DataArrives
  PROVE  DInv'
<1>1. Frame /\ UNCHANGED <<pos, global_state, call, ask, ip, op, delivered, passes, images>>
  BY DEF DataArrives, frame, Frame
<1>2. Types /\ CallsMatch /\ InputInv /\ OutputInv /\ DeliveredInv
  BY DEF DInv
<1>3. avail' \in 0..Len(image.units) /\ pos \in 0..avail'
  BY <1>2, TypeFacts DEF DataArrives
<1>4. Types'
  BY <1>1, <1>2, <1>3, TypeFacts, TypesStay
<1>5. InputInv'
  <2>1. /\ call' = "none" \/ global_state # "START"
        /\ FullBuffer \/ global_state # "PRELOAD" \/ call' # "consume"
    BY <1>1, <1>2 DEF InputInv
  <2> QED
    BY <1>1, <1>2, <2>1, InputStays
<1>6. OutputInv' /\ DeliveredInv'
  BY <1>1, <1>2, OutputStays
<1>7. CallsMatch'
  BY <1>1, <1>2, FrameGeometry DEF CallsMatch, Frame
<1> QED
  BY <1>4, <1>5, <1>6, <1>7 DEF DInv

(* A call made, or one that returns, with nothing else done.                *)
LEMMA CallChanges ==
  ASSUME DInv, Frame, UNCHANGED <<avail, pos, ip, op, delivered, passes, images>>, ask' \in Nat,
         CallsMatch',
         \/ /\ global_state' = global_state /\ (call' = "none" \/ global_state # "START")
            /\ FullBuffer \/ global_state # "PRELOAD" \/ call' # "consume"
         \/ /\ global_state \in Later \ {"PRESCAN"}
            /\ global_state' \in Later \ {"PRESCAN", "SCANNING", "RAW_OK"}
  PROVE  DInv'
<1>1. Types /\ InputInv /\ OutputInv /\ DeliveredInv
  BY DEF DInv
<1>2. Types'
  BY <1>1, TypeFacts, TypesStay
<1>3. InputInv'
  BY <1>1, InputStays
<1>4. OutputInv' /\ DeliveredInv'
  BY <1>1, OutputStays DEF Later
<1> QED
  BY <1>2, <1>3, <1>4 DEF DInv

LEMMA CallsKeep ==
  ASSUME DInv,
         \/ jpeg_read_scanlines \/ jpeg_read_raw_data \/ jpeg_consume_input
         \/ jpeg_finish_output \/ jpeg_finish_decompress \/ Suspend
         \/ (FinishOutputStep /\ ~(ip.scan <= op.scan /\ ~ip.eoi))
  PROVE  DInv'
<1>1. Types /\ CallsMatch /\ InputInv /\ OutputInv /\ DeliveredInv
  BY DEF DInv
<1>2. ask \in Nat /\ MaxLines \in Nat
  BY <1>1, TypeFacts, DecoderAssumption
<1>3. CASE jpeg_read_scanlines
  <2>1. /\ Frame /\ UNCHANGED <<avail, pos, global_state, ip, op, delivered, passes, images>>
        /\ global_state = "SCANNING" /\ op.line < Height /\ ask' \in 1..MaxLines /\ call' = "read"
    BY <1>3 DEF jpeg_read_scanlines, frame, Frame
  <2>2. ask' \in Nat /\ ask' # 0
    BY <1>2, <2>1
  <2>3. CallsMatch'
    BY <1>1, <2>1, <2>2, FrameGeometry DEF CallsMatch, Frame
  <2> QED
    BY <2>1, <2>2, <2>3, CallChanges
<1>4. CASE jpeg_read_raw_data
  <2>1. /\ Frame /\ UNCHANGED <<avail, pos, global_state, ask, ip, op, delivered, passes, images>>
        /\ global_state = "RAW_OK" /\ op.line < Height /\ call' = "raw"
    BY <1>4 DEF jpeg_read_raw_data, frame, Frame
  <2>2. CallsMatch'
    BY <1>1, <2>1, FrameGeometry DEF CallsMatch, Frame
  <2> QED
    BY <1>2, <2>1, <2>2, CallChanges
<1>5. CASE jpeg_consume_input
  <2>1. /\ Frame /\ UNCHANGED <<avail, pos, global_state, ask, ip, op, delivered, passes, images>>
        /\ global_state \in Later \union {"PRELOAD"} /\ call' = "consume"
        /\ FullBuffer \/ ~ip.data
    BY <1>5 DEF jpeg_consume_input, frame, Frame, Later
  <2>2. CallsMatch'
    BY <1>1, <2>1, FrameGeometry DEF CallsMatch, Frame, Later
  <2>3. FullBuffer \/ global_state # "PRELOAD"
    BY <1>1, <2>1 DEF InputInv
  <2>4. global_state # "START"
    BY <2>1 DEF Later
  <2> QED
    BY <1>2, <2>1, <2>2, <2>3, <2>4, CallChanges
<1>6. CASE jpeg_finish_output
  <2>1. /\ Frame /\ UNCHANGED <<avail, pos, ask, ip, op, delivered, passes, images>>
        /\ global_state \in {"SCANNING", "RAW_OK", "BUFPOST"}
        /\ global_state' = "BUFPOST" /\ call' = "finish_output"
    BY <1>6 DEF jpeg_finish_output, frame, Frame
  <2>2. CallsMatch'
    BY <1>1, <2>1, FrameGeometry DEF CallsMatch, Frame
  <2> QED
    BY <1>2, <2>1, <2>2, CallChanges DEF Later
<1>7. CASE jpeg_finish_decompress
  <2>1. /\ Frame /\ UNCHANGED <<avail, pos, ask, ip, op, delivered, passes, images>>
        /\ global_state \in {"SCANNING", "RAW_OK", "BUFIMAGE", "STOPPING"}
        /\ global_state' = "STOPPING" /\ call' = "finish"
    BY <1>7 DEF jpeg_finish_decompress, frame, Frame
  <2>2. CallsMatch'
    BY <1>1, <2>1, FrameGeometry DEF CallsMatch, Frame
  <2> QED
    BY <1>2, <2>1, <2>2, CallChanges DEF Later
<1>8. CASE Suspend
  <2>1. /\ Frame /\ UNCHANGED <<avail, pos, ask, global_state, ip, op, delivered, passes, images>>
        /\ call' = "none"
    BY <1>8 DEF Suspend, Return, frame, Frame
  <2>2. CallsMatch'
    BY <1>1, <2>1, FrameGeometry DEF CallsMatch, Frame
  <2> QED
    BY <1>2, <2>1, <2>2, CallChanges
<1>9. CASE FinishOutputStep /\ ~(ip.scan <= op.scan /\ ~ip.eoi)
  <2>1. /\ Frame /\ UNCHANGED <<avail, pos, ask, ip, op, delivered, passes, images>>
        /\ call = "finish_output" /\ global_state' = "BUFIMAGE" /\ call' = "none"
    BY <1>9 DEF FinishOutputStep, Return, frame, Frame
  <2>2. global_state = "BUFPOST"
    BY <1>1, <2>1 DEF CallsMatch
  <2>3. CallsMatch'
    BY <1>1, <2>1, <2>2, FrameGeometry DEF CallsMatch, Frame
  <2> QED
    BY <1>2, <2>1, <2>2, <2>3, CallChanges DEF Later
<1> QED
  BY <1>3, <1>4, <1>5, <1>6, <1>7, <1>8, <1>9

(* Reading on within a call keeps the invariant.                            *)
LEMMA ConsumeKeeps ==
  ASSUME DInv, Consume, global_state' = global_state, call' \in {call, "none"},
         global_state \in Later \union {"PRELOAD"}, FullBuffer \/ global_state # "PRELOAD"
  PROVE  DInv'
<1>1. Types /\ CallsMatch /\ InputInv /\ OutputInv /\ DeliveredInv
  BY DEF DInv
<1>2. /\ Frame /\ UNCHANGED <<avail, ask, delivered, passes, images>>
      /\ consume_markers \/ consume_data
  BY DEF Consume, frame, Frame
<1>3. ~ip.inheaders /\ global_state # "READY"
  BY <1>1 DEF InputInv, Later
<1>4. /\ pos' \in 0..avail /\ ip' \in InputType /\ InputInv'
      /\ op' = op \/ (ip.scan < op.scan /\ op' = [op EXCEPT !.scan = ip.scan])
      /\ ip.scan \in Nat \ {0}
  BY <1>1, <1>2, <1>3, ConsumeInput
<1>5. op' \in OutputType /\ OutputInv' /\ DeliveredInv' /\ op'.line = op.line
  BY <1>1, <1>2, <1>4, OutputWaits
<1>6. Types'
  BY <1>1, <1>2, <1>4, <1>5, TypeFacts, TypesStay
<1>7. CallsMatch'
  BY <1>1, <1>2, <1>5, FrameGeometry DEF CallsMatch, Frame
<1> QED
  BY <1>4, <1>5, <1>6, <1>7 DEF DInv

LEMMA ConsumingStepsKeep ==
  ASSUME DInv,
         \/ ConsumeStep
         \/ (PreloadStep /\ image.multiple /\ ~ip.eoi)
         \/ (FillMain /\ NeedInput)
         \/ (FinishOutputStep /\ ip.scan <= op.scan /\ ~ip.eoi)
         \/ (FinishStep /\ ~ip.eoi)
  PROVE  DInv'
<1>1. CallsMatch /\ InputInv
  BY DEF DInv
<1>2. CASE ConsumeStep
  <2>1. Consume /\ global_state' = global_state /\ call' \in {call, "none"} /\ call = "consume"
    BY <1>2 DEF ConsumeStep
  <2>2. global_state \in Later \union {"PRELOAD"} /\ (FullBuffer \/ global_state # "PRELOAD")
    BY <1>1, <2>1 DEF CallsMatch, InputInv, Later
  <2> QED
    BY <2>1, <2>2, ConsumeKeeps
<1>3. CASE PreloadStep /\ image.multiple /\ ~ip.eoi
  <2>1. Consume /\ global_state' = global_state /\ call' = call /\ call = "preload"
    BY <1>3 DEF PreloadStep
  <2>2. global_state \in Later \union {"PRELOAD"} /\ FullBuffer
    BY <1>1, <1>3, <2>1 DEF CallsMatch, FullBuffer
  <2> QED
    BY <2>1, <2>2, ConsumeKeeps
<1>4. CASE FillMain /\ NeedInput
  <2>1. Consume /\ global_state' = global_state /\ call' = call /\ NeedsRow
    BY <1>4 DEF FillMain
  <2>2. global_state \in {"PRESCAN", "SCANNING", "RAW_OK"}
    BY <1>1, <2>1 DEF CallsMatch, NeedsRow
  <2> QED
    BY <2>1, <2>2, ConsumeKeeps DEF Later
<1>5. CASE FinishOutputStep /\ ip.scan <= op.scan /\ ~ip.eoi
  <2>1. Consume /\ global_state' = global_state /\ call' = call /\ call = "finish_output"
    BY <1>5 DEF FinishOutputStep
  <2>2. global_state = "BUFPOST"
    BY <1>1, <2>1 DEF CallsMatch
  <2> QED
    BY <2>1, <2>2, ConsumeKeeps DEF Later
<1>6. CASE FinishStep /\ ~ip.eoi
  <2>1. Consume /\ global_state' = global_state /\ call' = call /\ call = "finish"
    BY <1>6 DEF FinishStep
  <2>2. global_state = "STOPPING"
    BY <1>1, <2>1 DEF CallsMatch
  <2> QED
    BY <2>1, <2>2, ConsumeKeeps DEF Later
<1> QED
  BY <1>2, <1>3, <1>4, <1>5, <1>6

(* An image released leaves the object as it began.                         *)
LEMMA BegunNow ==
  Types /\ Begun /\ global_state = "START" /\ call = "none"
    => CallsMatch /\ InputInv /\ OutputInv /\ DeliveredInv
BY BegunHolds

LEMMA BegunNext ==
  (Types /\ Begun /\ global_state = "START" /\ call = "none"
     => CallsMatch /\ InputInv /\ OutputInv /\ DeliveredInv)'
BY BegunNow, PTL

LEMMA ReleaseKeeps ==
  ASSUME DInv, Release, global_state # "START"
  PROVE  DInv'
<1>1. Types /\ images < MaxImages
  BY DEF DInv, CallsMatch
<1>2. /\ Frame /\ images' = images + 1 /\ avail' = 0 /\ pos' = 0 /\ delivered' = <<>>
      /\ passes' = 0 /\ ask' = 0 /\ ip' = NoInput(image) /\ op' = NoOutput(image)
      /\ global_state' = "START" /\ call' = "none"
  BY DEF Release, Return, Frame
<1>3. image \in Images /\ MaxImages \in Nat /\ MaxPasses \in Nat /\ images \in Nat
  BY <1>1, DecoderAssumption DEF Types
<1>4. ip' \in InputType /\ op' \in OutputType
  BY <1>2, <1>3, BeginsTyped
<1>5. Types'
  <2>1. images' \in 0..MaxImages /\ passes' \in 0..MaxPasses /\ avail' \in 0..Len(image.units)
    BY <1>1, <1>2, <1>3, TypeFacts
  <2> QED
    BY <1>1, <1>2, <1>4, <2>1, TypesStay
<1>6. Begun'
  BY <1>2 DEF Begun, Frame
<1>7. (Types /\ Begun /\ global_state = "START" /\ call = "none")'
  BY <1>2, <1>5, <1>6
<1>8. (CallsMatch /\ InputInv /\ OutputInv /\ DeliveredInv)'
  BY <1>7, BegunNext
<1> QED
  BY <1>5, <1>8 DEF DInv

(* The input side as it is given an account of: what InputInv asks.         *)
LEMMA InputAccount ==
  ASSUME Frame, NEW g, global_state' = g,
         ip'.scan = ScansRead(pos'),
         ip'.inheaders <=> ip'.scan = 0,
         ip'.inheaders <=> g \in {"START", "INHEADER"},
         g # "START",
         ip'.inheaders => ~ip'.data /\ ip'.row = 0,
         g = "READY" => ~ip'.data /\ ~ip'.eoi /\ ip'.row = 0 /\ ip'.scan = 1,
         ip'.data => ip'.row < TotalRows /\ ~ip'.eoi,
         ip'.inheaders \/ g = "READY" \/ ip'.data \/ ip'.row = TotalRows,
         \A r \in 0..TotalRows - 1 :
           ip'.got[r] = IF r < ip'.row THEN ip'.scan ELSE IF ip'.inheaders THEN 0 ELSE ip'.scan - 1,
         ip'.eoi => op'.scan <= ip'.scan,
         ~FullBuffer /\ g = "PRELOAD" => ip'.data /\ ip'.scan = 1 /\ call' # "consume"
  PROVE  InputInv'
<1>1. ScansRead(pos)' = ScansRead(pos') /\ TotalRows' = TotalRows /\ (FullBuffer' <=> FullBuffer)
  BY FrameGeometry DEF ScansRead, Frame
<1>2. Cardinality({i \in 1..pos : image.units[i] = "SOS"})' = ScansRead(pos')
  BY <1>1 DEF ScansRead
<1> QED
  BY <1>1, <1>2 DEF InputInv

LEMMA ReadHeaderKeeps ==
  ASSUME DInv, jpeg_read_header
  PROVE  DInv'
<1>1. Types /\ CallsMatch /\ InputInv /\ OutputInv /\ DeliveredInv
  BY DEF DInv
<1>2. /\ Frame /\ UNCHANGED <<avail, pos, ask, op, delivered, passes, images>>
      /\ images < MaxImages /\ global_state \in {"START", "INHEADER"}
      /\ global_state' = "INHEADER" /\ call' = "read_header"
      /\ ip' = IF global_state = "START" THEN NoInput(image) ELSE ip
  BY DEF jpeg_read_header, frame, Frame
<1>3. ip' \in InputType
  BY <1>1, <1>2, BeginsTyped DEF Types
<1>4. Types'
  BY <1>1, <1>2, <1>3, TypeFacts, TypesStay
<1>5. CallsMatch'
  BY <1>1, <1>2, FrameGeometry DEF CallsMatch, Frame
<1>6. OutputInv' /\ DeliveredInv'
  BY <1>1, <1>2, OutputStays
<1>7. InputInv'
  <2>1. op.scan = 0
    BY <1>1, <1>2 DEF OutputInv, NoOutput
  <2>2. /\ ip'.inheaders /\ ip'.scan = 0 /\ ~ip'.data /\ ip'.row = 0
        /\ \A r \in 0..TotalRows - 1 : ip'.got[r] = 0
        /\ ip'.scan = ScansRead(pos') /\ (ip'.eoi => op'.scan <= ip'.scan)
    <3>1. CASE global_state = "START"
      <4>1. ip' = NoInput(image) /\ pos' = 0
        BY <1>1, <1>2, <3>1 DEF InputInv
      <4> QED
        BY <4>1, ScansReadBegins DEF NoInput, TotalRows
    <3>2. CASE global_state = "INHEADER"
      <4>1. ip' = ip
        BY <1>2, <3>2
      <4>2. /\ ip.inheaders /\ ip.scan = 0 /\ ip.row = 0 /\ ~ip.data /\ ip.scan = ScansRead(pos)
            /\ \A r \in 0..TotalRows - 1 :
                 ip.got[r] = IF r < ip.row THEN ip.scan ELSE IF ip.inheaders THEN 0 ELSE ip.scan - 1
        BY <1>1, <3>2 DEF InputInv, ScansRead
      <4> QED
        BY <1>2, <2>1, <4>1, <4>2
    <3> QED
      BY <1>2, <3>1, <3>2
  <2> QED
    BY <1>2, <2>2, InputAccount
<1> QED
  BY <1>4, <1>5, <1>6, <1>7 DEF DInv

LEMMA HeaderStepKeeps ==
  ASSUME DInv, HeaderStep
  PROVE  DInv'
<1>1. Types /\ CallsMatch /\ InputInv /\ OutputInv /\ DeliveredInv
  BY DEF DInv
<1>2. /\ Frame /\ UNCHANGED <<avail, ask, delivered, passes, images>>
      /\ call = "read_header" /\ consume_markers
      /\ IF ip'.inheaders THEN global_state' = global_state /\ call' = call
         ELSE global_state' = "READY" /\ call' = "none"
  BY DEF HeaderStep, Return, frame, Frame
<1>3. global_state = "INHEADER"
  BY <1>1, <1>2 DEF CallsMatch
<1>4. /\ ip.inheaders /\ ip.scan = 0 /\ ip.row = 0 /\ ~ip.data
      /\ \A r \in 0..TotalRows - 1 : ip.got[r] = 0
      /\ op.scan = 0
  BY <1>1, <1>3 DEF InputInv, OutputInv, NoOutput
<1>5. /\ pos' \in 0..avail /\ ip' \in InputType
      /\ ip'.scan = ScansRead(pos') /\ ip'.got = ip.got /\ ~ip.data /\ ~ip.eoi
      /\ \/ ip' = ip /\ op' = op
         \/ /\ ip'.scan = ip.scan + 1 /\ ~ip'.inheaders /\ ~ip'.eoi /\ op' = op
            /\ ip'.data = ~ip.inheaders /\ ip'.row = 0
         \/ /\ ip'.scan = ip.scan /\ ip'.eoi /\ ~ip'.data /\ ip'.row = ip.row
            /\ ip'.inheaders = ip.inheaders
            /\ op' = IF op.scan > ip.scan /\ ~ip.inheaders THEN [op EXCEPT !.scan = ip.scan] ELSE op
  BY <1>1, <1>2, MarkerRead, Zenon
<1>6. op' = op /\ ~ip'.data /\ ip'.row = 0
  BY <1>4, <1>5
<1>7. \/ ip'.inheaders /\ ip'.scan = 0
      \/ ~ip'.inheaders /\ ip'.scan = 1 /\ ~ip'.eoi
  <2>1. 0 + 1 = 1
    OBVIOUS
  <2> QED
    BY <1>4, <1>5, <2>1, Zenon
<1>8. Types'
  BY <1>1, <1>2, <1>5, <1>6, TypeFacts, TypesStay
<1>9. CallsMatch'
  BY <1>1, <1>2, <1>3, <1>7, FrameGeometry DEF CallsMatch, Frame
<1>10. OutputInv' /\ DeliveredInv'
  BY <1>1, <1>2, <1>3, <1>6, <1>7, OutputStays
<1>11. InputInv'
  <2>1. \A r \in 0..TotalRows - 1 :
          ip'.got[r] = IF r < ip'.row THEN ip'.scan ELSE IF ip'.inheaders THEN 0 ELSE ip'.scan - 1
    BY <1>4, <1>5, <1>6, <1>7
  <2>2. ip'.eoi => op'.scan <= ip'.scan
    BY <1>4, <1>6, <1>7
  <2>3. CASE ip'.inheaders
    <3>1. global_state' = "INHEADER"
      BY <1>2, <1>3, <2>3
    <3>2. /\ ip'.inheaders <=> ip'.scan = 0
          /\ ip'.inheaders <=> global_state' \in {"START", "INHEADER"}
      BY <1>7, <2>3, <3>1
    <3> QED
      BY <1>2, <1>5, <1>6, <2>1, <2>2, <2>3, <3>1, <3>2, InputAccount
  <2>4. CASE ~ip'.inheaders
    <3>1. global_state' = "READY"
      BY <1>2, <2>4
    <3>2. /\ ip'.inheaders <=> ip'.scan = 0
          /\ ip'.inheaders <=> global_state' \in {"START", "INHEADER"}
      BY <1>7, <2>4, <3>1
    <3> QED
      BY <1>2, <1>5, <1>6, <1>7, <2>1, <2>2, <2>4, <3>1, <3>2, InputAccount
  <2> QED
    BY <2>3, <2>4
<1> QED
  BY <1>8, <1>9, <1>10, <1>11 DEF DInv

(* The first input pass begins with the image's first scan.                 *)
LEMMA StartDecompressKeeps ==
  ASSUME DInv, jpeg_start_decompress
  PROVE  DInv'
<1>1. Types /\ CallsMatch /\ InputInv /\ OutputInv /\ DeliveredInv
  BY DEF DInv
<1>2. /\ Frame /\ UNCHANGED <<avail, pos, ask, op, delivered, passes, images>>
      /\ global_state \in {"READY", "PRELOAD", "PRESCAN"}
      /\ ip' = IF global_state = "READY" THEN start_input_pass(ip) ELSE ip
      /\ IF global_state = "READY" /\ mode.buffered
         THEN global_state' = "BUFIMAGE" /\ call' = "none"
         ELSE /\ global_state' = IF global_state = "READY" THEN "PRELOAD" ELSE global_state
              /\ call' = IF global_state = "PRESCAN" THEN "prescan" ELSE "preload"
  BY DEF jpeg_start_decompress, Return, frame, Frame
<1>3. CASE global_state # "READY"
  <2>1. /\ ip' = ip /\ global_state' = global_state
        /\ call' = IF global_state = "PRESCAN" THEN "prescan" ELSE "preload"
    BY <1>2, <1>3
  <2>2. CallsMatch'
    BY <1>1, <1>2, <1>3, <2>1, FrameGeometry DEF CallsMatch, Frame
  <2>3. ask' \in Nat
    BY <1>1, <1>2, TypeFacts
  <2>4. call' # "consume"
    BY <2>1
  <2> QED
    BY <1>2, <1>3, <2>1, <2>2, <2>3, <2>4, CallChanges
<1>4. CASE global_state = "READY"
  <2> DEFINE i == start_input_pass(ip)
  <2>1. ip' = i
    BY <1>2, <1>4
  <2>2. ip \in InputType /\ TotalRows \in Nat /\ TotalRows >= 1
    BY <1>1, Geometry, TypeFacts
  <2>3. /\ i \in InputType /\ i.scan = ip.scan /\ i.inheaders = ip.inheaders /\ i.eoi = ip.eoi
        /\ i.data = TRUE /\ i.row = 0 /\ i.got = ip.got
    <3>1. 0 \in 0..TotalRows
      BY <2>2
    <3> QED
      BY <2>2, <3>1 DEF InputType, start_input_pass
  <2> HIDE DEF i
  <2>4. /\ ip.scan = 1 /\ ~ip.inheaders /\ ~ip.eoi /\ ip.scan = ScansRead(pos)
        /\ \A r \in 0..TotalRows - 1 : ip.got[r] = 0
    BY <1>1, <1>4 DEF InputInv, ScansRead
  <2>5. \/ global_state' = "BUFIMAGE" /\ call' = "none" /\ mode.buffered
        \/ global_state' = "PRELOAD" /\ call' = "preload"
    BY <1>2, <1>4
  <2>6. InputInv'
    <3>1. /\ ip'.scan = 1 /\ ~ip'.inheaders /\ ~ip'.eoi /\ ip'.data /\ ip'.row = 0
          /\ ip'.scan = ScansRead(pos') /\ ip'.row < TotalRows
          /\ \A r \in 0..TotalRows - 1 : ip'.got[r] = 0
      BY <1>2, <2>1, <2>2, <2>3, <2>4
    <3>2. \A r \in 0..TotalRows - 1 :
            ip'.got[r] = IF r < ip'.row THEN ip'.scan ELSE IF ip'.inheaders THEN 0 ELSE ip'.scan - 1
      BY <3>1
    <3>3. /\ ip'.inheaders <=> ip'.scan = 0
          /\ ip'.inheaders <=> global_state' \in {"START", "INHEADER"}
      BY <2>5, <3>1
    <3>4. call' # "consume" /\ global_state' # "START" /\ global_state' # "READY"
      BY <2>5
    <3> QED
      BY <1>2, <3>1, <3>2, <3>3, <3>4, InputAccount
  <2>7. OutputInv' /\ DeliveredInv'
    BY <1>1, <1>2, <1>4, <2>5, OutputStays
  <2>8. Types'
    BY <1>1, <1>2, <2>1, <2>3, TypeFacts, TypesStay
  <2>9. CallsMatch'
    BY <1>1, <1>2, <1>4, <2>5, FrameGeometry DEF CallsMatch, Frame
  <2> QED
    BY <2>6, <2>7, <2>8, <2>9 DEF DInv
<1> QED
  BY <1>3, <1>4

-----------------------------------------------------------------------------
(* A new pass over the coefficients.                                        *)
LEMMA PassPrepared ==
  ASSUME Types, NEW o \in OutputType, ~o.dummy
  PROVE  LET p == prepare_for_output_pass(o)
         IN /\ p \in OutputType /\ p.scan = o.scan /\ p.row = 0 /\ p.line = 0 /\ p.full = FALSE
            /\ p.group = 0 /\ p.next = V /\ p.togo = Height /\ p.spare = None
            /\ p.start = 0 /\ p.strip = 0 /\ p.crank = FALSE
            /\ p.dummy = (mode.quant = "two" /\ ~o.colormap) /\ p.colormap = o.colormap
            /\ p.saved = o.saved /\ (p.smooth => FullBuffer)
            /\ Position(p) /\ Fresh(p) /\ Saving(p)
<1> DEFINE again == mode.quant = "two" /\ ~o.colormap
           smooth == FullBuffer /\ smoothing_ok
           h == Height
           v == V
           p == [o EXCEPT !.dummy = again, !.crank = FALSE,
                          !.row = 0, !.line = 0, !.full = FALSE, !.group = 0,
                          !.next = v, !.togo = h, !.spare = None, !.start = 0, !.strip = 0,
                          !.smooth = smooth]
<1>1. prepare_for_output_pass(o) = p
  BY DEF prepare_for_output_pass
<1>2. /\ again \in BOOLEAN /\ smooth \in BOOLEAN /\ (smooth => FullBuffer)
      /\ v \in 0..V /\ h \in 0..Height /\ 0 \in 0..TotalRows /\ 0 \in 0..M - 1 /\ 0 \in 0..V - 1
      /\ 0 \in Nat
  <2>1. again \in BOOLEAN /\ smooth \in BOOLEAN /\ (smooth => FullBuffer)
    OBVIOUS
  <2> HIDE DEF again, smooth
  <2> QED
    BY <2>1, Geometry
<1>3. again = (mode.quant = "two" /\ ~o.colormap) /\ v = V /\ h = Height
  OBVIOUS
<1> HIDE DEF again, smooth, h, v
<1>4. /\ p \in OutputType /\ p.scan = o.scan /\ p.row = 0 /\ p.line = 0 /\ p.full = FALSE
      /\ p.group = 0 /\ p.next = v /\ p.togo = h /\ p.spare = None
      /\ p.start = 0 /\ p.strip = 0 /\ p.crank = FALSE
      /\ p.dummy = again /\ p.colormap = o.colormap
      /\ p.saved = o.saved /\ p.smooth = smooth
  BY <1>2, ZenonT(40) DEF OutputType
<1> HIDE DEF p
<1>5. Part(p) = 0
  BY <1>3, <1>4 DEF Part
<1>6. Position(p)
  <2>1. C * 0 = 0 /\ Height - 0 = Height /\ V # 0 /\ 0 <= Height
    BY Geometry
  <2> QED
    BY <1>3, <1>4, <1>5, <2>1 DEF Position
<1>7. Fresh(p)
  BY <1>3, <1>4 DEF Fresh
<1>8. Saving(p)
  BY <1>4, <1>5 DEF Saving
<1> QED
  BY <1>1, <1>2, <1>3, <1>4, <1>6, <1>7, <1>8, Zenon

LEMMA PassBegins ==
  ASSUME Types, InputInv, OutputInv, Frame, global_state # "PRESCAN", global_state' = "PRESCAN",
         delivered' = <<>>,
         NEW n \in 1..NumScans, ~FullBuffer => n = 1,
         op' = prepare_for_output_pass([op EXCEPT !.scan = n])
  PROVE  op' \in OutputType /\ op'.scan = n /\ OutputInv' /\ DeliveredInv'
<1> DEFINE o == [op EXCEPT !.scan = n]
<1>1. op \in OutputType /\ NumScans \in Nat /\ n \in Nat /\ ~op.dummy
  BY TypeFacts, Geometry DEF OutputInv
<1>2. /\ o \in OutputType /\ o.dummy = op.dummy /\ o.colormap = op.colormap /\ o.saved = op.saved
      /\ o.scan = n
  BY <1>1 DEF OutputType
<1>3. op' = prepare_for_output_pass(o)
  OBVIOUS
<1> HIDE DEF o
<1>4. /\ op' \in OutputType /\ op'.scan = n /\ op'.line = 0 /\ op'.crank = FALSE
      /\ op'.dummy = (mode.quant = "two" /\ ~op.colormap) /\ op'.colormap = op.colormap
      /\ op'.saved = op.saved /\ (op'.smooth => FullBuffer)
      /\ Position(op') /\ Fresh(op') /\ Saving(op')
  <2> DEFINE p == prepare_for_output_pass(o)
  <2>1. ~o.dummy
    BY <1>1, <1>2
  <2>2. /\ p \in OutputType /\ p.scan = o.scan /\ p.line = 0 /\ p.crank = FALSE
        /\ p.dummy = (mode.quant = "two" /\ ~o.colormap) /\ p.colormap = o.colormap
        /\ p.saved = o.saved /\ (p.smooth => FullBuffer)
        /\ Position(p) /\ Fresh(p) /\ Saving(p)
    BY <1>2, <2>1, PassPrepared, Zenon
  <2>3. op' = p
    BY <1>3
  <2> HIDE DEF p
  <2> QED
    BY <1>2, <2>2, <2>3, Zenon
<1>5. ~op.colormap => \A r \in DOMAIN op.saved : op.saved[r] = None
  BY <1>1 DEF OutputInv
<1>6. op'.dummy => SavedFresh(op')
  BY <1>4, <1>5 DEF SavedFresh
<1>7. /\ (FullBuffer' <=> FullBuffer) /\ mode' = mode /\ NumScans' = NumScans
      /\ NoOutput(image)' = NoOutput(image)
  BY FrameGeometry DEF Frame
<1>8. OutputInv'
  <2>1. /\ op'.dummy => mode'.quant = "two" /\ ~op'.crank /\ ~op'.colormap
        /\ ~op'.crank
        /\ op'.smooth => FullBuffer'
        /\ ~op'.colormap /\ ~op'.dummy => \A r \in DOMAIN op'.saved : op'.saved[r] = None
    BY <1>4, <1>5, <1>7
  <2>2. ~FullBuffer' => op'.scan <= 1
    BY <1>4, <1>7
  <2>3. op'.scan >= 1 /\ op'.scan <= NumScans'
    BY <1>1, <1>4, <1>7
  <2>4. Position(op)' /\ Fresh(op)' /\ Saving(op)' /\ (op'.dummy => SavedFresh(op)')
    BY <1>4, <1>6, FrameOutput
  <2> QED
    BY <1>4, <2>1, <2>2, <2>3, <2>4 DEF OutputInv
<1>9. DeliveredInv'
  BY DEF DeliveredInv, RowsInOrder, ShowsRequestedScan
<1> QED
  BY <1>4, <1>8, <1>9

LEMMA StartOutputKeeps ==
  ASSUME DInv, jpeg_start_output
  PROVE  DInv'
<1>1. Types /\ CallsMatch /\ InputInv /\ OutputInv /\ DeliveredInv
  BY DEF DInv
<1>2. /\ Frame /\ UNCHANGED <<avail, pos, ask, ip, images>> /\ mode.buffered
      /\ global_state \in {"BUFIMAGE", "PRESCAN"} /\ global_state' = "PRESCAN" /\ call' = "prescan"
      /\ passes < MaxPasses \/ global_state = "PRESCAN"
  BY DEF jpeg_start_output, frame, Frame
<1>3. PICK n \in 1..Len(image.scans) :
        LET o == [op EXCEPT !.scan = IF ip.eoi /\ n > ip.scan THEN ip.scan ELSE n]
        IN  IF global_state = "PRESCAN"
            THEN n = op.scan /\ op' = o /\ UNCHANGED <<passes, delivered>>
            ELSE op' = prepare_for_output_pass(o) /\ passes' = passes + 1 /\ delivered' = <<>>
  BY DEF jpeg_start_output
<1>4. /\ op \in OutputType /\ op.scan \in Nat /\ ip.scan \in Nat /\ NumScans \in Nat
      /\ ask \in Nat
  BY <1>1, TypeFacts, OutputFields, Geometry DEF InputType
<1>5. CASE global_state = "PRESCAN"
  <2>1. op' = op
    <3>1. n = op.scan /\ ~(ip.eoi /\ n > ip.scan)
      BY <1>1, <1>3, <1>4, <1>5 DEF InputInv
    <3>2. op' = [op EXCEPT !.scan = n]
      BY <1>3, <1>5, <3>1
    <3> QED
      BY <1>4, <3>1, <3>2 DEF OutputType
  <2>2. UNCHANGED <<passes, delivered>>
    BY <1>3, <1>5
  <2>3. CallsMatch'
    BY <1>1, <1>2, <1>5, <2>1, FrameGeometry DEF CallsMatch, Frame
  <2> QED
    BY <1>2, <1>4, <1>5, <2>1, <2>2, <2>3, CallChanges
<1>6. CASE global_state = "BUFIMAGE"
  <2> DEFINE k == IF ip.eoi /\ n > ip.scan THEN ip.scan ELSE n
  <2>1. /\ op' = prepare_for_output_pass([op EXCEPT !.scan = k])
        /\ passes' = passes + 1 /\ delivered' = <<>>
    BY <1>3, <1>6
  <2>2. k \in 1..NumScans /\ (ip.eoi => k <= ip.scan)
    <3>1. ip.scan # 0
      BY <1>1, <1>6 DEF InputInv
    <3> QED
      BY <1>4, <3>1 DEF NumScans
  <2> HIDE DEF k
  <2>3. FullBuffer
    BY <1>2 DEF FullBuffer
  <2>4. op' \in OutputType /\ op'.scan = k /\ OutputInv' /\ DeliveredInv'
    BY <1>1, <1>2, <1>6, <2>1, <2>2, <2>3, PassBegins
  <2>5. passes' \in 0..MaxPasses
    BY <1>1, <1>2, <1>6, <2>1, TypeFacts, DecoderAssumption
  <2>6. Types'
    BY <1>1, <1>2, <2>1, <2>4, <2>5, TypeFacts, TypesStay
  <2>7. InputInv'
    BY <1>1, <1>2, <1>6, <2>2, <2>4, InputStays DEF Later
  <2>8. CallsMatch'
    BY <1>1, <1>2, <1>6, FrameGeometry DEF CallsMatch, Frame
  <2> QED
    BY <2>4, <2>6, <2>7, <2>8 DEF DInv
<1> QED
  BY <1>2, <1>5, <1>6

LEMMA PreloadEndKeeps ==
  ASSUME DInv, PreloadStep, ~(image.multiple /\ ~ip.eoi)
  PROVE  DInv'
<1>1. Types /\ CallsMatch /\ InputInv /\ OutputInv /\ DeliveredInv
  BY DEF DInv
<1>2. /\ Frame /\ UNCHANGED <<avail, pos, ask, ip, passes, images>> /\ call = "preload"
      /\ op' = prepare_for_output_pass([op EXCEPT !.scan = ip.scan])
      /\ global_state' = "PRESCAN" /\ call' = "prescan" /\ delivered' = <<>>
  BY DEF PreloadStep, frame, Frame
<1>3. global_state = "PRELOAD"
  BY <1>1, <1>2 DEF CallsMatch
<1>4. ip.scan \in 1..NumScans
  <2>1. ip.scan = ScansRead(pos) /\ ip.scan # 0
    BY <1>1, <1>3 DEF InputInv, ScansRead
  <2>2. ip.scan \in Nat /\ NumScans \in Nat /\ pos \in 0..Len(image.units)
    <3>1. ip.scan \in Nat /\ NumScans \in Nat
      BY <1>1, TypeFacts, Geometry DEF InputType
    <3>2. /\ avail \in 0..Len(image.units) /\ pos \in 0..avail
          /\ Len(image.units) \in Nat /\ avail \in Nat
      BY <1>1, TypeFacts, Zenon
    <3> QED
      BY <3>1, <3>2
  <2>3. ScansRead(pos) <= NumScans
    BY <1>1, <2>2, ScansReadBound
  <2> QED
    BY <2>1, <2>2, <2>3
<1>5. ~FullBuffer => ip.scan = 1
  BY <1>1, <1>3 DEF InputInv
<1>6. op' \in OutputType /\ op'.scan = ip.scan /\ OutputInv' /\ DeliveredInv'
  BY <1>1, <1>2, <1>3, <1>4, <1>5, PassBegins
<1>7. Types'
  BY <1>1, <1>2, <1>6, TypeFacts, TypesStay
<1>8. InputInv'
  <2>1. op'.scan <= ip.scan
    BY <1>4, <1>6
  <2> QED
    BY <1>1, <1>2, <1>3, <2>1, InputStays DEF Later
<1>9. CallsMatch'
  BY <1>1, <1>2, <1>3, FrameGeometry DEF CallsMatch, Frame
<1> QED
  BY <1>6, <1>7, <1>8, <1>9 DEF DInv

-----------------------------------------------------------------------------
(* The next row of the image is there to be read ...                        *)
LEMMA RowWanted ==
  ASSUME DInv, NeedsRow
  PROVE  /\ Active /\ op.line < Height /\ op.row \in 0..TotalRows - 1
         /\ Position(op) /\ Fresh(op) /\ op.line = C * op.row
         /\ op.scan >= 1 /\ op.scan <= NumScans
<1>1. Types /\ CallsMatch /\ OutputInv
  BY DEF DInv
<1>2. Active /\ op.line < Height /\ ~op.full /\ ~op.crank
  BY <1>1 DEF NeedsRow, CallsMatch, Active
<1>3. Position(op) /\ Fresh(op) /\ op.scan >= 1 /\ op.scan <= NumScans
  BY <1>1, <1>2 DEF OutputInv
<1>4. op.line = C * op.row
  BY <1>1, <1>2, <1>3, ModeFacts DEF Position
<1>5. /\ op.row \in Nat /\ TotalRows \in Nat /\ C \in Nat /\ C >= 1 /\ Height \in Nat
      /\ Height <= C * TotalRows /\ op.row \in 0..TotalRows
  BY <1>1, Geometry, RowsFit, OutputFields, TypeFacts
<1>6. op.row # TotalRows
  <2>1. SUFFICES ASSUME op.row = TotalRows PROVE FALSE
    OBVIOUS
  <2>2. C * op.row = C * TotalRows /\ C * TotalRows \in Nat
    BY <1>5, <2>1
  <2> QED
    BY <1>2, <1>4, <1>5, <2>2
<1> QED
  BY <1>2, <1>3, <1>4, <1>5, <1>6

(* ... and what it shows is as late as it was asked for; where its          *)
(* neighbours are looked at, the row below has been read, too.              *)
LEMMA RowIsThere ==
  ASSUME DInv, NeedsRow, ~NeedInput
  PROVE  LET got == IF FullBuffer THEN ip.got[op.row] ELSE 1
         IN /\ got \in Nat /\ op.scan <= got /\ got <= NumScans
            /\ op.smooth /\ op.row + 1 < TotalRows => ip.got[op.row + 1] # 0
<1>1. Types /\ InputInv /\ OutputInv
  BY DEF DInv
<1>2. /\ Active /\ op.row \in 0..TotalRows - 1
      /\ op.scan >= 1 /\ op.scan <= NumScans
  BY RowWanted
<1>3. /\ ip \in InputType /\ op \in OutputType /\ TotalRows \in Nat /\ NumScans \in Nat
      /\ FullBuffer \in BOOLEAN
  BY <1>1, TypeFacts, Geometry, ModeFacts
<1>4. /\ ip.scan \in Nat /\ ip.row \in 0..TotalRows /\ ip.got \in [0..TotalRows - 1 -> Nat]
      /\ op.scan \in Nat
  BY <1>3 DEF InputType, OutputType
<1>5. ip.scan <= NumScans
  <2>1. pos \in 0..Len(image.units)
    <3>1. /\ avail \in 0..Len(image.units) /\ pos \in 0..avail
          /\ Len(image.units) \in Nat /\ avail \in Nat
      BY <1>1, TypeFacts, Zenon
    <3> QED
      BY <3>1
  <2>2. ScansRead(pos) <= NumScans
    BY <1>1, <2>1, ScansReadBound
  <2> QED
    BY <1>1, <2>2 DEF InputInv, ScansRead
<1>6. /\ ~ip.inheaders /\ ip.scan # 0 /\ (ip.data \/ ip.row = TotalRows)
      /\ \A r \in 0..TotalRows - 1 : ip.got[r] = IF r < ip.row THEN ip.scan ELSE ip.scan - 1
      /\ ip.data => ~ip.eoi
      /\ ip.eoi => op.scan <= ip.scan
  BY <1>1, <1>2 DEF InputInv, Active
<1>7. CASE ~FullBuffer
  <2>1. op.scan = 1 /\ ~op.smooth
    BY <1>1, <1>2, <1>4, <1>7 DEF OutputInv
  <2> QED
    BY <1>2, <1>3, <1>7, <2>1
<1>8. CASE FullBuffer
  <2> DEFINE row == op.row
  <2>1. row \in 0..TotalRows - 1
    BY <1>2
  <2>2. \/ ip.scan > op.scan
        \/ ip.eoi
        \/ ip.scan = op.scan /\ ip.row > row /\ (op.smooth /\ ip.scan = 1 => ip.row > row + 1)
    <3>1. CASE op.smooth
      <4>1. ~(/\ ip.scan <= op.scan /\ ~ip.eoi
              /\ ~(ip.scan = op.scan /\ ip.row > row + (IF ip.scan = 1 THEN 1 ELSE 0)))
        BY <1>8, <3>1 DEF NeedInput
      <4>2. CASE ip.scan = 1
        BY <1>4, <2>1, <4>1, <4>2
      <4>3. CASE ip.scan # 1
        BY <1>4, <2>1, <4>1, <4>3
      <4> QED
        BY <4>2, <4>3
    <3>2. CASE ~op.smooth
      <4>1. ~(ip.scan < op.scan \/ (ip.scan = op.scan /\ ip.row <= row))
        BY <1>8, <3>2 DEF NeedInput
      <4> QED
        BY <1>4, <2>1, <3>2, <4>1
    <3> QED
      BY <3>1, <3>2
  <2>3. /\ ip.got[row] \in Nat
        /\ ip.got[row] = IF row < ip.row THEN ip.scan ELSE ip.scan - 1
        /\ row + 1 < TotalRows =>
             ip.got[row + 1] = IF row + 1 < ip.row THEN ip.scan ELSE ip.scan - 1
    <3> HIDE DEF row
    <3>1. ip.got[row] \in Nat
      BY <1>4, <2>1
    <3>2. ip.got[row] = IF row < ip.row THEN ip.scan ELSE ip.scan - 1
      BY <1>6, <2>1
    <3>3. row + 1 < TotalRows => row + 1 \in 0..TotalRows - 1
      BY <1>3, <2>1
    <3>4. row + 1 < TotalRows =>
            ip.got[row + 1] = IF row + 1 < ip.row THEN ip.scan ELSE ip.scan - 1
      BY <1>6, <3>3
    <3> QED
      BY <3>1, <3>2, <3>4
  <2> HIDE DEF row
  <2>4. op.scan <= ip.got[row] /\ ip.got[row] <= NumScans
    BY <1>3, <1>4, <1>5, <1>6, <2>1, <2>2, <2>3
  <2>5. ASSUME op.smooth, row + 1 < TotalRows
        PROVE  ip.got[row + 1] # 0
    <3>1. ip.got[row + 1] = IF row + 1 < ip.row THEN ip.scan ELSE ip.scan - 1
      BY <2>3, <2>5, Zenon
    <3>2. row + 1 < ip.row \/ ip.scan > 1
      <4>1. /\ ip.scan \in Nat /\ op.scan \in Nat /\ op.scan >= 1 /\ ip.scan # 0
            /\ ip.row \in Nat /\ row \in Nat
        BY <1>2, <1>3, <1>4, <1>6, <2>1
      <4>2. CASE ip.eoi
        <5>1. ip.row = TotalRows
          BY <1>6, <4>2, Zenon
        <5> QED
          BY <2>5, <5>1
      <4>3. CASE ip.scan > op.scan
        BY <4>1, <4>3
      <4>4. CASE ip.scan = op.scan /\ ip.row > row /\ (op.smooth /\ ip.scan = 1 => ip.row > row + 1)
        BY <2>5, <4>1, <4>4
      <4> QED
        BY <2>2, <4>2, <4>3, <4>4, Zenon
    <3>3. ip.scan \in Nat /\ ip.scan >= 1
      BY <1>4, <1>6
    <3> QED
      BY <3>1, <3>2, <3>3
  <2> QED
    BY <1>8, <2>3, <2>4, <2>5 DEF row
<1> QED
  BY <1>3, <1>7, <1>8

LEMMA FillMainKeeps ==
  ASSUME DInv, FillMain, ~NeedInput
  PROVE  DInv'
<1> DEFINE got == IF FullBuffer THEN ip.got[op.row] ELSE 1
           row == op.row + 1
           buf == <<op.row, got>>
           o == [op EXCEPT !.full = TRUE, !.row = row, !.held = buf]
<1>1. Types /\ CallsMatch /\ InputInv /\ OutputInv /\ DeliveredInv
  BY DEF DInv
<1>2. /\ NeedsRow
      /\ op' = [op EXCEPT !.full = TRUE, !.row = @ + 1, !.held = <<op.row, got>>]
      /\ Frame /\ UNCHANGED <<avail, pos, ask, ip, delivered, passes, images, global_state, call>>
  BY DEF FillMain, frame, Frame
<1>3. op' = o
  BY <1>2
<1>4. /\ Active /\ op.line < Height /\ op.row \in 0..TotalRows - 1
      /\ Position(op) /\ Fresh(op) /\ op.line = C * op.row
      /\ op.scan >= 1 /\ op.scan <= NumScans
  BY <1>2, RowWanted
<1>5. got \in Nat /\ op.scan <= got /\ got <= NumScans
  BY <1>2, RowIsThere
<1>6. ~op.full /\ ~op.crank
  BY <1>2 DEF NeedsRow
<1> HIDE DEF got
<1>7. /\ op \in OutputType /\ TotalRows \in Nat /\ C \in Nat /\ V \in Nat /\ Height \in Nat
      /\ V >= 1
  BY <1>1, TypeFacts, Geometry
<1>8. /\ row \in 0..TotalRows /\ buf \in Place /\ row - 1 = op.row /\ row >= 1
      /\ buf[1] = op.row /\ buf[2] = got
  BY <1>4, <1>5, <1>7 DEF Place
<1> HIDE DEF row, buf
<1>9. /\ o \in OutputType /\ o.scan = op.scan /\ o.row = row /\ o.line = op.line /\ o.full = TRUE
      /\ o.group = op.group /\ o.held = buf /\ o.next = op.next /\ o.togo = op.togo
      /\ o.color = op.color /\ o.spare = op.spare /\ o.dummy = op.dummy
      /\ o.crank = op.crank /\ o.colormap = op.colormap /\ o.smooth = op.smooth
      /\ o.start = op.start /\ o.strip = op.strip /\ o.saved = op.saved
  BY <1>7, <1>8 DEF OutputType
<1> HIDE DEF o
<1>10. Part(o) = Part(op)
  BY <1>9 DEF Part
<1>11. Position(o)
  <2>1. CASE mode.raw
    BY <1>4, <1>8, <1>9, <2>1 DEF Position
  <2>2. CASE ~mode.raw
    <3>1. op.group = 0 /\ Part(op) = 0
      BY <1>4, <1>6, <2>2 DEF Position
    <3>2. /\ op.line <= Height /\ (~Merged1 => op.togo = Height - op.line)
          /\ ~mode.merged => op.next # 0
      BY <1>4, <2>2 DEF Position
    <3>3. ~mode.merged => op.next = V
      BY <3>1, <3>2 DEF Part
    <3>4. Merged2 => op.spare = None
      BY <3>1 DEF Part, Merged2
    <3>5. C * op.row \in Nat /\ V * 0 = 0
      BY <1>4, <1>7
    <3>6. o.line = C * (o.row - 1) + V * o.group + Part(o)
      BY <1>4, <1>8, <1>9, <1>10, <3>1, <3>5
    <3> QED
      BY <1>8, <1>9, <2>2, <3>2, <3>3, <3>4, <3>6 DEF Position
  <2> QED
    BY <2>1, <2>2
<1>12. Fresh(o)
  BY <1>4, <1>5, <1>8, <1>9 DEF Fresh
<1>13. Saving(op) => Saving(o)
  BY <1>9, <1>10 DEF Saving, SavedRow
<1>14. SavedFresh(op) => SavedFresh(o)
  BY <1>9 DEF SavedFresh
<1>15. OutputInv'
  <2>1. /\ (FullBuffer' <=> FullBuffer) /\ mode' = mode /\ NumScans' = NumScans
    BY <1>2, FrameGeometry DEF Frame
  <2>2. Position(op)' /\ Fresh(op)' /\ (Saving(op) => Saving(op)') /\ (SavedFresh(op) => SavedFresh(op)')
    BY <1>2, <1>3, <1>11, <1>12, <1>13, <1>14, FrameOutput
  <2>3. global_state' \notin {"START", "INHEADER", "READY", "PRELOAD"}
    BY <1>2, <1>4 DEF Active
  <2>4. /\ op.dummy => global_state = "PRESCAN" /\ mode.quant = "two" /\ ~op.crank /\ ~op.colormap
        /\ op.crank => mode.quant = "two" /\ op.colormap
        /\ op.smooth => FullBuffer
        /\ ~op.colormap /\ ~op.dummy => \A r \in DOMAIN op.saved : op.saved[r] = None
        /\ ~FullBuffer => op.scan <= 1
        /\ op.dummy => Saving(op) /\ SavedFresh(op)
        /\ global_state = "PRESCAN" => delivered = <<>> /\ (~op.dummy => op.line = 0)
    BY <1>1, <1>4 DEF OutputInv
  <2> QED
    BY <1>2, <1>3, <1>4, <1>6, <1>9, <2>1, <2>2, <2>3, <2>4 DEF OutputInv
<1>16. DeliveredInv'
  BY <1>1, <1>2, <1>3, <1>9, FrameGeometry DEF DeliveredInv, RowsInOrder, ShowsRequestedScan
<1>17. Types'
  BY <1>1, <1>2, <1>3, <1>9, TypeFacts, TypesStay
<1>18. InputInv'
  <2>1. global_state # "START" /\ global_state # "PRELOAD"
    BY <1>4 DEF Active
  <2> QED
    BY <1>1, <1>2, <1>3, <1>9, <2>1, InputStays
<1>19. CallsMatch'
  BY <1>1, <1>2, <1>3, <1>9, FrameGeometry DEF CallsMatch, Frame
<1> QED
  BY <1>15, <1>16, <1>17, <1>18, <1>19 DEF DInv

-----------------------------------------------------------------------------
(* Padding below the image is less than a strip.                            *)
LEMMA PastBottomIsNat ==
  ASSUME Types
  PROVE  PastBottom \in Nat
<1> DEFINE left == ((Height - 1) % V) + 1
<1>1. V \in 1..4 /\ Height \in Nat /\ Height >= 1
  BY Geometry
<1>2. left \in 1..V
  BY <1>1
<1> HIDE DEF left
<1>3. V - left \in Int /\ left - 1 \in Int /\ V - left >= 0 /\ left - 1 >= 0
  BY <1>1, <1>2
<1>4. Min({V - left, left - 1}) \in {V - left, left - 1}
  BY <1>3, LeastOfTwo
<1>5. PastBottom = IF mode.quant = "two" THEN Min({V - left, left - 1}) ELSE 0
  BY DEF PastBottom, left
<1> QED
  BY <1>3, <1>4, <1>5

(* Two sequences in a row.                                                  *)
LEMMA Joined ==
  ASSUME NEW S, NEW s \in Seq(S), NEW t \in Seq(S)
  PROVE  /\ s \o t \in Seq(S) /\ Len(s \o t) = Len(s) + Len(t)
         /\ Len(s) \in Nat /\ Len(t) \in Nat
         /\ \A i \in 1..Len(s) : (s \o t)[i] = s[i]
         /\ \A i \in Len(s) + 1..Len(s) + Len(t) : (s \o t)[i] = t[i - Len(s)]
OBVIOUS

(* Rows handed out: the next ones, at least as late as asked for.           *)
LEMMA RowsHandedOut ==
  ASSUME Types, DeliveredInv, Frame, global_state = "SCANNING", global_state' = "SCANNING",
         op.line < Height,
         NEW rows \in Seq(Place \union {None}), delivered' = delivered \o rows,
         op'.scan = op.scan, op'.line = op.line + Len(rows), op'.line <= Height + PastBottom,
         \A j \in 1..Len(rows) :
           /\ op.line + j <= Height => rows[j] # None /\ rows[j][1] = op.line + j - 1
           /\ rows[j] # None => op.scan <= rows[j][2]
  PROVE  DeliveredInv' /\ delivered' \in Seq(Place \union {None})
<1>1. /\ delivered \in Seq(Place \union {None}) /\ op.line \in Nat /\ Height \in Nat
      /\ op.scan \in Nat /\ Height' = Height /\ PastBottom' = PastBottom
  BY TypeFacts, Geometry, OutputFields, FrameGeometry
<1>2. Len(delivered) = op.line
  BY DEF DeliveredInv, RowsInOrder
<1>3. /\ delivered' \in Seq(Place \union {None}) /\ Len(delivered') = op.line + Len(rows)
      /\ Len(rows) \in Nat
      /\ \A i \in 1..op.line : delivered'[i] = delivered[i]
      /\ \A i \in op.line + 1..op.line + Len(rows) : delivered'[i] = rows[i - op.line]
  <2> DEFINE S == Place \union {None}
  <2>1. delivered \in Seq(S) /\ rows \in Seq(S)
    BY <1>1
  <2> HIDE DEF S
  <2>2. LET j == delivered \o rows
        IN /\ j \in Seq(S) /\ Len(j) = Len(delivered) + Len(rows) /\ Len(rows) \in Nat
           /\ \A i \in 1..Len(delivered) : j[i] = delivered[i]
           /\ \A i \in Len(delivered) + 1..Len(delivered) + Len(rows) :
                j[i] = rows[i - Len(delivered)]
    BY <2>1, Joined
  <2>3. /\ delivered' \in Seq(S) /\ Len(delivered') = Len(delivered) + Len(rows)
        /\ Len(rows) \in Nat
        /\ \A i \in 1..Len(delivered) : delivered'[i] = delivered[i]
        /\ \A i \in Len(delivered) + 1..Len(delivered) + Len(rows) :
             delivered'[i] = rows[i - Len(delivered)]
    BY <2>2, Zenon
  <2> QED
    BY <1>2, <2>3, Zenon DEF S
<1>4. ASSUME NEW i \in 1..op.line + Len(rows)
      PROVE  \/ i \in 1..op.line /\ delivered'[i] = delivered[i]
             \/ \E j \in 1..Len(rows) : i = op.line + j /\ delivered'[i] = rows[j]
  <2>1. CASE i <= op.line
    BY <1>1, <1>3, <2>1
  <2>2. CASE i > op.line
    <3>1. i - op.line \in 1..Len(rows) /\ i = op.line + (i - op.line)
      BY <1>1, <1>3, <2>2
    <3>2. delivered'[i] = rows[i - op.line]
      BY <1>1, <1>3, <2>2
    <3> QED
      BY <3>1, <3>2
  <2> QED
    BY <1>1, <1>3, <2>1, <2>2
<1>5. RowsInOrder'
  <2>1. \A i \in 1..op.line : delivered[i] # None /\ delivered[i][1] = i - 1
    <3>1. Min({Height, op.line}) = op.line
      <4>1. Height \in Int /\ op.line \in Int
        BY <1>1
      <4>2. Min({Height, op.line}) \in {Height, op.line} /\ Min({Height, op.line}) <= op.line
        BY <4>1, LeastOfTwo, Zenon
      <4> QED
        BY <1>1, <4>2
    <3> QED
      BY <3>1 DEF DeliveredInv, RowsInOrder
  <2>2. op'.line \in Nat
    BY <1>1, <1>3
  <2> DEFINE m == Min({Height, op'.line})
  <2>3. m \in Nat /\ m <= Height /\ m <= op.line + Len(rows)
    <3>1. m \in {Height, op'.line} /\ m <= Height /\ m <= op'.line
      <4>1. Height \in Int /\ op'.line \in Int
        BY <1>1, <2>2
      <4> QED
        BY <4>1, LeastOfTwo, Zenon
    <3> HIDE DEF m
    <3> QED
      BY <1>1, <2>2, <3>1
  <2> HIDE DEF m
  <2>4. ASSUME NEW i \in 1..m
        PROVE  delivered'[i] # None /\ delivered'[i][1] = i - 1
    <3>1. i \in 1..op.line + Len(rows) /\ i <= Height
      BY <1>1, <1>3, <2>3
    <3>2. CASE i \in 1..op.line /\ delivered'[i] = delivered[i]
      BY <2>1, <3>2
    <3>3. ASSUME NEW j \in 1..Len(rows), i = op.line + j, delivered'[i] = rows[j]
          PROVE  delivered'[i] # None /\ delivered'[i][1] = i - 1
      <4>1. op.line + j <= Height
        BY <3>1, <3>3
      <4>2. rows[j] # None /\ rows[j][1] = op.line + j - 1
        BY <4>1
      <4>3. op.line + j - 1 = i - 1
        BY <1>1, <1>3, <3>3
      <4> QED
        BY <3>3, <4>2, <4>3, Zenon
    <3> QED
      BY <1>4, <3>1, <3>2, <3>3
  <2>5. Len(delivered') = op'.line
    BY <1>3
  <2>6. RowsInOrder' <=> (global_state' = "SCANNING" =>
                            /\ Len(delivered') = op'.line /\ op'.line <= Height + PastBottom
                            /\ \A i \in 1..m : delivered'[i] # None /\ delivered'[i][1] = i - 1)
    BY <1>1 DEF RowsInOrder, m
  <2> QED
    BY <2>4, <2>5, <2>6
<1>6. ShowsRequestedScan'
  <2>1. \A i \in DOMAIN delivered : delivered[i] # None => delivered[i][2] >= op.scan
    BY DEF DeliveredInv, ShowsRequestedScan
  <2>2. DOMAIN delivered = 1..op.line /\ DOMAIN delivered' = 1..op.line + Len(rows)
    BY <1>1, <1>2, <1>3
  <2>3. ASSUME NEW i \in DOMAIN delivered', delivered'[i] # None
        PROVE  delivered'[i][2] >= op.scan
    <3>1. delivered'[i] \in Place
      BY <1>3, <2>3
    <3>2. delivered'[i][2] \in Nat
      BY <3>1 DEF Place
    <3>3. CASE i \in 1..op.line /\ delivered'[i] = delivered[i]
      BY <2>1, <2>2, <2>3, <3>3
    <3>4. ASSUME NEW j \in 1..Len(rows), delivered'[i] = rows[j]
          PROVE  delivered'[i][2] >= op.scan
      BY <1>1, <2>3, <3>2, <3>4
    <3> QED
      BY <1>4, <2>2, <3>3, <3>4
  <2> QED
    BY <2>3 DEF ShowsRequestedScan
<1> QED
  BY <1>3, <1>5, <1>6 DEF DeliveredInv

(* The part of a row group that is out after n more lines.                  *)
LEMMA PartAdvances ==
  ASSUME Types, NEW o, NEW n \in Nat, n >= 1, Part(op) + n <= V,
         op.line = C * (op.row - 1) + V * op.group + Part(op), op.row \in Nat,
         Ahead(o, op.line + n), o.row = op.row, o.next \in 0..V, op.next \in 0..V, op.group \in Nat
  PROVE  Part(o) = IF Part(op) + n >= V THEN 0 ELSE Part(op) + n
<1> DEFINE base == C * (op.row - 1)
<1>1. V \in 1..4 /\ V \in Nat /\ C \in Nat /\ M \in Nat
  <2>1. V \in 1..4 /\ V \in Nat /\ C \in Nat /\ M \in Nat
    BY Geometry, GeometryFits, Zenon
  <2> QED
    BY <2>1, Zenon
<1>2. base \in Int
  BY <1>1
<1>3. Part(op) \in Nat
  BY <1>1 DEF Part
<1>4. Part(o) \in Nat /\ Part(o) < V
  <2>1. mode.merged => Part(o) = 0 \/ (Part(o) = 1 /\ V = 2)
    BY DEF Part
  <2>2. ~mode.merged => Part(o) = IF o.next = V THEN 0 ELSE o.next
    BY DEF Part
  <2> QED
    BY <1>1, <2>1, <2>2
<1>5. op.line + n = base + V * o.group + Part(o) /\ o.group \in Nat
  BY <1>1 DEF Ahead
<1> HIDE DEF base
<1>6. op.line = base + V * op.group + Part(op)
  BY DEF base
<1> DEFINE p == Part(op)
           q == Part(o)
<1>7. p \in Nat /\ q \in Nat /\ q < V /\ p + n <= V
  BY <1>3, <1>4
<1>8. V * o.group \in Nat /\ V * op.group \in Nat
  BY <1>1, <1>5
<1> HIDE DEF p, q
<1>9. V * o.group + q = V * op.group + p + n
  BY <1>2, <1>5, <1>6, <1>7, <1>8 DEF p, q
<1>10. q = IF p + n >= V THEN 0 ELSE p + n
  <2>1. CASE V = 1
    BY <1>5, <1>7, <1>9, <2>1
  <2>2. CASE V = 2
    BY <1>5, <1>7, <1>9, <2>2
  <2>3. CASE V = 3
    BY <1>5, <1>7, <1>9, <2>3
  <2>4. CASE V = 4
    BY <1>5, <1>7, <1>9, <2>4
  <2> QED
    BY <1>1, <2>1, <2>2, <2>3, <2>4
<1> QED
  BY <1>10 DEF p, q

(* What a call in one pass leaves of what the upsampler left.               *)
Converted(w, n) == [Main(w) EXCEPT !.line = n]
ConvertedFrom(f, o, w, n) ==
  /\ f \in OutputType /\ w.line = o.line /\ Main(w).line = o.line
  /\ f.scan = o.scan /\ f.row = o.row /\ f.line = n
  /\ f.full = (IF w.group >= M THEN FALSE ELSE TRUE)
  /\ f.group = (IF w.group >= M THEN 0 ELSE w.group)
  /\ f.held = o.held /\ f.next = w.next /\ f.togo = w.togo /\ f.color = w.color
  /\ f.spare = w.spare /\ f.dummy = o.dummy /\ f.crank = o.crank
  /\ f.colormap = o.colormap /\ f.smooth = o.smooth /\ f.start = o.start
  /\ f.strip = o.strip /\ f.saved = o.saved
  /\ w.row = o.row /\ w.held = o.held /\ w.full = TRUE /\ w.scan = o.scan

(* Lines converted in one pass: the record that is left.                    *)
LEMMA OnePassShape ==
  ASSUME NEW o \in OutputType, o.full = TRUE, NEW w,
         w = [o EXCEPT !.next = w.next, !.togo = w.togo, !.group = w.group, !.color = w.color,
                       !.spare = w.spare],
         w.group \in 0..M, w.next \in 0..V, w.togo \in 0..Height, w.color \in Nat \X Nat \X Nat,
         w.spare \in Place \union {None}, NEW n \in Nat, M \in Nat, M >= 1
  PROVE  ConvertedFrom(Converted(w, n), o, w, n)
<1> DEFINE nx == w.next
           tg == w.togo
           gr == w.group
           cl == w.color
           sp == w.spare
<1>1. /\ nx \in 0..V /\ tg \in 0..Height /\ gr \in 0..M /\ cl \in Nat \X Nat \X Nat
      /\ sp \in Place \union {None}
  OBVIOUS
<1>2. w = [o EXCEPT !.next = nx, !.togo = tg, !.group = gr, !.color = cl, !.spare = sp]
  OBVIOUS
<1> HIDE DEF nx, tg, gr, cl, sp
<1>3. /\ w.row = o.row /\ w.held = o.held /\ w.full = TRUE /\ w.scan = o.scan /\ w.line = o.line
      /\ w.next = nx /\ w.togo = tg /\ w.group = gr /\ w.color = cl /\ w.spare = sp
      /\ w.dummy = o.dummy /\ w.crank = o.crank /\ w.colormap = o.colormap
      /\ w.smooth = o.smooth /\ w.start = o.start /\ w.strip = o.strip /\ w.saved = o.saved
  BY <1>2 DEF OutputType
<1>4. CASE gr >= M
  <2> DEFINE f == [o EXCEPT !.next = nx, !.togo = tg, !.group = 0, !.color = cl, !.spare = sp,
                            !.full = FALSE, !.line = n]
  <2>1. 0 \in 0..M - 1 /\ FALSE \in BOOLEAN
    OBVIOUS
  <2>2. Main(w) = [w EXCEPT !.full = FALSE, !.group = 0]
    BY <1>3, <1>4 DEF Main
  <2>3. [Main(w) EXCEPT !.line = n] = f /\ Main(w).line = o.line
    <3>1. Main(w).line = o.line
      BY <1>2, <2>2, ZenonT(30) DEF OutputType
    <3>2. [Main(w) EXCEPT !.line = n] = f
      BY <1>2, <2>2, ZenonT(40) DEF OutputType
    <3> QED
      BY <3>1, <3>2
  <2>4. /\ f \in OutputType /\ f.scan = o.scan /\ f.row = o.row /\ f.line = n
        /\ f.full = FALSE /\ f.group = 0
        /\ f.held = o.held /\ f.next = nx /\ f.togo = tg /\ f.color = cl
        /\ f.spare = sp /\ f.dummy = o.dummy /\ f.crank = o.crank
        /\ f.colormap = o.colormap /\ f.smooth = o.smooth /\ f.start = o.start
        /\ f.strip = o.strip /\ f.saved = o.saved
    BY <1>1, <2>1 DEF OutputType
  <2> HIDE DEF f
  <2>5. w.group >= M
    BY <1>3, <1>4, Zenon
  <2>6. /\ f.full = (IF w.group >= M THEN FALSE ELSE TRUE)
        /\ f.group = (IF w.group >= M THEN 0 ELSE w.group)
    BY <2>4, <2>5
  <2> QED
    BY <1>3, <2>3, <2>4, <2>6, Zenon DEF Converted, ConvertedFrom
<1>5. CASE ~(gr >= M)
  <2> DEFINE f == [o EXCEPT !.next = nx, !.togo = tg, !.group = gr, !.color = cl, !.spare = sp,
                            !.line = n]
  <2>1. gr \in 0..M - 1
    BY <1>1, <1>5
  <2>2. Main(w) = w
    BY <1>3, <1>5 DEF Main
  <2>3. [Main(w) EXCEPT !.line = n] = f /\ Main(w).line = o.line
    BY <1>2, <1>3, <2>2, ZenonT(40) DEF OutputType
  <2>4. /\ f \in OutputType /\ f.scan = o.scan /\ f.row = o.row /\ f.line = n
        /\ f.full = TRUE /\ f.group = gr
        /\ f.held = o.held /\ f.next = nx /\ f.togo = tg /\ f.color = cl
        /\ f.spare = sp /\ f.dummy = o.dummy /\ f.crank = o.crank
        /\ f.colormap = o.colormap /\ f.smooth = o.smooth /\ f.start = o.start
        /\ f.strip = o.strip /\ f.saved = o.saved
    BY <1>1, <2>1 DEF OutputType
  <2> HIDE DEF f
  <2>5. ~(w.group >= M)
    BY <1>3, <1>5, Zenon
  <2>6. /\ f.full = (IF w.group >= M THEN FALSE ELSE TRUE)
        /\ f.group = (IF w.group >= M THEN 0 ELSE w.group)
    BY <1>3, <2>4, <2>5
  <2> QED
    BY <1>3, <2>3, <2>4, <2>6, Zenon DEF Converted, ConvertedFrom
<1> QED
  BY <1>4, <1>5

LEMMA ReadOnePassKeeps ==
  ASSUME DInv, ReadStep, ~op.crank
  PROVE  DInv'
<1> DEFINE room == IF mode.quant = "none" THEN ask ELSE Min({ask, V})
           u == upsample(op, room)
           rows == u.rows
           w == u.o
           n == op.line + Len(rows)
           f == [Main(w) EXCEPT !.line = n]
<1>1. Types /\ CallsMatch /\ InputInv /\ OutputInv /\ DeliveredInv
  BY DEF DInv
<1>2. /\ call = "read" /\ op.full
      /\ Frame /\ UNCHANGED <<avail, pos, ask, ip, passes, images, global_state>> /\ call' = "none"
  BY DEF ReadStep, Return, frame, Frame
<1>3. /\ op' = [Main(w) EXCEPT !.line = @ + Len(rows)]
      /\ delivered' = delivered \o rows
  <2>1. post_process(op, ask) = [rows |-> rows, o |-> Main(w)]
    BY DEF post_process
  <2> HIDE DEF rows, w
  <2> QED
    BY <2>1 DEF ReadStep
<1>4. global_state = "SCANNING" /\ ask # 0 /\ op.line < Height /\ ~mode.raw
  BY <1>1, <1>2 DEF CallsMatch
<1>5. Position(op) /\ Fresh(op) /\ ~op.dummy
  BY <1>1, <1>4 DEF OutputInv, Active
<1>6. /\ op \in OutputType /\ op.line \in Nat /\ ask \in Nat /\ V \in Nat /\ V >= 1
      /\ M \in Nat /\ M >= 1 /\ Height \in Nat /\ op.row \in Nat /\ op.scan \in Nat
      /\ TotalRows \in Nat
  <2>1. /\ op \in OutputType /\ ask \in Nat /\ V \in Nat /\ V >= 1 /\ M \in Nat /\ M >= 1
        /\ Height \in Nat /\ TotalRows \in Nat
    BY <1>1, TypeFacts, Geometry, Zenon
  <2>2. op.line \in Nat /\ op.row \in 0..TotalRows /\ op.scan \in Nat
    BY <2>1, OutputFields, Zenon
  <2>3. op.row \in Nat
    BY <2>1, <2>2
  <2> QED
    BY <2>1, <2>2, <2>3, Zenon
<1>7. room \in Nat /\ room >= 1
  <2>1. ask \in Int /\ V \in Int
    BY <1>6
  <2>2. Min({ask, V}) \in {ask, V}
    BY <2>1, LeastOfTwo, Zenon
  <2> QED
    BY <1>4, <1>6, <2>2
<1> HIDE DEF room
<1>8. /\ Len(rows) \in 1..room /\ rows \in Seq(Place)
      /\ NextRows(rows, op.line, op.scan)
      /\ Ahead(w, n) /\ Fresh(w)
      /\ w.next \in 0..V /\ w.togo \in 0..Height /\ w.color \in Nat \X Nat \X Nat
      /\ w.spare \in Place \union {None}
      /\ w = [op EXCEPT !.next = w.next, !.togo = w.togo, !.group = w.group,
                        !.color = w.color, !.spare = w.spare]
  BY <1>1, <1>2, <1>4, <1>5, <1>7, UpsampleGoesOn, Zenon
<1> HIDE DEF u, rows, w
<1>9. Len(rows) \in Nat /\ n \in Nat /\ n <= Height /\ w.group \in 0..M
  <2>1. Len(rows) \in Nat /\ n \in Nat
    <3>1. Len(rows) \in 1..room
      BY <1>8, Zenon
    <3>2. Len(rows) \in Nat
      BY <1>7, <3>1
    <3> QED
      BY <1>6, <3>2
  <2> HIDE DEF n
  <2>2. n <= Height /\ w.group \in 0..M
    BY <1>8, Zenon DEF Ahead
  <2> QED
    BY <2>1, <2>2
<1>10. op.full = TRUE
  BY <1>2, <1>6 DEF OutputType
<1>11. /\ f \in OutputType /\ w.line = op.line /\ Main(w).line = op.line
       /\ f.scan = op.scan /\ f.row = op.row /\ f.line = n
       /\ f.full = (IF w.group >= M THEN FALSE ELSE TRUE)
       /\ f.group = (IF w.group >= M THEN 0 ELSE w.group)
       /\ f.held = op.held /\ f.next = w.next /\ f.togo = w.togo /\ f.color = w.color
       /\ f.spare = w.spare /\ f.dummy = op.dummy /\ f.crank = op.crank
       /\ f.colormap = op.colormap /\ f.smooth = op.smooth /\ f.start = op.start
       /\ f.strip = op.strip /\ f.saved = op.saved
       /\ w.row = op.row /\ w.held = op.held /\ w.full = TRUE /\ w.scan = op.scan
  <2> HIDE DEF n
  <2>1. ConvertedFrom(Converted(w, n), op, w, n)
    BY <1>6, <1>8, <1>9, <1>10, OnePassShape, Zenon
  <2> QED
    BY <2>1, Zenon DEF Converted, ConvertedFrom
<1>12. op' = f
  BY <1>3, <1>11, Zenon
<1> HIDE DEF f
<1>13. op.row >= 1 /\ op.held[1] = op.row - 1
  BY <1>2, <1>5 DEF Position
<1>14. Position(f) /\ Fresh(f)
  <2> HIDE DEF n
  <2>1. f.scan = w.scan /\ f.row = w.row /\ f.held = w.held
    BY <1>11, Zenon
  <2> QED
    BY <1>1, <1>4, <1>8, <1>9, <1>11, <1>13, <2>1, MainKeepsPosition, Zenon
<1>15. DeliveredInv' /\ delivered' \in Seq(Place \union {None})
  <2>1. rows \in Seq(Place \union {None})
    BY <1>8
  <2>2. f.line <= Height + PastBottom
    BY <1>1, <1>6, <1>9, <1>11, PastBottomIsNat
  <2>3. ASSUME NEW j \in 1..Len(rows)
        PROVE  /\ rows[j] # None /\ rows[j][1] = op.line + j - 1
               /\ op.scan <= rows[j][2]
    <3>1. rows[j] \in Place /\ rows[j][1] = op.line + j - 1 /\ op.scan <= rows[j][2]
      BY <1>8 DEF NextRows
    <3>2. rows[j] # None
      BY <3>1, DecoderAssumption DEF Place
    <3> QED
      BY <3>1, <3>2
  <2>4. op'.scan = op.scan /\ op'.line = op.line + Len(rows) /\ op'.line <= Height + PastBottom
    BY <1>11, <1>12, <2>2
  <2> QED
    BY <1>1, <1>2, <1>3, <1>4, <2>1, <2>3, <2>4, RowsHandedOut
<1>16. OutputInv'
  <2>1. /\ (FullBuffer' <=> FullBuffer) /\ mode' = mode /\ NumScans' = NumScans
    BY <1>2, FrameGeometry DEF Frame
  <2>2. Position(op)' /\ Fresh(op)'
    BY <1>2, <1>12, <1>14, FrameOutput
  <2>3. /\ op.smooth => FullBuffer
        /\ ~op.colormap => \A r \in DOMAIN op.saved : op.saved[r] = None
        /\ ~FullBuffer => op.scan <= 1
        /\ op.scan >= 1 /\ op.scan <= NumScans
    BY <1>1, <1>4, <1>5 DEF OutputInv, Active
  <2>4. ~f.dummy /\ ~f.crank
    BY <1>5, <1>11
  <2> QED
    BY <1>2, <1>4, <1>11, <1>12, <2>1, <2>2, <2>3, <2>4 DEF OutputInv
<1>17. Types'
  BY <1>1, <1>2, <1>11, <1>12, <1>15, TypeFacts, TypesStay
<1>18. InputInv'
  BY <1>1, <1>2, <1>4, <1>11, <1>12, InputStays
<1>19. CallsMatch'
  BY <1>1, <1>2, <1>4, FrameGeometry DEF CallsMatch, Frame
<1> QED
  BY <1>15, <1>16, <1>17, <1>18, <1>19 DEF DInv

(* A strip that goes on past the image's last line adds less padding than   *)
(* PastBottom says.                                                         *)
LEMMA StripEnds ==
  ASSUME Types, mode.quant = "two", NEW start \in Nat, NEW k \in Nat, start = V * k,
         NEW strip \in Nat, strip < V, start + strip < Height,
         NEW n \in Nat, strip + n <= V, n <= Height - start
  PROVE  start + strip + n <= Height + PastBottom
<1> DEFINE left == ((Height - 1) % V) + 1
<1>1. V \in 1..4 /\ V \in Nat /\ Height \in Nat /\ Height >= 1 /\ PastBottom \in Nat
  BY Geometry, GeometryFits, PastBottomIsNat, Zenon
<1>2. CASE start + V <= Height
  BY <1>1, <1>2
<1>3. CASE start + V > Height
  <2>1. left = Height - start
    <3> DEFINE e == Height - 1 - start
    <3>1. e \in 0..V - 1 /\ Height - 1 = V * k + e
      BY <1>1, <1>3
    <3> HIDE DEF e
    <3>2. (V * k + e) % V = e
      <4>1. CASE V = 1
        BY <3>1, <4>1
      <4>2. CASE V = 2
        BY <3>1, <4>2
      <4>3. CASE V = 3
        BY <3>1, <4>3
      <4>4. CASE V = 4
        BY <3>1, <4>4
      <4> QED
        BY <1>1, <4>1, <4>2, <4>3, <4>4
    <3>3. left = e + 1
      BY <3>1, <3>2
    <3> QED
      BY <1>1, <3>3 DEF e
  <2>2. PastBottom = Min({V - left, left - 1})
    BY DEF PastBottom
  <2> HIDE DEF left
  <2>3. V - left \in Int /\ left - 1 \in Int
    BY <1>1, <2>1
  <2>4. Min({V - left, left - 1}) \in {V - left, left - 1}
    BY <2>3, LeastOfTwo, Zenon
  <2>5. PastBottom \in {V - left, left - 1}
    BY <2>2, <2>4
  <2> QED
    BY <1>1, <1>3, <2>1, <2>5
<1> QED
  BY <1>1, <1>2, <1>3

(* A saved line lies in the full-image buffer.                              *)
LEMMA StripInBuffer ==
  ASSUME Types, NEW start \in Nat, NEW k \in Nat, start = V * k, start < Height
  PROVE  start + V <= V * M * TotalRows
<1>1. /\ V \in 1..4 /\ V \in Nat /\ M \in Nat /\ TotalRows \in Nat /\ Height \in Nat
      /\ Height <= V * M * TotalRows
  <2>1. V \in 1..4 /\ V \in Nat /\ M \in Nat /\ TotalRows \in Nat /\ Height \in Nat
    BY Geometry, GeometryFits, Zenon
  <2>2. Height <= V * M * TotalRows
    BY RowsFit, Zenon
  <2> QED
    BY <2>1, <2>2
<1> DEFINE m == M * TotalRows
<1>2. m \in Nat /\ V * M * TotalRows = V * m
  BY <1>1
<1> HIDE DEF m
<1>3. V * k < V * m
  BY <1>1, <1>2
<1>4. V * k + V <= V * m
  <2>1. CASE V = 1
    BY <1>2, <1>3, <2>1
  <2>2. CASE V = 2
    BY <1>2, <1>3, <2>2
  <2>3. CASE V = 3
    BY <1>2, <1>3, <2>3
  <2>4. CASE V = 4
    BY <1>2, <1>3, <2>4
  <2> QED
    BY <1>1, <2>1, <2>2, <2>3, <2>4
<1> QED
  BY <1>2, <1>4

LEMMA ReadCrankKeeps ==
  ASSUME DInv, ReadStep, op.crank
  PROVE  DInv'
<1> DEFINE n == Min({V - op.strip, ask, Height - op.start})
           wrap == op.strip + n >= V
           rows == [j \in 1..n |-> op.saved[op.start + op.strip + j - 1]]
           strip == IF wrap THEN 0 ELSE op.strip + n
           start == IF wrap THEN op.start + V ELSE op.start
           line == op.line + n
           f == [op EXCEPT !.strip = strip, !.start = start, !.line = line]
<1>1. Types /\ CallsMatch /\ InputInv /\ OutputInv /\ DeliveredInv
  BY DEF DInv
<1>2. /\ call = "read"
      /\ Frame /\ UNCHANGED <<avail, pos, ask, ip, passes, images, global_state>> /\ call' = "none"
  BY DEF ReadStep, Return, frame, Frame
<1>3. global_state = "SCANNING" /\ ask # 0 /\ op.line < Height
  BY <1>1, <1>2 DEF CallsMatch
<1>4. /\ op.line = op.start + op.strip
      /\ \A r \in 0..Height - 1 : SavedRow(op, r)
      /\ mode.quant = "two" /\ op.colormap /\ SavedFresh(op) /\ ~op.dummy
  BY <1>1, <1>3 DEF OutputInv, Active, Showing
<1>5. PICK k \in Nat : op.start = V * k
  BY <1>1, <1>3 DEF OutputInv, Active, Showing
<1>6. /\ op \in OutputType /\ op.line \in Nat /\ ask \in Nat /\ V \in Nat /\ V >= 1
      /\ Height \in Nat /\ op.start \in Nat /\ op.strip \in 0..V - 1 /\ op.scan \in Nat
      /\ op.saved \in [0..V * M * TotalRows - 1 -> Row \union {None}] /\ ask >= 1
  <2>1. /\ op \in OutputType /\ ask \in Nat /\ V \in Nat /\ V >= 1 /\ Height \in Nat
    BY <1>1, TypeFacts, Geometry, Zenon
  <2>2. /\ op.line \in Nat /\ op.start \in Nat /\ op.strip \in 0..V - 1 /\ op.scan \in Nat
        /\ op.saved \in [0..V * M * TotalRows - 1 -> Row \union {None}]
    BY <2>1, OutputFields, Zenon
  <2>3. ask >= 1
    BY <1>3, <2>1
  <2> QED
    BY <2>1, <2>2, <2>3
<1>7. op.strip \in Nat /\ op.strip < V /\ op.start < Height
  BY <1>3, <1>4, <1>6
<1>8. /\ op.line \in Nat /\ V \in Nat /\ V >= 1 /\ Height \in Nat /\ op.start \in Nat
       /\ op.strip \in Nat /\ op.strip < V
  BY <1>6, <1>7, Zenon
<1>9. n \in Nat /\ n >= 1 /\ op.strip + n <= V /\ n <= Height - op.start
  <2>1. V - op.strip \in Int /\ ask \in Int /\ Height - op.start \in Int
    BY <1>6, <1>7
  <2>2. /\ n \in {V - op.strip, ask, Height - op.start}
        /\ n <= V - op.strip /\ n <= ask /\ n <= Height - op.start
    BY <2>1, LeastOfThree, Zenon
  <2> HIDE DEF n
  <2>3. ask \in Nat /\ ask >= 1 /\ op.start < Height
    BY <1>6, <1>7, Zenon
  <2> QED
    BY <1>8, <2>2, <2>3
<1> HIDE DEF n
<1>10. line <= Height + PastBottom
  <2>1. op.start + op.strip < Height
    BY <1>3, <1>4
  <2>2. op.start + op.strip + n <= Height + PastBottom
    BY <1>1, <1>4, <1>5, <1>6, <1>7, <1>9, <2>1, StripEnds
  <2>3. line = op.start + op.strip + n
    BY <1>4
  <2> QED
    BY <2>2, <2>3
<1>11. op.start + V <= V * M * TotalRows /\ V * M * TotalRows \in Int
  <2>1. op.start + V <= V * M * TotalRows
    BY <1>1, <1>5, <1>6, <1>7, StripInBuffer
  <2>2. V \in Int /\ M \in Int /\ TotalRows \in Int
    BY <1>1, Geometry
  <2> QED
    BY <2>1, <2>2
<1>12. /\ op' = f /\ delivered' = delivered \o rows /\ Len(rows) = n
  <2>1. post_process(op, ask) =
          [rows |-> rows, o |-> [op EXCEPT !.strip = IF wrap THEN 0 ELSE @ + n,
                                           !.start = IF wrap THEN @ + V ELSE @]]
    BY DEF post_process, post_process_2pass, n
  <2>2. Len(rows) = n
    BY <1>9
  <2> HIDE DEF rows, wrap
  <2> DEFINE p == post_process(op, ask)
             o == [op EXCEPT !.strip = IF wrap THEN 0 ELSE @ + n,
                             !.start = IF wrap THEN @ + V ELSE @]
  <2>3. p.rows = rows /\ p.o = o
    BY <2>1
  <2>4. op' = [p.o EXCEPT !.line = @ + Len(p.rows)] /\ delivered' = delivered \o p.rows
    <3> HIDE DEF o
    <3> QED
      BY Zenon DEF ReadStep
  <2> HIDE DEF p
  <2>5. op' = [o EXCEPT !.line = @ + Len(rows)] /\ delivered' = delivered \o rows
    <3> HIDE DEF o
    <3> QED
      BY <2>3, <2>4, Zenon
  <2>6. op' = f
    BY <1>6, <2>2, <2>5 DEF OutputType
  <2> QED
    BY <2>2, <2>5, <2>6
<1>13. /\ strip \in Nat /\ strip < V /\ start \in Nat /\ line = start + strip /\ line \in Nat
       /\ strip \in 0..V - 1
       /\ \E i \in Nat : start = V * i
  <2>1. CASE wrap
    <3>1. op.start + V = V * (k + 1) /\ k + 1 \in Nat
      BY <1>5, <1>6
    <3>2. start = op.start + V /\ strip = 0
      BY <2>1
    <3>3. \E i \in Nat : start = V * i
      BY <3>1, <3>2
    <3> HIDE DEF start, strip
    <3>4. op.strip + n = V
      BY <1>9, <1>8, <2>1
    <3>5. line = start + strip
      BY <1>4, <1>9, <1>8, <3>2, <3>4
    <3> HIDE DEF wrap
    <3>6. /\ strip \in Nat /\ strip < V /\ start \in Nat /\ line \in Nat /\ strip \in 0..V - 1
      BY <1>9, <1>8, <3>2
    <3> QED
      BY <3>3, <3>5, <3>6
  <2>2. CASE ~wrap
    <3>1. start = op.start /\ strip = op.strip + n
      BY <2>2
    <3>2. \E i \in Nat : start = V * i
      BY <1>5, <3>1
    <3> HIDE DEF start, strip
    <3>3. op.strip + n < V
      BY <1>9, <1>8, <2>2
    <3>4. line = start + strip
      BY <1>4, <1>9, <1>8, <3>1
    <3> HIDE DEF wrap
    <3>5. /\ strip \in Nat /\ strip < V /\ start \in Nat /\ line \in Nat /\ strip \in 0..V - 1
      BY <1>9, <1>8, <3>1, <3>3
    <3> QED
      BY <3>2, <3>4, <3>5
  <2> QED
    BY <2>1, <2>2
<1> HIDE DEF strip, start
<1>14. ASSUME NEW j \in 1..n
       PROVE  /\ rows[j] \in Row \union {None}
              /\ op.line + j <= Height => rows[j] # None /\ rows[j][1] = op.line + j - 1
              /\ rows[j] # None => op.scan <= rows[j][2]
  <2> DEFINE r == op.start + op.strip + j - 1
  <2>1. rows[j] = op.saved[r]
    OBVIOUS
  <2>2. /\ r = op.line + (j - 1) /\ r \in Nat /\ r <= op.start + V - 1
        /\ r <= V * M * TotalRows - 1
    <3> DEFINE total == V * M * TotalRows
    <3>1. op.start + V <= total /\ total \in Int
      BY <1>11
    <3> HIDE DEF total
    <3>2. /\ r = op.line + (j - 1) /\ r \in Nat /\ r <= op.start + V - 1 /\ r <= total - 1
      <4>1. op.line = op.start + op.strip
        BY <1>4, Zenon
      <4>2. j \in Nat /\ j >= 1 /\ op.strip + j <= V
        BY <1>9, <1>8
      <4> QED
        BY <1>8, <3>1, <4>1, <4>2
    <3> QED
      BY <3>2 DEF total
  <2> HIDE DEF r, rows
  <2>3. r \in 0..V * M * TotalRows - 1
    BY <1>11, <2>2
  <2>4. op.saved[r] \in Row \union {None}
    BY <1>6, <2>3
  <2>5. op.saved[r] # None => op.scan <= op.saved[r][2]
    BY <1>4, <1>6, <2>3 DEF SavedFresh
  <2>6. ASSUME op.line + j <= Height
        PROVE  rows[j] # None /\ rows[j][1] = op.line + j - 1
    <3>1. r \in 0..Height - 1
      BY <1>6, <2>2, <2>6
    <3>2. SavedRow(op, r)
      BY <1>4, <3>1
    <3> QED
      BY <2>1, <2>2, <3>2 DEF SavedRow
  <2> QED
    BY <2>1, <2>4, <2>5, <2>6
<1>15. rows \in Seq(Place \union {None})
  <2>1. Row \subseteq Place
    <3>1. TotalRows * V * M \in Int /\ Len(image.scans) \in Int
      BY <1>1, Geometry DEF NumScans
    <3> QED
      BY <3>1 DEF Row, Place
  <2>2. rows \in [1..n -> Place \union {None}]
    BY <1>14, <2>1
  <2> HIDE DEF rows
  <2> QED
    BY <1>9, <2>2, RowsAreSequence
<1> HIDE DEF rows, line
<1>16. /\ f \in OutputType /\ f.scan = op.scan /\ f.line = line /\ f.strip = strip /\ f.start = start
       /\ f.saved = op.saved /\ f.dummy = op.dummy /\ f.crank = op.crank
       /\ f.colormap = op.colormap /\ f.smooth = op.smooth
  BY <1>6, <1>13 DEF OutputType
<1> HIDE DEF f
<1>17. Showing(f) /\ SavedFresh(f)
  <2>1. \A r \in 0..Height - 1 : SavedRow(f, r)
    BY <1>4, <1>16 DEF SavedRow
  <2>2. SavedFresh(f)
    BY <1>4, <1>16 DEF SavedFresh
  <2> QED
    BY <1>13, <1>16, <2>1, <2>2 DEF Showing
<1>18. DeliveredInv' /\ delivered' \in Seq(Place \union {None})
  <2>1. op'.scan = op.scan /\ op'.line = op.line + Len(rows) /\ op'.line <= Height + PastBottom
    BY <1>10, <1>12, <1>16 DEF line
  <2>2. \A j \in 1..Len(rows) :
           /\ op.line + j <= Height => rows[j] # None /\ rows[j][1] = op.line + j - 1
           /\ rows[j] # None => op.scan <= rows[j][2]
    BY <1>12, <1>14, Zenon
  <2> QED
    BY <1>1, <1>2, <1>3, <1>12, <1>15, <2>1, <2>2, RowsHandedOut
<1>19. OutputInv'
  <2>1. /\ (FullBuffer' <=> FullBuffer) /\ mode' = mode /\ NumScans' = NumScans
    BY <1>2, FrameGeometry DEF Frame
  <2>2. Showing(op)' /\ SavedFresh(op)'
    BY <1>2, <1>12, <1>17, FrameOutput
  <2>3. /\ op.smooth => FullBuffer
        /\ ~FullBuffer => op.scan <= 1
        /\ op.scan >= 1 /\ op.scan <= NumScans
    BY <1>1, <1>3 DEF OutputInv, Active
  <2>4. ~f.dummy /\ f.crank /\ f.colormap
    BY <1>4, <1>16
  <2> QED
    BY <1>2, <1>3, <1>4, <1>12, <1>16, <2>1, <2>2, <2>3, <2>4 DEF OutputInv
<1>20. Types'
  BY <1>1, <1>2, <1>12, <1>16, <1>18, TypeFacts, TypesStay
<1>21. InputInv'
  BY <1>1, <1>2, <1>3, <1>12, <1>16, InputStays
<1>22. CallsMatch'
  BY <1>1, <1>2, <1>3, FrameGeometry DEF CallsMatch, Frame
<1> QED
  BY <1>18, <1>19, <1>20, <1>21, <1>22 DEF DInv

LEMMA RawStepKeeps ==
  ASSUME DInv, RawStep
  PROVE  DInv'
<1> DEFINE n == V * M
           rows == [j \in 1..n |-> RowOf(op.held, 0, j - 1)]
           line == op.line + n
           f == [op EXCEPT !.full = FALSE, !.line = line]
<1>1. Types /\ CallsMatch /\ InputInv /\ OutputInv /\ DeliveredInv
  BY DEF DInv
<1>2. /\ call = "raw" /\ op.full /\ op' = f /\ delivered' = delivered \o rows
      /\ Frame /\ UNCHANGED <<avail, pos, ask, ip, passes, images, global_state>> /\ call' = "none"
  BY DEF RawStep, Return, frame, Frame
<1>3. global_state = "RAW_OK" /\ mode.raw
  BY <1>1, <1>2 DEF CallsMatch
<1>4. ~op.dummy /\ ~op.crank
  BY <1>1, <1>3, ModeFacts DEF OutputInv
<1>5. Position(op) /\ Fresh(op) /\ op.scan >= 1 /\ op.scan <= NumScans
  BY <1>1, <1>3, <1>4 DEF OutputInv, Active
<1>6. /\ op \in OutputType /\ op.line \in Nat /\ op.row \in Nat /\ op.held \in Place
      /\ op.scan \in Nat /\ C \in Nat /\ n = C /\ V \in Nat /\ M \in Nat
  <2>1. TotalRows \in Nat /\ C \in Nat /\ V \in Nat /\ M \in Nat
    BY <1>1, Geometry
  <2>2. op \in OutputType
    BY <1>1, TypeFacts
  <2>3. op.line \in Nat /\ op.row \in 0..TotalRows /\ op.held \in Place /\ op.scan \in Nat
    BY <2>2, OutputFields, Zenon
  <2> QED
    BY <2>1, <2>2, <2>3 DEF C
<1>7. op.line = C * (op.row - 1) /\ op.row >= 1 /\ op.scan <= op.held[2]
  BY <1>2, <1>3, <1>5 DEF Position, Fresh
<1>8. line \in Nat /\ line = C * op.row
  <2>1. C * (op.row - 1) + C = C * op.row /\ C * op.row \in Nat
    BY <1>6
  <2> QED
    BY <1>6, <1>7, <2>1
<1> HIDE DEF n, line
<1>9. /\ f \in OutputType /\ f.scan = op.scan /\ f.row = op.row /\ f.line = line /\ f.full = FALSE
      /\ f.next = op.next /\ f.color = op.color /\ f.spare = op.spare /\ f.dummy = op.dummy
      /\ f.crank = op.crank /\ f.colormap = op.colormap /\ f.smooth = op.smooth
      /\ f.saved = op.saved
  BY <1>6, <1>8 DEF OutputType
<1> HIDE DEF f
<1>10. Position(f)
  BY <1>3, <1>8, <1>9 DEF Position
<1>11. Fresh(f)
  BY <1>5, <1>9 DEF Fresh
<1>12. ASSUME NEW j \in 1..n
       PROVE  rows[j] \in Place /\ op.scan <= rows[j][2]
  <2>1. rows[j] = RowOf(op.held, 0, j - 1) /\ j - 1 \in Nat
    BY <1>6
  <2>2. op.held[1] \in Nat /\ op.held[2] \in Nat
    BY <1>6 DEF Place
  <2> HIDE DEF rows
  <2>3. RowOf(op.held, 0, j - 1) = <<C * op.held[1] + V * 0 + (j - 1), op.held[2]>>
    BY <1>1, <2>1, <2>2, RowIsLine
  <2>4. C * op.held[1] + V * 0 + (j - 1) \in Nat
    <3>1. C * op.held[1] \in Nat /\ V * 0 \in Nat
      BY <1>6, <2>2
    <3> QED
      BY <2>1, <3>1
  <2> QED
    BY <1>7, <2>1, <2>2, <2>3, <2>4 DEF Place
<1>13. rows \in Seq(Place \union {None}) /\ Len(rows) = n
  <2>1. n \in Nat /\ rows \in [1..n -> Place \union {None}]
    BY <1>6, <1>12
  <2> HIDE DEF rows
  <2> QED
    BY <2>1, RowsAreSequence
<1> HIDE DEF rows
<1>14. delivered \in Seq(Place \union {None})
  BY <1>1, TypeFacts
<1>15. /\ delivered' \in Seq(Place \union {None})
       /\ \A i \in DOMAIN delivered' :
            \/ i \in DOMAIN delivered /\ delivered'[i] = delivered[i]
            \/ \E j \in 1..n : delivered'[i] = rows[j]
  <2> DEFINE S == Place \union {None}
             d == delivered \o rows
  <2>1. delivered \in Seq(S) /\ rows \in Seq(S)
    BY <1>13, <1>14
  <2> HIDE DEF S
  <2>2. /\ d \in Seq(S) /\ Len(d) = Len(delivered) + Len(rows)
        /\ Len(delivered) \in Nat /\ Len(rows) \in Nat
        /\ \A i \in 1..Len(delivered) : d[i] = delivered[i]
        /\ \A i \in Len(delivered) + 1..Len(delivered) + Len(rows) : d[i] = rows[i - Len(delivered)]
    BY <2>1, Joined
  <2> HIDE DEF d
  <2>3. DOMAIN d = 1..Len(delivered) + Len(rows) /\ DOMAIN delivered = 1..Len(delivered)
    BY <2>1, <2>2
  <2>4. ASSUME NEW i \in DOMAIN d
        PROVE  \/ i \in DOMAIN delivered /\ d[i] = delivered[i]
               \/ \E j \in 1..n : d[i] = rows[j]
    <3>1. CASE i \in 1..Len(delivered)
      BY <2>2, <2>3, <3>1
    <3>2. CASE i \notin 1..Len(delivered)
      <4>1. i - Len(delivered) \in 1..n /\ i \in Len(delivered) + 1..Len(delivered) + Len(rows)
        BY <1>13, <2>2, <2>3, <3>2
      <4> QED
        BY <2>2, <4>1
    <3> QED
      BY <3>1, <3>2
  <2>5. delivered' = d
    BY <1>2 DEF d
  <2> QED
    BY <2>2, <2>4, <2>5 DEF S
<1>16. DeliveredInv'
  <2>1. RowsInOrder'
    BY <1>2, <1>3 DEF RowsInOrder
  <2>2. ASSUME NEW i \in DOMAIN delivered', delivered'[i] # None
        PROVE  delivered'[i][2] >= op.scan
    <3>1. CASE i \in DOMAIN delivered /\ delivered'[i] = delivered[i]
      BY <1>1, <1>3, <2>2, <3>1 DEF DeliveredInv, ShowsRequestedScan
    <3>2. ASSUME NEW j \in 1..n, delivered'[i] = rows[j]
          PROVE  delivered'[i][2] >= op.scan
      <4>1. rows[j] \in Place /\ op.scan <= rows[j][2]
        BY <1>12
      <4>2. rows[j][2] \in Nat
        BY <4>1 DEF Place
      <4> QED
        BY <1>6, <3>2, <4>1, <4>2
    <3> QED
      BY <1>15, <2>2, <3>1, <3>2
  <2>3. ShowsRequestedScan'
    BY <1>2, <1>9, <2>2 DEF ShowsRequestedScan
  <2> QED
    BY <2>1, <2>3 DEF DeliveredInv
<1>17. OutputInv'
  <2>1. /\ (FullBuffer' <=> FullBuffer) /\ mode' = mode /\ NumScans' = NumScans
    BY <1>2, FrameGeometry DEF Frame
  <2>2. Position(op)' /\ Fresh(op)'
    BY <1>2, <1>10, <1>11, FrameOutput
  <2>3. /\ op.smooth => FullBuffer
        /\ ~op.colormap => \A r \in DOMAIN op.saved : op.saved[r] = None
        /\ ~FullBuffer => op.scan <= 1
    BY <1>1, <1>4 DEF OutputInv
  <2>4. ~f.dummy /\ ~f.crank
    BY <1>4, <1>9
  <2> QED
    BY <1>2, <1>3, <1>5, <1>9, <2>1, <2>2, <2>3, <2>4 DEF OutputInv
<1>18. Types'
  BY <1>1, <1>2, <1>9, <1>15, TypeFacts, TypesStay
<1>19. InputInv'
  BY <1>1, <1>2, <1>3, <1>9, InputStays
<1>20. CallsMatch'
  BY <1>1, <1>2, <1>3, FrameGeometry DEF CallsMatch, Frame
<1> QED
  BY <1>16, <1>17, <1>18, <1>19, <1>20 DEF DInv

(* What a call of the prepass leaves of what the upsampler left.            *)
Stored(w, saved, strip, start, n) ==
  Main([w EXCEPT !.saved = saved, !.strip = strip, !.start = start, !.line = n])
StoredFrom(f, o, w, saved, strip, start, n) ==
  /\ f \in OutputType
  /\ f.scan = o.scan /\ f.row = o.row /\ f.line = n
  /\ f.full = (IF w.group >= M THEN FALSE ELSE TRUE)
  /\ f.group = (IF w.group >= M THEN 0 ELSE w.group)
  /\ f.held = o.held /\ f.next = w.next /\ f.togo = w.togo /\ f.color = w.color
  /\ f.spare = w.spare /\ f.dummy = o.dummy /\ f.crank = o.crank
  /\ f.colormap = o.colormap /\ f.smooth = o.smooth /\ f.start = start
  /\ f.strip = strip /\ f.saved = saved
  /\ w.row = o.row /\ w.held = o.held /\ w.full = TRUE /\ w.scan = o.scan
  /\ w.strip = o.strip /\ w.start = o.start /\ w.line = o.line

(* Lines saved in the first of two passes: the record that is left.         *)
LEMMA PrepassShape ==
  ASSUME NEW o \in OutputType, o.full = TRUE, NEW w,
         w = [o EXCEPT !.next = w.next, !.togo = w.togo, !.group = w.group, !.color = w.color,
                       !.spare = w.spare],
         w.group \in 0..M, w.next \in 0..V, w.togo \in 0..Height, w.color \in Nat \X Nat \X Nat,
         w.spare \in Place \union {None}, M \in Nat, M >= 1,
         NEW saved \in [0..V * M * TotalRows - 1 -> Row \union {None}],
         NEW strip \in 0..V - 1, NEW start \in Nat, NEW n \in Nat
  PROVE  StoredFrom(Stored(w, saved, strip, start, n), o, w, saved, strip, start, n)
<1> DEFINE nx == w.next
           tg == w.togo
           gr == w.group
           cl == w.color
           sp == w.spare
           x == [w EXCEPT !.saved = saved, !.strip = strip, !.start = start, !.line = n]
           h == Main(x)
           Shape == /\ h \in OutputType
                    /\ h.scan = o.scan /\ h.row = o.row /\ h.line = n
                    /\ h.full = (IF w.group >= M THEN FALSE ELSE TRUE)
                    /\ h.group = (IF w.group >= M THEN 0 ELSE w.group)
                    /\ h.held = o.held /\ h.next = w.next /\ h.togo = w.togo /\ h.color = w.color
                    /\ h.spare = w.spare /\ h.dummy = o.dummy /\ h.crank = o.crank
                    /\ h.colormap = o.colormap /\ h.smooth = o.smooth /\ h.start = start
                    /\ h.strip = strip /\ h.saved = saved
<1>1. /\ nx \in 0..V /\ tg \in 0..Height /\ gr \in 0..M /\ cl \in Nat \X Nat \X Nat
      /\ sp \in Place \union {None}
  OBVIOUS
<1>2. w = [o EXCEPT !.next = nx, !.togo = tg, !.group = gr, !.color = cl, !.spare = sp]
  OBVIOUS
<1> HIDE DEF nx, tg, gr, cl, sp
<1>3. /\ w.row = o.row /\ w.held = o.held /\ w.full = TRUE /\ w.scan = o.scan
      /\ w.next = nx /\ w.togo = tg /\ w.group = gr /\ w.color = cl /\ w.spare = sp
      /\ w.strip = o.strip /\ w.start = o.start /\ w.line = o.line
  BY <1>2 DEF OutputType
<1>4. x = [o EXCEPT !.next = nx, !.togo = tg, !.group = gr, !.color = cl, !.spare = sp,
                    !.saved = saved, !.strip = strip, !.start = start, !.line = n]
  BY <1>2 DEF OutputType
<1>5. x.group = gr
  BY <1>4 DEF OutputType
<1> HIDE DEF x, h, Shape
<1>6. ASSUME gr >= M PROVE Shape
  <2> DEFINE f == [o EXCEPT !.next = nx, !.togo = tg, !.color = cl, !.spare = sp,
                            !.saved = saved, !.strip = strip, !.start = start, !.line = n,
                            !.full = FALSE, !.group = 0]
  <2>1. 0 \in 0..M - 1 /\ FALSE \in BOOLEAN
    OBVIOUS
  <2>2. Main(x) = [x EXCEPT !.full = FALSE, !.group = 0]
    BY <1>5, <1>6 DEF Main
  <2>3. Main(x) = f
    BY <1>4, <2>2 DEF OutputType
  <2>4. /\ f \in OutputType /\ f.scan = o.scan /\ f.row = o.row /\ f.line = n
        /\ f.full = FALSE /\ f.group = 0
        /\ f.held = o.held /\ f.next = nx /\ f.togo = tg /\ f.color = cl
        /\ f.spare = sp /\ f.dummy = o.dummy /\ f.crank = o.crank
        /\ f.colormap = o.colormap /\ f.smooth = o.smooth /\ f.start = start
        /\ f.strip = strip /\ f.saved = saved
    BY <1>1, <2>1 DEF OutputType
  <2> HIDE DEF f
  <2>5. w.group >= M
    BY <1>3, <1>6, Zenon
  <2>6. /\ f.full = (IF w.group >= M THEN FALSE ELSE TRUE)
        /\ f.group = (IF w.group >= M THEN 0 ELSE w.group)
    BY <2>4, <2>5
  <2> QED
    BY <1>3, <2>3, <2>4, <2>6, Zenon DEF h, Shape
<1>7. ASSUME ~(gr >= M) PROVE Shape
  <2> DEFINE f == [o EXCEPT !.next = nx, !.togo = tg, !.group = gr, !.color = cl, !.spare = sp,
                            !.saved = saved, !.strip = strip, !.start = start, !.line = n]
  <2>1. gr \in 0..M - 1
    BY <1>1, <1>7
  <2>2. Main(x) = x
    BY <1>5, <1>7 DEF Main
  <2>3. Main(x) = f
    BY <1>4, <2>2, Zenon
  <2>4. /\ f \in OutputType /\ f.scan = o.scan /\ f.row = o.row /\ f.line = n
        /\ f.full = TRUE /\ f.group = gr
        /\ f.held = o.held /\ f.next = nx /\ f.togo = tg /\ f.color = cl
        /\ f.spare = sp /\ f.dummy = o.dummy /\ f.crank = o.crank
        /\ f.colormap = o.colormap /\ f.smooth = o.smooth /\ f.start = start
        /\ f.strip = strip /\ f.saved = saved
    BY <1>1, <2>1 DEF OutputType
  <2> HIDE DEF f
  <2>5. ~(w.group >= M)
    BY <1>3, <1>7, Zenon
  <2>6. /\ f.full = (IF w.group >= M THEN FALSE ELSE TRUE)
        /\ f.group = (IF w.group >= M THEN 0 ELSE w.group)
    BY <1>3, <2>4, <2>5
  <2> QED
    BY <1>3, <2>3, <2>4, <2>6, Zenon DEF h, Shape
<1>8. Shape
  BY <1>6, <1>7, Zenon
<1> QED
  BY <1>3, <1>8, Zenon DEF Shape, h, x, Stored, StoredFrom

LEMMA PrepassKeeps ==
  ASSUME DInv, PrescanStep, op.dummy, op.line < Height
  PROVE  DInv'
<1> DEFINE room == V - op.strip
           u == upsample(op, room)
           rows == u.rows
           w == u.o
           n == Len(rows)
           line == op.line + n
           at == op.start + op.strip
           wrap == op.strip + n >= V
           saved == [r \in DOMAIN op.saved |->
                       IF r \in at..at + n - 1 THEN rows[r - at + 1] ELSE op.saved[r]]
           strip == IF wrap THEN 0 ELSE op.strip + n
           start == IF wrap THEN op.start + V ELSE op.start
           f == Main([w EXCEPT !.saved = saved, !.strip = strip, !.start = start, !.line = line])
<1>1. Types /\ CallsMatch /\ InputInv /\ OutputInv /\ DeliveredInv
  BY DEF DInv
<1>2. /\ call = "prescan" /\ op.full /\ op' = Main(post_process_prepass(op))
      /\ Frame /\ UNCHANGED <<avail, pos, ask, ip, passes, images, global_state, call, delivered>>
  BY DEF PrescanStep, frame, Frame
<1>3. global_state = "PRESCAN" /\ mode.quant = "two" /\ ~op.crank /\ ~op.colormap /\ ~mode.raw
  BY <1>1, ModeFacts DEF OutputInv
<1>4. /\ Position(op) /\ Fresh(op) /\ Saving(op) /\ SavedFresh(op)
      /\ op.scan >= 1 /\ op.scan <= NumScans
  BY <1>1, <1>3 DEF OutputInv, Active
<1>5. /\ op \in OutputType /\ V \in Nat /\ V >= 1 /\ M \in Nat /\ M >= 1 /\ Height \in Nat
      /\ TotalRows \in Nat /\ op.line \in Nat /\ op.row \in Nat /\ op.scan \in Nat
      /\ op.start \in Nat /\ op.strip \in Nat /\ op.strip < V /\ op.next \in 0..V
      /\ op.group \in Nat /\ NumScans \in Nat
      /\ op.saved \in [0..V * M * TotalRows - 1 -> Row \union {None}]
  <2>1. /\ op \in OutputType /\ V \in Nat /\ V >= 1 /\ M \in Nat /\ M >= 1 /\ Height \in Nat
        /\ TotalRows \in Nat /\ NumScans \in Nat
    BY <1>1, TypeFacts, Geometry, Zenon
  <2>2. /\ op.line \in Nat /\ op.row \in 0..TotalRows /\ op.scan \in Nat /\ op.start \in Nat
        /\ op.strip \in 0..V - 1 /\ op.next \in 0..V /\ op.group \in 0..M - 1
        /\ op.saved \in [0..V * M * TotalRows - 1 -> Row \union {None}]
    BY <2>1, OutputFields, Zenon
  <2>3. op.row \in Nat /\ op.strip \in Nat /\ op.strip < V /\ op.group \in Nat
    BY <2>1, <2>2
  <2> QED
    BY <2>1, <2>2, <2>3, Zenon
<1>6. op.start = op.line - Part(op) /\ op.strip = Part(op)
  BY <1>4 DEF Saving
<1>7. at = op.line /\ room \in Nat /\ room >= 1
  BY <1>5, <1>6
<1> HIDE DEF at
<1>8. op.full = TRUE
  BY <1>2, <1>5 DEF OutputType
<1>9. /\ Len(rows) \in 1..room /\ rows \in Seq(Place)
      /\ NextRows(rows, op.line, op.scan)
      /\ Ahead(w, line) /\ Fresh(w)
      /\ w.next \in 0..V /\ w.togo \in 0..Height /\ w.color \in Nat \X Nat \X Nat
      /\ w.spare \in Place \union {None}
      /\ w = [op EXCEPT !.next = w.next, !.togo = w.togo, !.group = w.group,
                        !.color = w.color, !.spare = w.spare]
  <2> HIDE DEF room
  <2> QED
    BY <1>1, <1>2, <1>3, <1>4, <1>7, UpsampleGoesOn, Zenon
<1>10. post_process_prepass(op) =
         [w EXCEPT !.saved = saved, !.strip = IF wrap THEN 0 ELSE @ + n,
                   !.start = IF wrap THEN @ + V ELSE @, !.line = @ + n]
  BY DEF post_process_prepass, at
<1> HIDE DEF u, rows, w
<1>11. /\ n \in Nat /\ n >= 1 /\ op.strip + n <= V /\ line \in Nat /\ line = op.line + n
       /\ at = op.line /\ op.line \in Nat /\ op.strip \in Nat /\ V \in Nat /\ V >= 1
  <2>1. n \in 1..room
    BY <1>9, Zenon
  <2>2. op.line \in Nat /\ op.strip \in Nat /\ V \in Nat /\ V >= 1 /\ at = op.line
    BY <1>5, <1>7, Zenon
  <2>3. room = V - op.strip /\ line = op.line + n
    OBVIOUS
  <2> HIDE DEF n, line, room
  <2> QED
    BY <2>1, <2>2, <2>3
<1> HIDE DEF n, line, room
<1>12. w.group \in 0..M /\ line <= Height
  BY <1>9, Zenon DEF Ahead
<1>13. line = op.line + n
  BY DEF line
<1>14. line <= V * M * TotalRows /\ V * M * TotalRows \in Int
  <2>1. V * M * TotalRows \in Int
    BY <1>5
  <2>2. Height <= V * M * TotalRows /\ C * TotalRows = V * M * TotalRows
    BY <1>1, RowsFit, Zenon
  <2> DEFINE total == V * M * TotalRows
  <2> HIDE DEF total
  <2>3. total \in Int /\ Height <= total
    BY <2>1, <2>2 DEF total
  <2>4. line <= total
    BY <1>5, <1>11, <1>12, <2>3
  <2> QED
    BY <2>1, <2>4 DEF total
<1>15. ASSUME NEW j \in 1..n
       PROVE  /\ rows[j] \in Row /\ rows[j] # None /\ rows[j][1] = op.line + j - 1
              /\ op.scan <= rows[j][2]
  <2>1. j \in 1..Len(rows)
    BY DEF n
  <2>2. /\ rows[j] \in Place /\ rows[j][1] = op.line + j - 1 /\ op.scan <= rows[j][2]
        /\ rows[j][2] <= NumScans
    BY <1>9, <2>1 DEF NextRows
  <2>3. rows[j] # None
    BY <2>2, DecoderAssumption DEF Place
  <2>4. rows[j][1] \in 0..TotalRows * V * M - 1
    <3> DEFINE total == V * M * TotalRows
    <3>1. total = TotalRows * V * M
      BY <1>5
    <3>2. line <= total /\ total \in Int
      BY <1>14
    <3> HIDE DEF total
    <3>3. op.line + j - 1 \in 0..total - 1
      BY <1>11, <1>13, <3>2
    <3> QED
      BY <2>2, <3>1, <3>3, Zenon
  <2>5. rows[j][2] \in 0..Len(image.scans)
    <3>1. rows[j][2] \in Nat
      BY <2>2 DEF Place
    <3> QED
      BY <1>5, <2>2, <3>1 DEF NumScans
  <2> QED
    BY <2>2, <2>3, <2>4, <2>5 DEF Row, Place
<1>16. saved \in [0..V * M * TotalRows - 1 -> Row \union {None}]
  <2>1. DOMAIN op.saved = 0..V * M * TotalRows - 1
    BY <1>5
  <2>2. ASSUME NEW r \in 0..V * M * TotalRows - 1
        PROVE  (IF r \in at..at + n - 1 THEN rows[r - at + 1] ELSE op.saved[r])
                 \in Row \union {None}
    <3>1. CASE r \in at..at + n - 1
      <4>1. r - at + 1 \in 1..n
        BY <1>11, <3>1
      <4> QED
        BY <1>15, <3>1, <4>1
    <3>2. CASE r \notin at..at + n - 1
      BY <1>5, <3>2
    <3> QED
      BY <3>1, <3>2
  <2> QED
    BY <2>1, <2>2
<1>17. /\ strip \in 0..V - 1 /\ start \in Nat /\ line = start + strip
       /\ strip = IF Part(op) + n >= V THEN 0 ELSE Part(op) + n
  <2>1. op.line = op.start + op.strip
    BY <1>7 DEF at
  <2>2. /\ op.strip = Part(op) /\ op.start \in Nat
        /\ wrap <=> op.strip + n >= V
        /\ strip = IF wrap THEN 0 ELSE op.strip + n
        /\ start = IF wrap THEN op.start + V ELSE op.start
    BY <1>5, <1>6, Zenon
  <2> HIDE DEF wrap, strip, start
  <2>3. CASE wrap
    BY <1>11, <2>1, <2>2, <2>3
  <2>4. CASE ~wrap
    BY <1>11, <2>1, <2>2, <2>4
  <2> QED
    BY <2>3, <2>4
<1>18. /\ f \in OutputType
       /\ f.scan = op.scan /\ f.row = op.row /\ f.line = line
       /\ f.full = (IF w.group >= M THEN FALSE ELSE TRUE)
       /\ f.group = (IF w.group >= M THEN 0 ELSE w.group)
       /\ f.held = op.held /\ f.next = w.next /\ f.togo = w.togo /\ f.color = w.color
       /\ f.spare = w.spare /\ f.dummy = op.dummy /\ f.crank = op.crank
       /\ f.colormap = op.colormap /\ f.smooth = op.smooth /\ f.start = start
       /\ f.strip = strip /\ f.saved = saved
       /\ w.row = op.row /\ w.held = op.held /\ w.full = TRUE /\ w.scan = op.scan
       /\ w.strip = op.strip /\ w.start = op.start /\ w.line = op.line
  <2> HIDE DEF saved, strip, start
  <2>1. /\ op \in OutputType /\ M \in Nat /\ M >= 1 /\ line \in Nat /\ start \in Nat
        /\ strip \in 0..V - 1 /\ saved \in [0..V * M * TotalRows - 1 -> Row \union {None}]
    BY <1>5, <1>11, <1>16, <1>17, Zenon
  <2>2. /\ w.group \in 0..M /\ w.next \in 0..V /\ w.togo \in 0..Height
        /\ w.color \in Nat \X Nat \X Nat /\ w.spare \in Place \union {None}
        /\ w = [op EXCEPT !.next = w.next, !.togo = w.togo, !.group = w.group,
                          !.color = w.color, !.spare = w.spare]
    BY <1>9, <1>12, Zenon
  <2>3. StoredFrom(Stored(w, saved, strip, start, line), op, w, saved, strip, start, line)
    BY <1>8, <2>1, <2>2, PrepassShape, Zenon
  <2> QED
    BY <2>3, Zenon DEF Stored, StoredFrom
<1>19. op' = f
  <2> HIDE DEF saved, wrap
  <2>1. post_process_prepass(op) =
          [w EXCEPT !.saved = saved, !.strip = strip, !.start = start, !.line = line]
    BY <1>10, <1>18, Zenon DEF line
  <2>2. op' = Main(post_process_prepass(op))
    BY <1>2, Zenon
  <2> HIDE DEF strip, start, line, n
  <2> QED
    BY <2>1, <2>2, Zenon
<1>20. \A r \in DOMAIN saved : saved[r] = IF r \in at..at + n - 1 THEN rows[r - at + 1] ELSE op.saved[r]
  OBVIOUS
<1> HIDE DEF f, saved, strip, start, wrap
<1>21. Part(f) = strip
  <2>1. Part(f) = Part(w)
    BY <1>18 DEF Part
  <2>2. op.line = C * (op.row - 1) + V * op.group + Part(op)
    BY <1>2, <1>3, <1>4 DEF Position
  <2>3. Ahead(w, op.line + n)
    BY <1>9, <1>13, Zenon
  <2>4. Part(op) + n <= V
    BY <1>6, <1>11, Zenon
  <2>5. Part(w) = IF Part(op) + n >= V THEN 0 ELSE Part(op) + n
    BY <1>1, <1>5, <1>9, <1>11, <1>18, <2>2, <2>3, <2>4, PartAdvances, Zenon
  <2> QED
    BY <1>17, <2>1, <2>5, Zenon
<1>22. Position(f) /\ Fresh(f)
  <2>1. f.scan = w.scan /\ f.row = w.row /\ f.held = w.held
    BY <1>18, Zenon
  <2>2. op.row >= 1 /\ op.held[1] = op.row - 1
    BY <1>2, <1>4 DEF Position
  <2> QED
    BY <1>1, <1>3, <1>9, <1>11, <1>18, <2>1, <2>2, MainKeepsPosition, Zenon
<1>23. Saving(f)
  <2>1. f.start = f.line - Part(f) /\ f.strip = Part(f)
    BY <1>5, <1>17, <1>18, <1>21
  <2>2. ASSUME NEW r \in 0..f.line - 1
        PROVE  SavedRow(f, r)
    <3> DEFINE total == V * M * TotalRows
    <3>1. r \in Nat /\ r < line
      BY <1>11, <1>18, <2>2
    <3>2. r \in DOMAIN saved
      <4>1. DOMAIN saved = 0..total - 1 /\ line <= total /\ total \in Int
        BY <1>14, <1>16
      <4> HIDE DEF total
      <4> QED
        BY <1>11, <3>1, <4>1
    <3>3. CASE r < op.line
      <4>1. saved[r] = op.saved[r]
        BY <1>5, <1>7, <1>20, <3>1, <3>2, <3>3
      <4>2. SavedRow(op, r)
        <5>1. r \in 0..op.line - 1
          BY <1>5, <3>1, <3>3
        <5> QED
          BY <1>4, <5>1 DEF Saving
      <4> QED
        BY <1>18, <4>1, <4>2 DEF SavedRow
    <3>4. CASE r >= op.line
      <4>1. r \in at..at + n - 1 /\ r - at + 1 \in 1..n /\ op.line + ((r - at + 1) - 1) = r
        BY <1>11, <3>1, <3>4
      <4>2. saved[r] = rows[r - at + 1]
        BY <1>20, <3>2, <4>1
      <4> DEFINE j == r - at + 1
      <4>3. j \in 1..n /\ op.line + (j - 1) = r /\ saved[r] = rows[j]
        BY <4>1, <4>2
      <4> HIDE DEF j
      <4>4. rows[j] # None /\ rows[j][1] = op.line + (j - 1)
        BY <1>15, <4>3
      <4> QED
        BY <1>18, <4>3, <4>4 DEF SavedRow
    <3> QED
      BY <1>5, <3>1, <3>3, <3>4
  <2> QED
    BY <2>1, <2>2 DEF Saving
<1>24. SavedFresh(f)
  <2> SUFFICES ASSUME NEW r \in DOMAIN saved, saved[r] # None
               PROVE  op.scan <= saved[r][2]
    BY <1>18 DEF SavedFresh
  <2>1. CASE r \in at..at + n - 1
    <3>1. r - at + 1 \in 1..n
      <4>1. r \in Int
        BY <1>11, <2>1
      <4> QED
        BY <1>11, <2>1, <4>1
    <3>2. saved[r] = rows[r - at + 1]
      BY <1>20, <2>1
    <3> QED
      BY <1>15, <3>1, <3>2
  <2>2. CASE r \notin at..at + n - 1
    <3>1. saved[r] = op.saved[r] /\ r \in DOMAIN op.saved
      BY <1>5, <1>16, <1>20, <2>2
    <3> QED
      BY <1>4, <3>1 DEF SavedFresh
  <2> QED
    BY <2>1, <2>2
<1>25. OutputInv'
  <2>1. /\ (FullBuffer' <=> FullBuffer) /\ mode' = mode /\ NumScans' = NumScans
    BY <1>2, FrameGeometry DEF Frame
  <2>2. Position(op)' /\ Fresh(op)' /\ Saving(op)' /\ SavedFresh(op)'
    BY <1>2, <1>19, <1>22, <1>23, <1>24, FrameOutput
  <2>3. /\ op.smooth => FullBuffer
        /\ ~FullBuffer => op.scan <= 1
        /\ delivered = <<>>
    BY <1>1, <1>3 DEF OutputInv
  <2>4. f.dummy /\ ~f.crank /\ ~f.colormap
    BY <1>3, <1>18
  <2> QED
    BY <1>2, <1>3, <1>4, <1>18, <1>19, <2>1, <2>2, <2>3, <2>4 DEF OutputInv
<1>26. DeliveredInv'
  BY <1>2, <1>3 DEF DeliveredInv, RowsInOrder, ShowsRequestedScan
<1>27. Types'
  BY <1>1, <1>2, <1>18, <1>19, TypeFacts, TypesStay
<1>28. InputInv'
  BY <1>1, <1>2, <1>3, <1>18, <1>19, InputStays
<1>29. CallsMatch'
  BY <1>1, <1>2, <1>3, FrameGeometry DEF CallsMatch, Frame
<1> QED
  BY <1>25, <1>26, <1>27, <1>28, <1>29 DEF DInv

(* The dummy pass over, its rows are shown.                                 *)
LEMMA PrepassEndsKeeps ==
  ASSUME DInv, PrescanStep, op.dummy, ~(op.line < Height)
  PROVE  DInv'
<1> DEFINE o == [op EXCEPT !.colormap = TRUE, !.dummy = FALSE, !.crank = TRUE,
                           !.start = 0, !.strip = 0, !.line = 0]
<1>1. Types /\ CallsMatch /\ InputInv /\ OutputInv /\ DeliveredInv
  BY DEF DInv
<1>2. /\ call = "prescan" /\ op' = prepare_for_output_pass([op EXCEPT !.colormap = TRUE])
      /\ Frame /\ UNCHANGED <<avail, pos, ask, ip, passes, images, global_state, call, delivered>>
  BY DEF PrescanStep, frame, Frame
<1>3. global_state = "PRESCAN" /\ mode.quant = "two" /\ ~mode.raw /\ delivered = <<>>
  BY <1>1, ModeFacts DEF OutputInv
<1>4. /\ Position(op) /\ Saving(op) /\ SavedFresh(op)
      /\ op.scan >= 1 /\ op.scan <= NumScans
      /\ op.smooth => FullBuffer
      /\ ~FullBuffer => op.scan <= 1
  BY <1>1, <1>3 DEF OutputInv, Active
<1>5. op \in OutputType /\ V \in Nat /\ V >= 1 /\ Height \in Nat /\ op.line \in Nat
  BY <1>1, TypeFacts, Geometry, OutputFields
<1>6. op.line = Height
  <2>1. op.line <= Height
    BY <1>3, <1>4 DEF Position
  <2> QED
    BY <1>5, <2>1
<1>7. op' = o
  <2>1. [op EXCEPT !.colormap = TRUE].dummy = TRUE
    BY <1>5 DEF OutputType
  <2> QED
    BY <1>2, <2>1 DEF prepare_for_output_pass
<1>8. /\ o \in OutputType /\ o.scan = op.scan /\ o.line = 0 /\ o.dummy = FALSE /\ o.crank = TRUE
      /\ o.colormap = TRUE /\ o.smooth = op.smooth /\ o.start = 0 /\ o.strip = 0
      /\ o.saved = op.saved
  <2>1. 0 \in 0..V - 1 /\ 0 \in Nat /\ TRUE \in BOOLEAN /\ FALSE \in BOOLEAN
    BY <1>5
  <2> QED
    BY <1>5, <2>1 DEF OutputType
<1> HIDE DEF o
<1>9. Showing(o)
  <2>1. o.line = o.start + o.strip
    BY <1>8
  <2>2. \E k \in Nat : o.start = V * k
    <3>1. 0 \in Nat /\ o.start = V * 0
      BY <1>5, <1>8
    <3> QED
      BY <3>1
  <2>3. \A r \in 0..Height - 1 : SavedRow(o, r)
    BY <1>4, <1>6, <1>8 DEF Saving, SavedRow
  <2> QED
    BY <2>1, <2>2, <2>3 DEF Showing
<1>10. SavedFresh(o)
  BY <1>4, <1>8 DEF SavedFresh
<1>11. OutputInv'
  <2>1. /\ (FullBuffer' <=> FullBuffer) /\ mode' = mode /\ NumScans' = NumScans
    BY <1>2, FrameGeometry DEF Frame
  <2>2. Showing(op)' /\ SavedFresh(op)'
    BY <1>2, <1>7, <1>9, <1>10, FrameOutput
  <2> QED
    BY <1>2, <1>3, <1>4, <1>7, <1>8, <2>1, <2>2 DEF OutputInv
<1>12. DeliveredInv'
  BY <1>2, <1>3 DEF DeliveredInv, RowsInOrder, ShowsRequestedScan
<1>13. Types'
  BY <1>1, <1>2, <1>7, <1>8, TypeFacts, TypesStay
<1>14. InputInv'
  BY <1>1, <1>2, <1>3, <1>7, <1>8, InputStays
<1>15. CallsMatch'
  BY <1>1, <1>2, <1>3, FrameGeometry DEF CallsMatch, Frame
<1> QED
  BY <1>11, <1>12, <1>13, <1>14, <1>15 DEF DInv

(* The pass is set up: its rows can be asked for.                           *)
LEMMA PrescanEndsKeeps ==
  ASSUME DInv, PrescanStep, ~op.dummy
  PROVE  DInv'
<1>1. Types /\ CallsMatch /\ InputInv /\ OutputInv /\ DeliveredInv
  BY DEF DInv
<1>2. /\ call = "prescan" /\ call' = "none"
      /\ global_state' = (IF mode.raw THEN "RAW_OK" ELSE "SCANNING")
      /\ Frame /\ UNCHANGED <<avail, pos, ask, ip, op, passes, images, delivered>>
  BY DEF PrescanStep, Return, frame, Frame
<1>3. global_state = "PRESCAN" /\ delivered = <<>> /\ op.line = 0
  BY <1>1, <1>2 DEF CallsMatch, OutputInv
<1>4. /\ (FullBuffer' <=> FullBuffer) /\ mode' = mode /\ NumScans' = NumScans
      /\ Height' = Height /\ PastBottom' = PastBottom
  BY <1>2, FrameGeometry DEF Frame
<1>5. OutputInv'
  <2>1. /\ Position(op)' <=> Position(op)
        /\ Fresh(op)' <=> Fresh(op)
        /\ Showing(op)' <=> Showing(op)
        /\ SavedFresh(op)' <=> SavedFresh(op)
    BY <1>2, FrameOutput
  <2>2. global_state' \in {"SCANNING", "RAW_OK"}
    BY <1>2
  <2> QED
    BY <1>1, <1>2, <1>3, <1>4, <2>1, <2>2 DEF OutputInv, Active
<1>6. RowsInOrder'
  <2>1. Height \in Nat /\ PastBottom \in Nat
    BY <1>1, Geometry, PastBottomIsNat
  <2>2. Min({Height, 0}) <= 0 /\ Min({Height, 0}) \in Int
    BY <2>1, LeastOfTwo
  <2>3. 1..Min({Height, 0}) = {}
    BY <2>2
  <2>4. Len(<<>>) = 0 /\ 0 <= Height + PastBottom
    BY <2>1
  <2> QED
    BY <1>2, <1>3, <1>4, <2>3, <2>4 DEF RowsInOrder
<1>7. ShowsRequestedScan'
  BY <1>2, <1>3 DEF ShowsRequestedScan
<1>8. Types'
  BY <1>1, <1>2, TypeFacts, TypesStay
<1>9. InputInv'
  <2>1. global_state \in Later \union {"PRELOAD"} /\ global_state' \in Later
    BY <1>2, <1>3 DEF Later
  <2> QED
    BY <1>1, <1>2, <2>1, InputStays
<1>10. CallsMatch'
  BY <1>1, <1>2, <1>3, FrameGeometry DEF CallsMatch, Frame
<1> QED
  BY <1>5, <1>6, <1>7, <1>8, <1>9, <1>10 DEF DInv, DeliveredInv

-----------------------------------------------------------------------------
(* Every step keeps the invariant ...                                       *)
LEMMA NextKeeps ==
  ASSUME DInv, [Next]_vars
  PROVE  DInv'
<1>1. CASE DataArrives
  BY <1>1, DataArrivesKeeps
<1>2. CASE HeaderStep
  BY <1>2, HeaderStepKeeps
<1>3. CASE Suspend \/ ConsumeStep
  BY <1>3, CallsKeep, ConsumingStepsKeep
<1>4. CASE PreloadStep
  <2>1. CASE image.multiple /\ ~ip.eoi
    BY <1>4, <2>1, ConsumingStepsKeep
  <2>2. CASE ~(image.multiple /\ ~ip.eoi)
    BY <1>4, <2>2, PreloadEndKeeps
  <2> QED
    BY <2>1, <2>2
<1>5. CASE FillMain
  BY <1>5, ConsumingStepsKeep, FillMainKeeps
<1>6. CASE PrescanStep
  BY <1>6, PrepassKeeps, PrepassEndsKeeps, PrescanEndsKeeps
<1>7. CASE ReadStep
  BY <1>7, ReadOnePassKeeps, ReadCrankKeeps
<1>8. CASE RawStep
  BY <1>8, RawStepKeeps
<1>9. CASE FinishOutputStep
  BY <1>9, CallsKeep, ConsumingStepsKeep
<1>10. CASE FinishStep
  <2>1. CASE ~ip.eoi
    BY <1>10, <2>1, ConsumingStepsKeep
  <2>2. CASE ip.eoi
    <3>1. Release /\ call = "finish"
      BY <1>10, <2>2 DEF FinishStep
    <3>2. global_state # "START"
      BY <3>1 DEF DInv, CallsMatch
    <3> QED
      BY <3>1, <3>2, ReleaseKeeps
  <2> QED
    BY <2>1, <2>2
<1>11. CASE jpeg_read_header
  BY <1>11, ReadHeaderKeeps
<1>12. CASE jpeg_start_decompress
  BY <1>12, StartDecompressKeeps
<1>13. CASE jpeg_start_output
  BY <1>13, StartOutputKeeps
<1>14. CASE \/ jpeg_read_scanlines \/ jpeg_read_raw_data \/ jpeg_consume_input
            \/ jpeg_finish_output \/ jpeg_finish_decompress
  BY <1>14, CallsKeep
<1>15. CASE jpeg_abort_decompress
  BY <1>15, ReleaseKeeps DEF jpeg_abort_decompress
<1>16. CASE UNCHANGED vars
  <2>1. /\ Frame /\ UNCHANGED <<avail, pos, ip, op, delivered, passes, images, ask, global_state, call>>
    BY <1>16 DEF vars, Frame
  <2>2. Types /\ CallsMatch /\ InputInv
    BY DEF DInv
  <2>3. CallsMatch'
    BY <2>1, <2>2, FrameGeometry DEF CallsMatch, Frame
  <2>4. ask' \in Nat
    BY <2>1, <2>2, TypeFacts
  <2>5. /\ call' = "none" \/ global_state # "START"
        /\ FullBuffer \/ global_state # "PRELOAD" \/ call' # "consume"
    BY <2>1, <2>2 DEF InputInv
  <2> QED
    BY <2>1, <2>3, <2>4, <2>5, CallChanges
<1> QED
  BY <1>1, <1>2, <1>3, <1>4, <1>5, <1>6, <1>7, <1>8, <1>9, <1>10, <1>11, <1>12, <1>13, <1>14,
     <1>15, <1>16 DEF Next, Step, Drive

(* ... so that it holds throughout.                                         *)
LEMMA DecoderInvariant == Spec => []DInv
<1>1. Init => DInv
  BY InitInv
<1>2. DInv /\ [Next]_vars => DInv'
  BY NextKeeps
<1> QED
  BY <1>1, <1>2, PTL DEF Spec

-----------------------------------------------------------------------------
(* Scans are not read past the last one the file announces.                 *)
LEMMA ScansKnown ==
  ASSUME Types, InputInv
  PROVE  ip.scan \in 0..NumScans
<1>1. /\ avail \in 0..Len(image.units) /\ pos \in 0..avail /\ ip \in InputType
      /\ Len(image.units) \in Nat /\ avail \in Nat /\ NumScans \in Nat
  BY TypeFacts, Geometry, Zenon
<1>2. pos \in 0..Len(image.units)
  BY <1>1
<1>3. ip.scan = ScansRead(pos) /\ ScansRead(pos) <= NumScans
  BY <1>2, ScansReadBound DEF InputInv, ScansRead
<1>4. ip.scan \in Nat
  BY <1>1 DEF InputType
<1> QED
  BY <1>1, <1>3, <1>4

(* The decompressor's state has its types in every state, for every image,  *)
(* mode and bound: no row counter, row group, strip or scan number leaves   *)
(* its range, and the full-image buffer holds rows of the image only.       *)
THEOREM DecompressorTypes == Spec => []TypeOK
<1>1. ASSUME DInv PROVE TypeOK
  <2>1. Types /\ CallsMatch /\ InputInv
    BY <1>1 DEF DInv
  <2>2. /\ mode \in ModesFor(image) /\ pos \in 0..avail /\ avail \in 0..Len(image.units)
        /\ passes \in 0..MaxPasses /\ images \in 0..MaxImages
        /\ ip \in InputType /\ op \in OutputType
    BY <2>1 DEF Types
  <2>3. /\ global_state \in {"START", "INHEADER", "READY", "PRELOAD", "PRESCAN", "SCANNING",
                            "RAW_OK", "BUFIMAGE", "BUFPOST", "STOPPING"}
        /\ call \in {"none", "read_header", "preload", "prescan", "read", "raw", "consume",
                     "finish_output", "finish"}
    BY <2>1 DEF CallsMatch
  <2>4. ip.row \in 0..TotalRows /\ ip.scan \in 0..Len(image.scans)
    BY <2>1, <2>2, ScansKnown DEF InputType, NumScans
  <2>5. /\ op.row \in 0..TotalRows /\ op.group \in 0..M - 1 /\ op.strip \in 0..V - 1
        /\ op.togo \in 0..Height
        /\ op.saved \in [0..V * M * TotalRows - 1 -> Row \union {None}]
    BY <2>2, OutputFields, Zenon
  <2>6. \A r \in DOMAIN op.saved : op.saved[r] \in Row \union {None}
    BY <2>5
  <2> QED
    BY <2>2, <2>3, <2>4, <2>5, <2>6 DEF TypeOK
<1> QED
  BY <1>1, DecoderInvariant, PTL

(* However the source chops the file, however many lines are asked for at   *)
(* once and whatever buffers lie between, scanlines come out once each and  *)
(* in order, and past the image's last line only where the two-pass         *)
(* quantizer's last strip lets them.                                        *)
THEOREM RowsComeInOrder == Spec => []RowsInOrder
<1>1. DInv => RowsInOrder
  BY DEF DInv, DeliveredInv
<1> QED
  BY <1>1, DecoderInvariant, PTL

(* No row handed out is of a scan before the one the application asked for, *)
(* in whatever order scans are read, asked for and given up.                *)
THEOREM RequestedScanIsShown == Spec => []ShowsRequestedScan
<1>1. DInv => ShowsRequestedScan
  BY DEF DInv, DeliveredInv
<1> QED
  BY <1>1, DecoderInvariant, PTL

(* Only the coefficient controller fills the main controller's buffer.      *)
LEMMA OthersDoNotFill ==
  ASSUME DInv, [Next]_vars, ~(FillMain /\ ~NeedInput), op'.full
  PROVE  op.full
<1>1. Types /\ op \in OutputType
  BY TypeFacts DEF DInv
<1>2. ASSUME NEW o \in OutputType, op' = prepare_for_output_pass(o)
      PROVE  o.full
  BY <1>2 DEF prepare_for_output_pass, OutputType
<1>3. CASE op' = op
  BY <1>3
<1>4. CASE consume_markers \/ consume_data
  <2>1. op' = op \/ op' = [op EXCEPT !.scan = ip.scan]
    BY <1>4 DEF consume_markers, consume_data
  <2> QED
    BY <1>1, <2>1 DEF OutputType
<1>5. CASE PreloadStep /\ ~(image.multiple /\ ~ip.eoi)
  <2>1. op' = prepare_for_output_pass([op EXCEPT !.scan = ip.scan])
    BY <1>5 DEF PreloadStep
  <2>2. ip.scan \in Nat
    BY <1>1, TypeFacts DEF InputType
  <2>3. [op EXCEPT !.scan = ip.scan] \in OutputType /\ [op EXCEPT !.scan = ip.scan].full = op.full
    BY <1>1, <2>2 DEF OutputType
  <2> QED
    BY <1>2, <2>1, <2>3
<1>6. CASE jpeg_start_output
  <2>1. PICK n \in 1..Len(image.scans) :
          LET o == [op EXCEPT !.scan = IF ip.eoi /\ n > ip.scan THEN ip.scan ELSE n]
          IN  op' = o \/ op' = prepare_for_output_pass(o)
    BY <1>6 DEF jpeg_start_output
  <2> DEFINE m == IF ip.eoi /\ n > ip.scan THEN ip.scan ELSE n
  <2>2. ip.scan \in Nat /\ n \in Nat
    BY <1>1, TypeFacts, Geometry DEF InputType, NumScans
  <2>3. m \in Nat
    BY <2>2
  <2>4. op' = [op EXCEPT !.scan = m] \/ op' = prepare_for_output_pass([op EXCEPT !.scan = m])
    BY <2>1
  <2> HIDE DEF m
  <2>5. [op EXCEPT !.scan = m] \in OutputType /\ [op EXCEPT !.scan = m].full = op.full
    BY <1>1, <2>3 DEF OutputType
  <2> QED
    BY <1>2, <2>4, <2>5
<1>7. CASE PrescanStep
  <2>1. \/ op.full \/ op' = op
        \/ op' = prepare_for_output_pass([op EXCEPT !.colormap = TRUE])
    BY <1>7 DEF PrescanStep
  <2>2. [op EXCEPT !.colormap = TRUE] \in OutputType /\ [op EXCEPT !.colormap = TRUE].full = op.full
    BY <1>1 DEF OutputType
  <2> QED
    BY <1>2, <2>1, <2>2
<1>8. CASE ReadStep
  <2>1. CASE op.crank
    <3> DEFINE p == post_process_2pass(op, ask)
    <3>1. op' = [p.o EXCEPT !.line = @ + Len(p.rows)]
      BY <1>8, <2>1 DEF ReadStep, post_process
    <3>2. \E a, b : p.o = [op EXCEPT !.strip = a, !.start = b]
      <4> DEFINE n == Min({V - op.strip, ask, Height - op.start})
      <4>1. p.o = [op EXCEPT !.strip = IF op.strip + n >= V THEN 0 ELSE @ + n,
                             !.start = IF op.strip + n >= V THEN @ + V ELSE @]
        BY DEF post_process_2pass
      <4> HIDE DEF n, p
      <4>2. p.o = [op EXCEPT !.strip = IF op.strip + n >= V THEN 0 ELSE op.strip + n,
                             !.start = IF op.strip + n >= V THEN op.start + V ELSE op.start]
        BY <1>1, <4>1 DEF OutputType
      <4> QED
        BY <4>2
    <3> HIDE DEF p
    <3>3. op'.full = p.o.full /\ p.o.full = op.full
      BY <1>1, <3>1, <3>2 DEF OutputType
    <3> QED
      BY <3>3
  <2>2. CASE ~op.crank
    BY <1>8, <2>2 DEF ReadStep
  <2> QED
    BY <2>1, <2>2
<1>9. CASE RawStep
  BY <1>9 DEF RawStep
<1>10. CASE Release
  BY <1>1, <1>10 DEF Release, NoOutput
<1>11. \/ op' = op \/ consume_markers \/ consume_data
       \/ (PreloadStep /\ ~(image.multiple /\ ~ip.eoi))
       \/ jpeg_start_output \/ PrescanStep \/ ReadStep \/ RawStep \/ Release
  BY DEF Next, Step, Drive, DataArrives, Suspend, HeaderStep, ConsumeStep, PreloadStep, FillMain,
         FinishOutputStep, FinishStep, Consume, jpeg_read_header, jpeg_start_decompress,
         jpeg_read_scanlines, jpeg_read_raw_data, jpeg_finish_output, jpeg_finish_decompress,
         jpeg_consume_input, jpeg_abort_decompress, vars
<1> QED
  BY <1>3, <1>4, <1>5, <1>6, <1>7, <1>8, <1>9, <1>10, <1>11

(* An iMCU row is smoothed only when its lower neighbour has been decoded,  *)
(* whichever scan is shown and however far the input has come.              *)
THEOREM NeighboursAreDecoded == Spec => SmoothingSeesNeighbours
<1>1. ASSUME DInv, [Next]_vars, op.smooth, ~op.full, op'.full, op.row + 1 < TotalRows
      PROVE  ip.got[op.row + 1] # 0
  <2>1. FillMain /\ ~NeedInput
    BY <1>1, OthersDoNotFill
  <2>2. NeedsRow
    BY <2>1 DEF FillMain
  <2> QED
    BY <1>1, <2>1, <2>2, RowIsThere
<1>2. DInv /\ [Next]_vars
        => [op.smooth /\ ~op.full /\ op'.full /\ op.row + 1 < TotalRows
              => ip.got[op.row + 1] # 0]_vars
  BY <1>1
<1> QED
  BY <1>2, DecoderInvariant, PTL DEF Spec, SmoothingSeesNeighbours


-----------------------------------------------------------------------------
(* Every frame initial_setup accepts is laid out without a gap: its blocks  *)
(* are those of its MCUs, once each, and its components, at the sizes the   *)
(* IDCTs give them, reach the output's last row and column.                 *)
Dims == {"h", "v"}
Comps(f) == DOMAIN f.comps
Powers == {1, 2, 4, 8, 16}

-----------------------------------------------------------------------------
(* Arithmetic: products compared, quotients rounded up, numbers split.      *)
LEMMA Cancel ==
  ASSUME NEW u \in Nat, u > 0, NEW a \in Int, NEW b \in Int, u * a < u * b
  PROVE  a < b
<1>1. SUFFICES ASSUME a >= b PROVE FALSE
  OBVIOUS
<1>2. PICK e \in Nat : a = b + e
  <2>1. a - b \in Nat /\ a = b + (a - b)
    BY <1>1
  <2> QED
    BY <2>1
<1>3. u * a = u * b + u * e /\ u * e \in Nat /\ u * b \in Int
  BY <1>2
<1> QED
  BY <1>3

LEMMA RoundUp ==
  ASSUME NEW a \in Nat, NEW b \in Nat, b > 0
  PROVE  /\ jdiv_round_up(a, b) \in Nat
         /\ b * jdiv_round_up(a, b) >= a /\ b * jdiv_round_up(a, b) < a + b
<1> DEFINE x == a + b - 1
           q == x \div b
           r == x % b
<1>1. x \in Nat
  OBVIOUS
<1> HIDE DEF x
<1>2. q \in Int /\ r \in 0..b - 1 /\ x = b * q + r
  BY <1>1
<1> HIDE DEF q, r
<1>3. b * q \in Int /\ b * q >= a /\ b * q < a + b
  BY <1>2 DEF x
<1>4. q >= 0
  <2>1. b * (-1) < b * q
    BY <1>2, <1>3
  <2>2. -1 < q
    BY <1>2, <2>1, Cancel
  <2> QED
    BY <1>2, <2>2
<1>5. jdiv_round_up(a, b) = q
  BY DEF jdiv_round_up, q, x
<1> QED
  BY <1>2, <1>3, <1>4, <1>5

(* n units of k blocks, the last of which may not be full: blocks and       *)
(* places within units correspond.                                          *)
Last(blocks, k) == IF blocks % k = 0 THEN k ELSE blocks % k
InUnit(i, y, n, k, blocks) == y \in 0..k - 1 /\ (i < n - 1 \/ y < Last(blocks, k))
LEMMA UnitsOfBlocks ==
  ASSUME NEW n \in Nat, n >= 1, NEW k \in 1..4, NEW blocks \in Nat,
         (n - 1) * k < blocks, blocks <= n * k
  PROVE  /\ Last(blocks, k) \in 1..k
         /\ \A r \in 0..blocks - 1 :
              \E i \in 0..n - 1, y \in 0..k - 1 : InUnit(i, y, n, k, blocks) /\ r = i * k + y
         /\ \A i \in 0..n - 1 : \A y \in 0..k - 1 :
              InUnit(i, y, n, k, blocks) => i * k + y \in 0..blocks - 1
         /\ \A i, j \in Nat : \A y, z \in 0..k - 1 : i * k + y = j * k + z => i = j /\ y = z
<1> DEFINE last == Last(blocks, k)
<1>1. last = blocks - (n - 1) * k
  <2>1. CASE k = 1
    BY <2>1 DEF Last
  <2>2. CASE k = 2
    BY <2>2 DEF Last
  <2>3. CASE k = 3
    BY <2>3 DEF Last
  <2>4. CASE k = 4
    BY <2>4 DEF Last
  <2> QED
    BY <2>1, <2>2, <2>3, <2>4
<1>2. last \in 1..k
  BY <1>1
<1> HIDE DEF last
<1>3. ASSUME NEW r \in 0..blocks - 1
      PROVE  \E i \in 0..n - 1, y \in 0..k - 1 : InUnit(i, y, n, k, blocks) /\ r = i * k + y
  <2> DEFINE i == r \div k
             y == r % k
  <2>1. /\ i \in Nat /\ y \in 0..k - 1 /\ r = i * k + y
        /\ i < n /\ (i = n - 1 => y < last)
    <3>1. CASE k = 1
      BY <1>1, <3>1
    <3>2. CASE k = 2
      BY <1>1, <3>2
    <3>3. CASE k = 3
      BY <1>1, <3>3
    <3>4. CASE k = 4
      BY <1>1, <3>4
    <3> QED
      BY <3>1, <3>2, <3>3, <3>4
  <2> HIDE DEF i, y
  <2>2. i \in 0..n - 1 /\ (i < n - 1 \/ i = n - 1)
    BY <2>1
  <2> QED
    BY <2>1, <2>2 DEF InUnit, last
<1>4. ASSUME NEW i \in 0..n - 1, NEW y \in 0..k - 1, InUnit(i, y, n, k, blocks)
      PROVE  i * k + y \in 0..blocks - 1
  <2>1. i < n - 1 \/ y < last
    BY <1>4 DEF InUnit, last
  <2>2. CASE k = 1
    BY <1>1, <1>2, <2>1, <2>2
  <2>3. CASE k = 2
    BY <1>1, <1>2, <2>1, <2>3
  <2>4. CASE k = 3
    BY <1>1, <1>2, <2>1, <2>4
  <2>5. CASE k = 4
    BY <1>1, <1>2, <2>1, <2>5
  <2> QED
    BY <2>2, <2>3, <2>4, <2>5
<1>5. ASSUME NEW i \in Nat, NEW j \in Nat, NEW y \in 0..k - 1, NEW z \in 0..k - 1,
             i * k + y = j * k + z
      PROVE  i = j /\ y = z
  <2>1. CASE k = 1
    BY <1>5, <2>1
  <2>2. CASE k = 2
    BY <1>5, <2>2
  <2>3. CASE k = 3
    BY <1>5, <2>3
  <2>4. CASE k = 4
    BY <1>5, <2>4
  <2> QED
    BY <2>1, <2>2, <2>3, <2>4
<1> QED
  BY <1>2, <1>3, <1>4, <1>5 DEF last

-----------------------------------------------------------------------------
(* A frame's numbers.                                                       *)
LEMMA FrameNumbers ==
  ASSUME NEW f, Accepted(f), NEW d \in Dims
  PROVE  /\ f.size[d] \in Nat /\ f.size[d] >= 1 /\ f.block \in 1..16
         /\ \A c \in Comps(f) : f.comps[c][d] \in 1..4 /\ f.comps[c][d] <= max_samp_factor(f, d)
         /\ max_samp_factor(f, d) \in 1..4
<1>1. f.size[d] \in Nat /\ f.size[d] >= 1 /\ f.block \in 1..16
  BY DEF Accepted, Dims
<1>2. 1 \in Comps(f) /\ \A c \in Comps(f) : f.comps[c] \in [h : 1..4, v : 1..4]
  <2> DEFINE cs == f.comps
             E == [h : 1..4, v : 1..4]
  <2>1. cs \in Seq(E) /\ cs # <<>>
    BY DEF Accepted
  <2> HIDE DEF cs, E
  <2>2. Len(cs) \in Nat /\ DOMAIN cs = 1..Len(cs) /\ cs \in [1..Len(cs) -> E]
    BY <2>1, LenProperties, Zenon
  <2>3. Len(cs) # 0
    BY <2>1, EmptySeq, Zenon
  <2>4. 1 \in 1..Len(cs)
    BY <2>2, <2>3
  <2>5. \A c \in DOMAIN cs : cs[c] \in E
    BY <2>2, Zenon
  <2> QED
    BY <2>2, <2>4, <2>5 DEF cs, Comps, E
<1>3. ASSUME NEW c \in Comps(f) PROVE f.comps[c][d] \in 1..4
  <2>1. f.comps[c] \in [h : 1..4, v : 1..4]
    BY <1>2 DEF Comps
  <2> QED
    BY <2>1 DEF Dims
<1> DEFINE F == {f.comps[c][d] : c \in Comps(f)}
<1>4. \E x \in F : \A y \in F : x >= y
  <2>1. F \subseteq 1..4 /\ F # {}
    BY <1>2, <1>3
  <2> HIDE DEF F
  <2>2. CASE 4 \in F
    BY <2>1, <2>2
  <2>3. CASE 4 \notin F /\ 3 \in F
    BY <2>1, <2>3
  <2>4. CASE 4 \notin F /\ 3 \notin F /\ 2 \in F
    BY <2>1, <2>4
  <2>5. CASE 4 \notin F /\ 3 \notin F /\ 2 \notin F
    <3>1. \A y \in F : y = 1
      BY <2>1, <2>5
    <3>2. PICK x \in F : TRUE
      BY <2>1, Zenon
    <3>3. \A y \in F : x >= y
      BY <3>1, <3>2
    <3> QED
      BY <3>2, <3>3
  <2> QED
    BY <2>2, <2>3, <2>4, <2>5, Zenon
<1>5. max_samp_factor(f, d) \in F /\ \A y \in F : max_samp_factor(f, d) >= y
  BY <1>4 DEF max_samp_factor, Max, Comps
<1>6. max_samp_factor(f, d) \in 1..4
  BY <1>3, <1>5
<1>7. \A c \in Comps(f) : f.comps[c][d] <= max_samp_factor(f, d)
  BY <1>3, <1>5, <1>6
<1> QED
  BY <1>1, <1>3, <1>6, <1>7

(* The units (iMCU rows, or columns of MCUs) of a frame, and the blocks of  *)
(* a component in them.                                                     *)
units(f, d) == jdiv_round_up(f.size[d], max_samp_factor(f, d) * f.block)
LEMMA BlocksInUnits ==
  ASSUME NEW f, Accepted(f), NEW d \in Dims, NEW c \in Comps(f)
  PROVE  LET n == units(f, d)
             k == f.comps[c][d]
             b == size_in_blocks(f, c, d)
         IN n \in Nat /\ n >= 1 /\ k \in 1..4 /\ b \in Nat /\ (n - 1) * k < b /\ b <= n * k
<1> DEFINE n == units(f, d)
           k == f.comps[c][d]
           b == size_in_blocks(f, c, d)
           s == f.size[d]
           u == max_samp_factor(f, d) * f.block
<1>1. s \in Nat /\ s >= 1 /\ k \in 1..4 /\ u \in Nat /\ u > 0
  <2>1. s \in Nat /\ s >= 1 /\ k \in 1..4 /\ f.block \in 1..16 /\ max_samp_factor(f, d) \in 1..4
    BY FrameNumbers
  <2>2. \A a \in 1..4, e \in 1..16 : a * e \in Nat /\ a * e > 0
    OBVIOUS
  <2> QED
    BY <2>1, <2>2
<1>2. n = jdiv_round_up(s, u) /\ b = jdiv_round_up(s * k, u)
  BY DEF units, size_in_blocks
<1> HIDE DEF n, k, b, s, u
<1>3. s * k \in Nat
  BY <1>1
<1>4. n \in Nat /\ u * n >= s /\ u * n < s + u
  BY <1>1, <1>2, RoundUp
<1>5. b \in Nat /\ u * b >= s * k /\ u * b < s * k + u
  BY <1>1, <1>2, <1>3, RoundUp
<1>6. n >= 1
  <2>1. u * 0 < u * n
    BY <1>1, <1>4
  <2> QED
    BY <1>1, <1>4, <2>1, Cancel
<1>7. (n - 1) * k < b
  <2>1. u * ((n - 1) * k) = k * (u * n) - k * u /\ k * (u * n) < k * s + k * u
    <3>1. u * ((n - 1) * k) = k * (u * n) - k * u
      BY <1>1, <1>4
    <3>2. u * n \in Nat
      BY <1>1, <1>4
    <3> DEFINE p == u * n
    <3>3. p \in Nat /\ p < s + u
      BY <1>4, <3>2
    <3> HIDE DEF p
    <3>4. k * p < k * s + k * u
      <4>1. CASE k = 1
        BY <1>1, <3>3, <4>1
      <4>2. CASE k = 2
        BY <1>1, <3>3, <4>2
      <4>3. CASE k = 3
        BY <1>1, <3>3, <4>3
      <4>4. CASE k = 4
        BY <1>1, <3>3, <4>4
      <4> QED
        BY <1>1, <4>1, <4>2, <4>3, <4>4
    <3> QED
      BY <3>1, <3>4 DEF p
  <2>2. u * ((n - 1) * k) < u * b
    <3>1. k * s = s * k /\ k * s \in Int /\ k * u \in Int /\ k * (u * n) \in Int
      BY <1>1, <1>4
    <3> DEFINE p == k * (u * n)
               q == k * u
               r == s * k
               t == u * b
    <3>2. p \in Int /\ q \in Int /\ r \in Int /\ t \in Int /\ p < r + q /\ t >= r
      BY <1>1, <1>5, <2>1, <3>1
    <3>3. u * ((n - 1) * k) = p - q
      BY <2>1
    <3> HIDE DEF p, q, r, t
    <3>4. p - q < t
      BY <3>2
    <3> QED
      BY <3>3, <3>4 DEF t
  <2> QED
    BY <1>1, <1>4, <1>5, <2>2, Cancel
<1>8. b <= n * k
  <2>1. u * b < u * (n * k + 1)
    <3> DEFINE p == u * n
    <3>1. u * (n * k + 1) = k * p + u
      BY <1>1, <1>4
    <3>2. p \in Nat /\ p >= s
      BY <1>1, <1>4
    <3> HIDE DEF p
    <3>3. k * p >= s * k
      <4>1. CASE k = 1
        BY <1>1, <3>2, <4>1
      <4>2. CASE k = 2
        BY <1>1, <3>2, <4>2
      <4>3. CASE k = 3
        BY <1>1, <3>2, <4>3
      <4>4. CASE k = 4
        BY <1>1, <3>2, <4>4
      <4> QED
        BY <1>1, <4>1, <4>2, <4>3, <4>4
    <3> DEFINE q == k * p
               r == s * k
               t == u * b
    <3>4. q \in Int /\ r \in Int /\ t \in Int /\ q >= r /\ t < r + u /\ u \in Int
      BY <1>1, <1>3, <1>5, <3>2, <3>3
    <3> HIDE DEF q, r, t
    <3>5. t < q + u
      BY <3>4
    <3> QED
      BY <3>1, <3>5 DEF q, t
  <2>2. b < n * k + 1
    BY <1>1, <1>4, <1>5, <2>1, Cancel
  <2> QED
    BY <1>1, <1>4, <1>5, <2>2
<1> QED
  BY <1>1, <1>4, <1>5, <1>6, <1>7, <1>8 DEF n, k, b

-----------------------------------------------------------------------------
(* A scan of one component: its MCUs are the component's blocks.            *)
LEMMA BlocksOutput ==
  ASSUME NEW f, NEW S, NEW c, NEW i, NEW y, NEW x, NEW g,
         NEW n, n = total_iMCU_rows(f), NEW k, k = f.comps[c].v, NEW last, last = last_row_height(f, c),
         NEW p, p = MCU_size(f, S, c, "h"), NEW q, q = MCU_size(f, S, c, "v"),
         NEW w, w = IF x < MCUs_per_row(f, S) - 1 THEN p ELSE last_col_width(f, S, c)
  PROVE  g \in OutputBlocks(f, S, c, i, y, x) <=>
           \E j \in 0..q - 1, l \in 0..w - 1 :
             (i < n - 1 \/ y + j < last) /\ g = [row |-> i * k + y + j, col |-> x * p + l]
BY DEF OutputBlocks

LEMMA SingleScan ==
  ASSUME NEW f, NEW c
  PROVE  /\ \A d : MCU_size(f, {c}, c, d) = 1
         /\ MCUs_per_row(f, {c}) = size_in_blocks(f, c, "h")
         /\ last_col_width(f, {c}, c) = IF size_in_blocks(f, c, "h") % 1 = 0 THEN 1
                                        ELSE size_in_blocks(f, c, "h") % 1
         /\ last_row_height(f, c) = Last(size_in_blocks(f, c, "v"), f.comps[c].v)
         /\ \A i : MCU_rows_per_iMCU_row(f, {c}, i) =
                     IF i < total_iMCU_rows(f) - 1 THEN f.comps[c].v
                     ELSE Last(size_in_blocks(f, c, "v"), f.comps[c].v)
<1>1. Cardinality({c}) = 1 /\ ~(Cardinality({c}) > 1)
  BY FS_Singleton
<1>2. (CHOOSE k \in {c} : TRUE) = c
  OBVIOUS
<1>3. last_row_height(f, c) = Last(size_in_blocks(f, c, "v"), f.comps[c].v)
  BY Zenon DEF last_row_height, Last
<1>4. \A d : MCU_size(f, {c}, c, d) = 1
  BY <1>1, Zenon DEF MCU_size
<1>5. MCUs_per_row(f, {c}) = size_in_blocks(f, c, "h")
  BY <1>1, <1>2, Zenon DEF MCUs_per_row
<1>6. last_col_width(f, {c}, c) = IF size_in_blocks(f, c, "h") % 1 = 0 THEN 1
                                  ELSE size_in_blocks(f, c, "h") % 1
  BY <1>4 DEF last_col_width
<1>7. \A i : MCU_rows_per_iMCU_row(f, {c}, i) =
              IF i < total_iMCU_rows(f) - 1 THEN f.comps[c].v ELSE last_row_height(f, c)
  BY <1>1, <1>2 DEF MCU_rows_per_iMCU_row
<1> QED
  BY <1>3, <1>4, <1>5, <1>6, <1>7, Zenon

(* ... each of them output once.                                            *)
LEMMA ComponentOnce ==
  ASSUME NEW f, Accepted(f), NEW c \in Comps(f)
  PROVE  EveryBlockOnce(f, {c})
<1> DEFINE nv == total_iMCU_rows(f)
           kv == f.comps[c].v
           bv == size_in_blocks(f, c, "v")
           bh == size_in_blocks(f, c, "h")
           rows(i) == MCU_rows_per_iMCU_row(f, {c}, i)
           MCUs == {m \in (0..nv - 1) \X (0..3) \X (0..MCUs_per_row(f, {c}) - 1) : m[2] < rows(m[1])}
           Out(m) == OutputBlocks(f, {c}, c, m[1], m[2], m[3])
           Grid == [row : 0..bv - 1, col : 0..bh - 1]
<1>1. /\ nv \in Nat /\ nv >= 1 /\ kv \in 1..4 /\ bv \in Nat
      /\ (nv - 1) * kv < bv /\ bv <= nv * kv /\ bh \in Nat
  <2>1. "v" \in Dims /\ "h" \in Dims
    BY DEF Dims
  <2>2. nv = units(f, "v") /\ kv = f.comps[c]["v"]
    BY DEF total_iMCU_rows, units
  <2> QED
    BY <2>1, <2>2, BlocksInUnits
<1>2. /\ MCUs_per_row(f, {c}) = bh
      /\ \A d : MCU_size(f, {c}, c, d) = 1
      /\ last_col_width(f, {c}, c) = 1
      /\ last_row_height(f, c) = Last(bv, kv)
      /\ \A i : rows(i) = IF i < nv - 1 THEN kv ELSE Last(bv, kv)
  <2>1. bh % 1 = 0
    BY <1>1
  <2> QED
    BY <2>1, SingleScan
<1> HIDE DEF nv, kv, bv, bh, rows
<1>3. /\ Last(bv, kv) \in 1..kv
      /\ \A r \in 0..bv - 1 : \E i \in 0..nv - 1, y \in 0..kv - 1 : InUnit(i, y, nv, kv, bv) /\ r = i * kv + y
      /\ \A i \in 0..nv - 1 : \A y \in 0..kv - 1 : InUnit(i, y, nv, kv, bv) => i * kv + y \in 0..bv - 1
      /\ \A i, j \in Nat : \A y, z \in 0..kv - 1 : i * kv + y = j * kv + z => i = j /\ y = z
  BY <1>1, UnitsOfBlocks
<1>4. ASSUME NEW i \in 0..nv - 1, NEW y \in Nat
      PROVE  y < rows(i) <=> y \in 0..kv - 1 /\ InUnit(i, y, nv, kv, bv)
  <2>1. Last(bv, kv) \in 1..kv /\ rows(i) = IF i < nv - 1 THEN kv ELSE Last(bv, kv)
    BY <1>2, <1>3, Zenon
  <2> QED
    BY <1>1, <2>1 DEF InUnit
<1>5. ASSUME NEW m \in MCUs
      PROVE  /\ m[1] \in 0..nv - 1 /\ m[2] \in 0..kv - 1 /\ m[3] \in 0..bh - 1
             /\ m = <<m[1], m[2], m[3]>> /\ InUnit(m[1], m[2], nv, kv, bv)
  <2>1. /\ m \in (0..nv - 1) \X (0..3) \X (0..bh - 1) /\ m[2] < rows(m[1])
    BY <1>2
  <2>2. m[1] \in 0..nv - 1 /\ m[2] \in 0..3 /\ m[3] \in 0..bh - 1 /\ m = <<m[1], m[2], m[3]>>
    BY <2>1
  <2>3. m[2] \in Nat
    BY <2>2
  <2> QED
    BY <1>4, <2>1, <2>2, <2>3, Zenon
<1>6. ASSUME NEW i \in 0..nv - 1, NEW y \in 0..kv - 1, NEW x \in 0..bh - 1, InUnit(i, y, nv, kv, bv)
      PROVE  <<i, y, x>> \in MCUs
  <2>1. y < rows(i) /\ y \in 0..3
    <3>1. y \in Nat /\ y \in 0..3
      BY <1>1
    <3> QED
      BY <1>4, <1>6, <3>1, Zenon
  <2> QED
    BY <1>2, <2>1
<1>7. ASSUME NEW m \in MCUs, NEW g
      PROVE  g \in Out(m) <=> g = [row |-> m[1] * kv + m[2], col |-> m[3]]
  <2> DEFINE i == m[1]
             y == m[2]
             x == m[3]
  <2>1. /\ i \in 0..nv - 1 /\ y \in 0..kv - 1 /\ x \in 0..bh - 1 /\ InUnit(i, y, nv, kv, bv)
    BY <1>5, Zenon
  <2> HIDE DEF i, y, x
  <2>2. g \in OutputBlocks(f, {c}, c, i, y, x) <=>
          \E j \in 0..1 - 1, k \in 0..1 - 1 :
            (i < nv - 1 \/ y + j < Last(bv, kv)) /\ g = [row |-> i * kv + y + j, col |-> x * 1 + k]
    <3>1. /\ 1 = MCU_size(f, {c}, c, "v") /\ 1 = MCU_size(f, {c}, c, "h")
          /\ 1 = IF x < MCUs_per_row(f, {c}) - 1 THEN 1 ELSE last_col_width(f, {c}, c)
      BY <1>2
    <3>2. nv = total_iMCU_rows(f) /\ kv = f.comps[c].v /\ Last(bv, kv) = last_row_height(f, c)
      BY <1>2 DEF nv, kv
    <3> QED
      BY <3>1, <3>2, BlocksOutput
  <2>3. i * kv \in Int /\ i \in Int /\ y \in Int /\ x \in Int
    BY <1>1, <2>1
  <2>4. i < nv - 1 \/ y < Last(bv, kv)
    BY <2>1, Zenon DEF InUnit
  <2>5. 0..1 - 1 = {0}
    OBVIOUS
  <2>6. i * kv + y + 0 = i * kv + y /\ x * 1 + 0 = x /\ y + 0 = y
    BY <2>3
  <2>7. g \in OutputBlocks(f, {c}, c, i, y, x) <=> g = [row |-> i * kv + y, col |-> x]
    BY <2>2, <2>4, <2>5, <2>6
  <2> QED
    BY <2>7 DEF i, y, x
<1> HIDE DEF MCUs, Out
<1>8. ASSUME NEW m \in MCUs PROVE Out(m) \subseteq Grid
  <2>1. m[1] * kv + m[2] \in 0..bv - 1 /\ m[3] \in 0..bh - 1
    BY <1>3, <1>5, Zenon
  <2> QED
    BY <1>7, <2>1
<1>9. ASSUME NEW g \in Grid PROVE \E m \in MCUs : g \in Out(m)
  <2>1. g.row \in 0..bv - 1 /\ g.col \in 0..bh - 1 /\ g = [row |-> g.row, col |-> g.col]
    OBVIOUS
  <2>2. PICK i \in 0..nv - 1, y \in 0..kv - 1 : InUnit(i, y, nv, kv, bv) /\ g.row = i * kv + y
    BY <1>3, <2>1, Zenon
  <2> DEFINE m == <<i, y, g.col>>
  <2>3. m \in MCUs
    BY <1>6, <2>1, <2>2, Zenon
  <2>4. m[1] = i /\ m[2] = y /\ m[3] = g.col
    OBVIOUS
  <2> HIDE DEF m
  <2>5. g = [row |-> m[1] * kv + m[2], col |-> m[3]]
    BY <2>1, <2>2, <2>4
  <2> QED
    BY <1>7, <2>3, <2>5, Zenon
<1>10. ASSUME NEW m \in MCUs, NEW k \in MCUs, Out(m) \cap Out(k) # {} PROVE m = k
  <2>1. PICK g : g \in Out(m) /\ g \in Out(k)
    BY <1>10, Zenon
  <2>2. /\ g = [row |-> m[1] * kv + m[2], col |-> m[3]]
        /\ g = [row |-> k[1] * kv + k[2], col |-> k[3]]
    BY <1>7, <2>1, Zenon
  <2>3. m[1] * kv + m[2] = k[1] * kv + k[2] /\ m[3] = k[3]
    BY <2>2
  <2>4. m[1] \in Nat /\ k[1] \in Nat /\ m[2] \in 0..kv - 1 /\ k[2] \in 0..kv - 1
    BY <1>5
  <2>5. m[1] = k[1] /\ m[2] = k[2]
    <3>1. \A i, j \in Nat : \A y, z \in 0..kv - 1 : i * kv + y = j * kv + z => i = j /\ y = z
      BY <1>3, Zenon
    <3> QED
      BY <2>3, <2>4, <3>1
  <2> QED
    BY <1>5, <2>3, <2>5, Zenon
<1>11. UNION {Out(m) : m \in MCUs} = Grid
  BY <1>8, <1>9
<1> QED
  BY <1>10, <1>11, Zenon DEF EveryBlockOnce, MCUs, Out, nv, kv, bv, bh, rows

(* A scan of all components: its MCUs are the frame's units.                *)
LEMMA FullScan ==
  ASSUME NEW f, NEW S, NEW c, Cardinality(S) \in Nat, Cardinality(S) > 1
  PROVE  /\ \A d : MCU_size(f, S, c, d) = f.comps[c][d]
         /\ MCUs_per_row(f, S) = units(f, "h")
         /\ last_col_width(f, S, c) = Last(size_in_blocks(f, c, "h"), f.comps[c]["h"])
         /\ last_row_height(f, c) = Last(size_in_blocks(f, c, "v"), f.comps[c]["v"])
         /\ \A i : MCU_rows_per_iMCU_row(f, S, i) = 1
<1>1. Cardinality(S) # 1
  OBVIOUS
<1>2. last_row_height(f, c) = Last(size_in_blocks(f, c, "v"), f.comps[c]["v"])
  BY DEF last_row_height, Last
<1>3. \A d : MCU_size(f, S, c, d) = f.comps[c][d]
  BY <1>1, Zenon DEF MCU_size
<1>4. MCUs_per_row(f, S) = units(f, "h")
  BY <1>1, Zenon DEF MCUs_per_row, units
<1>5. last_col_width(f, S, c) = Last(size_in_blocks(f, c, "h"), f.comps[c]["h"])
  BY <1>3 DEF last_col_width, Last
<1>6. \A i : MCU_rows_per_iMCU_row(f, S, i) = 1
  BY DEF MCU_rows_per_iMCU_row
<1> QED
  BY <1>2, <1>3, <1>4, <1>5, <1>6, Zenon

LEMMA InterleavedOnce ==
  ASSUME NEW f, Accepted(f), NEW S, S \subseteq Comps(f), Cardinality(S) \in Nat, Cardinality(S) > 1,
         NEW c \in S
  PROVE  LET MCUs == {m \in (0..total_iMCU_rows(f) - 1) \X (0..3) \X (0..MCUs_per_row(f, S) - 1) :
                        m[2] < MCU_rows_per_iMCU_row(f, S, m[1])}
             Out(m) == OutputBlocks(f, S, c, m[1], m[2], m[3])
             Grid == [row : 0..size_in_blocks(f, c, "v") - 1, col : 0..size_in_blocks(f, c, "h") - 1]
         IN  /\ UNION {Out(m) : m \in MCUs} = Grid
             /\ \A m, k \in MCUs : Out(m) \cap Out(k) # {} => m = k
<1> DEFINE nv == total_iMCU_rows(f)
           nh == MCUs_per_row(f, S)
           kv == f.comps[c]["v"]
           kh == f.comps[c]["h"]
           bv == size_in_blocks(f, c, "v")
           bh == size_in_blocks(f, c, "h")
           rows(i) == MCU_rows_per_iMCU_row(f, S, i)
           MCUs == {m \in (0..nv - 1) \X (0..3) \X (0..nh - 1) : m[2] < rows(m[1])}
           Out(m) == OutputBlocks(f, S, c, m[1], m[2], m[3])
           Grid == [row : 0..bv - 1, col : 0..bh - 1]
<1>1. /\ nv \in Nat /\ nv >= 1 /\ kv \in 1..4 /\ bv \in Nat /\ (nv - 1) * kv < bv /\ bv <= nv * kv
      /\ nh \in Nat /\ nh >= 1 /\ kh \in 1..4 /\ bh \in Nat /\ (nh - 1) * kh < bh /\ bh <= nh * kh
  <2>1. "v" \in Dims /\ "h" \in Dims /\ c \in Comps(f)
    BY DEF Dims
  <2>2. nv = units(f, "v") /\ nh = units(f, "h")
    BY FullScan, Zenon DEF total_iMCU_rows, units
  <2> QED
    BY <2>1, <2>2, BlocksInUnits
<1>2. /\ kh = MCU_size(f, S, c, "h") /\ kv = MCU_size(f, S, c, "v")
      /\ Last(bh, kh) = last_col_width(f, S, c) /\ Last(bv, kv) = last_row_height(f, c)
      /\ \A i : rows(i) = 1
  BY FullScan
<1>3. kv = f.comps[c].v /\ nv = total_iMCU_rows(f)
  OBVIOUS
<1> HIDE DEF nv, nh, kv, kh, bv, bh, rows
<1>4. /\ Last(bv, kv) \in 1..kv
      /\ \A r \in 0..bv - 1 : \E i \in 0..nv - 1, y \in 0..kv - 1 : InUnit(i, y, nv, kv, bv) /\ r = i * kv + y
      /\ \A i \in 0..nv - 1 : \A y \in 0..kv - 1 : InUnit(i, y, nv, kv, bv) => i * kv + y \in 0..bv - 1
      /\ \A i, j \in Nat : \A y, z \in 0..kv - 1 : i * kv + y = j * kv + z => i = j /\ y = z
  BY <1>1, UnitsOfBlocks
<1>5. /\ Last(bh, kh) \in 1..kh
      /\ \A r \in 0..bh - 1 : \E i \in 0..nh - 1, y \in 0..kh - 1 : InUnit(i, y, nh, kh, bh) /\ r = i * kh + y
      /\ \A i \in 0..nh - 1 : \A y \in 0..kh - 1 : InUnit(i, y, nh, kh, bh) => i * kh + y \in 0..bh - 1
      /\ \A i, j \in Nat : \A y, z \in 0..kh - 1 : i * kh + y = j * kh + z => i = j /\ y = z
  BY <1>1, UnitsOfBlocks
<1>6. ASSUME NEW m \in MCUs
      PROVE  /\ m[1] \in 0..nv - 1 /\ m[2] = 0 /\ m[3] \in 0..nh - 1
             /\ m = <<m[1], m[2], m[3]>>
  <2>1. m \in (0..nv - 1) \X (0..3) \X (0..nh - 1) /\ m[2] < 1
    BY <1>2
  <2> QED
    BY <2>1
<1>7. ASSUME NEW i \in 0..nv - 1, NEW x \in 0..nh - 1 PROVE <<i, 0, x>> \in MCUs
  <2>1. 0 < rows(i)
    BY <1>2
  <2> QED
    BY <2>1
<1>8. ASSUME NEW m \in MCUs, NEW g
      PROVE  g \in Out(m) <=>
               \E j \in 0..kv - 1, l \in 0..kh - 1 :
                 /\ InUnit(m[1], j, nv, kv, bv) /\ InUnit(m[3], l, nh, kh, bh)
                 /\ g = [row |-> m[1] * kv + j, col |-> m[3] * kh + l]
  <2> DEFINE i == m[1]
             x == m[3]
             w == IF x < nh - 1 THEN kh ELSE Last(bh, kh)
  <2>1. i \in 0..nv - 1 /\ m[2] = 0 /\ x \in 0..nh - 1
    BY <1>6, Zenon
  <2> HIDE DEF i, x
  <2>2. w = IF x < MCUs_per_row(f, S) - 1 THEN kh ELSE last_col_width(f, S, c)
    BY <1>2 DEF nh
  <2>3. w \in 1..kh /\ \A l \in 0..kh - 1 : l \in 0..w - 1 <=> InUnit(x, l, nh, kh, bh)
    BY <1>1, <1>5, <2>1 DEF InUnit
  <2> HIDE DEF w
  <2>4. g \in OutputBlocks(f, S, c, i, 0, x) <=>
          \E j \in 0..kv - 1, l \in 0..w - 1 :
            (i < nv - 1 \/ 0 + j < Last(bv, kv)) /\ g = [row |-> i * kv + 0 + j, col |-> x * kh + l]
    BY <1>2, <1>3, <2>2, BlocksOutput
  <2>5. \A j \in 0..kv - 1 :
          /\ (i < nv - 1 \/ 0 + j < Last(bv, kv)) <=> InUnit(i, j, nv, kv, bv)
          /\ i * kv + 0 + j = i * kv + j
    <3>1. i * kv \in Int /\ kv \in Int
      BY <1>1, <2>1
    <3> QED
      BY <3>1 DEF InUnit
  <2>6. \A l : l \in 0..w - 1 <=> l \in 0..kh - 1 /\ InUnit(x, l, nh, kh, bh)
    BY <1>1, <2>3
  <2>7. g \in OutputBlocks(f, S, c, i, 0, x) <=>
          \E j \in 0..kv - 1, l \in 0..kh - 1 :
            /\ InUnit(i, j, nv, kv, bv) /\ InUnit(x, l, nh, kh, bh)
            /\ g = [row |-> i * kv + j, col |-> x * kh + l]
    BY <2>4, <2>5, <2>6, Zenon
  <2> QED
    BY <2>1, <2>7, Zenon DEF i, x
<1> HIDE DEF MCUs, Out
<1>9. ASSUME NEW m \in MCUs PROVE Out(m) \subseteq Grid
  <2>1. SUFFICES ASSUME NEW g, g \in Out(m) PROVE g \in Grid
    OBVIOUS
  <2>2. PICK j \in 0..kv - 1, l \in 0..kh - 1 :
          /\ InUnit(m[1], j, nv, kv, bv) /\ InUnit(m[3], l, nh, kh, bh)
          /\ g = [row |-> m[1] * kv + j, col |-> m[3] * kh + l]
    BY <1>8, <2>1, Zenon
  <2>3. m[1] * kv + j \in 0..bv - 1 /\ m[3] * kh + l \in 0..bh - 1
    BY <1>4, <1>5, <1>6, <2>2, Zenon
  <2> QED
    BY <2>2, <2>3
<1>10. ASSUME NEW g \in Grid PROVE \E m \in MCUs : g \in Out(m)
  <2>1. g.row \in 0..bv - 1 /\ g.col \in 0..bh - 1 /\ g = [row |-> g.row, col |-> g.col]
    OBVIOUS
  <2>2. PICK i \in 0..nv - 1, j \in 0..kv - 1 : InUnit(i, j, nv, kv, bv) /\ g.row = i * kv + j
    BY <1>4, <2>1, Zenon
  <2>3. PICK x \in 0..nh - 1, l \in 0..kh - 1 : InUnit(x, l, nh, kh, bh) /\ g.col = x * kh + l
    BY <1>5, <2>1, Zenon
  <2> DEFINE m == <<i, 0, x>>
  <2>4. m \in MCUs
    BY <1>7, Zenon
  <2>5. m[1] = i /\ m[3] = x
    OBVIOUS
  <2> HIDE DEF m
  <2>6. g = [row |-> m[1] * kv + j, col |-> m[3] * kh + l]
    BY <2>1, <2>2, <2>3, <2>5
  <2>7. InUnit(m[1], j, nv, kv, bv) /\ InUnit(m[3], l, nh, kh, bh)
    BY <2>2, <2>3, <2>5, Zenon
  <2>8. g \in Out(m)
    BY <1>8, <2>4, <2>6, <2>7, Zenon
  <2> QED
    BY <2>4, <2>8, Zenon
<1>11. ASSUME NEW m \in MCUs, NEW k \in MCUs, Out(m) \cap Out(k) # {} PROVE m = k
  <2>1. PICK g : g \in Out(m) /\ g \in Out(k)
    BY <1>11, Zenon
  <2> DEFINE At(n) == \E j \in 0..kv - 1, l \in 0..kh - 1 : g = [row |-> n[1] * kv + j, col |-> n[3] * kh + l]
  <2>2. ASSUME NEW n \in MCUs, g \in Out(n) PROVE At(n)
    <3>1. PICK j \in 0..kv - 1, l \in 0..kh - 1 :
            /\ InUnit(n[1], j, nv, kv, bv) /\ InUnit(n[3], l, nh, kh, bh)
            /\ g = [row |-> n[1] * kv + j, col |-> n[3] * kh + l]
      BY <1>8, <2>2, Zenon
    <3> QED
      BY <3>1, Zenon
  <2>3. At(m) /\ At(k)
    BY <2>1, <2>2, Zenon
  <2>4. PICK j \in 0..kv - 1, l \in 0..kh - 1 : g = [row |-> m[1] * kv + j, col |-> m[3] * kh + l]
    BY <2>3, Zenon
  <2>5. PICK jj \in 0..kv - 1, ll \in 0..kh - 1 : g = [row |-> k[1] * kv + jj, col |-> k[3] * kh + ll]
    BY <2>3, Zenon
  <2>6. m[1] * kv + j = k[1] * kv + jj /\ m[3] * kh + l = k[3] * kh + ll
    BY <2>4, <2>5
  <2>7. m[1] \in Nat /\ k[1] \in Nat /\ m[3] \in Nat /\ k[3] \in Nat
    BY <1>6
  <2>8. m[1] = k[1]
    <3>1. \A i, n \in Nat : \A y, z \in 0..kv - 1 : i * kv + y = n * kv + z => i = n /\ y = z
      BY <1>4, Zenon
    <3> QED
      BY <2>6, <2>7, <3>1
  <2>9. m[3] = k[3]
    <3>1. \A i, n \in Nat : \A y, z \in 0..kh - 1 : i * kh + y = n * kh + z => i = n /\ y = z
      BY <1>5, Zenon
    <3> QED
      BY <2>6, <2>7, <3>1
  <2> QED
    BY <1>6, <2>8, <2>9, Zenon
<1>12. UNION {Out(m) : m \in MCUs} = Grid
  BY <1>9, <1>10
<1> QED
  BY <1>11, <1>12, Zenon DEF MCUs, Out, nv, nh, bv, bh, rows

(* Whatever the scan of all components is: every block once.                *)
LEMMA FrameOnce ==
  ASSUME NEW f, Accepted(f)
  PROVE  EveryBlockOnce(f, Comps(f))
<1>1. /\ Len(f.comps) \in Nat /\ Comps(f) = 1..Len(f.comps) /\ 1 \in Comps(f)
  <2>1. f.comps \in Seq([h : 1..4, v : 1..4])
    BY DEF Accepted
  <2>2. Len(f.comps) \in Nat /\ Comps(f) = 1..Len(f.comps)
    BY <2>1, LenProperties, Zenon DEF Comps
  <2>3. Len(f.comps) # 0
    BY <2>1, EmptySeq, Zenon DEF Accepted
  <2> QED
    BY <2>2, <2>3
<1> DEFINE S == Comps(f)
<1>2. Cardinality(S) = Len(f.comps) /\ Len(f.comps) >= 1
  BY <1>1, FS_Interval
<1>3. CASE Cardinality(S) = 1
  <2>1. S = {1}
    BY <1>1, <1>2, <1>3
  <2> QED
    BY <1>1, <2>1, ComponentOnce
<1>4. CASE Cardinality(S) # 1
  <2>1. Cardinality(S) \in Nat /\ Cardinality(S) > 1
    BY <1>1, <1>2, <1>4
  <2>2. S \subseteq Comps(f)
    OBVIOUS
  <2> HIDE DEF S
  <2>3. EveryBlockOnce(f, S)
    BY <2>1, <2>2, InterleavedOnce, Zenon DEF EveryBlockOnce
  <2> QED
    BY <2>3 DEF S
<1> QED
  BY <1>3, <1>4

-----------------------------------------------------------------------------
(* The least of a set of numbers, exact quotients, divisors.                *)
LEMMA LeastOf ==
  ASSUME NEW S \in SUBSET Nat, S # {}
  PROVE  Min(S) \in S /\ \A k \in S : Min(S) <= k
<1> DEFINE R == {ss \in Nat \X Nat : ss[1] < ss[2]}
<1>1. S \subseteq Nat
  OBVIOUS
<1>2. PICK m \in S : \A k \in S : ~(<<k, m>> \in R)
  BY <1>1, Order!NatLessThanWellFounded, Order!WFMin DEF Order!OpToRel
<1>3. ASSUME NEW k \in S PROVE m <= k
  <2>1. k \in Nat /\ m \in Nat
    BY <1>1
  <2>2. k < m => <<k, m>> \in R
    BY <2>1
  <2> QED
    BY <1>2, <2>1, <2>2
<1> QED
  BY <1>3, Zenon DEF Min

LEMMA DivExact ==
  ASSUME NEW u \in Nat, u >= 1, NEW y \in Nat
  PROVE  (u * y) \div u = y
<1> DEFINE x == u * y
           q == x \div u
           r == x % u
<1>1. x \in Nat
  OBVIOUS
<1> HIDE DEF x
<1>2. q \in Int /\ r \in 0..u - 1 /\ x = u * q + r
  BY <1>1
<1> HIDE DEF q, r
<1>3. u * q \in Int /\ u * y \in Int /\ u * q <= u * y /\ u * y < u * q + u
  BY <1>2 DEF x
<1>4. u * y < u * (q + 1) /\ u * q < u * (y + 1)
  <2>1. u * (q + 1) = u * q + u /\ u * (y + 1) = u * y + u
    BY <1>2
  <2> QED
    BY <1>3, <2>1
<1>5. y < q + 1 /\ q < y + 1
  BY <1>2, <1>4, Cancel
<1>6. q = y
  BY <1>2, <1>5
<1> QED
  BY <1>6 DEF q, x

LEMMA Divides ==
  ASSUME NEW m \in 1..4, NEW u \in Nat, u >= 1, NEW e \in Nat, e >= 1, m % (u * e) = 0
  PROVE  m % u = 0
<1>1. u * e \in Nat /\ u * e >= u /\ u * e >= e
  OBVIOUS
<1>2. u * e <= 4
  <2> DEFINE p == u * e
  <2>1. p \in Nat /\ p >= 1 /\ m % p = 0
    BY <1>1
  <2> HIDE DEF p
  <2>2. p <= 4
    BY <2>1
  <2> QED
    BY <2>2 DEF p
<1>3. u \in 1..4 /\ e \in 1..4
  BY <1>1, <1>2
<1>4. CASE u = 1
  BY <1>4
<1>5. CASE u = 2
  <2>1. 2 * e <= 4 /\ m % (2 * e) = 0
    BY <1>2, <1>5
  <2>2. e = 1 \/ e = 2
    BY <1>3, <2>1
  <2> QED
    BY <1>5, <2>1, <2>2
<1>6. CASE u > 2
  <2>1. e = 1
    BY <1>1, <1>2, <1>3, <1>6
  <2> QED
    BY <1>3, <2>1
<1> QED
  BY <1>3, <1>4, <1>5, <1>6

-----------------------------------------------------------------------------
(* The size a frame is decoded at: n of block samples.                      *)
LEMMA Scale ==
  ASSUME NEW f, Accepted(f)
  PROVE  min_DCT_scaled_size(f) \in 1..16
<1> DEFINE enough == {n \in 1..15 : f.num * f.block <= f.denom * n}
<1>1. CASE enough = {}
  BY <1>1 DEF min_DCT_scaled_size
<1>2. CASE enough # {}
  <2>1. enough \in SUBSET Nat /\ enough \subseteq 1..15
    OBVIOUS
  <2> HIDE DEF enough
  <2>2. Min(enough) \in 1..15
    BY <1>2, <2>1, LeastOf, Zenon
  <2>3. min_DCT_scaled_size(f) = Min(enough)
    BY <1>2, Zenon DEF min_DCT_scaled_size, enough
  <2> QED
    BY <2>2, <2>3
<1> QED
  BY <1>1, <1>2

(* A component's factor: a power of two there are IDCTs for, that brings it *)
(* no further than the largest sampling factor.                             *)
LEMMA Factor ==
  ASSUME NEW f, Accepted(f), NEW c \in Comps(f), NEW d \in Dims
  PROVE  /\ ssize(f, c, d) \in Powers /\ min_DCT_scaled_size(f) * ssize(f, c, d) \in 1..16
         /\ max_samp_factor(f, d) % f.comps[c][d] = 0
              => max_samp_factor(f, d) % (f.comps[c][d] * ssize(f, c, d)) = 0
<1> DEFINE n == min_DCT_scaled_size(f)
           m == max_samp_factor(f, d)
           k == f.comps[c][d]
           limit == IF f.fancy THEN DCTSIZE ELSE DCTSIZE \div 2
           P == {s \in {1, 2, 4, 8, 16} : n * s > limit \/ m % (k * s * 2) # 0}
           s == ssize(f, c, d)
<1>1. n \in 1..16 /\ m \in 1..4 /\ k \in 1..4 /\ limit \in {4, 8}
  BY Scale, FrameNumbers DEF DCTSIZE
<1>2. s = Min(P)
  BY Zenon DEF ssize
<1> HIDE DEF n, m, k, limit, s
<1>3. P \in SUBSET Nat /\ P # {}
  <2>1. n * 16 > limit
    BY <1>1
  <2> QED
    BY <2>1
<1>4. s \in P /\ \A t \in P : s <= t
  <2> HIDE DEF P
  <2> QED
    BY <1>2, <1>3, LeastOf, Zenon
<1>5. s \in Powers
  BY <1>4 DEF Powers
<1>6. ASSUME NEW t \in {1, 2, 4, 8}, t < s PROVE n * t <= limit /\ m % (k * t * 2) = 0
  <2>1. t \notin P /\ t \in {1, 2, 4, 8, 16}
    BY <1>4, <1>5, <1>6 DEF Powers
  <2>2. ~(n * t > limit) /\ m % (k * t * 2) = 0
    BY <2>1, Zenon
  <2>3. n * t \in Int /\ limit \in Int
    BY <1>1
  <2> QED
    BY <2>2, <2>3
<1> HIDE DEF P
<1>7. CASE s = 1
  <2>1. n * 1 = n /\ k * 1 = k
    BY <1>1
  <2> QED
    BY <1>1, <1>5, <1>7, <2>1 DEF n, m, k, s
<1>8. ASSUME NEW t \in {1, 2, 4, 8}, s = 2 * t
      PROVE  n * s \in 1..16 /\ m % (k * s) = 0
  <2>1. n * t <= limit /\ m % (k * t * 2) = 0
    <3>1. t < s
      BY <1>8
    <3> QED
      BY <1>6, <3>1
  <2>2. n * s = 2 * (n * t) /\ n * t \in Int /\ n * t >= 1
    BY <1>1, <1>8
  <2>3. k * s = k * t * 2
    BY <1>1, <1>8
  <2> QED
    BY <1>1, <2>1, <2>2, <2>3
<1>9. CASE s # 1
  <2>1. PICK t \in {1, 2, 4, 8} : s = 2 * t
    BY <1>5, <1>9 DEF Powers
  <2>2. n * s \in 1..16 /\ m % (k * s) = 0
    BY <1>8, <2>1
  <2> QED
    BY <1>5, <2>2 DEF n, m, k, s
<1> QED
  BY <1>7, <1>9

(* One of two factors, bounded by twice the other.                          *)
Bounded(a, b) == IF a <= 2 * b THEN a ELSE 2 * b
LEMMA BoundedFactor ==
  ASSUME NEW n \in 1..16, NEW a \in Powers, NEW b \in Powers
  PROVE  /\ Bounded(a, b) \in Powers
         /\ \E e \in Powers : a = Bounded(a, b) * e
         /\ Min({n * a, n * b * 2}) = n * Bounded(a, b)
<1>1. /\ Bounded(a, b) \in Powers
      /\ \E e \in Powers : a = Bounded(a, b) * e
  BY DEF Powers, Bounded
<1> DEFINE p == n * a
           q == n * b * 2
           t == n * Bounded(a, b)
<1>2. p \in Nat /\ q \in Nat /\ t \in Nat /\ t \in {p, q} /\ t <= p /\ t <= q
  <2>1. n * a \in Nat /\ n * b \in Nat /\ q = n * (2 * b)
    BY DEF Powers
  <2>2. CASE a <= 2 * b
    <3>1. t = p
      BY <2>2 DEF Bounded
    <3>2. p <= q
      BY <2>2 DEF Powers
    <3> QED
      BY <2>1, <3>1, <3>2
  <2>3. CASE ~(a <= 2 * b)
    <3>1. t = q
      BY <2>1, <2>3 DEF Bounded
    <3>2. q <= p
      BY <2>3 DEF Powers
    <3> QED
      BY <2>1, <3>1, <3>2
  <2> QED
    BY <2>2, <2>3
<1> HIDE DEF p, q, t
<1>3. Min({p, q}) \in {p, q} /\ Min({p, q}) <= p /\ Min({p, q}) <= q
  <2>1. {p, q} \in SUBSET Nat /\ {p, q} # {} /\ p \in {p, q} /\ q \in {p, q}
    BY <1>2
  <2> QED
    BY <2>1, LeastOf, Zenon
<1>4. Min({p, q}) = t
  BY <1>2, <1>3
<1> QED
  BY <1>1, <1>4 DEF p, q, t

(* The factors a component is decoded with.                                 *)
factor(f, c, d) ==
  IF d = "h" THEN Bounded(ssize(f, c, "h"), ssize(f, c, "v"))
  ELSE Bounded(ssize(f, c, "v"), ssize(f, c, "h"))
LEMMA ScaledSize ==
  ASSUME NEW f, Accepted(f), NEW c \in Comps(f), NEW d \in Dims
  PROVE  /\ factor(f, c, d) \in Powers
         /\ DCT_scaled_size(f, c)[d] = min_DCT_scaled_size(f) * factor(f, c, d)
         /\ DCT_scaled_size(f, c)[d] \in 1..16
         /\ max_samp_factor(f, d) % f.comps[c][d] = 0
              => max_samp_factor(f, d) % (f.comps[c][d] * factor(f, c, d)) = 0
<1> DEFINE n == min_DCT_scaled_size(f)
           m == max_samp_factor(f, d)
           k == f.comps[c][d]
           a == ssize(f, c, d)
           other == IF d = "h" THEN "v" ELSE "h"
           b == ssize(f, c, other)
           t == factor(f, c, d)
<1>1. n \in 1..16 /\ m \in 1..4 /\ k \in 1..4 /\ other \in Dims
  BY Scale, FrameNumbers DEF Dims
<1>2. a \in Powers /\ b \in Powers /\ n * a \in 1..16 /\ (m % k = 0 => m % (k * a) = 0)
  BY <1>1, Factor
<1>3. t = Bounded(a, b)
  BY DEF Dims, factor
<1>4. DCT_scaled_size(f, c)[d] = Min({n * a, n * b * 2})
  <2>1. CASE d = "h"
    <3>1. DCT_scaled_size(f, c)[d] = Min({n * ssize(f, c, "h"), n * ssize(f, c, "v") * 2})
      BY <2>1 DEF DCT_scaled_size
    <3>2. a = ssize(f, c, "h") /\ b = ssize(f, c, "v")
      BY <2>1
    <3> HIDE DEF n, a, b
    <3> QED
      BY <3>1, <3>2
  <2>2. CASE d = "v"
    <3>1. DCT_scaled_size(f, c)[d] = Min({n * ssize(f, c, "v"), n * ssize(f, c, "h") * 2})
      BY <2>2 DEF DCT_scaled_size
    <3>2. a = ssize(f, c, "v") /\ b = ssize(f, c, "h")
      BY <2>2
    <3> HIDE DEF n, a, b
    <3> QED
      BY <3>1, <3>2
  <2>3. d = "h" \/ d = "v"
    BY DEF Dims
  <2> HIDE DEF n, a, b
  <2> QED
    BY <2>1, <2>2, <2>3, Zenon
<1> HIDE DEF n, m, k, a, b, t
<1>5. /\ t \in Powers /\ (\E e \in Powers : a = t * e) /\ Min({n * a, n * b * 2}) = n * t
  <2>1. n \in 1..16 /\ a \in Powers /\ b \in Powers
    BY <1>1, <1>2, Zenon
  <2>2. /\ Bounded(a, b) \in Powers /\ (\E e \in Powers : a = Bounded(a, b) * e)
        /\ Min({n * a, n * b * 2}) = n * Bounded(a, b)
    BY <2>1, BoundedFactor, Zenon
  <2> QED
    BY <1>3, <2>2
<1>6. PICK e \in Powers : a = t * e
  BY <1>5, Zenon
<1>7. t \in Nat /\ t >= 1 /\ e \in Nat /\ e >= 1 /\ a \in Nat
  BY <1>2, <1>5 DEF Powers
<1>8. n * t \in 1..16
  <2>1. n * t \in Nat /\ n * t >= 1
    BY <1>1, <1>7
  <2>2. n * a = (n * t) * e
    BY <1>1, <1>6, <1>7
  <2>3. (n * t) * e >= n * t
    BY <1>7, <2>1
  <2> QED
    BY <1>2, <2>1, <2>2, <2>3
<1>9. ASSUME m % k = 0 PROVE m % (k * t) = 0
  <2>1. m % (k * a) = 0
    BY <1>2, <1>9
  <2> DEFINE u == k * t
  <2>2. u \in Nat /\ u >= 1
    BY <1>1, <1>7
  <2>3. k * a = u * e
    BY <1>1, <1>6, <1>7
  <2> HIDE DEF u
  <2>4. m % u = 0
    BY <1>1, <1>7, <2>1, <2>2, <2>3, Divides
  <2> QED
    BY <2>4 DEF u
<1> QED
  BY <1>4, <1>5, <1>8, <1>9 DEF n, m, k, t

(* There is an IDCT for every component.                                    *)
LEMMA KernelExists ==
  ASSUME NEW f, Accepted(f), NEW c \in Comps(f)
  PROVE  DCT_scaled_size(f, c) \in Kernels
<1> DEFINE n == min_DCT_scaled_size(f)
           D == DCT_scaled_size(f, c)
           a == ssize(f, c, "h")
           b == ssize(f, c, "v")
           x == Bounded(a, b)
           y == Bounded(b, a)
<1>1. n \in 1..16 /\ a \in Powers /\ b \in Powers
  BY Scale, Factor DEF Dims
<1>2. D["h"] = n * x /\ D["h"] \in 1..16 /\ D["v"] = n * y /\ D["v"] \in 1..16
  BY ScaledSize DEF Dims, factor
<1>3. D = [h |-> D["h"], v |-> D["v"]]
  BY DEF DCT_scaled_size
<1> HIDE DEF n, D, a, b
<1>4. x \in Powers /\ y \in Powers /\ (x = y \/ x = 2 * y \/ y = 2 * x)
  BY <1>1 DEF Powers, Bounded
<1> HIDE DEF x, y
<1>5. D["h"] = D["v"] \/ D["h"] = 2 * D["v"] \/ D["v"] = 2 * D["h"]
  <2>1. x \in Nat /\ y \in Nat
    BY <1>4 DEF Powers
  <2>2. CASE x = y
    BY <1>2, <2>2
  <2>3. CASE x = 2 * y
    <3>1. n * x = 2 * (n * y)
      BY <1>1, <2>1, <2>3
    <3> QED
      BY <1>2, <3>1
  <2>4. CASE y = 2 * x
    <3>1. n * y = 2 * (n * x)
      BY <1>1, <2>1, <2>4
    <3> QED
      BY <1>2, <3>1
  <2> QED
    BY <1>4, <2>2, <2>3, <2>4
<1>6. D \in Kernels
  BY <1>2, <1>3, <1>5 DEF Kernels
<1> QED
  BY <1>6 DEF D

LEMMA TimesKeepsOrder ==
  ASSUME NEW a \in Nat, NEW b \in Nat, a <= b, NEW e \in Nat
  PROVE  a * e <= b * e
<1>1. PICK x \in Nat : b = a + x
  <2>1. b - a \in Nat /\ b = a + (b - a)
    OBVIOUS
  <2> QED
    BY <2>1
<1>2. b * e = a * e + x * e /\ x * e \in Nat /\ a * e \in Nat
  BY <1>1
<1> QED
  BY <1>2

(* The rows of a row group divide those of the output.                      *)
LEMMA RowGroups ==
  ASSUME NEW f, Accepted(f), NEW c \in Comps(f), NEW d \in Dims
  PROVE  in_group(f, c, d) = f.comps[c][d] * factor(f, c, d)
<1> DEFINE n == min_DCT_scaled_size(f)
           k == f.comps[c][d]
           t == factor(f, c, d)
           D == DCT_scaled_size(f, c)[d]
<1>1. in_group(f, c, d) = (k * D) \div n /\ D = n * t
  BY ScaledSize DEF in_group
<1>2. n \in 1..16 /\ k \in 1..4 /\ t \in Powers
  BY Scale, FrameNumbers, ScaledSize
<1> HIDE DEF n, k, t, D
<1>3. t \in Nat /\ t >= 1
  BY <1>2 DEF Powers
<1>4. k * t \in Nat /\ k * D = n * (k * t)
  BY <1>1, <1>2, <1>3
<1>5. (n * (k * t)) \div n = k * t
  <2> DEFINE y == k * t
  <2>1. y \in Nat /\ n \in Nat /\ n >= 1
    BY <1>2, <1>4
  <2> HIDE DEF y
  <2>2. (n * y) \div n = y
    BY <2>1, DivExact
  <2> QED
    BY <2>2 DEF y
<1> QED
  BY <1>1, <1>4, <1>5 DEF k, t

LEMMA PlanesReachEnd ==
  ASSUME NEW f, Accepted(f), NEW c \in Comps(f), NEW d \in Dims,
         max_samp_factor(f, d) % f.comps[c][d] = 0
  PROVE  PlaneReachesEnd(f, c, d) /\ max_samp_factor(f, d) % in_group(f, c, d) = 0
<1> DEFINE S == f.size[d]
           B == f.block
           n == min_DCT_scaled_size(f)
           m == max_samp_factor(f, d)
           k == f.comps[c][d]
           t == factor(f, c, d)
           D == DCT_scaled_size(f, c)[d]
           U == m * B
           g == in_group(f, c, d)
           q == m \div g
           blocks == size_in_blocks(f, c, d)
           down == downsampled_size(f, c, d)
           out == output_size(f, d)
<1>1. /\ S \in Nat /\ S >= 1 /\ B \in 1..16 /\ n \in 1..16 /\ m \in 1..4 /\ k \in 1..4
      /\ t \in Powers /\ D = n * t /\ D \in 1..16 /\ m % (k * t) = 0 /\ g = k * t
  BY FrameNumbers, Scale, ScaledSize, RowGroups
<1>2. /\ blocks = jdiv_round_up(S * k, U) /\ down = jdiv_round_up(S * k * D, U)
      /\ out = jdiv_round_up(S * n, B)
  BY DEF size_in_blocks, downsampled_size, output_size
<1> HIDE DEF S, B, n, m, k, t, D, g, blocks, down, out
<1>3. t \in Nat /\ t >= 1 /\ g \in Nat /\ g >= 1 /\ U \in Nat /\ U >= 1 /\ U = m * B
  <2>1. t \in Nat /\ t >= 1
    BY <1>1 DEF Powers
  <2> QED
    BY <1>1, <2>1
<1> HIDE DEF U
<1>4. q \in Nat /\ m = g * q
  BY <1>1, <1>3
<1> HIDE DEF q
<1>5. S * k \in Nat /\ S * k * D \in Nat /\ S * n \in Nat
  BY <1>1
<1>6. blocks \in Nat /\ U * blocks >= S * k
  <2>1. U > 0
    BY <1>3
  <2> QED
    BY <1>2, <1>3, <1>5, <2>1, RoundUp, Zenon
<1>7. down \in Nat /\ U * down >= S * k * D /\ U * down < S * k * D + U
  <2>1. U > 0
    BY <1>3
  <2> QED
    BY <1>2, <1>3, <1>5, <2>1, RoundUp, Zenon
<1>8. out \in Nat /\ B * out < S * n + B
  <2>1. B \in Nat /\ B > 0
    BY <1>1
  <2> QED
    BY <1>2, <1>5, <2>1, RoundUp, Zenon
<1>9. blocks * D >= down
  <2>1. S * k * D <= U * blocks * D
    <3>1. U * blocks \in Nat /\ D \in Nat
      BY <1>1, <1>3, <1>6
    <3> QED
      BY <1>5, <1>6, <3>1, TimesKeepsOrder
  <2>2. U * (blocks * D + 1) = U * blocks * D + U /\ U * blocks * D \in Nat /\ U * down \in Nat
    BY <1>1, <1>3, <1>6, <1>7
  <2>3. U * down < U * (blocks * D + 1)
    BY <1>3, <1>5, <1>7, <2>1, <2>2
  <2>4. down < blocks * D + 1
    BY <1>1, <1>3, <1>6, <1>7, <2>3, Cancel
  <2> QED
    BY <1>1, <1>6, <1>7, <2>4
<1>10. down * q >= out
  <2> DEFINE z == down * q
             w == B * z
             y == S * n
  <2>1. z \in Nat /\ w \in Nat /\ y \in Nat /\ B \in Nat /\ B >= 1
    BY <1>1, <1>4, <1>5, <1>7
  <2>2. U * down = g * w
    <3>1. B * (g * q) = g * (B * q)
      BY <1>1, <1>3, <1>4
    <3>2. U = g * (B * q)
      BY <1>1, <1>3, <1>4, <3>1
    <3>3. g * (B * q) * down = g * (B * (down * q))
      BY <1>1, <1>3, <1>4, <1>7
    <3> QED
      BY <3>2, <3>3
  <2>3. S * k * D = g * y
    <3>1. S * k * (n * t) = (k * t) * (S * n)
      BY <1>1, <1>3
    <3> QED
      BY <1>1, <3>1
  <2> HIDE DEF w, y
  <2>4. w >= y
    <3>1. g * w \in Int /\ g * y \in Int /\ ~(g * w < g * y)
      BY <1>3, <1>7, <2>1, <2>2, <2>3
    <3>2. w < y => g * w < g * y
      <4>1. SUFFICES ASSUME w < y PROVE g * w < g * y
        OBVIOUS
      <4>2. w + 1 \in Nat /\ w + 1 <= y
        BY <2>1, <4>1
      <4>3. (w + 1) * g <= y * g
        BY <1>3, <2>1, <4>2, TimesKeepsOrder
      <4>4. (w + 1) * g = g * w + g /\ y * g = g * y
        BY <1>3, <2>1
      <4> QED
        BY <1>3, <3>1, <4>3, <4>4
    <3> QED
      BY <2>1, <3>1, <3>2
  <2>5. B * out < w + B
    <3>1. B * out \in Int
      BY <1>8, <2>1
    <3> QED
      BY <1>8, <2>1, <2>4, <3>1 DEF y
  <2> HIDE DEF z
  <2>6. B * (z + 1) = w + B
    BY <2>1 DEF w
  <2>7. out < z + 1
    BY <1>8, <2>1, <2>5, <2>6, Cancel
  <2> QED
    BY <1>8, <2>1, <2>7 DEF z
<1>11. PlaneReachesEnd(f, c, d)
  BY <1>9, <1>10 DEF PlaneReachesEnd, blocks, down, out, q, m, g, D
<1> QED
  BY <1>1, <1>11 DEF m, g

-----------------------------------------------------------------------------
(* In every state of every decompression: no sampling factors, size, block  *)
(* size or scale of an accepted frame leave a component without an IDCT, a  *)
(* block of the image out or put out twice, or an output row or column      *)
(* unreached.                                                               *)
THEOREM LayoutIsCovered == Spec => []LayoutCoversImage
<1>1. ASSUME NEW f \in Frames
      PROVE  /\ \A c \in DOMAIN f.comps :
                  /\ DCT_scaled_size(f, c) \in Kernels /\ EveryBlockOnce(f, {c})
                  /\ (\A d \in {"h", "v"} : max_samp_factor(f, d) % f.comps[c][d] = 0) =>
                       Upsampled(f, c) /\ \A d \in {"h", "v"} : PlaneReachesEnd(f, c, d)
             /\ MCU_fits(f, DOMAIN f.comps) => EveryBlockOnce(f, DOMAIN f.comps)
  <2>1. Accepted(f)
    BY DecoderAssumption, Zenon
  <2>2. EveryBlockOnce(f, DOMAIN f.comps)
    BY <2>1, FrameOnce DEF Comps
  <2>3. ASSUME NEW c \in DOMAIN f.comps
        PROVE  /\ DCT_scaled_size(f, c) \in Kernels /\ EveryBlockOnce(f, {c})
               /\ (\A d \in {"h", "v"} : max_samp_factor(f, d) % f.comps[c][d] = 0) =>
                    Upsampled(f, c) /\ \A d \in {"h", "v"} : PlaneReachesEnd(f, c, d)
    <3>1. c \in Comps(f)
      BY DEF Comps
    <3>2. DCT_scaled_size(f, c) \in Kernels /\ EveryBlockOnce(f, {c})
      BY <2>1, <3>1, KernelExists, ComponentOnce, Zenon
    <3>3. ASSUME \A d \in {"h", "v"} : max_samp_factor(f, d) % f.comps[c][d] = 0
          PROVE  \A d \in {"h", "v"} : PlaneReachesEnd(f, c, d) /\ max_samp_factor(f, d) % in_group(f, c, d) = 0
      BY <2>1, <3>1, <3>3, PlanesReachEnd, Zenon DEF Dims
    <3> QED
      BY <3>2, <3>3, Zenon DEF Upsampled
  <2> QED
    BY <2>2, <2>3, Zenon
<1>2. LayoutCoversImage
  BY <1>1, Zenon DEF LayoutCoversImage
<1> QED
  BY <1>2, PTL

=============================================================================
