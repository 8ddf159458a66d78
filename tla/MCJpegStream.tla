-------------------------- MODULE MCJpegStream --------------------------
(* Small images for TLC: blocks of 2 x 2 and 5 x 5 coefficients, sequential *)
(* and progressive, with and without restart intervals, and the ways their  *)
(* files are damaged.                                                       *)
EXTENDS JpegStream, CoderSetup

Block(s) == [k \in 0..Len(s) - 1 |-> s[k + 1]]
Image(rows, scan_info, restart) ==
  [blocks |-> [b \in DOMAIN rows |-> Block(rows[b])], scan_info |-> scan_info,
   restart |-> restart, lim_Se |-> Len(rows[1]) - 1, progressive |-> FALSE, optimize |-> TRUE,
   quant |-> [i \in DOMAIN rows[1] |-> 9 + i],
   tables |-> [dc |-> <<>>, ac |-> <<>>, sent |-> {}],
   jfif |-> FALSE, adobe |-> FALSE, extra |-> <<>>, save |-> <<>>, saved |-> <<>>,
   scaled |-> <<8, 8>>, needed |-> TRUE, arith |-> FALSE, cond |-> [L |-> 0, U |-> 1, K |-> 5]]
Arithmetic(img) == [img EXCEPT !.arith = TRUE, !.optimize = FALSE]

Sequence == <<>>
Progression == <<Scan(<<1>>, 0, 0, 0, 1), Scan(<<1>>, 1, 63, 0, 1), Scan(<<1>>, 1, 63, 1, 0),
                 Scan(<<1>>, 0, 0, 1, 0)>>
Simple == jpeg_simple_progression(1, FALSE)

Small == <<<<5, -3, 0, 1>>, <<-4, 0, 2, 0>>, <<-4, 0, 0, 0>>, <<7, 1, -1, 0>>>>
Flat == <<<<3, 0, 0, 0>>, <<3, 0, 0, 0>>, <<-2, 0, 0, 0>>, <<1, 2, 0, 0>>, <<1, -1, 1, 0>>>>
Long == [b \in 1..10 |-> <<3 * b - 14, b % 2, 0, (b % 3) - 1>>]
Wide == <<<<90, 3, -2, 0, 0, 0, 0, 0, 0, 0, 0, 0, 0, 0, 0, 0, 0, 0, 0, 0, 0, -1, 0, 0, 0>>,
          <<-8, 0, 0, 0, 0, 2, 0, 0, 0, 0, 0, 0, 0, 0, 0, 0, 0, 0, 0, 0, 0, 0, 0, 2, 1>>,
          <<-8, 0, 0, 0, 2, 0, 0, 0, 0, 0, 0, 0, 0, 0, 0, 0, 0, 0, 0, 0, 0, 0, 0, 0, 0>>>>
Busy == <<<<3, 1, -1, 0, 2, 1, 0, 0, 1, -3, 0, -1, 0, 0, 0, 1, 1, 0, 0, 2, -1, 0, 1, 0, 0>>,
          <<2, 0, 1, 1, 0, 0, -1, 0, 0, 0, 0, 2, 5, -1, 1, 1, 0, -2, 0, 0, 0, 0, 0, 1, 1>>>>

(* Tables that are not optimal, with long codes.                            *)
Given == [dc |-> [bits |-> <<0, 1, 5, 1, 1, 1, 1, 1, 1, 0, 0, 0, 0, 0, 0, 0>>,
                  vals |-> [i \in 1..12 |-> i - 1]],
          ac |-> [bits |-> <<0, 1, 0, 0, 0, 0, 0, 0, 4, 0, 0, 0, 0, 0, 0, 6>>,
                  vals |-> <<1, 0, 2, 240, 17, 33, 65, 66, 82, 50, 18>>],
          sent |-> {}]
(* Blocks of 8 x 8, the only ones such tables are used for.                 *)
Full == [b \in DOMAIN Wide |-> Wide[b] \o [i \in 1..39 |-> 0]]

Comment == Marker(M.COM, <<1, 2, 3>>)
Others == Comment \o emit_dac(<<<<1, 33>>>>) \o <<255>> \o Marker(M.APP0 + 1, <<7, 255, 0, 9>>)
            \o emit_marker(M.TEM) \o Marker(M.DNL, <<0, 8>>)

Clean(request) ==
  LET JobOf(c) == [image |-> c.image, file |-> FileOf(c.pieces), damage |-> "none", lost |-> {}]
  IN  JobOf(Compress(request))
Whole2 == Image(Small, Sequence, 1)
CleanImages ==
  <<[Whole2 EXCEPT !.jfif = TRUE, !.extra = Others, !.save = <<<<M.COM, 2>>, <<M.APP0 + 1, 4>>>>,
                   !.saved = <<[marker |-> M.COM, original_length |-> 3, data |-> <<1, 2>>],
                               [marker |-> M.APP0 + 1, original_length |-> 4,
                                data |-> <<7, 255, 0, 9>>]>>],
    [Image(Small, Sequence, 0) EXCEPT !.adobe = TRUE, !.scaled = <<1, 2>>],
    [Image(Full, Sequence, 2) EXCEPT !.optimize = FALSE, !.tables = Given],
    [Image(Wide, Sequence, 0) EXCEPT !.scaled = <<3, 3>>, !.quant[2] = 300],
    [Image(Small, Sequence, 2) EXCEPT !.needed = FALSE],
    Image(Small, Simple, 0), Image(Flat, Progression, 2), Image(Flat, Simple, 0),
    Image(Wide, Progression, 0), Image(Busy, Progression, 0), Image(Busy, Simple, 1),
    Arithmetic(Image(Small, Sequence, 0)), Arithmetic(Image(Long, Sequence, 3)),
    Arithmetic([Image(Wide, Sequence, 0) EXCEPT !.cond = [L |-> 1, U |-> 2, K |-> 3]]),
    Arithmetic([Image(Busy, Progression, 1) EXCEPT !.cond = [L |-> 0, U |-> 1, K |-> 20]]),
    Arithmetic(Image(Wide, Simple, 0))>>

(* The blocks of segment i of a scan.                                       *)
BlocksOf(i, img) == {b \in DOMAIN img.blocks : (b - 1) \div img.restart = i - 1}
LostIn(pieces, P, img) == UNION {{<<pieces[i].scan, b>> : b \in BlocksOf(pieces[i].seg, img)} : i \in P}
DamagedFiles(img, pieces, damage) ==
  LET Segs == {i \in DOMAIN pieces : pieces[i].seg > 0}
      Next2 == {i \in Segs : pieces[i].seg > 1}
      Job(kind, new, P) == [image |-> img, file |-> FileOf(new), damage |-> kind,
                            lost |-> LostIn(pieces, P, img)]
      (* The arithmetic coder drops the zeros at the end of a segment, and  *)
      (* so tells it only by the marker after it.                           *)
      Joined(i) == IF img.arith THEN {i - 1, i} ELSE {i}
      Without(P) == SelectSeq([i \in DOMAIN pieces |-> IF i \in P THEN <<>> ELSE <<pieces[i]>>],
                              LAMBDA s : s # <<>>)
      Pick(P) == LET left == Without(P) IN [i \in DOMAIN left |-> left[i][1]]
      Rewritten(i, rst, bytes) == [pieces EXCEPT ![i].rst = rst, ![i].bytes = bytes]
  IN  IF damage = "lost" THEN {Job(damage, Pick({i}), {i}) : i \in Next2}
      ELSE IF damage = "lost two"
      THEN {Job(damage, Pick({i, i + 1}), {i, i + 1}) : i \in {j \in Next2 : j + 1 \in Next2}}
      ELSE IF damage = "cut" THEN {Job(damage, Rewritten(i, pieces[i].rst, <<>>), {i}) : i \in Segs}
      ELSE IF damage = "twice"
      THEN {Job(damage, SubSeq(pieces, 1, i) \o SubSeq(pieces, i, Len(pieces)), {}) : i \in Next2}
      ELSE IF damage = "other marker"
      THEN {Job(damage, Rewritten(i, <<255, 5>>, pieces[i].bytes), {i}) : i \in Next2}
      ELSE {Job(damage, Rewritten(i, <<16, 32>>, pieces[i].bytes), Joined(i)) : i \in Next2}

Damaged(c, damage) == DamagedFiles(c.image, c.pieces, damage)
DamagedJobs ==
  UNION {Damaged(Compress(img), d) :
           img \in {Image(Long, Sequence, 1), Image(Flat, Progression, 2),
                    Arithmetic(Image(Long, Sequence, 1)), Arithmetic(Image(Flat, Progression, 2))},
           d \in {"lost", "lost two", "cut", "twice", "other marker", "no marker"}}
Nothing == [image |-> Whole2, file |-> <<>>, damage |-> "none", lost |-> {}]
McJobs == {Clean(CleanImages[i]) : i \in DOMAIN CleanImages} \union DamagedJobs \union {Nothing}
McChunks == 1..2

(* What is settled without a file, from few symbols and the counts that     *)
(* make the deepest trees, tables good and bad, and scripts.                *)
Fib[n \in 1..20] == IF n <= 2 THEN n ELSE Fib[n - 1] + Fib[n - 2]
(* The last ones give the rarer of two symbols the shorter code.            *)
Swapped == <<14, 15, 8, 4, 2, 1>> \o [n \in 1..13 |-> 46 * 2^(n - 1)]
McFrequencies ==
  UNION {[1..n -> {1, 2, 3, 5}] : n \in 1..3} \union {[s \in 1..n |-> Fib[n + 1 - s]] : n \in 16..20}
    \union {Swapped}

(* Tables with codes of 1, 2, 3, 5 and 16 bits, good and bad, and one with *)
(* too many.                                                                *)
McTables ==
  {[bits |-> [l \in 1..16 |-> IF l = 1 THEN a ELSE IF l = 2 THEN b ELSE IF l = 3 THEN c
                              ELSE IF l = 5 THEN d ELSE IF l = 16 THEN f ELSE 0],
    vals |-> [p \in 1..a + b + c + d + f |-> p - 1]] :
     a \in 0..2, b \in 0..3, c \in 0..4, d \in {0, 3, 7, 15, 25}, f \in {0, 1, 20}}
    \union {[bits |-> [l \in 1..16 |-> IF l > 14 THEN 130 ELSE 0], vals |-> [p \in 1..260 |-> p % 256]]}
    \union {Given.dc, Given.ac}

(* Scripts of three scans for two components, good and bad, and sequential  *)
(* ones.                                                                    *)
Scans(bands) ==
  {Scan(comps, band[1], band[2], approx[1], approx[2]) :
     comps \in {<<1>>, <<2>>, <<1, 2>>}, band \in bands,
     approx \in {<<0, 0>>, <<0, 1>>, <<0, 2>>, <<1, 0>>, <<2, 1>>, <<2, 0>>}}
McScripts ==
  {[comps |-> 2, scans |-> <<a, b, c>>] :
     a \in Scans({<<0, 0>>}), b, c \in Scans({<<0, 0>>, <<1, 63>>, <<2, 5>>, <<5, 63>>})}
  \union {[comps |-> 2, scans |-> s] :
            s \in UNION {[1..n -> Scans({<<0, 63>>})] : n \in 0..2}}

(* One scan for the DC of all, or one for each.                             *)
McComponents == 1..5

(* The set-ups need no file, and are run through beside one that never      *)
(* begins.                                                                  *)
StreamStep == setup.kind = "none" /\ Next /\ UNCHANGED setup
SetupStep == stream = <<>> /\ SetupNext /\ UNCHANGED vars
McInit == Init /\ SetupInit
McSpec == McInit /\ [][StreamStep \/ SetupStep]_<<vars, setup>>
=========================================================================
