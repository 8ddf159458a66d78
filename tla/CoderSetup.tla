--------------------------- MODULE CoderSetup ---------------------------
(* What is settled before a scan is coded or decoded, from whatever the     *)
(* application, the image or the file brings: the script of the scans       *)
(* (jinit_c_master_control), a table made for the symbols of a scan         *)
(* (finish_pass_gather), and what the decoder derives from a table that a   *)
(* file defines (start_pass_huff_decoder).  Each is one step; of what it    *)
(* was made from, setup keeps what the properties compare it with.          *)
EXTENDS OptimalTable, ScanScripts

CONSTANTS Frequencies,  \* the counts of a scan's symbols
          Tables,       \* the bits and values of a table
          Scripts,      \* [comps, scans]: scan scripts and their numbers of components
          Components    \* how many components jpeg_simple_progression is called for

(* The coders use at most 176 different symbols, and the table counts its   *)
(* codes in bytes; the search for the rarest symbol looks no further than   *)
(* MAX_WEIGHT.                                                              *)
ASSUME FrequenciesAssumption ==
  \A freq \in Frequencies :
    /\ DOMAIN freq \subseteq 0..255 /\ Cardinality(DOMAIN freq) \in 1..254
    /\ freq \in [DOMAIN freq -> Nat \ {0}]
    /\ Cardinality(Occurrences(freq)) < MAX_WEIGHT
ASSUME TablesAssumption == \A tbl \in Tables : tbl.bits \in [1..16 -> 0..255]
ASSUME ScriptsAssumption ==
  \A s \in Scripts :
    /\ s.comps \in Nat
    /\ s.scans \in Seq([comps : Seq(Int), Ss : Int, Se : Int, Ah : Int, Al : Int])

ASSUME ComponentsAssumption == Components \subseteq 1..MAX_COMPONENTS

VARIABLE setup  \* what has been settled, with what it was made from; .kind says what

SetupInit == setup = [kind |-> "none"]
Refuse == setup' = [kind |-> "refused", simple |-> FALSE]

(* The application's own script, or the library's.                          *)
set_scan_info ==
  /\ setup.kind = "none"
  /\ \E s \in Scripts :
       setup' = [kind |-> "asked", simple |-> FALSE, comps |-> s.comps, scans |-> s.scans]
simple_progression ==
  /\ setup.kind = "none"
  /\ \E n \in Components, ycc \in BOOLEAN :
       setup' = [kind |-> "asked", simple |-> TRUE, comps |-> n,
                 scans |-> jpeg_simple_progression(n, ycc)]

(* Blocks smaller than 8 x 8 end at coefficient lim.                        *)
settle_script ==
  /\ setup.kind = "asked"
  /\ IF ~validate_script(setup.scans, setup.comps)
     THEN setup' = [kind |-> "refused", simple |-> setup.simple]
     ELSE \E lim \in Limits :
            setup' = [kind |-> "scans", simple |-> setup.simple, comps |-> setup.comps,
                      asked |-> setup.scans, lim |-> lim,
                      progressive |-> progressive_mode(setup.scans),
                      scans |-> IF lim < DCTSIZE2 - 1 THEN reduce_script(setup.scans, lim)
                                ELSE setup.scans]

(* JERR_HUFF_CLEN_OVERFLOW, if the tree is too deep.                        *)
make_optimal_table ==
  /\ setup.kind = "none"
  /\ \E freq \in Frequencies : \E size \in {codesizes(Counted(freq))} :
       IF \E s \in DOMAIN size : size[s] > MAX_CLEN THEN Refuse
       ELSE setup' = [kind |-> "optimal", freq |-> freq, size |-> size, tbl |-> TableOf(size)]

derive_table ==
  /\ setup.kind = "none"
  /\ \E tbl \in Tables :
       IF BadTable(tbl, FALSE) THEN Refuse
       ELSE setup' = [kind |-> "derived", tbl |-> tbl, derived |-> DerivedTbl(tbl)]

SetupNext ==
  \/ derive_table \/ make_optimal_table
  \/ simple_progression \/ set_scan_info \/ settle_script
SetupSpec == SetupInit /\ [][SetupNext]_setup

--------------------------------------------------------------------------
(* ScriptsDecode: a script the compressor accepts is one the decoder takes  *)
(* scan after scan without an error or a warning, also after its reduction  *)
(* to smaller blocks, and brings every coefficient there is to the bit the  *)
(* script was to bring it to; those of jpeg_simple_progression are never    *)
(* refused, and bring every one to its last bit.                            *)
ScriptsDecode ==
  /\ setup.kind = "refused" => ~setup.simple
  /\ setup.kind = "scans" =>
       /\ setup.simple => setup.progressive
       /\ setup.progressive =>
            /\ Decodable(setup.scans, setup.lim)
            /\ \A c \in 1..setup.comps :
                 BitsAfter(setup.scans, Len(setup.scans), c, setup.lim)
                   = [k \in 0..setup.lim |->
                        IF setup.simple THEN 0
                        ELSE last_bitpos(setup.asked, Len(setup.asked) + 1, c, k)]

(* TablesAreCodes: an optimal table, whatever the counts, has all symbols,  *)
(* is one both sides accept (so no code is all ones), has prefix-free codes *)
(* of at most 16 bits, and gives no symbol a longer code than a rarer one;  *)
(* only when codes had to be shortened may two symbols change places that   *)
(* the tree gave the same length.                                           *)
TablesAreCodes ==
  setup.kind = "optimal" =>
    LET freq == setup.freq
        size == setup.size
    IN  /\ ~BadTable(setup.tbl, FALSE)
        /\ \E codes \in {CodesOf(setup.tbl)} :
             /\ DOMAIN codes = DOMAIN freq
             /\ \A s \in DOMAIN freq : Len(codes[s]) \in 1..16
             /\ \A s, t \in DOMAIN freq : s # t => ~IsPrefix(codes[s], codes[t])
             /\ \A s, t \in DOMAIN freq :
                  freq[s] > freq[t] =>
                    \/ Len(codes[s]) <= Len(codes[t])
                    \/ size[s] = size[t] /\ \E q \in DOMAIN size : size[q] > 16

(* CodesAreFound: of every table that is not refused, also one that comes   *)
(* with a file, a decoder that takes a code bit by bit finds it at its      *)
(* length and not before, and in its place among the values, and no code is *)
(* all ones (jpeg_huff_decode on what jpeg_make_d_derived_tbl made).        *)
CodesAreFound ==
  setup.kind = "derived" =>
    \E size \in {huffsize(setup.tbl)} : \E code \in {huffcode(size)} :
      LET maxcode == setup.derived.maxcode
          valoffset == setup.derived.valoffset
      IN  \A p \in DOMAIN size :
            /\ \A k \in 1..size[p] - 1 : code[p] \div 2^(size[p] - k) > maxcode[k]
            /\ code[p] <= maxcode[size[p]] /\ code[p] + valoffset[size[p]] = p
            /\ code[p] + 1 < 2^size[p]
=========================================================================
