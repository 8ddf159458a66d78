-------------------------- MODULE OptimalTable --------------------------
(* jpeg_gen_optimal_table (jchuff.c): from the counts of the symbols used,  *)
(* a table whose codes have at most 16 bits.                                *)
(* A count is a function from symbols to how often each occurs.             *)
EXTENDS HuffmanTables

MAX_CLEN == 32          \* the longest code before it is shortened
PSEUDO == 256           \* stands for the code of all ones, which no symbol may have
MAX_WEIGHT == 1000000000  \* the search for the rarest symbol looks no further

(* One pair for each time a symbol is coded.                                *)
Occurrences(freq) == UNION {{s} \X (1..freq[s]) : s \in DOMAIN freq}

--------------------------------------------------------------------------
(* A forest, known by its roots, with a count and the leaves for each root  *)
(* and for each symbol its depth.                                           *)
Counted(freq) == [s \in DOMAIN freq \union {PSEUDO} |-> IF s = PSEUDO THEN 1 ELSE freq[s]]
Seedlings(counted) ==
  [roots |-> DOMAIN counted, freq |-> counted, leaves |-> [s \in DOMAIN counted |-> {s}],
   codesize |-> [s \in DOMAIN counted |-> 0]]

(* The rarest of S; in case of ties, the larger symbol number.              *)
Rarer(freq, i, j) == freq[i] < freq[j] \/ (freq[i] = freq[j] /\ i > j)
Least(freq, S) == CHOOSE i \in S : \A j \in S \ {i} : Rarer(freq, i, j)
Merge(t) ==
  LET found == {r \in t.roots : t.freq[r] <= MAX_WEIGHT}
      c1 == Least(t.freq, found)
      c2 == Least(t.freq, found \ {c1})
      both == t.leaves[c1] \union t.leaves[c2]
  IN  IF Cardinality(found) < 2 THEN t
      ELSE [roots |-> t.roots \ {c2},
            freq |-> [t.freq EXCEPT ![c1] = @ + t.freq[c2]],
            leaves |-> [t.leaves EXCEPT ![c1] = both],
            codesize |-> [s \in DOMAIN t.codesize |-> t.codesize[s] + IF s \in both THEN 1 ELSE 0]]

(* A merge takes one root away.                                             *)
codesizes(counted) ==
  LET last == Cardinality(DOMAIN counted) - 1
      forest[n \in 0..last] == IF n = 0 THEN Seedlings(counted) ELSE Merge(forest[n - 1])
  IN  forest[last].codesize

(* Codes of more than 16 bits go in pairs: one takes their common prefix,   *)
(* the other moves under a shorter code.                                    *)
MovePair(bits, i) ==
  LET j == Max({l \in 1..i - 2 : bits[l] > 0})
      shorter == [bits EXCEPT ![i] = @ - 2, ![i - 1] = @ + 1]
  IN  [shorter EXCEPT ![j + 1] = @ + 2, ![j] = @ - 1]
Emptied(bits, i) ==
  LET pairs == (bits[i] + 1) \div 2
      moved[k \in 0..pairs] == IF k = 0 THEN bits ELSE MovePair(moved[k - 1], i)
  IN  moved[pairs]
(* A defect for TablesAreCodes: codes of 17 bits stay.                      *)
Mutant_Limit(bits) ==
  LET left[n \in 0..MAX_CLEN - 17] == IF n = 0 THEN bits ELSE Emptied(left[n - 1], MAX_CLEN + 1 - n)
  IN  left[MAX_CLEN - 17]
Limit(bits) ==
  LET left[n \in 0..MAX_CLEN - 16] == IF n = 0 THEN bits ELSE Emptied(left[n - 1], MAX_CLEN + 1 - n)
  IN  left[MAX_CLEN - 16]

Shortened(limited) ==
  LET longest == Max({l \in 1..16 : limited[l] > 0})
  IN  [l \in 1..16 |-> IF l = longest THEN limited[l] - 1 ELSE limited[l]]

(* The values are the symbols by the length the tree gave them.             *)
Precedes(codesize, q, s) == codesize[q] < codesize[s] \/ (codesize[q] = codesize[s] /\ q < s)
TableOf(codesize) ==
  LET symbols == DOMAIN codesize \ {PSEUDO}
      OfSize(l) == Cardinality({s \in DOMAIN codesize : codesize[s] = l})
      Rank(s) == 1 + Cardinality({q \in symbols : Precedes(codesize, q, s)})
  IN  [bits |-> Shortened(Limit([l \in 1..MAX_CLEN |-> OfSize(l)])),
       vals |-> [p \in 1..Cardinality(symbols) |-> CHOOSE s \in symbols : Rank(s) = p]]
jpeg_gen_optimal_table(freq) == TableOf(codesizes(Counted(freq)))
========================================================================
