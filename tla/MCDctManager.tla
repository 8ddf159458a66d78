------------------------ MODULE MCDctManager ------------------------
(* The instances of DctManager that TLC checks. *)
EXTENDS DctManager

AllSizes == {<<n, n>> : n \in 1..16} \cup {<<2 * n, n>> : n \in 1..8} \cup {<<n, 2 * n>> : n \in 1..8}
(* The sizes whose row pass is the 12- or the 14-point kernel. *)
MisscaledSizes == {sz \in AllSizes : sz[1] \in {12, 14}}
ScaledSizes == AllSizes \ MisscaledSizes
(* A table that tells rows from columns, coarse enough that rounding to     *)
(* 8-bit samples cannot move a coefficient to another level.                *)
SkewedQuant == [v \in 0..7 |-> [u \in 0..7 |-> 16 + 3 * v + u]]

BothSigns == {3, -3}
========================================================================
