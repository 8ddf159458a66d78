------------------------ MODULE MCMjpegViewDefault ------------------------
(* MjpegViewDefault for TLC. Views and sources are interchangeable.         *)
EXTENDS MjpegViewDefault, TLC

Symmetry == Permutations(Views) \cup Permutations(Sources)

=============================================================================
