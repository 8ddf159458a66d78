--------------------------- MODULE MCWheelScroll ---------------------------
(* WheelScroll for TLC: three items at most, two of them in view; moves of  *)
(* less than half an item, of about one and of more than the view.          *)
EXTENDS WheelScroll

SomeMoves  == {-12, -4, -1, 2, 7}
SomeFlings == {-9, 6}

=============================================================================
