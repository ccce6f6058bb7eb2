--------------------------- MODULE MCTypedCounter ---------------------------
(* Instances of TypedCounter for TLC: see counter.cfg and types_avg.cfg.    *)
(* The items are both ends of the range, whose squares and whose distance  *)
(* overflow, and a negative one whose square fits.                         *)
EXTENDS TypedCounter

MCItem == {MinInt, -2, MaxInt}
MCBufferSizes == 0..3
=============================================================================
