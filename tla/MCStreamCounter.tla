--------------------------- MODULE MCStreamCounter ---------------------------
(* The instance of StreamCounter for TLC: see streams.cfg. *)
EXTENDS StreamCounter, TLC

CONSTANTS r1, r2

MCReader == {r1, r2}
MCItem == 1..MaxPushes
MCBufferSizes == {1, 2}
ReaderSymmetry == Permutations(MCReader)
=============================================================================
