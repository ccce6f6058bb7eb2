---------------------------- MODULE MCMdcsCounter ----------------------------
(* Instances of MdcsCounter for TLC: see counter_reset.cfg.                  *)
EXTENDS MdcsCounter

CONSTANTS x1, x2

MCItem == {x1, x2}
MCBufferSizes == 0..3
=============================================================================
