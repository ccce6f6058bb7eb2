------------------------------ MODULE MCUtHash ------------------------------
(* Instances of UtHash for TLC: see uthash.cfg.  The counters a1, a2 and a3 *)
(* meet in one bucket however often the table grows, c1 and c2 leave them   *)
(* with the first expansion, b1 and b2 never meet them.                     *)
EXTENDS UtHash

CONSTANTS a1, a2, a3, b1, b2, c1, c2

A == {a1, a2, a3}
B == {b1, b2}
C == {c1, c2}
MCEntry == A \union B \union C
MCHashValue ==
  [e \in MCEntry |-> CASE e \in A -> 0 [] e \in B -> 1 [] e \in C -> 2]
=============================================================================
