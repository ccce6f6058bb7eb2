----------------------------- MODULE CounterSpec -----------------------------
(***************************************************************************)
(* What one counter promises its callers.  A counter is a log of the       *)
(* pushed items; reading returns the whole log.  Nothing is said of        *)
(* buffers: only that, between two reads, up to window items may lag       *)
(* behind, and that a reset drops the log except for the items that lag.   *)
(* A counter without a lag window drops everything.                        *)
(***************************************************************************)
EXTENDS Integers, Sequences

CONSTANTS Item, NoValue

VARIABLES
  log,     \* the items a read returns now, oldest first
  lag,     \* how many of the last items of the log a reset would spare
  window,  \* the most items that may ever lag; fixed when the counter is made
  out      \* the last value read

vars == << log, lag, window, out >>

Init ==
  /\ log = << >>
  /\ lag = 0
  /\ window \in Nat
  /\ out = NoValue

Push(x) ==
  /\ log' = Append(log, x)
  /\ lag' \in 0..window
  /\ lag' <= lag + 1
  /\ UNCHANGED << window, out >>

CatchUp ==
  /\ lag' = 0
  /\ UNCHANGED << log, window, out >>

Read ==
  /\ out' = log
  /\ lag' = 0
  /\ UNCHANGED << log, window >>

Reset ==
  /\ log' = SubSeq(log, Len(log) - lag + 1, Len(log))
  /\ UNCHANGED << lag, window, out >>

Next ==
  \/ \E x \in Item : Push(x)
  \/ CatchUp
  \/ Read
  \/ Reset

Spec == Init /\ [][Next]_vars
=============================================================================
