---------------------------- MODULE CounterTable ----------------------------
(***************************************************************************)
(* What mdcs-service.c expects of its table of counters, and what module   *)
(* MdcsService takes for granted when it keeps the table as a set: a       *)
(* counter that is added is there until mdcs_finalize removes it, nothing  *)
(* else ever is, and mdcs_finalize removes every counter, each once.       *)
(***************************************************************************)
CONSTANT Entry

VARIABLES
  entries,    \* the counters in the table
  finalizing  \* whether mdcs_finalize walks the table

vars == << entries, finalizing >>

Init ==
  /\ entries = {}
  /\ finalizing = FALSE

Add(e) ==
  /\ ~finalizing
  /\ e \notin entries
  /\ entries' = entries \union {e}
  /\ UNCHANGED finalizing

Start ==
  /\ ~finalizing
  /\ finalizing' = TRUE
  /\ UNCHANGED entries

Remove(e) ==
  /\ finalizing
  /\ e \in entries
  /\ entries' = entries \ {e}
  /\ UNCHANGED finalizing

(* The walk ends only when nothing is left. *)
End ==
  /\ finalizing
  /\ entries = {}
  /\ finalizing' = FALSE
  /\ UNCHANGED entries

Next ==
  \/ \E e \in Entry : Add(e) \/ Remove(e)
  \/ Start
  \/ End

(* Counters come and go one by one, and only in these ways. *)
Safety == Init /\ [][Next]_vars

(* A finalization that has begun removes all and ends. *)
Spec ==
  /\ Safety
  /\ WF_vars(\E e \in Entry : Remove(e))
  /\ WF_vars(End)
=============================================================================
