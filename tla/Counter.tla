------------------------------- MODULE Counter -------------------------------
(***************************************************************************)
(* One counter (struct mdcs_counter_s) and what the functions of           *)
(* mdcs-service.c do to it, as operators from counter to counter.          *)
(*                                                                         *)
(* A counter type is reached only through its function pointers, so the    *)
(* internal data is modelled by the most general counter type: the         *)
(* sequence of the items it absorbed since its last reset_f.  push_one_f   *)
(* appends, push_multi_f (or the loop that replaces it) appends a batch,   *)
(* get_value_f returns the sequence.  The data of every real type is a     *)
(* function of that sequence; module CounterTypes says which one.          *)
(***************************************************************************)
EXTENDS Integers, Sequences

CONSTANTS
  Item,      \* the items an application pushes
  Garbage    \* the content of memory that malloc returned and nobody wrote

ASSUME GarbageAssumption == Garbage \notin Item

Memory == Item \union {Garbage}

(* The slots 1..max_buffer_size of the buffer keep what was last written in *)
(* them: digesting a buffer leaves its slots alone.                         *)
CounterRecord ==
  [ data            : Seq(Memory),
    buffer          : Seq(Memory),
    max_buffer_size : Nat,
    num_buffered    : Nat ]

(* A mistake, for the mutants of PROJECT.json: the buffer is a slot short. *)
AllocatedShort(buffer_size) ==
  [ data            |-> << Garbage >>,
    buffer          |-> [i \in 1..buffer_size - 1 |-> Garbage],
    max_buffer_size |-> buffer_size,
    num_buffered    |-> 0 ]

(* malloc, create_f and the assignments that follow them: neither the data *)
(* nor the buffer is initialised.                                          *)
Allocated(buffer_size) ==
  [ data            |-> << Garbage >>,
    buffer          |-> [i \in 1..buffer_size |-> Garbage],
    max_buffer_size |-> buffer_size,
    num_buffered    |-> 0 ]

Buffered(c) == SubSeq(c.buffer, 1, c.num_buffered)

(* What a reader is entitled to: the absorbed items, then the buffered ones. *)
Content(c) == c.data \o Buffered(c)

-----------------------------------------------------------------------------
(* Plausible mistakes in the two functions below, for the mutants of        *)
(* PROJECT.json: a digest that leaves the buffer full, and one that absorbs *)
(* every slot of the buffer.                                                *)

DigestedAgain(c) == [c EXCEPT !.data = @ \o Buffered(c)]

DigestedWhole(c) ==
  IF c.num_buffered # 0
  THEN [c EXCEPT !.data = @ \o c.buffer, !.num_buffered = 0]
  ELSE c

-----------------------------------------------------------------------------

(* mdcs_counter_digest: one push_multi_f of the num_buffered items, or the *)
(* loop of push_one_f in buffer order when the type has no push_multi_f.   *)
Digested(c) ==
  IF c.num_buffered # 0
  THEN [c EXCEPT !.data = @ \o Buffered(c), !.num_buffered = 0]
  ELSE c

(* mdcs_counter_reset calls reset_f and nothing else. *)
WasReset(c) == [c EXCEPT !.data = << >>]

IsFull(c) ==
  /\ c.num_buffered = c.max_buffer_size
  /\ c.max_buffer_size # 0

Stored(c, x) ==
  IF c.max_buffer_size # 0
  THEN [c EXCEPT !.buffer[c.num_buffered + 1] = x, !.num_buffered = @ + 1]
  ELSE [c EXCEPT !.data = Append(@, x)]

(* A mistake in mdcs_counter_push, for the mutants: a full buffer starts    *)
(* over at its first slot without a digest.                                 *)
PushedWithoutDigest(c, x) ==
  IF IsFull(c)
  THEN [c EXCEPT !.buffer[1] = x, !.num_buffered = 1]
  ELSE Stored(c, x)

(* mdcs_counter_push: digest a full buffer, then store the item in the next *)
(* slot, or hand it to push_one_f when the counter has no buffer.           *)
Pushed(c, x) == Stored(IF IsFull(c) THEN Digested(c) ELSE c, x)
=============================================================================
