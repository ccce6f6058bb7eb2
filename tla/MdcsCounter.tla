----------------------------- MODULE MdcsCounter -----------------------------
(***************************************************************************)
(* The life of one counter after mdcs_counter_register: the calls          *)
(* mdcs_counter_push, _digest, _value and _reset in any order, on a        *)
(* service that stays initialised (module MdcsService has the calls that   *)
(* fail, and those that end the counter's life).  No call yields, so under *)
(* one execution stream each of them is one step.                          *)
(***************************************************************************)
EXTENDS Counter

CONSTANTS
  BufferSizes,  \* the buffer_size arguments given to mdcs_counter_register
  NoValue,      \* what the caller's value variable holds before any read
  MaxLog        \* bound: no push once a read would return this many items

ASSUME CounterAssumption ==
  /\ BufferSizes \subseteq Nat
  /\ MaxLog \in Nat

VARIABLES
  counter,  \* the counter
  out,      \* the value the last mdcs_counter_value returned
  log,      \* history: every item pushed and not dropped by a reset, in order
  stale,    \* history: how many items of log were pushed before the last reset
  seen      \* history: how many items of log a read has returned already

vars == << counter, out, log, stale, seen >>

(* mdcs_counter_register has called create_f, then mdcs_counter_reset. *)
Init ==
  /\ \E n \in BufferSizes : counter = WasReset(Allocated(n))
  /\ out = NoValue
  /\ log = << >>
  /\ stale = 0
  /\ seen = 0

Push(x) ==
  /\ Len(log) < MaxLog
  /\ counter' = Pushed(counter, x)
  /\ log' = Append(log, x)
  /\ UNCHANGED << out, stale, seen >>

Digest ==
  /\ counter' = Digested(counter)
  /\ UNCHANGED << out, log, stale, seen >>

(* Two mistakes in mdcs_counter_value, for the mutants of PROJECT.json: it   *)
(* forgets the digest, or reads through a digested copy.                     *)
ValueUndigested ==
  /\ out' = counter.data
  /\ seen' = Len(log)
  /\ UNCHANGED << counter, log, stale >>

ValueOfCopy ==
  /\ out' = Digested(counter).data
  /\ seen' = Len(log)
  /\ UNCHANGED << counter, log, stale >>

Value ==
  /\ counter' = Digested(counter)
  /\ out' = Digested(counter).data
  /\ seen' = Len(log)
  /\ UNCHANGED << log, stale >>

(* A reset that forgets the absorbed items only: those still in the buffer *)
(* stay, now older than the reset.                                         *)
Reset ==
  /\ counter' = WasReset(counter)
  /\ log' = Buffered(counter)
  /\ stale' = counter.num_buffered
  /\ seen' = LET dropped == Len(log) - counter.num_buffered
             IN  IF seen > dropped THEN seen - dropped ELSE 0
  /\ UNCHANGED out

Next ==
  \/ \E x \in Item : Push(x)
  \/ Digest
  \/ Value
  \/ Reset

Spec == Init /\ [][Next]_vars

-----------------------------------------------------------------------------
(* Every field has its type, the buffer has exactly max_buffer_size slots   *)
(* and never counts more items than it has slots (struct mdcs_counter_s).   *)
TypeOK ==
  /\ counter \in CounterRecord
  /\ Len(counter.buffer) = counter.max_buffer_size
  /\ counter.max_buffer_size \in BufferSizes
  /\ counter.num_buffered <= counter.max_buffer_size
  /\ log \in Seq(Item)
  /\ out \in Seq(Item) \union {NoValue}
  /\ stale \in 0..Len(log)
  /\ seen \in 0..Len(log)

(* Buffering loses, repeats and reorders nothing, and absorbs neither an     *)
(* unwritten slot nor a slot left over from before a digest: the absorbed    *)
(* items followed by the buffered ones are exactly the items pushed and not  *)
(* dropped, through every order of pushes, digests, reads and resets         *)
(* (mdcs_counter_push, mdcs_counter_digest).                                 *)
BufferTransparent == Content(counter) = log

(* A client that reads a counter and then resets it counts nothing twice: an *)
(* item that a read has returned never survives a later reset, though one    *)
(* pushed between the read and the reset may (mdcs_counter_value leaves the  *)
(* buffer empty, mdcs_counter_reset keeps what is in it).                    *)
ReadItemsDoNotSurvive == [][Reset => seen' = 0]_vars

(* A call of mdcs_counter_value returns every item of the log, whatever is   *)
(* still in the buffer when it is called, and it moves none of them          *)
(* (mdcs.h: "there is no need for the user to do it before").                *)
ReadIsComplete ==
  [][Value => out' = log /\ Content(counter') = log]_vars

(* What mdcs.h:166 says of mdcs_counter_reset ("This will also erase the     *)
(* content of the buffer, if any"): a read returns no item that was pushed   *)
(* before the last reset.                                                    *)
ReadsSinceReset == [][Value => stale = 0]_vars

(* The counter implements the abstract counter: its lag is what is in the    *)
(* buffer, its window the size of the buffer.                                *)
Abstract ==
  INSTANCE CounterSpec WITH
    log    <- log,
    lag    <- counter.num_buffered,
    window <- counter.max_buffer_size,
    out    <- out

Promise == Abstract!Spec
=============================================================================
