--------------------------- MODULE StreamCounter ---------------------------
(***************************************************************************)
(* One counter on several execution streams.  mdcs_init takes a pool for   *)
(* the RPC handlers, and nothing in mdcs-service.c locks a counter: when   *)
(* the pool is served by other streams than the application's, a fetch     *)
(* digests the buffer while the application pushes.  The calls of module   *)
(* MdcsCounter are split here into their loads and stores of num_buffered  *)
(* and of the buffer.                                                      *)
(*                                                                         *)
(* One stream pushes, the others read and digest.  The counter has a       *)
(* buffer: without one a push is a single push_one_f.  Its type does       *)
(* push_one_f and get_value_f atomically, as a user's type can with a      *)
(* lock, and an item is stored in one piece.  Stores reach the other       *)
(* streams in the order of the program; where the compiler may keep a      *)
(* value instead of loading it again, both happen.  Nobody resets the      *)
(* counter: the items of the model are the ones since its last reset.      *)
(***************************************************************************)
EXTENDS Counter, FiniteSets, Functions

CONSTANTS
  Pusher,      \* the stream of the application
  Reader,      \* the streams of the handlers
  BufferSizes, \* the buffer_size arguments of mdcs_counter_register
  MaxPushes    \* bound: the number of pushes

ASSUME StreamAssumption ==
  /\ Pusher \notin Reader
  /\ BufferSizes \subseteq Nat \ {0}
  /\ MaxPushes \in Nat
  /\ Item = 1..MaxPushes  \* an item is the number of its push

Stream == {Pusher} \union Reader

VARIABLES
  counter, \* the counter
  multi,   \* what its type's push_multi_f does with a batch
  pc,      \* where each stream is in its call
  n,       \* the num_buffered that each stream loaded last
  i,       \* how many items its digest has handed over
  op,      \* "value" or "digest", the call of a reader; "push" for the pusher
  pushed,  \* history: the pushes that have returned
  due,     \* history: the pushes that had returned when a reader's call began
  dirty,   \* history: the streams under whose calls num_buffered was changed
  raced    \* history: whether such a stream then stored num_buffered itself

vars == << counter, multi, pc, n, i, op, pushed, due, dirty, raced >>

(* Its type has no push_multi_f, or one that goes through the items of the   *)
(* batch, or one that takes items[count-1], as the LAST types do.            *)
MultiKind == {"none", "each", "last"}

Init ==
  /\ \E size \in BufferSizes : counter = WasReset(Allocated(size))
  /\ multi \in MultiKind
  /\ pc = [s \in Stream |-> "idle"]
  /\ n = [s \in Stream |-> 0]
  /\ i = [s \in Stream |-> 0]
  /\ op = [s \in Stream |-> IF s = Pusher THEN "push" ELSE "value"]
  /\ pushed = 0
  /\ due = [r \in Reader |-> 0]
  /\ dirty = {}
  /\ raced = FALSE

Goes(s, from, to) == pc[s] = from /\ pc' = [pc EXCEPT ![s] = to]

(* The stream loads num_buffered, the start of what it will do with it. *)
Loads(s) == n' = [n EXCEPT ![s] = counter.num_buffered] /\ dirty' = dirty \ {s}

(* The stream stores num_buffered, under the calls of those that loaded it. *)
Stores(s) ==
  /\ raced' = (raced \/ s \in dirty)
  /\ dirty' = (dirty \union {t \in Stream : pc[t] # "idle"}) \ {s}

(* The locals of a function end with it. *)
Ends(s) == n' = [n EXCEPT ![s] = 0] /\ i' = [i EXCEPT ![s] = 0]

-----------------------------------------------------------------------------
(* mdcs_counter_push *)

(* A mistake, for the mutants of PROJECT.json: a full buffer is not digested. *)
PushStartWhenFull ==
  /\ pushed < MaxPushes
  /\ Goes(Pusher, "idle", "slot")
  /\ Loads(Pusher)
  /\ UNCHANGED << counter, multi, i, op, pushed, due, raced >>

(* num_buffered == max_buffer_size: a full buffer is digested. *)
PushStart ==
  /\ pushed < MaxPushes
  /\ Goes(Pusher, "idle", IF IsFull(counter) THEN "digest" ELSE "slot")
  /\ Loads(Pusher)
  /\ UNCHANGED << counter, multi, i, op, pushed, due, raced >>

(* The slot's address; the num_buffered of the comparison may serve again. *)
PushSlot ==
  /\ Goes(Pusher, "slot", "copy")
  /\ \/ Loads(Pusher)
     \/ n[Pusher] < counter.max_buffer_size /\ UNCHANGED << n, dirty >>
  /\ UNCHANGED << counter, multi, i, op, pushed, due, raced >>

(* memcpy *)
PushCopy ==
  /\ Goes(Pusher, "copy", "load")
  /\ counter' = [counter EXCEPT !.buffer[n[Pusher] + 1] = pushed + 1]
  /\ UNCHANGED << multi, n, i, op, pushed, due, dirty, raced >>

(* num_buffered += 1 *)
PushLoad ==
  /\ Goes(Pusher, "load", "store")
  /\ n' = [n EXCEPT ![Pusher] = counter.num_buffered]
  /\ UNCHANGED << counter, multi, i, op, pushed, due, dirty, raced >>

PushStore ==
  /\ Goes(Pusher, "store", "idle")
  /\ counter' = [counter EXCEPT !.num_buffered = n[Pusher] + 1]
  /\ Stores(Pusher)
  /\ pushed' = pushed + 1
  /\ Ends(Pusher)
  /\ UNCHANGED << multi, op, due >>

-----------------------------------------------------------------------------
(* mdcs_counter_value, from a fetch, and mdcs_counter_digest *)
Call(r, call) ==
  /\ Goes(r, "idle", "digest")
  /\ op' = [op EXCEPT ![r] = call]
  /\ due' = [due EXCEPT ![r] = pushed]
  /\ dirty' = dirty \ {r}
  /\ UNCHANGED << counter, multi, n, i, pushed, raced >>

(* Where a stream goes on after its digest. *)
Then(s) == CASE op[s] = "push" -> "slot" [] op[s] = "value" -> "get" [] OTHER -> "idle"

(* A mistake, for the mutants: the buffer is emptied before it is absorbed. *)
DigestStartByEmptying(s) ==
  /\ Goes(s, "digest", IF counter.num_buffered = 0 THEN Then(s)
                       ELSE IF multi # "none" THEN "count" ELSE "bound")
  /\ Loads(s)
  /\ i' = [i EXCEPT ![s] = 0]
  /\ counter' = [counter EXCEPT !.num_buffered = 0]
  /\ UNCHANGED << multi, op, pushed, due, raced >>

(* num_buffered != 0, then push_multi_f or the loop of push_one_f.  That     *)
(* mdcs_counter_value makes the same comparison just before adds no outcome. *)
DigestStart(s) ==
  /\ Goes(s, "digest", IF counter.num_buffered = 0 THEN Then(s)
                       ELSE IF multi # "none" THEN "count" ELSE "bound")
  /\ Loads(s)
  /\ i' = [i EXCEPT ![s] = 0]
  /\ UNCHANGED << counter, multi, op, pushed, due, raced >>

(* A mistake, for the mutants: push_multi_f is given every slot. *)
DigestCountSlots(s) ==
  /\ Goes(s, "count", "absorb")
  /\ n' = [n EXCEPT ![s] = counter.max_buffer_size]
  /\ UNCHANGED << counter, multi, i, op, pushed, due, dirty, raced >>

(* The count that push_multi_f is given, loaded again or not. *)
DigestCount(s) ==
  /\ Goes(s, "count", "absorb")
  /\ n' \in {n, [n EXCEPT ![s] = counter.num_buffered]}
  /\ UNCHANGED << counter, multi, i, op, pushed, due, dirty, raced >>

(* The condition of the loop loads num_buffered each time; the first time the *)
(* value compared with 0 may serve again.                                     *)
DigestBound(s) ==
  /\ Goes(s, "bound", "absorb")
  /\ \/ n' = [n EXCEPT ![s] = counter.num_buffered]
     \/ i[s] = 0 /\ UNCHANGED n
  /\ UNCHANGED << counter, multi, i, op, pushed, due, dirty, raced >>

(* The next item is read from the buffer and handed over. *)
DigestAbsorb(s) ==
  /\ i[s] < n[s]
  /\ Goes(s, "absorb", IF multi # "none" THEN "absorb" ELSE "bound")
  /\ counter' = [counter EXCEPT !.data = Append(@, counter.buffer[i[s] + 1])]
  /\ i' = [i EXCEPT ![s] = @ + 1]
  /\ UNCHANGED << multi, n, op, pushed, due, dirty, raced >>

(* items[count-1] of no items, for a count that was not 0 when it was compared *)
(* and is 0 when it is loaded again.                                           *)
BeforeBuffer(s) == multi = "last" /\ n[s] = 0 /\ i[s] = 0

(* The LAST types then take what lies before the buffer for an item. *)
DigestOutside(s) ==
  /\ BeforeBuffer(s)
  /\ Goes(s, "absorb", "absorb")
  /\ counter' = [counter EXCEPT !.data = Append(@, Garbage)]
  /\ i' = [i EXCEPT ![s] = 1]
  /\ UNCHANGED << multi, n, op, pushed, due, dirty, raced >>

(* Mistakes, for the mutants: the count stays, or what was absorbed is      *)
(* subtracted from it.                                                      *)
DigestStoreForgotten(s) ==
  /\ i[s] >= n[s] /\ ~BeforeBuffer(s)
  /\ Goes(s, "absorb", Then(s))
  /\ Ends(s)
  /\ UNCHANGED << counter, multi, op, pushed, due, dirty, raced >>

DigestStoreDifference(s) ==
  /\ i[s] >= n[s] /\ ~BeforeBuffer(s)
  /\ Goes(s, "absorb", Then(s))
  /\ counter' = [counter EXCEPT !.num_buffered = @ - n[s]]
  /\ Stores(s)
  /\ Ends(s)
  /\ UNCHANGED << multi, op, pushed, due >>

(* num_buffered = 0 *)
DigestStore(s) ==
  /\ i[s] >= n[s] /\ ~BeforeBuffer(s)
  /\ Goes(s, "absorb", Then(s))
  /\ counter' = [counter EXCEPT !.num_buffered = 0]
  /\ Stores(s)
  /\ Ends(s)
  /\ UNCHANGED << multi, op, pushed, due >>

(* get_value_f returns the data. *)
Get(r) ==
  /\ Goes(r, "get", "idle")
  /\ UNCHANGED << counter, multi, n, i, op, pushed, due, dirty, raced >>

Next ==
  \/ PushStart \/ PushSlot \/ PushCopy \/ PushLoad \/ PushStore
  \/ \E r \in Reader : Call(r, "value") \/ Call(r, "digest") \/ Get(r)
  \/ \E s \in Stream :
       \/ DigestStart(s) \/ DigestCount(s) \/ DigestBound(s)
       \/ DigestAbsorb(s) \/ DigestOutside(s) \/ DigestStore(s)

Spec == Init /\ [][Next]_vars

-----------------------------------------------------------------------------
(* The types of the state. *)
TypeOK ==
  /\ counter \in CounterRecord
  /\ n \in [Stream -> Nat] /\ i \in [Stream -> Nat]
  /\ pushed \in 0..MaxPushes
  /\ dirty \subseteq Stream

(* However the readers' digests interleave with a push, the pusher writes no *)
(* slot outside the buffer and num_buffered counts no more items than the    *)
(* buffer has slots: the readers only ever lower what the pusher checked     *)
(* (mdcs_counter_push).                                                      *)
SlotsInBounds ==
  /\ pc[Pusher] = "copy" => n[Pusher] < counter.max_buffer_size
  /\ counter.num_buffered <= counter.max_buffer_size

(* No slot is read that nobody has written, for an item is in its slot       *)
(* before it is counted: what a race adds to the data that nobody pushed, it *)
(* adds to the LAST types only, when another call empties the buffer between *)
(* the comparison of num_buffered with 0 and the call of push_multi_f.  The  *)
(* call that took it then stores num_buffered over the change it missed.     *)
NothingInvented ==
  Garbage \in Range(counter.data) =>
    /\ multi = "last"
    /\ raced \/ \E s \in dirty : pc[s] = "absorb" /\ i[s] > n[s]

(* What the races can cost is limited to one pattern: unless a call stored   *)
(* num_buffered although another had changed it since this call looked, no   *)
(* item is lost, repeated or reordered, however the calls overlapped.        *)
ExactUnlessRaced ==
  (\A s \in Stream : pc[s] = "idle") /\ ~raced
  => Content(counter) = [k \in 1..pushed |-> k]

(* Without that pattern a fetch returns every item whose push had returned   *)
(* when the fetch began, also when it finds the buffer empty or in the       *)
(* middle of another stream's digest.                                        *)
ReadIsComplete ==
  [][\A r \in Reader : Get(r) /\ ~raced => 1..due[r] \subseteq Range(counter.data)]_vars
=============================================================================
