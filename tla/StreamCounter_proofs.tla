------------------------ MODULE StreamCounter_proofs ------------------------
(***************************************************************************)
(* What holds of a counter on several execution streams, for every number  *)
(* of readers, every set of buffer sizes and every number of pushes.       *)
(***************************************************************************)
EXTENDS StreamCounter, Counter_proofs

Pushing == {"slot", "copy", "load", "store"}
Absorbing == {"count", "bound", "absorb"}
Label == {"idle", "digest", "get"} \union Pushing \union Absorbing

(* The types of the state in full: what each stream may be doing, and the   *)
(* buffer's length.                                                         *)
Typed ==
  /\ TypeOK
  /\ multi \in MultiKind /\ raced \in BOOLEAN
  /\ pc \in [Stream -> Label]
  /\ op \in [Stream -> {"push", "value", "digest"}]
  /\ due \in [Reader -> Nat]
  /\ op[Pusher] = "push" /\ pc[Pusher] # "get"
  /\ \A r \in Reader : op[r] # "push" /\ pc[r] \notin Pushing /\ due[r] <= pushed
  /\ pc[Pusher] # "idle" => pushed < MaxPushes
  /\ Len(counter.buffer) = counter.max_buffer_size
  /\ counter.max_buffer_size # 0

(* The first k slots of the buffer have been written. *)
Filled(k) == \A j \in 1..k : counter.buffer[j] \in Item

(* Nobody ever counts a slot that is not there or was never written.  While  *)
(* the pusher is between its comparison and its load, readers can only have  *)
(* lowered num_buffered below what it found.                                 *)
Bounded ==
  /\ counter.num_buffered <= counter.max_buffer_size
  /\ Filled(counter.num_buffered)
  /\ \A s \in Stream : n[s] <= counter.max_buffer_size /\ Filled(n[s])
  /\ pc[Pusher] \in Pushing => n[Pusher] < counter.max_buffer_size
  /\ pc[Pusher] \in {"slot", "copy", "load"} => counter.num_buffered <= n[Pusher]
  /\ pc[Pusher] \in {"load", "store"} => counter.buffer[n[Pusher] + 1] \in Item

(* What a stream knows of the counter while nobody has stored num_buffered   *)
(* under its call: its n is the count; a digest has items to hand over, and  *)
(* has handed over those it says it has; the pusher's item is in the next slot.                       *)
SyncedAt(s) ==
  /\ pc[s] \in Pushing \union Absorbing => n[s] = counter.num_buffered
  /\ pc[s] \in Absorbing =>
       /\ n[s] # 0 /\ i[s] <= n[s]
       /\ \A j \in 1..i[s] : counter.buffer[j] \in Range(counter.data)
  /\ pc[s] \in {"load", "store"} => counter.buffer[n[s] + 1] = pushed + 1

Synced == \A s \in Stream \ dirty : SyncedAt(s)

(* As long as nothing raced, every item whose push has returned is in the    *)
(* data or in the buffer, and behind a fetch's digest in the data.           *)
Complete ==
  ~raced =>
    /\ \A x \in 1..pushed :
         \/ x \in Range(counter.data)
         \/ \E j \in 1..counter.num_buffered : counter.buffer[j] = x
    /\ \A r \in Reader : pc[r] = "get" => 1..due[r] \subseteq Range(counter.data)

(* The streams that will store num_buffered before they look at it again.    *)
Committed(s) == pc[s] \in Absorbing \union {"copy", "load", "store"}

(* A race has happened or can no longer be avoided. *)
Doomed ==
  \/ raced
  \/ \E s \in dirty : Committed(s)
  \/ \E s, t \in Stream : s # t /\ Committed(s) /\ Committed(t)

(* Until then the counter is exact: the data are the first pushes, in order, *)
(* the buffer has the last ones, and they overlap by what a digest that is   *)
(* under way has handed over.                                                *)
Ledger ==
  /\ \A k \in 1..Len(counter.data) : counter.data[k] = k
  /\ \A j \in 1..counter.num_buffered :
       counter.buffer[j] = pushed - counter.num_buffered + j
  /\ (\A s \in Stream : pc[s] \notin Absorbing)
       => Len(counter.data) = pushed - counter.num_buffered
  /\ \A s \in Stream : pc[s] \in Absorbing
       => Len(counter.data) = pushed - counter.num_buffered + i[s]

Exact == ~Doomed => Ledger

IInv == Typed /\ Bounded /\ Synced /\ NothingInvented /\ Complete /\ Exact
-----------------------------------------------------------------------------
(* Types and bounds *)

(* The slots and counts of the state are numbers in range of the buffer. *)
LEMMA CounterFacts ==
  ASSUME Typed, Bounded
  PROVE  /\ counter \in CounterRecord
         /\ counter.num_buffered \in Nat /\ counter.max_buffer_size \in Nat
         /\ counter.buffer \in Seq(Memory) /\ counter.data \in Seq(Memory)
         /\ counter.num_buffered <= counter.max_buffer_size
         /\ Len(counter.buffer) = counter.max_buffer_size
         /\ \A s \in Stream : n[s] \in Nat /\ n[s] <= counter.max_buffer_size /\ i[s] \in Nat
         /\ Pusher \in Stream /\ Pusher \notin Reader /\ Reader \subseteq Stream
         /\ pushed \in Nat /\ MaxPushes \in Nat
  BY StreamAssumption DEF Typed, TypeOK, Bounded, CounterRecord, Stream

(* The numbers among them. *)
LEMMA Numbers ==
  ASSUME Typed, Bounded
  PROVE  /\ pushed \in Nat /\ counter.num_buffered \in Nat /\ Len(counter.data) \in Nat
         /\ \A s \in Stream : n[s] \in Nat /\ i[s] \in Nat
<1>1. counter.data \in Seq(Memory)
  BY CounterFacts
<1>2. Len(counter.data) \in Nat
  BY <1>1, LenProperties
<1> QED
  BY <1>2, CounterFacts

(* A counter that mdcs_counter_register made has an empty buffer of the size *)
(* it was given.                                                             *)
LEMMA BoundedInit == Init => Typed /\ Bounded
<1> SUFFICES ASSUME Init PROVE Typed /\ Bounded
  OBVIOUS
<1>1. PICK size \in BufferSizes : counter = WasReset(Allocated(size))
  BY DEF Init
<1>2. size \in Nat /\ size # 0
  BY StreamAssumption
<1>3. /\ counter = [data |-> << >>, buffer |-> [j \in 1..size |-> Garbage],
                     max_buffer_size |-> size, num_buffered |-> 0]
  BY <1>1 DEF WasReset, Allocated
<1>4. /\ counter \in CounterRecord
      /\ Len(counter.buffer) = size
      /\ counter.num_buffered = 0
      /\ counter.max_buffer_size = size
  <2>1. [j \in 1..size |-> Garbage] \in Seq(Memory) /\ Len([j \in 1..size |-> Garbage]) = size
    BY <1>2 DEF Memory
  <2>2. ASSUME NEW b \in Seq(Memory)
        PROVE  [data |-> << >>, buffer |-> b, max_buffer_size |-> size, num_buffered |-> 0]
                 \in CounterRecord
    BY <1>2 DEF CounterRecord
  <2>3. counter \in CounterRecord
    BY <1>3, <2>1, <2>2
  <2>4. counter.buffer = [j \in 1..size |-> Garbage]
    BY <1>3
  <2>5. counter.data = << >> /\ counter.num_buffered = 0 /\ counter.max_buffer_size = size
    BY <1>3
  <2>6. Len(counter.buffer) = size
    BY <2>1, <2>4, Zenon
  <2> QED
    BY <2>3, <2>5, <2>6
<1>5. Typed
  <2>1. TypeOK
    BY <1>4, StreamAssumption DEF Init, TypeOK
  <2>2. /\ pc \in [Stream -> Label]
        /\ \A s \in Stream : pc[s] = "idle"
        /\ Pusher \in Stream /\ Reader \subseteq Stream
    BY DEF Init, Stream, Label
  <2>3. /\ op \in [Stream -> {"push", "value", "digest"}]
        /\ op[Pusher] = "push"
        /\ \A r \in Reader : op[r] # "push"
    BY StreamAssumption DEF Init, Stream
  <2> QED
    <3>1. multi \in MultiKind /\ raced \in BOOLEAN /\ due \in [Reader -> Nat]
      BY DEF Init
    <3>2. \A r \in Reader : pc[r] \notin Pushing /\ due[r] <= pushed
      BY <2>2 DEF Init, Pushing
    <3> QED
      BY <1>2, <1>4, <2>1, <2>2, <2>3, <3>1, <3>2 DEF Typed
<1>6. Bounded
  BY <1>2, <1>4, StreamAssumption DEF Init, Bounded, Filled, Stream, Pushing
<1> QED
  BY <1>5, <1>6

(* The three steps that change the counter, field by field: the item is      *)
(* copied into the slot behind those the pusher counts.                      *)
LEMMA CopyEffect ==
  ASSUME Typed, Bounded, PushCopy
  PROVE  /\ counter' \in CounterRecord
         /\ counter'.num_buffered = counter.num_buffered
         /\ counter'.data = counter.data
         /\ counter'.max_buffer_size = counter.max_buffer_size
         /\ Len(counter'.buffer) = Len(counter.buffer)
         /\ n[Pusher] + 1 \in 1..Len(counter.buffer)
         /\ pushed + 1 \in Item
         /\ \A j \in 1..Len(counter.buffer) :
              counter'.buffer[j] = IF j = n[Pusher] + 1 THEN pushed + 1 ELSE counter.buffer[j]
<1>1. pc[Pusher] = "copy"
  BY DEF PushCopy, Goes
<1>2. pushed + 1 \in Item /\ pushed + 1 \in Memory
  BY <1>1, CounterFacts, StreamAssumption DEF Typed, Memory
<1>3. n[Pusher] + 1 \in 1..Len(counter.buffer)
  BY <1>1, CounterFacts DEF Bounded, Pushing
<1> QED
  BY <1>2, <1>3, SetSlot, CounterFacts DEF PushCopy

(* Something is appended to the data. *)
Takes(x) == counter' = [counter EXCEPT !.data = Append(@, x)]

(* That changes nothing else of the counter, and adds it to what was absorbed. *)
LEMMA AppendEffect ==
  ASSUME Typed, Bounded, NEW x \in Memory, Takes(x)
  PROVE  /\ counter' \in CounterRecord
         /\ counter'.num_buffered = counter.num_buffered
         /\ counter'.buffer = counter.buffer
         /\ counter'.max_buffer_size = counter.max_buffer_size
         /\ Len(counter'.data) = Len(counter.data) + 1
         /\ counter'.data[Len(counter.data) + 1] = x
         /\ \A k \in 1..Len(counter.data) : counter'.data[k] = counter.data[k]
         /\ Range(counter'.data) = Range(counter.data) \union {x}
<1>1. PICK items \in Seq(Memory) :
        items = Append(counter.data, x) /\ counter' = [counter EXCEPT !.data = items]
  <2>1. Append(counter.data, x) \in Seq(Memory)
    BY CounterFacts
  <2>2. counter' = [counter EXCEPT !.data = Append(@, x)]
    BY DEF Takes
  <2> QED
    BY <2>1, <2>2, Zenon
<1>2. counter \in CounterRecord /\ counter.data \in Seq(Memory) /\ items \in Seq(Memory)
  BY CounterFacts
<1>3. /\ counter' \in CounterRecord
      /\ counter'.data = items
      /\ counter'.num_buffered = counter.num_buffered
      /\ counter'.buffer = counter.buffer
      /\ counter'.max_buffer_size = counter.max_buffer_size
  <2>1. counter' = [counter EXCEPT !.data = items]
    BY <1>1
  <2> QED
    BY <1>2, <2>1, SetData
<1>4. /\ Len(items) = Len(counter.data) + 1
      /\ items[Len(counter.data) + 1] = x
      /\ \A k \in 1..Len(counter.data) : items[k] = counter.data[k]
  BY <1>1, <1>2, AppendProperties
<1>5. Range(items) = Range(counter.data) \union {x}
  <2>1. /\ DOMAIN items = 1..Len(counter.data) + 1
        /\ DOMAIN counter.data = 1..Len(counter.data)
        /\ Len(counter.data) \in Nat
    BY <1>2, <1>4
  <2> QED
    BY <1>4, <2>1 DEF Range
<1> QED
  BY <1>3, <1>4, <1>5

(* The next item of the buffer is appended, which somebody has pushed. *)
LEMMA AbsorbEffect ==
  ASSUME Typed, Bounded, NEW s \in Stream, DigestAbsorb(s)
  PROVE  /\ counter' \in CounterRecord
         /\ counter'.num_buffered = counter.num_buffered
         /\ counter'.buffer = counter.buffer
         /\ counter'.max_buffer_size = counter.max_buffer_size
         /\ Len(counter'.data) = Len(counter.data) + 1
         /\ counter'.data[Len(counter.data) + 1] = counter.buffer[i[s] + 1]
         /\ \A k \in 1..Len(counter.data) : counter'.data[k] = counter.data[k]
         /\ Range(counter.data) \subseteq Range(counter'.data)
         /\ counter.buffer[i[s] + 1] \in Range(counter'.data)
         /\ Garbage \in Range(counter'.data) => Garbage \in Range(counter.data)
<1> DEFINE x == counter.buffer[i[s] + 1]
<1>1. x \in Item
  <2>1. i[s] < n[s] /\ i[s] \in Nat /\ n[s] \in Nat /\ Filled(n[s])
    BY CounterFacts DEF Bounded, DigestAbsorb
  <2> QED
    BY <2>1 DEF Filled
<1>2. x \in Memory /\ x # Garbage
  BY <1>1, GarbageAssumption DEF Memory
<1>3. Takes(x)
  BY DEF DigestAbsorb, Takes
<1> HIDE DEF x
<1>4. /\ counter' \in CounterRecord
      /\ counter'.num_buffered = counter.num_buffered
      /\ counter'.buffer = counter.buffer
      /\ counter'.max_buffer_size = counter.max_buffer_size
      /\ Len(counter'.data) = Len(counter.data) + 1
      /\ counter'.data[Len(counter.data) + 1] = x
      /\ \A k \in 1..Len(counter.data) : counter'.data[k] = counter.data[k]
      /\ Range(counter'.data) = Range(counter.data) \union {x}
  BY <1>2, <1>3, AppendEffect
<1>5. /\ Range(counter.data) \subseteq Range(counter'.data)
      /\ x \in Range(counter'.data)
      /\ Garbage \in Range(counter'.data) => Garbage \in Range(counter.data)
  BY <1>2, <1>4
<1> QED
  BY <1>4, <1>5 DEF x

(* What lies before the buffer is appended. *)
LEMMA OutsideEffect ==
  ASSUME Typed, Bounded, NEW s \in Stream, DigestOutside(s)
  PROVE  /\ counter' \in CounterRecord
         /\ counter'.num_buffered = counter.num_buffered
         /\ counter'.buffer = counter.buffer
         /\ counter'.max_buffer_size = counter.max_buffer_size
         /\ Range(counter.data) \subseteq Range(counter'.data)
<1>1. Takes(Garbage) /\ Garbage \in Memory
  BY DEF DigestOutside, Takes, Memory
<1>2. Range(counter'.data) = Range(counter.data) \union {Garbage}
  BY <1>1, AppendEffect
<1> QED
  BY <1>1, <1>2, AppendEffect

(* num_buffered is stored. *)
LEMMA StoreEffect ==
  ASSUME Typed, Bounded, NEW k \in Nat, counter' = [counter EXCEPT !.num_buffered = k]
  PROVE  /\ counter' \in CounterRecord
         /\ counter'.num_buffered = k
         /\ counter'.data = counter.data
         /\ counter'.buffer = counter.buffer
         /\ counter'.max_buffer_size = counter.max_buffer_size
<1>1. counter \in CounterRecord
  BY CounterFacts
<1> QED
  BY <1>1, SetCount

(* The steps of the pusher keep the types and the bounds. *)
LEMMA BoundedPush ==
  ASSUME Typed, Bounded, PushStart \/ PushSlot \/ PushCopy \/ PushLoad \/ PushStore
  PROVE  Typed' /\ Bounded'
<1>1. CASE PushStart
  <2>1. UNCHANGED << counter, multi, i, op, pushed, due, raced >> /\ pushed < MaxPushes
    BY <1>1 DEF PushStart
  <2>2. /\ n' = [n EXCEPT ![Pusher] = counter.num_buffered]
        /\ dirty' = dirty \ {Pusher}
        /\ pc' = [pc EXCEPT ![Pusher] = IF IsFull(counter) THEN "digest" ELSE "slot"]
    BY <1>1 DEF PushStart, Goes, Loads
  <2>3. Typed'
    BY <2>1, <2>2, CounterFacts DEF Typed, TypeOK, Label, Pushing
  <2>4. Bounded'
    <3>1. \A s \in Stream : n'[s] = IF s = Pusher THEN counter.num_buffered ELSE n[s]
      BY <2>2, CounterFacts DEF Typed, TypeOK
    <3>2. \A s \in Stream : n'[s] <= counter.max_buffer_size /\ Filled(n'[s])
      BY <3>1, CounterFacts DEF Bounded
    <3>3. pc'[Pusher] \in Pushing => counter.num_buffered < counter.max_buffer_size
      BY <2>2, CounterFacts DEF Typed, IsFull, Pushing
    <3>4. pc'[Pusher] \notin {"load", "store"}
      BY <2>2, CounterFacts DEF Typed
    <3> QED
      BY <2>1, <3>1, <3>2, <3>3, <3>4, CounterFacts DEF Bounded, Filled
  <2> QED
    BY <2>3, <2>4
<1>2. CASE PushSlot
  <2>1. UNCHANGED << counter, multi, i, op, pushed, due, raced >>
    BY <1>2 DEF PushSlot
  <2>2. /\ pc[Pusher] = "slot"
        /\ pc' = [pc EXCEPT ![Pusher] = "copy"]
        /\ \/ n' = [n EXCEPT ![Pusher] = counter.num_buffered] /\ dirty' = dirty \ {Pusher}
           \/ n' = n /\ dirty' = dirty
    BY <1>2 DEF PushSlot, Goes, Loads
  <2>3. Typed'
    BY <2>1, <2>2, CounterFacts DEF Typed, TypeOK, Label, Pushing
  <2>4. Bounded'
    <3>1. \A s \in Stream : n'[s] = n[s] \/ (s = Pusher /\ n'[s] = counter.num_buffered)
      BY <2>2, CounterFacts DEF Typed, TypeOK
    <3>2. \A s \in Stream : n'[s] <= counter.max_buffer_size /\ Filled(n'[s])
      BY <3>1, CounterFacts DEF Bounded
    <3>3. pc'[Pusher] = "copy"
      BY <2>2, CounterFacts DEF Typed
    <3>4. counter.num_buffered <= n'[Pusher] /\ n'[Pusher] < counter.max_buffer_size
      BY <2>2, <3>1, CounterFacts DEF Bounded, Pushing
    <3> QED
      BY <2>1, <3>1, <3>2, <3>3, <3>4, CounterFacts DEF Bounded, Filled
  <2> QED
    BY <2>3, <2>4
<1>3. CASE PushCopy
  <2>1. UNCHANGED << multi, n, i, op, pushed, due, dirty, raced >>
    BY <1>3 DEF PushCopy
  <2>2. pc[Pusher] = "copy" /\ pc' = [pc EXCEPT ![Pusher] = "load"]
    BY <1>3 DEF PushCopy, Goes
  <2>3. /\ pushed + 1 \in Item
        /\ n[Pusher] < counter.max_buffer_size
    BY <1>3, CopyEffect, CounterFacts
  <2>4. /\ counter' \in CounterRecord
        /\ counter'.num_buffered = counter.num_buffered
        /\ counter'.data = counter.data
        /\ Len(counter'.buffer) = Len(counter.buffer)
        /\ counter'.max_buffer_size = counter.max_buffer_size
        /\ \A j \in 1..Len(counter.buffer) :
             counter'.buffer[j] = IF j = n[Pusher] + 1 THEN pushed + 1 ELSE counter.buffer[j]
    BY <1>3, CopyEffect
  <2>5. Typed'
    BY <2>1, <2>2, <2>4, CounterFacts DEF Typed, TypeOK, Label, Pushing
  <2>6. Bounded'
    <3>1. ASSUME NEW k \in Nat, k <= counter.max_buffer_size, Filled(k) PROVE Filled(k)'
      <4>1. \A j \in 1..k : j \in 1..Len(counter.buffer) /\ counter.buffer[j] \in Item
        BY <3>1, CounterFacts DEF Filled
      <4> QED
        BY <2>3, <2>4, <4>1 DEF Filled
    <3>2. pc'[Pusher] = "load"
      BY <2>2, CounterFacts DEF Typed
    <3>3. counter'.buffer[n'[Pusher] + 1] \in Item
      <4>1. n[Pusher] + 1 \in 1..Len(counter.buffer)
        BY <2>3, CounterFacts
      <4> QED
        BY <2>1, <2>3, <2>4, <4>1
    <3>4. \A s \in Stream : n'[s] <= counter'.max_buffer_size /\ Filled(n[s])'
      BY <2>1, <2>4, <3>1, CounterFacts DEF Bounded
    <3>5. Filled(counter.num_buffered)'
      BY <2>4, <3>1, CounterFacts DEF Bounded
    <3> QED
      BY <2>1, <2>2, <2>3, <2>4, <3>2, <3>3, <3>4, <3>5, CounterFacts DEF Bounded, Pushing
  <2> QED
    BY <2>5, <2>6
<1>4. CASE PushLoad
  <2>1. UNCHANGED << counter, multi, i, op, pushed, due, dirty, raced >>
    BY <1>4 DEF PushLoad
  <2>2. /\ pc[Pusher] = "load" /\ pc' = [pc EXCEPT ![Pusher] = "store"]
        /\ n' = [n EXCEPT ![Pusher] = counter.num_buffered]
    BY <1>4 DEF PushLoad, Goes
  <2>3. Typed'
    BY <2>1, <2>2, CounterFacts DEF Typed, TypeOK, Label, Pushing
  <2>4. Bounded'
    BY <2>1, <2>2, CounterFacts DEF Typed, Bounded, Filled, Pushing
  <2> QED
    BY <2>3, <2>4
<1>5. CASE PushStore
  <2>1. UNCHANGED << multi, op, due >> /\ pushed' = pushed + 1
    BY <1>5 DEF PushStore
  <2>2. /\ pc[Pusher] = "store" /\ pc' = [pc EXCEPT ![Pusher] = "idle"]
        /\ n' = [n EXCEPT ![Pusher] = 0] /\ i' = [i EXCEPT ![Pusher] = 0]
        /\ dirty' \subseteq Stream /\ raced' \in BOOLEAN
    BY <1>5 DEF PushStore, Goes, Stores, Ends, Typed, TypeOK
  <2>3. /\ counter' \in CounterRecord
        /\ counter'.num_buffered = n[Pusher] + 1
        /\ counter'.data = counter.data
        /\ counter'.buffer = counter.buffer
        /\ counter'.max_buffer_size = counter.max_buffer_size
    <3>1. n[Pusher] + 1 \in Nat
      BY CounterFacts
    <3>2. counter' = [counter EXCEPT !.num_buffered = n[Pusher] + 1]
      BY <1>5 DEF PushStore
    <3> QED
      BY <3>1, <3>2, StoreEffect
  <2>4. Typed'
    BY <2>1, <2>2, <2>3, CounterFacts DEF Typed, TypeOK, Label, Pushing
  <2>5. Bounded'
    BY <2>1, <2>2, <2>3, CounterFacts DEF Typed, Bounded, Filled, Pushing
  <2> QED
    BY <2>4, <2>5
<1> QED
  BY <1>1, <1>2, <1>3, <1>4, <1>5

(* So do the steps of a call of mdcs_counter_value or mdcs_counter_digest. *)
LEMMA BoundedDigest ==
  ASSUME Typed, Bounded, NEW s \in Stream,
         DigestStart(s) \/ DigestCount(s) \/ DigestBound(s) \/ DigestAbsorb(s)
           \/ DigestOutside(s) \/ DigestStore(s)
  PROVE  Typed' /\ Bounded'
<1>1. /\ Then(s) \in {"slot", "get", "idle"}
      /\ Then(s) = "slot" <=> s = Pusher
      /\ Then(s) = "idle" => s # Pusher
      /\ Then(s) = "get" => s # Pusher
  BY DEF Then, Typed, Stream
<1>2. pc[s] \in Absorbing \union {"digest"}
  BY DEF DigestStart, DigestCount, DigestBound, DigestAbsorb, DigestOutside, DigestStore, Goes,
         Absorbing
<1>3. pc[s] \notin Pushing \union {"idle", "get"}
  BY <1>2 DEF Absorbing, Pushing
<1>4. CASE DigestStart(s)
  <2>1. UNCHANGED << counter, multi, op, pushed, due, raced >>
    BY <1>4 DEF DigestStart
  <2>2. /\ n' = [n EXCEPT ![s] = counter.num_buffered]
        /\ i' = [i EXCEPT ![s] = 0]
        /\ dirty' = dirty \ {s}
    BY <1>4 DEF DigestStart, Loads
  <2>3. PICK to \in {Then(s)} \union Absorbing :
          /\ pc' = [pc EXCEPT ![s] = to]
          /\ to = Then(s) => counter.num_buffered = 0
    <3>1. pc' = [pc EXCEPT ![s] = IF counter.num_buffered = 0 THEN Then(s)
                                  ELSE IF multi # "none" THEN "count" ELSE "bound"]
      BY <1>4 DEF DigestStart, Goes
    <3>2. CASE counter.num_buffered = 0
      BY <3>1, <3>2
    <3>3. CASE counter.num_buffered # 0
      <4>1. PICK to \in {"count", "bound"} : pc' = [pc EXCEPT ![s] = to]
        BY <3>1, <3>3
      <4>2. to \in Absorbing /\ to # Then(s)
        BY <1>1, <4>1 DEF Absorbing
      <4> QED
        BY <4>1, <4>2
    <3> QED
      BY <3>2, <3>3
  <2>4. Typed'
    BY <1>1, <1>3, <2>1, <2>2, <2>3, CounterFacts
    DEF Typed, TypeOK, Label, Pushing, Absorbing
  <2>5. Bounded'
    BY <1>1, <1>3, <2>1, <2>2, <2>3, CounterFacts
    DEF Typed, TypeOK, Bounded, Filled, Pushing, Absorbing
  <2> QED
    BY <2>4, <2>5
<1>5. CASE DigestCount(s) \/ DigestBound(s)
  <2>1. UNCHANGED << counter, multi, i, op, pushed, due, dirty, raced >>
    BY <1>5 DEF DigestCount, DigestBound
  <2>2. /\ pc' = [pc EXCEPT ![s] = "absorb"]
        /\ n' = n \/ n' = [n EXCEPT ![s] = counter.num_buffered]
    BY <1>5 DEF DigestCount, DigestBound, Goes
  <2>3. Typed'
    BY <1>3, <2>1, <2>2, CounterFacts DEF Typed, TypeOK, Label, Pushing, Absorbing
  <2>4. Bounded'
    BY <1>3, <2>1, <2>2, CounterFacts
    DEF Typed, TypeOK, Bounded, Filled, Pushing, Absorbing
  <2> QED
    BY <2>3, <2>4
<1>6. CASE DigestAbsorb(s) \/ DigestOutside(s)
  <2>1. UNCHANGED << multi, n, op, pushed, due, dirty, raced >>
    BY <1>6 DEF DigestAbsorb, DigestOutside
  <2>2. /\ \E k \in {i[s] + 1, 1} : i' = [i EXCEPT ![s] = k]
        /\ \E to \in Absorbing : pc' = [pc EXCEPT ![s] = to]
    BY <1>6 DEF DigestAbsorb, DigestOutside, Goes, Absorbing
  <2>3. /\ counter' \in CounterRecord
        /\ counter'.num_buffered = counter.num_buffered
        /\ counter'.buffer = counter.buffer
        /\ counter'.max_buffer_size = counter.max_buffer_size
    BY <1>6, AbsorbEffect, OutsideEffect
  <2>4. Typed'
    BY <1>3, <2>1, <2>2, <2>3, CounterFacts DEF Typed, TypeOK, Label, Pushing, Absorbing
  <2>5. Bounded'
    BY <1>3, <2>1, <2>2, <2>3, CounterFacts DEF Typed, Bounded, Filled, Pushing, Absorbing
  <2> QED
    BY <2>4, <2>5
<1>7. CASE DigestStore(s)
  <2>1. UNCHANGED << multi, op, pushed, due >>
    BY <1>7 DEF DigestStore
  <2>2. /\ n' = [n EXCEPT ![s] = 0] /\ i' = [i EXCEPT ![s] = 0]
        /\ pc' = [pc EXCEPT ![s] = Then(s)]
        /\ dirty' \subseteq Stream /\ raced' \in BOOLEAN
    BY <1>7 DEF DigestStore, Goes, Stores, Ends, Typed, TypeOK
  <2>3. /\ counter' \in CounterRecord
        /\ counter'.num_buffered = 0
        /\ counter'.data = counter.data
        /\ counter'.buffer = counter.buffer
        /\ counter'.max_buffer_size = counter.max_buffer_size
    <3>1. counter' = [counter EXCEPT !.num_buffered = 0] /\ 0 \in Nat
      BY <1>7 DEF DigestStore
    <3> QED
      BY <3>1, StoreEffect
  <2>4. Typed'
    BY <1>1, <1>3, <2>1, <2>2, <2>3, CounterFacts DEF Typed, TypeOK, Label, Pushing
  <2>5. Bounded'
    BY <1>1, <1>3, <2>1, <2>2, <2>3, CounterFacts
    DEF Typed, TypeOK, Bounded, Filled, Pushing, Absorbing
  <2> QED
    BY <2>4, <2>5
<1> QED
  BY <1>4, <1>5, <1>6, <1>7

(* The types and the bounds are inductive by themselves. *)
LEMMA BoundedNext == Typed /\ Bounded /\ [Next]_vars => Typed' /\ Bounded'
<1> SUFFICES ASSUME Typed, Bounded, [Next]_vars PROVE Typed' /\ Bounded'
  OBVIOUS
<1>1. ASSUME NEW r \in Reader, Call(r, "value") \/ Call(r, "digest") \/ Get(r)
      PROVE  Typed' /\ Bounded'
  <2>1. UNCHANGED << counter, multi, n, i, pushed, raced >>
    BY <1>1 DEF Call, Get
  <2>2. /\ \E to \in {"digest", "idle"} : pc' = [pc EXCEPT ![r] = to]
        /\ dirty' \subseteq dirty
        /\ op' = op \/ \E call \in {"value", "digest"} : op' = [op EXCEPT ![r] = call]
        /\ due' = due \/ due' = [due EXCEPT ![r] = pushed]
    BY <1>1 DEF Call, Get, Goes
  <2>3. Typed'
    <3>1. pc' \in [Stream -> Label] /\ \A q \in Reader : pc'[q] \notin Pushing
      BY <2>2, CounterFacts DEF Typed, Label, Pushing
    <3>2. /\ op' \in [Stream -> {"push", "value", "digest"}]
          /\ \A q \in Reader : op'[q] # "push"
          /\ op'[Pusher] = op[Pusher] /\ pc'[Pusher] = pc[Pusher]
      BY <2>2, CounterFacts DEF Typed
    <3>3. due' \in [Reader -> Nat] /\ \A q \in Reader : due'[q] <= pushed
      <4>1. due \in [Reader -> Nat] /\ pushed \in Nat /\ \A q \in Reader : due[q] <= pushed
        BY CounterFacts DEF Typed
      <4> QED
        BY <2>2, <4>1
    <3> QED
      BY <2>1, <2>2, <3>1, <3>2, <3>3 DEF Typed, TypeOK
  <2>4. Bounded'
    BY <2>1, <2>2, CounterFacts DEF Typed, Bounded, Filled, Pushing
  <2> QED
    BY <2>3, <2>4
<1>2. CASE UNCHANGED vars
  BY <1>2 DEF vars, Typed, TypeOK, Bounded, Filled
<1> QED
  BY <1>1, <1>2, BoundedPush, BoundedDigest DEF Next

(* The types of the state never change. *)
THEOREM TypeCorrect == Spec => []TypeOK
<1>1. Typed => TypeOK
  BY DEF Typed
<1> QED
  BY <1>1, BoundedInit, BoundedNext, PTL DEF Spec

(* However many streams digest the buffer under a push, and whatever its     *)
(* size, the pusher writes no slot outside it and no more items are counted  *)
(* than it has slots.                                                        *)
THEOREM InBounds == Spec => []SlotsInBounds
<1>1. Typed /\ Bounded => SlotsInBounds
  BY DEF Bounded, SlotsInBounds, Pushing
<1> QED
  BY <1>1, BoundedInit, BoundedNext, PTL DEF Spec

-----------------------------------------------------------------------------
(* What the streams know of the counter *)

(* A stream that does not move keeps its knowledge, as long as num_buffered, *)
(* the buffered items and the absorbed ones are still there.                 *)
LEMMA OthersSynced ==
  ASSUME Typed, Bounded, NEW t \in Stream, SyncedAt(t),
         pc'[t] = pc[t], n'[t] = n[t], i'[t] = i[t],
         counter'.num_buffered = counter.num_buffered,
         \A j \in 1..counter.num_buffered : counter'.buffer[j] = counter.buffer[j],
         Range(counter.data) \subseteq Range(counter'.data),
         t = Pusher => UNCHANGED << counter.buffer, pushed >>
  PROVE  SyncedAt(t)'
<1>1. pc[t] \in {"load", "store"} => t = Pusher
  BY DEF Typed, Pushing, Stream
<1>2. /\ n[t] \in Nat /\ i[t] \in Nat /\ counter.num_buffered \in Nat
      /\ t = Pusher => counter'.buffer = counter.buffer /\ pushed' = pushed
  BY CounterFacts
<1>3. pc[t] \in Absorbing =>
        \A j \in 1..i[t] : j \in 1..counter.num_buffered /\ counter.buffer[j] \in Range(counter.data)
  BY <1>2 DEF SyncedAt
<1> QED
  BY <1>1, <1>2, <1>3 DEF SyncedAt

(* A stream that stores num_buffered is not marked itself, and the others    *)
(* that it leaves unmarked were unmarked before and are in no call.          *)
LEMMA StoreMarks ==
  ASSUME Typed, NEW s \in Stream, Stores(s), NEW t \in Stream \ dirty', t # s
  PROVE  pc[t] = "idle"
  BY DEF Stores

(* The steps of the pusher keep what the unmarked streams know: its store    *)
(* marks every other stream that is in a call.                               *)
LEMMA SyncedPush ==
  ASSUME Typed, Bounded, Synced,
         PushStart \/ PushSlot \/ PushCopy \/ PushLoad \/ PushStore
  PROVE  Synced'
<1>1. /\ \A t \in Stream : t # Pusher => pc'[t] = pc[t] /\ n'[t] = n[t] /\ i'[t] = i[t]
      /\ Pusher \in Stream
  BY CounterFacts DEF Typed, TypeOK, PushStart, PushSlot, PushCopy, PushLoad, PushStore,
                      Goes, Loads, Ends
<1>2. ASSUME NEW t \in Stream \ dirty', t # Pusher, PushStart \/ PushSlot \/ PushLoad
      PROVE  SyncedAt(t)'
  <2>1. counter' = counter /\ pushed' = pushed /\ t \notin dirty
    BY <1>2 DEF PushStart, PushSlot, PushLoad, Loads
  <2> QED
    BY <1>1, <1>2, <2>1, OthersSynced DEF Synced
<1>3. CASE PushStart
  <2>1. SyncedAt(Pusher)'
    BY <1>3, CounterFacts DEF PushStart, Goes, Loads, Typed, TypeOK, SyncedAt, Pushing, Absorbing
  <2> QED
    BY <1>2, <1>3, <2>1 DEF Synced
<1>4. CASE PushSlot
  <2>1. Pusher \notin dirty' => SyncedAt(Pusher)'
    BY <1>1, <1>4, CounterFacts
    DEF PushSlot, Goes, Loads, Typed, TypeOK, Synced, SyncedAt, Pushing, Absorbing
  <2> QED
    BY <1>2, <1>4, <2>1 DEF Synced
<1>5. CASE PushCopy
  <2>1. /\ UNCHANGED << n, i, pushed, dirty >>
        /\ pc[Pusher] = "copy" /\ pc' = [pc EXCEPT ![Pusher] = "load"]
        /\ counter'.num_buffered = counter.num_buffered
        /\ counter'.data = counter.data
        /\ n[Pusher] + 1 \in 1..Len(counter.buffer)
        /\ \A j \in 1..Len(counter.buffer) :
             counter'.buffer[j] = IF j = n[Pusher] + 1 THEN pushed + 1 ELSE counter.buffer[j]
    BY <1>5, CopyEffect DEF PushCopy, Goes
  <2>2. counter.num_buffered <= n[Pusher]
    BY <2>1 DEF Bounded
  <2>3. \A j \in 1..counter.num_buffered : counter'.buffer[j] = counter.buffer[j]
    BY <2>1, <2>2, CounterFacts
  <2>4. ASSUME NEW t \in Stream \ dirty', t # Pusher PROVE SyncedAt(t)'
    BY <1>1, <2>1, <2>3, <2>4, OthersSynced DEF Synced
  <2>5. ASSUME Pusher \notin dirty' PROVE SyncedAt(Pusher)'
    <3>1. n[Pusher] = counter.num_buffered
      BY <1>1, <2>1, <2>5 DEF Synced, SyncedAt, Pushing
    <3>2. pc'[Pusher] = "load"
      BY <1>1, <2>1 DEF Typed
    <3> QED
      BY <2>1, <3>1, <3>2 DEF SyncedAt, Absorbing
  <2> QED
    BY <2>4, <2>5 DEF Synced
<1>6. CASE PushLoad
  <2>1. Pusher \notin dirty' => SyncedAt(Pusher)'
    BY <1>1, <1>6, CounterFacts
    DEF PushLoad, Goes, Typed, TypeOK, Synced, SyncedAt, Pushing, Absorbing
  <2> QED
    BY <1>2, <1>6, <2>1 DEF Synced
<1>7. CASE PushStore
  <2>1. pc'[Pusher] = "idle" /\ Stores(Pusher)
    BY <1>1, <1>7 DEF PushStore, Goes, Typed
  <2>2. \A t \in Stream \ dirty' : pc'[t] = "idle"
    BY <1>1, <2>1, StoreMarks
  <2> QED
    BY <2>2 DEF Synced, SyncedAt, Pushing, Absorbing
<1> QED
  BY <1>3, <1>4, <1>5, <1>6, <1>7

(* So do the steps of a digest: absorbing an item leaves the buffer alone,   *)
(* and the store at its end marks the others.                                *)
LEMMA SyncedDigest ==
  ASSUME Typed, Bounded, Synced, NEW s \in Stream,
         DigestStart(s) \/ DigestCount(s) \/ DigestBound(s) \/ DigestAbsorb(s)
           \/ DigestOutside(s) \/ DigestStore(s)
  PROVE  Synced'
<1>1. /\ \A t \in Stream : t # s => pc'[t] = pc[t] /\ n'[t] = n[t] /\ i'[t] = i[t]
      /\ pushed' = pushed
  BY CounterFacts DEF Typed, TypeOK, DigestStart, DigestCount, DigestBound, DigestAbsorb,
                      DigestOutside, DigestStore, Goes, Loads, Ends
<1>2. ASSUME NEW t \in Stream \ dirty', t # s, ~DigestStore(s)
      PROVE  SyncedAt(t)'
  <2>1. t \notin dirty
    BY <1>2 DEF DigestStart, DigestCount, DigestBound, DigestAbsorb, DigestOutside, Loads
  <2>2. /\ counter'.num_buffered = counter.num_buffered
        /\ counter'.buffer = counter.buffer
        /\ Range(counter.data) \subseteq Range(counter'.data)
    BY <1>2, AbsorbEffect, OutsideEffect DEF DigestStart, DigestCount, DigestBound
  <2> QED
    BY <1>1, <1>2, <2>1, <2>2, OthersSynced DEF Synced
<1>3. CASE DigestStart(s)
  <2>1. n'[s] = counter.num_buffered /\ i'[s] = 0 /\ counter' = counter
    BY <1>3 DEF DigestStart, Loads, Typed, TypeOK
  <2>2. pc'[s] \notin {"load", "store"}
    BY <1>3 DEF DigestStart, Goes, Then, Typed
  <2>3. pc'[s] \in Absorbing => n'[s] # 0
    BY <1>3, <2>1 DEF DigestStart, Goes, Then, Typed, Absorbing
  <2>4. SyncedAt(s)'
    BY <2>1, <2>2, <2>3, CounterFacts DEF SyncedAt
  <2> QED
    BY <1>2, <1>3, <2>4 DEF Synced, DigestStart, DigestStore, Goes
<1>4. CASE DigestCount(s) \/ DigestBound(s)
  <2>1. /\ UNCHANGED << counter, i, pushed, dirty >>
        /\ pc[s] \in Absorbing /\ pc' = [pc EXCEPT ![s] = "absorb"]
        /\ n' = n \/ n' = [n EXCEPT ![s] = counter.num_buffered]
    BY <1>4 DEF DigestCount, DigestBound, Goes, Absorbing
  <2>2. ASSUME s \notin dirty' PROVE SyncedAt(s)'
    <3>1. SyncedAt(s) /\ n[s] = counter.num_buffered
      BY <2>1, <2>2 DEF Synced, SyncedAt
    <3>2. n'[s] = n[s] /\ pc'[s] = "absorb"
      BY <2>1, <3>1 DEF Typed, TypeOK
    <3> QED
      BY <2>1, <3>1, <3>2 DEF SyncedAt
  <2> QED
    BY <1>2, <1>4, <2>2 DEF Synced, DigestCount, DigestBound, DigestStore, Goes
<1>5. CASE DigestAbsorb(s)
  <2>1. /\ UNCHANGED << n, pushed, dirty >>
        /\ pc[s] = "absorb" /\ pc'[s] \in Absorbing
        /\ i[s] < n[s] /\ i'[s] = i[s] + 1
    BY <1>5 DEF DigestAbsorb, Goes, Absorbing, Typed, TypeOK
  <2>2. /\ counter'.num_buffered = counter.num_buffered
        /\ counter'.buffer = counter.buffer
        /\ Range(counter.data) \subseteq Range(counter'.data)
        /\ counter.buffer[i[s] + 1] \in Range(counter'.data)
    BY <1>5, AbsorbEffect
  <2>3. ASSUME s \notin dirty' PROVE SyncedAt(s)'
    <3>1. /\ n[s] = counter.num_buffered
          /\ \A j \in 1..i[s] : counter.buffer[j] \in Range(counter.data)
      BY <2>1, <2>3 DEF Synced, SyncedAt, Absorbing
    <3>2. \A j \in 1..i'[s] : counter'.buffer[j] \in Range(counter'.data)
      BY <2>1, <2>2, <3>1, CounterFacts
    <3>3. n'[s] # 0 /\ i'[s] <= n'[s]
      BY <2>1, CounterFacts
    <3>4. pc'[s] \notin {"load", "store"}
      BY <2>1 DEF Absorbing
    <3> QED
      BY <2>1, <2>2, <3>1, <3>2, <3>3, <3>4 DEF SyncedAt
  <2> QED
    <3>1. ~DigestStore(s)
      BY <2>1, CounterFacts DEF DigestStore
    <3> QED
      BY <1>2, <2>3, <3>1 DEF Synced
<1>6. CASE DigestOutside(s)
  <2>1. s \in dirty
    <3>1. pc[s] \in Absorbing /\ n[s] = 0
      BY <1>6 DEF DigestOutside, BeforeBuffer, Goes, Absorbing
    <3> QED
      BY <3>1 DEF Synced, SyncedAt
  <2>2. dirty' = dirty /\ ~DigestStore(s)
    BY <1>6 DEF DigestOutside, DigestStore
  <2> QED
    BY <1>2, <2>1, <2>2 DEF Synced
<1>7. CASE DigestStore(s)
  <2>1. Stores(s) /\ pc'[s] = Then(s) /\ n'[s] = 0
    BY <1>7 DEF DigestStore, Goes, Ends, Typed, TypeOK
  <2>2. counter'.num_buffered = 0
    <3>1. counter' = [counter EXCEPT !.num_buffered = 0] /\ 0 \in Nat
      BY <1>7 DEF DigestStore
    <3> QED
      BY <3>1, StoreEffect
  <2>3. pc'[s] \notin Absorbing \union {"load", "store"}
    BY <2>1 DEF Then, Absorbing
  <2>4. SyncedAt(s)'
    BY <2>1, <2>2, <2>3 DEF SyncedAt
  <2>5. \A t \in Stream \ dirty' : t # s => pc'[t] = "idle"
    BY <1>1, <2>1, StoreMarks
  <2> QED
    BY <2>4, <2>5 DEF Synced, SyncedAt, Pushing, Absorbing
<1> QED
  BY <1>3, <1>4, <1>5, <1>6, <1>7

(* What an unmarked stream knows stays true under every step.                *)
LEMMA SyncedNext == Typed /\ Bounded /\ Synced /\ [Next]_vars => Synced'
<1> SUFFICES ASSUME Typed, Bounded, Synced, [Next]_vars PROVE Synced'
  OBVIOUS
<1>1. ASSUME NEW r \in Reader, Call(r, "value") \/ Call(r, "digest") \/ Get(r) PROVE Synced'
  <2>1. UNCHANGED << counter, n, i, pushed >>
    BY <1>1 DEF Call, Get
  <2>2. /\ pc'[r] \in {"idle", "digest"}
        /\ \A t \in Stream : t # r => pc'[t] = pc[t] /\ (t \in dirty => t \in dirty')
    BY <1>1, CounterFacts DEF Call, Get, Goes, Typed
  <2>3. SyncedAt(r)'
    BY <2>2 DEF SyncedAt, Pushing, Absorbing
  <2>4. ASSUME NEW t \in Stream \ dirty', t # r PROVE SyncedAt(t)'
    BY <2>1, <2>2, <2>4 DEF Synced, SyncedAt
  <2> QED
    BY <2>3, <2>4 DEF Synced
<1>2. CASE UNCHANGED vars
  BY <1>2 DEF vars, Synced, SyncedAt
<1> QED
  BY <1>1, <1>2, SyncedPush, SyncedDigest DEF Next

-----------------------------------------------------------------------------
(* What is absorbed *)

(* An unmarked stream has items to hand over: only a call under which another *)
(* stream emptied the buffer takes what lies before it, and that call stores  *)
(* num_buffered over the change.                                              *)
LEMMA NothingInventedNext ==
  Typed /\ Bounded /\ Synced /\ NothingInvented /\ [Next]_vars => NothingInvented'
<1> SUFFICES ASSUME Typed, Bounded, Synced, NothingInvented, [Next]_vars,
                    Garbage \in Range(counter'.data)
             PROVE  /\ multi' = "last"
                    /\ raced' \/ \E s \in dirty' : pc'[s] = "absorb" /\ i'[s] > n'[s]
  BY DEF NothingInvented
<1> DEFINE Taken(s) == pc[s] = "absorb" /\ i[s] > n[s]
<1>1. dirty \subseteq Stream /\ pc \in [Stream -> Label] /\ i \in [Stream -> Nat]
      /\ Pusher \in Stream /\ Reader \subseteq Stream
  BY DEF Typed, TypeOK, Stream
<1>2. ASSUME NEW s \in Stream, DigestOutside(s)
      PROVE  multi' = "last" /\ s \in dirty' /\ Taken(s)'
  <2>1. pc[s] \in Absorbing /\ n[s] = 0 /\ multi = "last" /\ multi' = multi /\ dirty' = dirty
    BY <1>2 DEF DigestOutside, BeforeBuffer, Goes, Absorbing
  <2>2. s \in dirty
    BY <2>1 DEF Synced, SyncedAt
  <2>3. pc'[s] = "absorb" /\ i'[s] = 1 /\ n'[s] = 0
    BY <1>1, <1>2, <2>1 DEF DigestOutside, Goes
  <2> QED
    BY <2>1, <2>2, <2>3
<1>3. SUFFICES ASSUME \A s \in Stream : ~DigestOutside(s)
               PROVE  /\ multi' = "last"
                      /\ raced' \/ \E s \in dirty' : Taken(s)'
  BY <1>2
<1>4. multi' = multi /\ (raced => raced')
  <2>1. multi' = multi
    BY <1>3 DEF Next, vars, PushStart, PushSlot, PushCopy, PushLoad, PushStore, Call, Get,
                DigestStart, DigestCount, DigestBound, DigestAbsorb, DigestStore
  <2>2. raced => raced'
    BY <1>3 DEF Next, vars, PushStart, PushSlot, PushCopy, PushLoad, PushStore, Call, Get,
                DigestStart, DigestCount, DigestBound, DigestAbsorb, DigestStore, Stores
  <2> QED
    BY <2>1, <2>2
<1>5. Garbage \in Range(counter.data)
  <2>1. CASE \E s \in Stream : DigestAbsorb(s)
    BY <2>1, AbsorbEffect
  <2>2. CASE PushCopy
    BY <2>2, CopyEffect
  <2>3. CASE PushStore \/ \E s \in Stream : DigestStore(s)
    <3>1. \E k \in Nat : counter' = [counter EXCEPT !.num_buffered = k]
      <4>1. n[Pusher] + 1 \in Nat /\ 0 \in Nat
        BY CounterFacts
      <4> QED
        BY <2>3, <4>1 DEF PushStore, DigestStore
    <3> QED
      BY <3>1, StoreEffect
  <2>4. CASE counter' = counter
    BY <2>4
  <2> QED
    BY <1>3, <2>1, <2>2, <2>3, <2>4 DEF Next, vars, PushStart, PushSlot, PushLoad, Call, Get,
                                        DigestStart, DigestCount, DigestBound
<1>6. multi = "last" /\ (raced \/ \E s \in dirty : Taken(s))
  BY <1>5 DEF NothingInvented
<1>7. SUFFICES ASSUME NEW s \in dirty, Taken(s), ~raced'
               PROVE  s \in dirty' /\ Taken(s)'
  BY <1>4, <1>6
<1>8. s \in Stream /\ pc[s] = "absorb" /\ n[s] \in Nat /\ i[s] \in Nat /\ i[s] > n[s]
  BY <1>1, <1>7, CounterFacts
<1>9. ~DigestAbsorb(s) /\ ~DigestStore(s)
  <2>1. ~(i[s] < n[s])
    BY <1>8
  <2>2. ~Stores(s)
    BY <1>7 DEF Stores
  <2> QED
    BY <2>1, <2>2 DEF DigestAbsorb, DigestStore
<1>10. ASSUME NEW t \in Stream, t # s,
              \/ t = Pusher /\ (PushStart \/ PushSlot \/ PushCopy \/ PushLoad \/ PushStore)
              \/ t \in Reader /\ (Call(t, "value") \/ Call(t, "digest") \/ Get(t))
              \/ DigestStart(t) \/ DigestCount(t) \/ DigestBound(t)
              \/ DigestAbsorb(t) \/ DigestStore(t)
       PROVE  s \in dirty' /\ Taken(s)'
  <2>1. pc'[s] = pc[s] /\ n'[s] = n[s] /\ i'[s] = i[s]
    <3>1. pc'[s] = pc[s]
      BY <1>1, <1>8, <1>10
      DEF PushStart, PushSlot, PushCopy, PushLoad, PushStore, Call, Get, DigestStart, DigestCount,
          DigestBound, DigestAbsorb, DigestStore, Goes
    <3>2. n'[s] = n[s] /\ i'[s] = i[s]
      <4>1. n \in [Stream -> Nat] /\ i \in [Stream -> Nat] /\ s \in Stream
        BY <1>8 DEF Typed, TypeOK
      <4> QED
        BY <1>10, <4>1
        DEF PushStart, PushSlot, PushCopy, PushLoad, PushStore, Call, Get, DigestStart,
            DigestCount, DigestBound, DigestAbsorb, DigestStore, Loads, Ends
    <3> QED
      BY <3>1, <3>2
  <2>2. s \in dirty'
    BY <1>7, <1>8, <1>10
    DEF PushStart, PushSlot, PushCopy, PushLoad, PushStore, Call, Get, DigestStart, DigestCount,
        DigestBound, DigestAbsorb, DigestStore, Loads, Stores
  <2> QED
    BY <1>8, <2>1, <2>2
<1>11. ASSUME \/ s = Pusher /\ (PushStart \/ PushSlot \/ PushCopy \/ PushLoad \/ PushStore)
              \/ s \in Reader /\ (Call(s, "value") \/ Call(s, "digest") \/ Get(s))
              \/ DigestStart(s) \/ DigestCount(s) \/ DigestBound(s)
       PROVE  FALSE
  BY <1>8, <1>11
  DEF PushStart, PushSlot, PushCopy, PushLoad, PushStore, Call, Get, DigestStart, DigestCount,
      DigestBound, Goes
<1>12. CASE UNCHANGED vars
  BY <1>7, <1>8, <1>12 DEF vars
<1> QED
  BY <1>1, <1>3, <1>9, <1>10, <1>11, <1>12 DEF Next

-----------------------------------------------------------------------------
(* What reads return *)

(* Without a race every item stays in the data or in the buffer: a push that *)
(* stores has put its item in the next slot, and a digest that empties the   *)
(* buffer has handed over all of it.                                         *)
LEMMA CompleteNext == Typed /\ Bounded /\ Synced /\ Complete /\ [Next]_vars => Complete'
<1> SUFFICES ASSUME Typed, Bounded, Synced, Complete, [Next]_vars, ~raced' PROVE Complete'
  BY DEF Complete
<1> DEFINE Held(x) == \/ x \in Range(counter.data)
                      \/ \E j \in 1..counter.num_buffered : counter.buffer[j] = x
           Returned(r) == pc[r] = "get" => 1..due[r] \subseteq Range(counter.data)
<1>1. ~raced
  BY DEF Next, vars, PushStart, PushSlot, PushCopy, PushLoad, PushStore, Call, Get, DigestStart,
         DigestCount, DigestBound, DigestAbsorb, DigestOutside, DigestStore, Stores
<1>2. /\ \A x \in 1..pushed : Held(x)
      /\ \A r \in Reader : Returned(r)
  BY <1>1 DEF Complete
<1>3. SUFFICES (\A x \in 1..pushed' : Held(x)') /\ (\A r \in Reader : Returned(r)')
  BY DEF Complete
<1>4. CASE PushStart \/ PushSlot \/ PushLoad
  <2>1. UNCHANGED << counter, pushed, due >> /\ \A r \in Reader : pc'[r] = pc[r]
    BY <1>4, CounterFacts DEF PushStart, PushSlot, PushLoad, Goes, Typed
  <2> QED
    BY <1>2, <2>1
<1>5. CASE PushCopy
  <2>1. UNCHANGED << pushed, due >> /\ \A r \in Reader : pc'[r] = pc[r]
    BY <1>5, CounterFacts DEF PushCopy, Goes, Typed
  <2>2. counter.num_buffered <= n[Pusher]
    BY <1>5 DEF Bounded, PushCopy, Goes
  <2>3. /\ counter'.num_buffered = counter.num_buffered
        /\ counter'.data = counter.data
        /\ \A j \in 1..counter.num_buffered : counter'.buffer[j] = counter.buffer[j]
    <3>1. /\ counter'.num_buffered = counter.num_buffered
          /\ counter'.data = counter.data
          /\ \A j \in 1..Len(counter.buffer) :
               j # n[Pusher] + 1 => counter'.buffer[j] = counter.buffer[j]
      BY <1>5, CopyEffect
    <3>2. \A j \in 1..counter.num_buffered : j \in 1..Len(counter.buffer) /\ j # n[Pusher] + 1
      BY <2>2, CounterFacts
    <3> QED
      BY <3>1, <3>2
  <2> QED
    BY <1>2, <2>1, <2>3
<1>6. CASE PushStore
  <2>1. /\ pushed' = pushed + 1 /\ UNCHANGED due
        /\ \A r \in Reader : pc'[r] = pc[r]
    BY <1>6, CounterFacts DEF PushStore, Goes, Typed
  <2>2. SyncedAt(Pusher) /\ pc[Pusher] = "store"
    BY <1>6, CounterFacts DEF PushStore, Stores, Goes, Synced
  <2>3. n[Pusher] = counter.num_buffered /\ counter.buffer[n[Pusher] + 1] = pushed + 1
    BY <2>2 DEF SyncedAt, Pushing
  <2>4. /\ counter'.num_buffered = counter.num_buffered + 1
        /\ counter'.data = counter.data
        /\ counter'.buffer = counter.buffer
    <3>1. n[Pusher] + 1 \in Nat
      BY CounterFacts
    <3>2. counter' = [counter EXCEPT !.num_buffered = n[Pusher] + 1]
      BY <1>6 DEF PushStore
    <3> QED
      BY <2>3, <3>1, <3>2, StoreEffect
  <2>5. \A x \in 1..pushed' : Held(x)'
    BY <1>2, <2>1, <2>3, <2>4, CounterFacts
  <2> QED
    BY <1>2, <2>1, <2>4, <2>5
<1>7. ASSUME NEW r \in Reader, Call(r, "value") \/ Call(r, "digest") \/ Get(r)
      PROVE  (\A x \in 1..pushed' : Held(x)') /\ (\A q \in Reader : Returned(q)')
  <2>1. UNCHANGED << counter, pushed >>
    BY <1>7 DEF Call, Get
  <2>2. /\ pc'[r] # "get"
        /\ \A q \in Reader : q # r => pc'[q] = pc[q] /\ due'[q] = due[q]
    BY <1>7, CounterFacts DEF Call, Get, Goes, Typed
  <2> QED
    BY <1>2, <2>1, <2>2
<1>8. ASSUME NEW s \in Stream,
             DigestCount(s) \/ DigestBound(s) \/ DigestAbsorb(s) \/ DigestOutside(s)
      PROVE  (\A x \in 1..pushed' : Held(x)') /\ (\A r \in Reader : Returned(r)')
  <2>1. /\ counter'.num_buffered = counter.num_buffered
        /\ counter'.buffer = counter.buffer
        /\ Range(counter.data) \subseteq Range(counter'.data)
    BY <1>8, AbsorbEffect, OutsideEffect DEF DigestCount, DigestBound
  <2>2. /\ UNCHANGED << pushed, due >>
        /\ \A r \in Reader : pc'[r] = "get" => pc[r] = "get"
    BY <1>8, CounterFacts DEF DigestCount, DigestBound, DigestAbsorb, DigestOutside, Goes, Typed
  <2> QED
    BY <1>2, <2>1, <2>2
<1>9. ASSUME NEW s \in Stream, DigestStart(s) \/ DigestStore(s)
      PROVE  (\A x \in 1..pushed' : Held(x)') /\ (\A r \in Reader : Returned(r)')
  <2>1. /\ UNCHANGED << pushed, due >>
        /\ \A r \in Reader : r # s => pc'[r] = pc[r]
    BY <1>9, CounterFacts DEF DigestStart, DigestStore, Goes, Typed
  <2>2. /\ counter'.data = counter.data
        /\ DigestStart(s) => counter' = counter
        /\ DigestStore(s) => counter'.num_buffered = 0
    <3>1. CASE DigestStart(s)
      BY <3>1 DEF DigestStart, DigestStore, Goes
    <3>2. CASE DigestStore(s)
      <4>1. counter' = [counter EXCEPT !.num_buffered = 0] /\ 0 \in Nat
        BY <3>2 DEF DigestStore
      <4>2. ~DigestStart(s)
        BY <3>2 DEF DigestStart, DigestStore, Goes
      <4> QED
        BY <4>1, <4>2, StoreEffect
    <3> QED
      BY <1>9, <3>1, <3>2
  <2>3. ASSUME DigestStore(s), NEW j \in 1..counter.num_buffered
        PROVE  counter.buffer[j] \in Range(counter.data)
    <3>1. SyncedAt(s) /\ pc[s] = "absorb" /\ i[s] >= n[s]
      BY <2>3 DEF DigestStore, Stores, Goes, Synced
    <3> QED
      BY <3>1, CounterFacts DEF SyncedAt, Absorbing
  <2>4. \A x \in 1..pushed' : Held(x)'
    <3>1. CASE DigestStart(s)
      BY <1>2, <2>1, <2>2, <3>1
    <3>2. CASE DigestStore(s)
      BY <1>2, <2>1, <2>2, <2>3, <3>2
    <3> QED
      BY <1>9, <3>1, <3>2
  <2>5. s \in Reader /\ pc'[s] = "get" => counter'.num_buffered = 0
    BY <1>9, <2>2, CounterFacts DEF DigestStart, Goes, Then, Typed
  <2>6. s \in Reader => Returned(s)'
    <3> SUFFICES ASSUME s \in Reader, pc'[s] = "get", NEW x \in 1..due'[s]
                 PROVE  x \in Range(counter'.data)
      OBVIOUS
    <3>1. x \in 1..pushed'
      BY <2>1, CounterFacts DEF Typed
    <3> QED
      BY <2>4, <2>5, <3>1
  <2>7. \A r \in Reader : Returned(r)'
    BY <1>2, <2>1, <2>2, <2>6
  <2> QED
    BY <2>4, <2>7
<1>10. CASE UNCHANGED vars
  BY <1>2, <1>10 DEF vars
<1> QED
  BY <1>4, <1>5, <1>6, <1>7, <1>8, <1>9, <1>10 DEF Next

-----------------------------------------------------------------------------
(* What is exact *)

(* A race that cannot be avoided any more is not: a committed stream stays   *)
(* committed until it stores, and a store under a call is a race.            *)
LEMMA DoomIsFinal == Typed /\ [Next]_vars /\ Doomed => Doomed'
<1> SUFFICES ASSUME Typed, [Next]_vars, Doomed, ~Doomed' PROVE FALSE
  OBVIOUS
<1> DEFINE Stays(t) == Committed(t) => Committed(t)'
<1>1. ~raced' /\ pc \in [Stream -> Label] /\ Pusher \in Stream /\ Reader \subseteq Stream
  BY DEF Doomed, Typed, Stream
<1>2. ASSUME NEW s \in Stream, Stores(s), \A t \in Stream : t # s => Stays(t),
             raced => raced'
      PROVE  FALSE
  <2>1. s \notin dirty /\ dirty' = (dirty \union {t \in Stream : pc[t] # "idle"}) \ {s}
    BY <1>1, <1>2 DEF Stores
  <2>2. PICK t \in Stream : t # s /\ Committed(t)
    BY <1>1, <1>2, <2>1 DEF Doomed, Typed, TypeOK
  <2>3. t \in dirty' /\ Committed(t)'
    BY <1>2, <2>1, <2>2 DEF Committed, Absorbing
  <2> QED
    BY <2>3 DEF Doomed
<1>3. ASSUME \A t \in Stream : Stays(t), \A t \in Stream : Committed(t) /\ t \in dirty => t \in dirty',
             raced => raced'
      PROVE  FALSE
  BY <1>1, <1>3 DEF Doomed, Typed, TypeOK
<1>4. CASE PushStart \/ PushSlot \/ PushCopy \/ PushLoad
  BY <1>1, <1>3, <1>4 DEF PushStart, PushSlot, PushCopy, PushLoad, Goes, Loads, Committed, Absorbing
<1>5. CASE PushStore
  BY <1>1, <1>2, <1>5 DEF PushStore, Stores, Goes, Committed
<1>6. ASSUME NEW r \in Reader, Call(r, "value") \/ Call(r, "digest") \/ Get(r) PROVE FALSE
  BY <1>1, <1>3, <1>6 DEF Call, Get, Goes, Committed, Absorbing
<1>7. ASSUME NEW s \in Stream,
             DigestStart(s) \/ DigestCount(s) \/ DigestBound(s) \/ DigestAbsorb(s)
               \/ DigestOutside(s)
      PROVE  FALSE
  BY <1>1, <1>3, <1>7 DEF DigestStart, DigestCount, DigestBound, DigestAbsorb, DigestOutside,
                          Goes, Loads, Committed, Absorbing
<1>8. ASSUME NEW s \in Stream, DigestStore(s) PROVE FALSE
  BY <1>1, <1>2, <1>8 DEF DigestStore, Stores, Goes, Committed
<1>9. CASE UNCHANGED vars
  BY <1>3, <1>9 DEF vars, Committed
<1> QED
  BY <1>4, <1>5, <1>6, <1>7, <1>8, <1>9 DEF Next

(* The steps of the pusher keep the ledger until a race is unavoidable.      *)
LEMMA ExactPush ==
  ASSUME Typed, Bounded, Synced, Ledger, ~Doomed',
         PushStart \/ PushSlot \/ PushCopy \/ PushLoad \/ PushStore
  PROVE  Ledger'
<1>1. /\ \A t \in Stream : t # Pusher => pc'[t] = pc[t] /\ i'[t] = i[t]
      /\ pc[Pusher] \notin Absorbing /\ pc'[Pusher] \notin Absorbing
  BY CounterFacts DEF Typed, TypeOK, PushStart, PushSlot, PushCopy, PushLoad, PushStore,
                      Goes, Ends, Absorbing
<1>2. CASE PushStart \/ PushSlot \/ PushLoad
  <2>1. UNCHANGED << counter, pushed >>
    BY <1>2 DEF PushStart, PushSlot, PushLoad
  <2> QED
    BY <1>1, <2>1 DEF Ledger
<1>3. CASE PushCopy
  <2>1. pushed' = pushed /\ counter.num_buffered <= n[Pusher]
    BY <1>3 DEF PushCopy, Goes, Bounded
  <2>2. /\ counter'.num_buffered = counter.num_buffered
        /\ counter'.data = counter.data
        /\ \A j \in 1..Len(counter.buffer) :
             j # n[Pusher] + 1 => counter'.buffer[j] = counter.buffer[j]
    BY <1>3, CopyEffect
  <2>3. \A j \in 1..counter.num_buffered : j \in 1..Len(counter.buffer) /\ j # n[Pusher] + 1
    BY <2>1, CounterFacts
  <2> QED
    BY <1>1, <2>1, <2>2, <2>3 DEF Ledger
<1>4. CASE PushStore
  <2>1. pushed' = pushed + 1 /\ SyncedAt(Pusher) /\ pc[Pusher] = "store"
    BY <1>4, CounterFacts DEF PushStore, Stores, Goes, Synced, Doomed
  <2>2. n[Pusher] = counter.num_buffered /\ counter.buffer[n[Pusher] + 1] = pushed + 1
    BY <2>1 DEF SyncedAt, Pushing
  <2>3. /\ counter'.num_buffered = counter.num_buffered + 1
        /\ counter'.data = counter.data
        /\ counter'.buffer = counter.buffer
    <3>1. n[Pusher] + 1 \in Nat
      BY CounterFacts
    <3>2. counter' = [counter EXCEPT !.num_buffered = n[Pusher] + 1]
      BY <1>4 DEF PushStore
    <3> QED
      BY <2>2, <3>1, <3>2, StoreEffect
  <2>4. \A j \in 1..counter'.num_buffered :
          counter'.buffer[j] = pushed' - counter'.num_buffered + j
    <3>1. pushed \in Nat /\ counter.num_buffered \in Nat
      BY Numbers
    <3>2. \A j \in 1..counter.num_buffered :
            counter.buffer[j] = pushed - counter.num_buffered + j
      BY DEF Ledger
    <3>3. counter.buffer[counter.num_buffered + 1] = pushed + 1
      BY <2>2
    <3>4. ASSUME NEW j \in 1..counter.num_buffered + 1
          PROVE  counter.buffer[j] = (pushed + 1) - (counter.num_buffered + 1) + j
      <4>1. j \in 1..counter.num_buffered \/ j = counter.num_buffered + 1
        BY <3>1
      <4> QED
        BY <3>1, <3>2, <3>3, <4>1
    <3> QED
      BY <2>1, <2>3, <3>4, Zenon
  <2>5. pushed' - counter'.num_buffered = pushed - counter.num_buffered
    <3>1. pushed \in Nat /\ counter.num_buffered \in Nat
      BY Numbers
    <3>2. (pushed + 1) - (counter.num_buffered + 1) = pushed - counter.num_buffered
      BY <3>1
    <3> QED
      BY <2>1, <2>3, <3>2
  <2> QED
    BY <1>1, <2>3, <2>4, <2>5 DEF Ledger
<1> QED
  BY <1>2, <1>3, <1>4

(* So do the steps of a digest, which is then the only one under way.        *)
LEMMA ExactDigest ==
  ASSUME Typed, Bounded, Synced, Ledger, ~Doomed, ~Doomed', NEW s \in Stream,
         DigestStart(s) \/ DigestCount(s) \/ DigestBound(s) \/ DigestAbsorb(s)
           \/ DigestOutside(s) \/ DigestStore(s)
  PROVE  Ledger'
<1>1. /\ \A t \in Stream : t # s => pc'[t] = pc[t] /\ i'[t] = i[t]
      /\ pushed' = pushed
      /\ pc \in [Stream -> Label] /\ i \in [Stream -> Nat]
  BY CounterFacts DEF Typed, TypeOK, DigestStart, DigestCount, DigestBound, DigestAbsorb,
                      DigestOutside, DigestStore, Goes, Ends
<1>2. /\ pc[s] \in Absorbing => \A t \in Stream : t # s => pc[t] \notin Absorbing
      /\ pc'[s] \in Absorbing => \A t \in Stream : t # s => pc[t] \notin Absorbing
  BY <1>1 DEF Doomed, Committed
<1>3. CASE DigestStart(s)
  <2>1. /\ counter' = counter /\ i'[s] = 0
        /\ pc[s] \notin Absorbing
    BY <1>1, <1>3 DEF DigestStart, Goes, Absorbing
  <2>2. pushed \in Nat /\ counter.num_buffered \in Nat
    BY Numbers
  <2>3. ASSUME NEW t \in Stream, pc'[t] \in Absorbing
        PROVE  Len(counter.data) = pushed - counter.num_buffered + i'[t]
    <3>1. CASE t # s
      BY <1>1, <2>3, <3>1 DEF Ledger
    <3>2. CASE t = s
      <4>1. \A u \in Stream : pc[u] \notin Absorbing
        BY <1>2, <2>1, <2>3, <3>2
      <4>2. Len(counter.data) = pushed - counter.num_buffered
        BY <4>1 DEF Ledger
      <4> QED
        BY <2>1, <2>2, <3>2, <4>2
    <3> QED
      BY <3>1, <3>2
  <2>4. (\A t \in Stream : pc'[t] \notin Absorbing) => \A t \in Stream : pc[t] \notin Absorbing
    BY <1>1, <2>1
  <2> QED
    BY <1>1, <2>1, <2>3, <2>4 DEF Ledger
<1>4. CASE DigestCount(s) \/ DigestBound(s)
  <2>1. /\ UNCHANGED << counter, i >>
        /\ pc[s] \in Absorbing /\ pc'[s] \in Absorbing
    BY <1>1, <1>4 DEF DigestCount, DigestBound, Goes, Absorbing
  <2> QED
    BY <1>1, <2>1 DEF Ledger
<1>5. pc[s] = "absorb" =>
        SyncedAt(s) /\ n[s] = counter.num_buffered /\ i[s] <= n[s] /\ n[s] # 0
  BY <1>1 DEF Doomed, Committed, Synced, SyncedAt, Absorbing
<1>6. CASE DigestAbsorb(s)
  <2>1. /\ pc[s] = "absorb" /\ pc'[s] \in Absorbing
        /\ i[s] < n[s] /\ i'[s] = i[s] + 1
    BY <1>1, <1>6 DEF DigestAbsorb, Goes, Absorbing
  <2>2. /\ counter'.num_buffered = counter.num_buffered
        /\ counter'.buffer = counter.buffer
        /\ Len(counter'.data) = Len(counter.data) + 1
        /\ counter'.data[Len(counter.data) + 1] = counter.buffer[i[s] + 1]
        /\ \A k \in 1..Len(counter.data) : counter'.data[k] = counter.data[k]
    BY <1>6, AbsorbEffect
  <2>3. Len(counter.data) = pushed - counter.num_buffered + i[s]
    BY <2>1 DEF Ledger, Absorbing
  <2>4. i[s] + 1 \in 1..counter.num_buffered
    BY <1>5, <2>1, CounterFacts
  <2>5. counter.buffer[i[s] + 1] = Len(counter.data) + 1
    <3>1. counter.buffer[i[s] + 1] = pushed - counter.num_buffered + (i[s] + 1)
      BY <2>4 DEF Ledger
    <3>2. pushed \in Nat /\ counter.num_buffered \in Nat /\ i[s] \in Nat
      BY Numbers
    <3> QED
      BY <2>3, <3>1, <3>2
  <2>6. \A k \in 1..Len(counter'.data) : counter'.data[k] = k
    <3>1. Len(counter.data) \in Nat /\ \A k \in 1..Len(counter.data) : counter.data[k] = k
      BY Numbers DEF Ledger
    <3>2. ASSUME NEW k \in 1..Len(counter.data) + 1 PROVE counter'.data[k] = k
      <4>1. k \in 1..Len(counter.data) \/ k = Len(counter.data) + 1
        BY <3>1
      <4> QED
        BY <2>2, <2>5, <3>1, <4>1
    <3> QED
      BY <2>2, <3>2
  <2>7. Len(counter'.data) = pushed' - counter'.num_buffered + i'[s]
    <3>1. pushed \in Nat /\ counter.num_buffered \in Nat /\ i[s] \in Nat
      BY Numbers
    <3>2. Len(counter.data) + 1 = pushed - counter.num_buffered + (i[s] + 1)
      <4>1. \A l, a, b, c \in Nat : l = a - b + c => l + 1 = a - b + (c + 1)
        OBVIOUS
      <4>2. Len(counter.data) \in Nat
        BY Numbers
      <4> QED
        BY <2>3, <3>1, <4>1, <4>2, Zenon
    <3> QED
      BY <1>1, <2>1, <2>2, <3>2
  <2>8. \A t \in Stream : t # s => pc'[t] \notin Absorbing
    BY <1>1, <1>2, <2>1
  <2> QED
    BY <1>1, <2>1, <2>2, <2>6, <2>7, <2>8 DEF Ledger
<1>7. CASE DigestStore(s)
  <2>1. /\ pc[s] = "absorb" /\ pc'[s] \notin Absorbing
        /\ i[s] = counter.num_buffered
    BY <1>1, <1>5, <1>7, CounterFacts DEF DigestStore, Goes, Then, Absorbing
  <2>2. /\ counter'.num_buffered = 0
        /\ counter'.data = counter.data
    <3>1. counter' = [counter EXCEPT !.num_buffered = 0] /\ 0 \in Nat
      BY <1>7 DEF DigestStore
    <3> QED
      BY <3>1, StoreEffect
  <2>3. Len(counter.data) = pushed
    BY <2>1, CounterFacts DEF Ledger, Absorbing
  <2>4. \A t \in Stream : pc'[t] \notin Absorbing
    BY <1>1, <1>2, <2>1 DEF Absorbing
  <2> QED
    BY <1>1, <2>2, <2>3, <2>4, CounterFacts DEF Ledger
<1>8. CASE DigestOutside(s)
  BY <1>5, <1>8 DEF DigestOutside, BeforeBuffer, Goes
<1> QED
  BY <1>3, <1>4, <1>6, <1>7, <1>8

(* Until a race is unavoidable every step keeps the ledger.                  *)
LEMMA ExactNext == Typed /\ Bounded /\ Synced /\ Exact /\ [Next]_vars => Exact'
<1> SUFFICES ASSUME Typed, Bounded, Synced, Exact, [Next]_vars, ~Doomed' PROVE Ledger'
  BY DEF Exact
<1>1. ~Doomed /\ Ledger
  BY DoomIsFinal DEF Exact
<1>2. ASSUME NEW r \in Reader, Call(r, "value") \/ Call(r, "digest") \/ Get(r) PROVE Ledger'
  <2>1. /\ UNCHANGED << counter, i, pushed >>
        /\ \A t \in Stream : pc'[t] \in Absorbing <=> pc[t] \in Absorbing
    BY <1>2, CounterFacts DEF Call, Get, Goes, Typed, Absorbing
  <2> QED
    BY <1>1, <2>1 DEF Ledger
<1>3. CASE UNCHANGED vars
  BY <1>1, <1>3 DEF vars, Ledger
<1> QED
  BY <1>1, <1>2, <1>3, ExactPush, ExactDigest DEF Next

-----------------------------------------------------------------------------
(* The invariant holds of a counter that has just been registered. *)
LEMMA InvInit == Init => IInv
<1> SUFFICES ASSUME Init PROVE IInv
  OBVIOUS
<1>1. Typed /\ Bounded
  BY BoundedInit
<1>2. \A s \in Stream : pc[s] = "idle"
  BY DEF Init
<1>3. counter.num_buffered = 0 /\ counter.data = << >> /\ pushed = 0
  BY DEF Init, WasReset, Allocated
<1>4. Synced /\ Complete
  BY <1>2, <1>3, CounterFacts, <1>1 DEF Synced, SyncedAt, Complete, Pushing, Absorbing, Stream
<1>5. Exact
  BY <1>2, <1>3 DEF Exact, Ledger, Absorbing
<1>6. NothingInvented
  BY <1>3 DEF NothingInvented, Range
<1> QED
  BY <1>1, <1>4, <1>5, <1>6 DEF IInv

(* The invariant is inductive. *)
LEMMA InvNext == IInv /\ [Next]_vars => IInv'
  BY BoundedNext, SyncedNext, NothingInventedNext, CompleteNext, ExactNext DEF IInv

(* A race makes the data take what nobody pushed for the LAST types only, and *)
(* only under a call that stores num_buffered over a change it had not seen:  *)
(* with any other type every absorbed item is one that was pushed, for any    *)
(* number of streams.                                                         *)
THEOREM OnlyOutsideIsInvented == Spec => []NothingInvented
<1>1. IInv => NothingInvented
  BY DEF IInv
<1> QED
  BY <1>1, InvInit, InvNext, PTL DEF Spec

(* What races can cost is limited to one pattern: unless a call stored        *)
(* num_buffered over a change it had not seen, every item that was pushed is  *)
(* in the counter once and in order, for any number of streams, whatever the  *)
(* calls' overlap and whether the type has a push_multi_f.                    *)
THEOREM ExactWithoutRace == Spec => []ExactUnlessRaced
<1>1. IInv => ExactUnlessRaced
  <2> SUFFICES ASSUME IInv, \A s \in Stream : pc[s] = "idle", ~raced
               PROVE  Content(counter) = [k \in 1..pushed |-> k]
    BY DEF ExactUnlessRaced
  <2> DEFINE log == [k \in 1..pushed |-> k]
  <2>1. Typed /\ Bounded /\ Synced /\ Exact /\ Shape(counter)
    BY CounterFacts DEF IInv, Shape
  <2>2. ~Doomed
    BY <2>1 DEF Doomed, Committed, Absorbing, Typed, TypeOK
  <2>3. Ledger /\ Len(counter.data) = pushed - counter.num_buffered
    BY <2>1, <2>2 DEF Exact, Ledger, Absorbing
  <2>4. /\ Buffered(counter) \in Seq(Memory)
        /\ Len(Buffered(counter)) = counter.num_buffered
        /\ \A j \in 1..counter.num_buffered : Buffered(counter)[j] = counter.buffer[j]
        /\ counter.data \in Seq(Memory)
    BY <2>1, BufferedType, CounterFacts DEF Memory
  <2>5. /\ Content(counter) \in Seq(Memory)
        /\ Len(Content(counter)) = pushed
        /\ \A k \in 1..pushed : Content(counter)[k] = k
    <3> DEFINE d == counter.data
               b == Buffered(counter)
    <3>1. /\ d \o b \in Seq(Memory)
          /\ Len(d \o b) = Len(d) + Len(b)
          /\ \A k \in 1..Len(d) + Len(b) :
               (d \o b)[k] = IF k <= Len(d) THEN d[k] ELSE b[k - Len(d)]
      BY <2>4, ConcatProperties
    <3>2. /\ pushed \in Nat /\ counter.num_buffered \in Nat /\ Len(d) \in Nat
          /\ Len(d) = pushed - counter.num_buffered
      BY <2>1, <2>3, Numbers
    <3>3. /\ \A k \in 1..Len(d) : d[k] = k
          /\ \A j \in 1..counter.num_buffered : b[j] = pushed - counter.num_buffered + j
      BY <2>3, <2>4 DEF Ledger
    <3>4. Content(counter) = d \o b /\ Len(b) = counter.num_buffered
      BY <2>4 DEF Content
    <3> HIDE DEF d, b
    <3>5. Len(d) + Len(b) = pushed
      BY <3>2, <3>4
    <3>6. ASSUME NEW k \in 1..pushed PROVE (d \o b)[k] = k
      <4>1. CASE k <= Len(d)
        <5>1. k \in 1..Len(d)
          BY <3>2, <4>1
        <5> QED
          BY <3>1, <3>3, <3>5, <4>1, <5>1
      <4>2. CASE ~(k <= Len(d))
        <5>1. k - Len(d) \in 1..counter.num_buffered
          BY <3>2, <4>2
        <5>2. b[k - Len(d)] = pushed - counter.num_buffered + (k - Len(d))
          BY <3>3, <5>1
        <5>3. b[k - Len(d)] = k
          BY <3>2, <5>2
        <5> QED
          BY <3>1, <3>5, <4>2, <5>3
      <4> QED
        BY <4>1, <4>2
    <3> QED
      BY <3>1, <3>4, <3>5, <3>6
  <2>6. /\ log \in Seq(Memory)
        /\ Len(log) = pushed
        /\ \A k \in 1..pushed : log[k] = k
    BY <2>1, CounterFacts, StreamAssumption DEF Memory, Typed, TypeOK
  <2> HIDE DEF log
  <2> QED
    BY <2>5, <2>6, SeqEqual
<1> QED
  BY <1>1, InvInit, InvNext, PTL DEF Spec

(* Without that pattern a fetch misses no item whose push had returned when   *)
(* the fetch began, also when another stream is in the middle of a digest.    *)
THEOREM ReadsAreComplete == Spec => ReadIsComplete
<1>1. IInv /\ [Next]_vars =>
        [\A r \in Reader : Get(r) /\ ~raced => 1..due[r] \subseteq Range(counter.data)]_vars
  BY DEF IInv, Complete, Get, Goes
<1> QED
  BY <1>1, InvInit, InvNext, PTL DEF Spec, ReadIsComplete

=============================================================================
