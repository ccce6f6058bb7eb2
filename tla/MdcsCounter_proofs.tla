------------------------- MODULE MdcsCounter_proofs -------------------------
(***************************************************************************)
(* What holds of a counter for every set of items, every set of buffer     *)
(* sizes and every bound on the log.                                       *)
(***************************************************************************)
EXTENDS MdcsCounter, Counter_proofs

-----------------------------------------------------------------------------
(* The invariant: the type of the state, and the content of the counter is   *)
(* the log.  Together they are inductive: that the log holds items only      *)
(* keeps garbage out of what is absorbed.                                    *)
Inv == TypeOK /\ BufferTransparent

(* The invariant holds initially. *)
LEMMA InvInit == Init => Inv
<1> SUFFICES ASSUME Init PROVE Inv
  OBVIOUS
<1>1. PICK n \in BufferSizes : counter = WasReset(Allocated(n))
  BY DEF Init
<1>2. n \in Nat
  BY CounterAssumption
<1>3. /\ counter.data = << >>
      /\ counter.buffer = [i \in 1..n |-> Garbage]
      /\ counter.max_buffer_size = n
      /\ counter.num_buffered = 0
      /\ counter = [data |-> << >>, buffer |-> [i \in 1..n |-> Garbage],
                    max_buffer_size |-> n, num_buffered |-> 0]
  BY <1>1 DEF WasReset, Allocated
<1>4. counter.buffer \in Seq(Memory) /\ Len(counter.buffer) = n
  BY <1>2, <1>3 DEF Memory
<1>5. TypeOK
  <2>1. counter.data \in Seq(Memory)
    BY <1>3
  <2>2. counter \in CounterRecord
    <3>1. [data |-> << >>, buffer |-> counter.buffer,
           max_buffer_size |-> n, num_buffered |-> 0] \in CounterRecord
      BY <1>2, <1>4 DEF CounterRecord
    <3>2. counter = [data |-> << >>, buffer |-> counter.buffer,
                     max_buffer_size |-> n, num_buffered |-> 0]
      BY <1>3
    <3> QED
      BY <3>1, <3>2
  <2>3. log = << >> /\ out = NoValue /\ stale = 0 /\ seen = 0
    BY DEF Init
  <2>4. log \in Seq(Item) /\ stale \in 0..Len(log) /\ seen \in 0..Len(log)
    BY <2>3
  <2> QED
    BY <1>2, <1>3, <1>4, <2>2, <2>3, <2>4 DEF TypeOK
<1>6. Buffered(counter) = << >>
  BY <1>3, SubSeqEmpty DEF Buffered
<1>7. BufferTransparent
  BY <1>3, <1>6 DEF Init, BufferTransparent, Content
<1> QED
  BY <1>5, <1>7 DEF Inv

(* Every step keeps the invariant. *)
LEMMA InvNext == Inv /\ [Next]_vars => Inv'
<1> SUFFICES ASSUME Inv, [Next]_vars PROVE Inv'
  OBVIOUS
<1>1. /\ Shape(counter)
      /\ Content(counter) = log
      /\ log \in Seq(Item)
      /\ counter.max_buffer_size \in BufferSizes
      /\ out \in Seq(Item) \union {NoValue}
      /\ stale \in 0..Len(log)
      /\ seen \in 0..Len(log)
  BY DEF Inv, TypeOK, BufferTransparent, Shape
<1>2. counter.num_buffered \in Nat /\ counter.data \in Seq(Memory)
  BY <1>1 DEF Shape, CounterRecord
<1>3. Buffered(counter) \in Seq(Memory) /\ Len(Buffered(counter)) = counter.num_buffered
  BY <1>1, BufferedType
<1>4. ASSUME NEW x \in Item, Push(x) PROVE Inv'
  <2>1. x \in Memory
    BY DEF Memory
  <2>2. /\ Shape(counter')
        /\ counter'.max_buffer_size = counter.max_buffer_size
        /\ Content(counter') = log'
    BY <1>1, <1>4, <2>1, PushAppends DEF Push
  <2>3. log' \in Seq(Item) /\ Len(log') = Len(log) + 1
    BY <1>1, <1>4 DEF Push
  <2>4. UNCHANGED << out, stale, seen >>
    BY <1>4 DEF Push
  <2> QED
    BY <1>1, <2>2, <2>3, <2>4 DEF Inv, TypeOK, BufferTransparent, Shape
<1>5. CASE Digest
  <2>1. /\ Shape(counter')
        /\ counter'.max_buffer_size = counter.max_buffer_size
        /\ Content(counter') = log
    BY <1>1, <1>5, DigestKeepsContent DEF Digest
  <2> QED
    BY <1>1, <1>5, <2>1 DEF Digest, Inv, TypeOK, BufferTransparent, Shape
<1>6. CASE Value
  <2>1. /\ Shape(counter')
        /\ counter'.max_buffer_size = counter.max_buffer_size
        /\ Content(counter') = log
        /\ out' = log
    BY <1>1, <1>6, DigestKeepsContent DEF Value
  <2>2. seen' = Len(log) /\ log' = log /\ stale' = stale
    BY <1>6 DEF Value
  <2> QED
    BY <1>1, <2>1, <2>2, LenProperties DEF Inv, TypeOK, BufferTransparent, Shape
<1>7. CASE Reset
  <2>1. /\ counter'.data = << >>
        /\ counter'.buffer = counter.buffer
        /\ counter'.num_buffered = counter.num_buffered
        /\ counter'.max_buffer_size = counter.max_buffer_size
        /\ counter' \in CounterRecord
    <3>1. counter' = [counter EXCEPT !.data = << >>]
      BY <1>7 DEF Reset, WasReset
    <3>2. << >> \in Seq(Memory)
      OBVIOUS
    <3> QED
      BY <1>1, <3>1, <3>2 DEF Shape, CounterRecord
  <2>2. Buffered(counter') = Buffered(counter)
    BY <2>1 DEF Buffered
  <2>3. Content(counter') = log'
    BY <1>3, <1>7, <2>1, <2>2 DEF Reset, Content
  <2>4. Buffered(counter) \in Seq(Item)
    <3>1. /\ log = counter.data \o Buffered(counter)
          /\ Len(log) = Len(counter.data) + Len(Buffered(counter))
          /\ \A i \in 1..Len(counter.data) + Len(Buffered(counter)) :
               log[i] = IF i <= Len(counter.data) THEN counter.data[i]
                        ELSE Buffered(counter)[i - Len(counter.data)]
      BY <1>1, <1>2, <1>3, ConcatProperties DEF Content
    <3>2. \A j \in 1..Len(Buffered(counter)) :
             Buffered(counter)[j] = log[Len(counter.data) + j]
      BY <1>2, <1>3, <3>1
    <3>3. \A j \in 1..Len(Buffered(counter)) : Buffered(counter)[j] \in Item
      BY <1>1, <1>2, <1>3, <3>1, <3>2
    <3> QED
      BY <1>3, <3>3
  <2>5. /\ log' \in Seq(Item)
        /\ Len(log') = counter.num_buffered
        /\ stale' = counter.num_buffered
    BY <1>3, <1>7, <2>4 DEF Reset
  <2>6. Len(log) = Len(counter.data) + counter.num_buffered
    BY <1>1, <1>2, <1>3, ConcatProperties DEF Content
  <2>7. seen' \in 0..counter.num_buffered
    BY <1>1, <1>2, <1>7, <2>6 DEF Reset
  <2>8. out' = out
    BY <1>7 DEF Reset
  <2> QED
    BY <1>1, <1>2, <2>1, <2>3, <2>5, <2>7, <2>8
    DEF Inv, TypeOK, BufferTransparent, Shape
<1>8. CASE UNCHANGED vars
  BY <1>8 DEF vars, Inv, TypeOK, BufferTransparent
<1> QED
  BY <1>4, <1>5, <1>6, <1>7, <1>8 DEF Next

(* The state of a counter keeps its type, in particular no call ever counts  *)
(* more buffered items than the buffer has slots.                            *)
THEOREM TypeCorrect == Spec => []TypeOK
<1>1. Inv => TypeOK
  BY DEF Inv
<1> QED
  BY <1>1, InvInit, InvNext, PTL DEF Spec

(* For every set of items and every buffer size, what mdcs_counter_push and  *)
(* mdcs_counter_digest do to the buffer cannot be told from pushing each     *)
(* item straight into the counter's data.                                    *)
THEOREM Transparency == Spec => []BufferTransparent
<1>1. Inv => BufferTransparent
  BY DEF Inv
<1> QED
  BY <1>1, InvInit, InvNext, PTL DEF Spec

(* Every mdcs_counter_value returns the whole content of the counter.        *)
THEOREM ReadsAreComplete == Spec => ReadIsComplete
<1>1. Inv /\ [Next]_vars => [Value => out' = log /\ Content(counter') = log]_vars
  <2> SUFFICES ASSUME Inv, Value PROVE out' = log /\ Content(counter') = log
    OBVIOUS
  <2>1. Shape(counter) /\ Content(counter) = log
    BY DEF Inv, TypeOK, BufferTransparent, Shape
  <2> QED
    BY <2>1, DigestKeepsContent DEF Value
<1> QED
  BY <1>1, InvInit, InvNext, PTL DEF Spec, ReadIsComplete

-----------------------------------------------------------------------------
(* That a reset drops every item a read has returned needs one fact more:    *)
(* those items have been absorbed, none of them waits in the buffer.         *)
SeenAbsorbed == seen <= Len(counter.data)

(* What a read has seen is absorbed, and a reset forgets it. *)
LEMMA SeenNext == Inv /\ SeenAbsorbed /\ [Next]_vars => SeenAbsorbed' /\ (Reset => seen' = 0)
<1> SUFFICES ASSUME Inv, SeenAbsorbed, [Next]_vars
             PROVE  SeenAbsorbed' /\ (Reset => seen' = 0)
  OBVIOUS
<1>1. /\ Shape(counter)
      /\ Content(counter) = log
      /\ seen \in Nat
  BY DEF Inv, TypeOK, BufferTransparent, Shape
<1>2. /\ Len(log) = Len(counter.data) + counter.num_buffered
      /\ Len(counter.data) \in Nat
      /\ counter.num_buffered \in Nat
  BY <1>1, BufferedType, ConcatProperties, LenProperties DEF Content, Shape, CounterRecord
<1>3. ASSUME Reset PROVE seen' = 0 /\ SeenAbsorbed'
  <2>1. seen' = IF seen > Len(log) - counter.num_buffered
                THEN seen - (Len(log) - counter.num_buffered) ELSE 0
    BY <1>3 DEF Reset
  <2>2. Len(log) - counter.num_buffered = Len(counter.data)
    BY <1>2
  <2>3. seen' = 0
    BY <1>1, <1>2, <2>1, <2>2 DEF SeenAbsorbed
  <2>4. counter'.data = << >>
    BY <1>1, <1>3 DEF Reset, WasReset, Shape, CounterRecord
  <2> QED
    BY <2>3, <2>4 DEF SeenAbsorbed
<1>4. ASSUME NEW x \in Item, Push(x) PROVE SeenAbsorbed'
  <2>1. counter' = Pushed(counter, x) /\ seen' = seen
    BY <1>4 DEF Push
  <2>2. Len(counter.data) <= Len(counter'.data) /\ Shape(counter')
    BY <1>1, <2>1, PushKeepsData, PushAppends DEF Memory
  <2>3. Len(counter'.data) \in Nat
    BY <2>2, LenProperties DEF Shape, CounterRecord
  <2> QED
    BY <1>1, <1>2, <2>1, <2>2, <2>3 DEF SeenAbsorbed
<1>5. ASSUME Digest PROVE SeenAbsorbed'
  <2>1. counter'.data = log /\ seen' = seen
    BY <1>1, <1>5, DigestKeepsContent DEF Digest
  <2> QED
    BY <1>1, <1>2, <2>1 DEF SeenAbsorbed
<1>6. ASSUME Value PROVE SeenAbsorbed'
  <2>1. counter'.data = log /\ seen' = Len(log)
    BY <1>1, <1>6, DigestKeepsContent DEF Value
  <2> QED
    BY <1>2, <2>1 DEF SeenAbsorbed
<1>7. ASSUME UNCHANGED vars PROVE SeenAbsorbed'
  BY <1>7 DEF vars, SeenAbsorbed
<1>8. Reset => seen' = 0
  BY <1>3
<1>9. SeenAbsorbed'
  BY <1>3, <1>4, <1>5, <1>6, <1>7 DEF Next
<1> QED
  BY <1>8, <1>9

(* Whatever a read has returned, the next reset drops: nothing is counted in *)
(* two periods, for every buffer size.                                       *)
THEOREM NothingReadTwice == Spec => ReadItemsDoNotSurvive
<1>1. Init => SeenAbsorbed
  <2> SUFFICES ASSUME Init PROVE SeenAbsorbed
    OBVIOUS
  <2>1. counter.data = << >> /\ seen = 0
    BY DEF Init, WasReset, Allocated
  <2> QED
    BY <2>1 DEF SeenAbsorbed
<1>2. Inv /\ SeenAbsorbed /\ [Next]_vars => [Reset => seen' = 0]_vars
  BY SeenNext
<1> QED
  BY <1>1, <1>2, InvInit, InvNext, SeenNext, PTL DEF Spec, ReadItemsDoNotSurvive

-----------------------------------------------------------------------------
(* A counter with its buffer implements the abstract counter without one:    *)
(* every call is the abstract call of the same name.                         *)
THEOREM Implements == Spec => Promise
<1>1. Init => Abstract!Init
  <2> SUFFICES ASSUME Init PROVE Abstract!Init
    OBVIOUS
  <2>1. PICK n \in BufferSizes : counter = WasReset(Allocated(n))
    BY DEF Init
  <2>2. counter.num_buffered = 0 /\ counter.max_buffer_size \in Nat
    BY <2>1, CounterAssumption DEF WasReset, Allocated
  <2> QED
    BY <2>2 DEF Init, Abstract!Init
<1>2. Inv /\ [Next]_vars => [Abstract!Next]_(Abstract!vars)
  <2> SUFFICES ASSUME Inv, [Next]_vars PROVE [Abstract!Next]_(Abstract!vars)
    OBVIOUS
  <2>1. /\ Shape(counter)
        /\ Content(counter) = log
        /\ log \in Seq(Item)
    BY DEF Inv, TypeOK, BufferTransparent, Shape
  <2>2. /\ counter.num_buffered \in Nat
        /\ counter.data \in Seq(Memory)
        /\ Buffered(counter) \in Seq(Memory)
        /\ Len(Buffered(counter)) = counter.num_buffered
    BY <2>1, BufferedType DEF Shape, CounterRecord
  <2>3. ASSUME NEW x \in Item, Push(x) PROVE Abstract!Push(x)
    <3>1. /\ Shape(counter')
          /\ counter'.max_buffer_size = counter.max_buffer_size
          /\ counter'.num_buffered <= counter.num_buffered + 1
      BY <2>1, <2>3, PushAppends DEF Push, Memory
    <3>2. counter'.num_buffered \in 0..counter.max_buffer_size
      BY <3>1 DEF Shape, CounterRecord
    <3> QED
      BY <2>3, <3>1, <3>2 DEF Push, Abstract!Push
  <2>4. CASE Digest
    BY <2>1, <2>4, DigestKeepsContent DEF Digest, Abstract!CatchUp, Abstract!Next
  <2>5. CASE Value
    BY <2>1, <2>5, DigestKeepsContent DEF Value, Abstract!Read, Abstract!Next
  <2>6. CASE Reset
    <3>1. Len(log) = Len(counter.data) + counter.num_buffered
      BY <2>1, <2>2, ConcatProperties DEF Content
    <3>2. SubSeq(log, Len(log) - counter.num_buffered + 1, Len(log)) = Buffered(counter)
      <4>1. Len(counter.data) \in Nat
        BY <2>2
      <4>2. /\ Len(log) - counter.num_buffered + 1 = Len(counter.data) + 1
            /\ Len(log) = Len(counter.data) + Len(Buffered(counter))
        BY <2>2, <3>1, <4>1
      <4>3. log = counter.data \o Buffered(counter)
        BY <2>1 DEF Content
      <4>4. SubSeq(counter.data \o Buffered(counter), Len(counter.data) + 1,
                   Len(counter.data) + Len(Buffered(counter))) = Buffered(counter)
        BY <2>2, ConcatTail
      <4> QED
        BY <4>2, <4>3, <4>4
    <3>3. /\ counter'.num_buffered = counter.num_buffered
          /\ counter'.max_buffer_size = counter.max_buffer_size
      BY <2>1, <2>6 DEF Reset, WasReset, Shape, CounterRecord
    <3> QED
      BY <2>6, <3>2, <3>3 DEF Reset, Abstract!Reset, Abstract!Next
  <2>7. CASE UNCHANGED vars
    BY <2>7 DEF vars, Abstract!vars
  <2> QED
    BY <2>3, <2>4, <2>5, <2>6, <2>7 DEF Next, Abstract!Next
<1> QED
  BY <1>1, <1>2, InvInit, InvNext, PTL DEF Spec, Promise, Abstract!Spec
=============================================================================
