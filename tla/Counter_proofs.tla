---------------------------- MODULE Counter_proofs ----------------------------
(***************************************************************************)
(* Lemmas about one counter, for every set of items: what the operators of *)
(* module Counter keep, whoever applies them.                              *)
(***************************************************************************)
EXTENDS Counter, SequenceTheorems, TLAPS

(* Appending to the second of two sequences appends to their concatenation. *)
LEMMA ConcatAppend ==
  ASSUME NEW S, NEW s \in Seq(S), NEW t \in Seq(S), NEW e \in S
  PROVE  s \o Append(t, e) = Append(s \o t, e)
<1>1. << e >> \in Seq(S)
  OBVIOUS
<1>2. Append(t, e) = t \o << e >> /\ Append(s \o t, e) = (s \o t) \o << e >>
  BY AppendIsConcat, ConcatProperties
<1> QED
  BY <1>1, <1>2, ConcatAssociative

(* Writing the slot behind a prefix makes the prefix longer by that item. *)
LEMMA PrefixGrows ==
  ASSUME NEW S, NEW s \in Seq(S), NEW n \in Nat, n < Len(s), NEW e \in S
  PROVE  SubSeq([s EXCEPT ![n + 1] = e], 1, n + 1) = Append(SubSeq(s, 1, n), e)
<1> DEFINE r == [s EXCEPT ![n + 1] = e]
<1>1. /\ r \in Seq(S)
      /\ Len(r) = Len(s)
      /\ \A j \in 1..Len(s) : r[j] = IF j = n + 1 THEN e ELSE s[j]
  BY ExceptSeq
<1>2. \A i \in 1..n : r[i] \in S /\ s[i] \in S
  BY <1>1, ElementOfSeq
<1>3. SubSeq(r, 1, n) = SubSeq(s, 1, n)
  <2>1. /\ SubSeq(r, 1, n) \in Seq(S) /\ SubSeq(s, 1, n) \in Seq(S)
        /\ Len(SubSeq(r, 1, n)) = n /\ Len(SubSeq(s, 1, n)) = n
        /\ \A i \in 1..n : SubSeq(r, 1, n)[i] = r[i] /\ SubSeq(s, 1, n)[i] = s[i]
    BY <1>2, SubSeqProperties
  <2> QED
    BY <1>1, <2>1, SeqEqual
<1>4. SubSeq(r, 1, n + 1) = SubSeq(r, 1, n) \o << e >>
  BY <1>1, SubSeqRecursiveSecond
<1>5. SubSeq(s, 1, n) \in Seq(S)
  BY <1>2, SubSeqProperties
<1> QED
  BY <1>3, <1>4, <1>5, AppendIsConcat

(* The tail of a concatenation that has the length of its second part. *)
LEMMA ConcatTail ==
  ASSUME NEW S, NEW s \in Seq(S), NEW t \in Seq(S)
  PROVE  SubSeq(s \o t, Len(s) + 1, Len(s) + Len(t)) = t
<1>1. CASE Len(t) = 0
  BY <1>1, EmptySeq, SubSeqEmpty, LenProperties
<1>2. CASE Len(t) # 0
  BY <1>2, SubSeqOfConcat2, SubSeqFull, LenProperties
<1> QED
  BY <1>1, <1>2

(* Setting num_buffered leaves the rest of a counter alone. *)
LEMMA SetCount ==
  ASSUME NEW c \in CounterRecord, NEW k \in Nat, NEW d, d = [c EXCEPT !.num_buffered = k]
  PROVE  /\ d \in CounterRecord /\ d.num_buffered = k /\ d.data = c.data
         /\ d.buffer = c.buffer /\ d.max_buffer_size = c.max_buffer_size
  BY DEF CounterRecord

(* So does setting the data. *)
LEMMA SetData ==
  ASSUME NEW c \in CounterRecord, NEW s \in Seq(Memory), NEW d, d = [c EXCEPT !.data = s]
  PROVE  /\ d \in CounterRecord /\ d.num_buffered = c.num_buffered /\ d.data = s
         /\ d.buffer = c.buffer /\ d.max_buffer_size = c.max_buffer_size
  BY DEF CounterRecord

(* Writing a slot that is there changes that slot only. *)
LEMMA SetSlot ==
  ASSUME NEW c \in CounterRecord, NEW k \in 1..Len(c.buffer), NEW x \in Memory,
         NEW d, d = [c EXCEPT !.buffer[k] = x]
  PROVE  /\ d \in CounterRecord /\ d.num_buffered = c.num_buffered /\ d.data = c.data
         /\ Len(d.buffer) = Len(c.buffer) /\ d.max_buffer_size = c.max_buffer_size
         /\ \A j \in 1..Len(c.buffer) : d.buffer[j] = IF j = k THEN x ELSE c.buffer[j]
<1> DEFINE b == [c.buffer EXCEPT ![k] = x]
<1>1. c.buffer \in Seq(Memory)
  BY DEF CounterRecord
<1>2. /\ b \in Seq(Memory)
      /\ Len(b) = Len(c.buffer)
      /\ \A j \in 1..Len(c.buffer) : b[j] = IF j = k THEN x ELSE c.buffer[j]
  BY <1>1, ExceptSeq
<1>3. d = [c EXCEPT !.buffer = b]
  OBVIOUS
<1> HIDE DEF b
<1>4. /\ d \in CounterRecord /\ d.num_buffered = c.num_buffered /\ d.data = c.data
      /\ d.buffer = b /\ d.max_buffer_size = c.max_buffer_size
  BY <1>2, <1>3 DEF CounterRecord
<1> QED
  BY <1>2, <1>4

(* The shape of a counter that the functions of mdcs-service.c rely on. *)
Shape(c) ==
  /\ c \in CounterRecord
  /\ Len(c.buffer) = c.max_buffer_size
  /\ c.num_buffered <= c.max_buffer_size

(* The buffered items are the first num_buffered slots. *)
LEMMA BufferedType ==
  ASSUME NEW c, Shape(c)
  PROVE  /\ Buffered(c) \in Seq(Memory)
         /\ Len(Buffered(c)) = c.num_buffered
         /\ \A i \in 1..c.num_buffered : Buffered(c)[i] = c.buffer[i]
  BY DEF CounterRecord, Buffered, Shape

(* mdcs_counter_digest moves the buffered items behind the absorbed ones,   *)
(* leaves the buffer empty, and keeps the content as a whole.               *)
LEMMA DigestKeepsContent ==
  ASSUME NEW c, Shape(c)
  PROVE  /\ Shape(Digested(c))
         /\ Digested(c).num_buffered = 0
         /\ Digested(c).max_buffer_size = c.max_buffer_size
         /\ Digested(c).data = Content(c)
         /\ Content(Digested(c)) = Content(c)
<1>1. Buffered(c) \in Seq(Memory) /\ c.data \in Seq(Memory)
  BY BufferedType DEF Shape, CounterRecord
<1>2. CASE c.num_buffered # 0
  <2>1. /\ Digested(c).data = c.data \o Buffered(c)
        /\ Digested(c).num_buffered = 0
        /\ Digested(c).buffer = c.buffer
        /\ Digested(c).max_buffer_size = c.max_buffer_size
        /\ Digested(c) \in CounterRecord
    <3>1. c.data \o Buffered(c) \in Seq(Memory)
      BY <1>1, ConcatProperties
    <3>2. Digested(c) = [c EXCEPT !.data = c.data \o Buffered(c), !.num_buffered = 0]
      BY <1>2 DEF Digested
    <3>3. c \in CounterRecord
      BY DEF Shape
    <3>4. ASSUME NEW t \in Seq(Memory), NEW d,
                 d = [c EXCEPT !.data = t, !.num_buffered = 0]
          PROVE  /\ d.data = t
                 /\ d.num_buffered = 0
                 /\ d.buffer = c.buffer
                 /\ d.max_buffer_size = c.max_buffer_size
                 /\ d \in CounterRecord
      BY <3>3, <3>4 DEF CounterRecord
    <3> QED
      BY <3>1, <3>2, <3>4, Zenon
  <2>2. Shape(Digested(c))
    BY <2>1 DEF Shape, CounterRecord
  <2>3. Buffered(Digested(c)) = << >>
    BY <2>1 DEF Buffered, Shape, CounterRecord
  <2>4. Content(Digested(c)) = c.data \o Buffered(c)
    BY <1>1, <2>1, <2>3 DEF Content
  <2> QED
    BY <2>1, <2>2, <2>4 DEF Content
<1>3. CASE c.num_buffered = 0
  <2>1. Digested(c) = c
    BY <1>3 DEF Digested
  <2>2. Buffered(c) = << >>
    BY <1>3 DEF Buffered, Shape, CounterRecord
  <2>3. Content(c) = c.data
    BY <1>1, <2>2 DEF Content
  <2> QED
    BY <1>3, <2>1, <2>3
<1> QED
  BY <1>2, <1>3

(* Storing an item in a counter that is not full appends it to the content. *)
LEMMA StoreAppends ==
  ASSUME NEW c, Shape(c), ~IsFull(c), NEW x \in Memory
  PROVE  /\ Shape(Stored(c, x))
         /\ Stored(c, x).max_buffer_size = c.max_buffer_size
         /\ Stored(c, x).num_buffered <= c.num_buffered + 1
         /\ Content(Stored(c, x)) = Append(Content(c), x)
<1> DEFINE s == Stored(c, x)
<1>1. /\ Buffered(c) \in Seq(Memory)
      /\ c.data \in Seq(Memory)
      /\ c.num_buffered \in Nat
      /\ c.max_buffer_size \in Nat
      /\ c.buffer \in Seq(Memory)
  BY BufferedType DEF Shape, CounterRecord
<1>2. CASE c.max_buffer_size # 0
  <2>1. c.num_buffered < c.max_buffer_size
    BY <1>1, <1>2 DEF Shape, IsFull
  <2>2. /\ s.data = c.data
        /\ s.buffer = [c.buffer EXCEPT ![c.num_buffered + 1] = x]
        /\ s.num_buffered = c.num_buffered + 1
        /\ s.max_buffer_size = c.max_buffer_size
        /\ s = [data |-> c.data,
                buffer |-> [c.buffer EXCEPT ![c.num_buffered + 1] = x],
                max_buffer_size |-> c.max_buffer_size,
                num_buffered |-> c.num_buffered + 1]
    BY <1>1, <1>2 DEF Stored, Shape, CounterRecord
  <2>3. c.num_buffered < Len(c.buffer) /\ Len(c.buffer) = c.max_buffer_size
    BY <2>1 DEF Shape
  <2> HIDE DEF s
  <2>4. s.buffer \in Seq(Memory) /\ Len(s.buffer) = c.max_buffer_size
    BY <1>1, <2>2, <2>3, ExceptSeq
  <2>5. Shape(s)
    <3>1. s \in CounterRecord
      <4>1. [data |-> c.data, buffer |-> s.buffer,
             max_buffer_size |-> c.max_buffer_size,
             num_buffered |-> c.num_buffered + 1] \in CounterRecord
        BY <1>1, <2>4 DEF CounterRecord
      <4>2. s = [data |-> c.data, buffer |-> s.buffer,
                 max_buffer_size |-> c.max_buffer_size,
                 num_buffered |-> c.num_buffered + 1]
        BY <2>2
      <4> QED
        BY <4>1, <4>2
    <3> QED
      BY <1>1, <2>1, <2>2, <2>4, <3>1 DEF Shape
  <2>6. SubSeq(s.buffer, 1, s.num_buffered) = Append(Buffered(c), x)
    <3>1. SubSeq([c.buffer EXCEPT ![c.num_buffered + 1] = x], 1, c.num_buffered + 1)
            = Append(SubSeq(c.buffer, 1, c.num_buffered), x)
      BY <1>1, <2>3, PrefixGrows
    <3> QED
      BY <2>2, <3>1 DEF Buffered
  <2>7. Content(s) = c.data \o Append(Buffered(c), x)
    BY <2>2, <2>6 DEF Content, Buffered
  <2>8. c.data \o Append(Buffered(c), x) = Append(c.data \o Buffered(c), x)
    <3>1. \A d, b \in Seq(Memory) : d \o Append(b, x) = Append(d \o b, x)
      BY ConcatAppend
    <3> QED
      BY <1>1, <3>1
  <2> QED
    <3>1. s.num_buffered <= c.num_buffered + 1
      BY <1>1, <2>2
    <3>2. Content(s) = Append(Content(c), x)
      BY <2>7, <2>8 DEF Content
    <3> QED
      BY <2>2, <2>5, <3>1, <3>2 DEF s
<1>3. CASE c.max_buffer_size = 0
  <2>1. /\ s.data = Append(c.data, x)
        /\ s.buffer = c.buffer
        /\ s.num_buffered = c.num_buffered
        /\ s.max_buffer_size = c.max_buffer_size
        /\ s \in CounterRecord
    <3>1. Append(c.data, x) \in Seq(Memory)
      BY <1>1
    <3>2. s = [c EXCEPT !.data = Append(c.data, x)]
      BY <1>3 DEF Stored
    <3> QED
      BY <3>1, <3>2 DEF Shape, CounterRecord
  <2>2. Buffered(s) = << >> /\ Buffered(c) = << >>
    BY <1>1, <1>3, <2>1 DEF Buffered, Shape
  <2>3. Content(s) = Append(Content(c), x)
    BY <1>1, <2>1, <2>2 DEF Content
  <2> QED
    BY <1>1, <1>3, <2>1, <2>3 DEF Shape
<1> QED
  BY <1>2, <1>3

(* mdcs_counter_push appends its item to the content, whether it digests a  *)
(* full buffer first or not; the buffer grows by one item at most.          *)
LEMMA PushAppends ==
  ASSUME NEW c, Shape(c), NEW x \in Memory
  PROVE  /\ Shape(Pushed(c, x))
         /\ Pushed(c, x).max_buffer_size = c.max_buffer_size
         /\ Pushed(c, x).num_buffered <= c.num_buffered + 1
         /\ Content(Pushed(c, x)) = Append(Content(c), x)
<1>1. CASE IsFull(c)
  <2> DEFINE d == Digested(c)
  <2>1. /\ Shape(d)
        /\ ~IsFull(d)
        /\ d.max_buffer_size = c.max_buffer_size
        /\ Content(d) = Content(c)
        /\ d.num_buffered = 0
    BY <1>1, DigestKeepsContent DEF IsFull
  <2>2. Pushed(c, x) = Stored(d, x)
    BY <1>1 DEF Pushed
  <2>3. c.num_buffered \in Nat
    BY DEF Shape, CounterRecord
  <2>4. /\ Shape(Stored(d, x))
        /\ Stored(d, x).max_buffer_size = d.max_buffer_size
        /\ Stored(d, x).num_buffered <= d.num_buffered + 1
        /\ Content(Stored(d, x)) = Append(Content(d), x)
    BY <2>1, StoreAppends
  <2>5. Stored(d, x).num_buffered \in Nat
    BY <2>4 DEF Shape, CounterRecord
  <2> QED
    BY <2>1, <2>2, <2>3, <2>4, <2>5
<1>2. CASE ~IsFull(c)
  BY <1>2, StoreAppends DEF Pushed
<1> QED
  BY <1>1, <1>2

(* A push never takes anything out of the absorbed items. *)
LEMMA PushKeepsData ==
  ASSUME NEW c, Shape(c), NEW x \in Memory
  PROVE  Len(c.data) <= Len(Pushed(c, x).data)
<1>1. ASSUME NEW d, Shape(d)
      PROVE  Len(d.data) <= Len(Stored(d, x).data)
  <2>1. d.data \in Seq(Memory) /\ d \in CounterRecord
    BY <1>1 DEF Shape, CounterRecord
  <2>2. CASE d.max_buffer_size # 0
    <3>1. Stored(d, x).data = d.data
      BY <2>1, <2>2 DEF Stored, CounterRecord
    <3> QED
      BY <2>1, <3>1, LenProperties
  <2>3. CASE d.max_buffer_size = 0
    <3>1. Stored(d, x) = [d EXCEPT !.data = Append(d.data, x)]
      BY <2>3 DEF Stored
    <3>2. Stored(d, x).data = Append(d.data, x)
      BY <2>1, <3>1 DEF CounterRecord
    <3>3. Len(Append(d.data, x)) = Len(d.data) + 1
      BY <2>1
    <3> QED
      BY <2>1, <3>2, <3>3, LenProperties
  <2> QED
    BY <2>2, <2>3
<1>2. Shape(Digested(c)) /\ Digested(c).data = Content(c)
  BY DigestKeepsContent
<1>3. Len(Content(c)) = Len(c.data) + c.num_buffered /\ c.num_buffered \in Nat
  <2>1. Buffered(c) \in Seq(Memory) /\ Len(Buffered(c)) = c.num_buffered
    BY BufferedType
  <2>2. c.data \in Seq(Memory) /\ c.num_buffered \in Nat
    BY DEF Shape, CounterRecord
  <2> QED
    BY <2>1, <2>2, ConcatProperties DEF Content
<1>4. Len(c.data) <= Len(Digested(c).data) /\ Len(c.data) \in Nat
  BY <1>2, <1>3, LenProperties DEF Shape, CounterRecord
<1>5. CASE IsFull(c)
  <2>1. Pushed(c, x) = Stored(Digested(c), x)
    BY <1>5 DEF Pushed
  <2>2. Len(Digested(c).data) <= Len(Pushed(c, x).data)
    BY <1>1, <1>2, <2>1
  <2>3. Shape(Pushed(c, x))
    BY PushAppends
  <2>4. Len(Digested(c).data) \in Nat /\ Len(Pushed(c, x).data) \in Nat
    BY <1>2, <2>3, LenProperties DEF Shape, CounterRecord
  <2> QED
    BY <1>4, <2>2, <2>4
<1>6. CASE ~IsFull(c)
  BY <1>1, <1>6 DEF Pushed
<1> QED
  BY <1>5, <1>6
=============================================================================
