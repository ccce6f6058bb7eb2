-------------------------- MODULE MdcsService_proofs --------------------------
(***************************************************************************)
(* What holds of the service for every hash function, every set of names,  *)
(* counter types and addresses, and every buffer size.                     *)
(***************************************************************************)
EXTENDS MdcsService, Counter_proofs, FiniteSetTheorems

(* What stands at an address: a counter, or what is left of none. *)
Entry ==
  [ name : Name \union {<< >>},
    id   : Id \union {0},
    t    : Type \union {MDCS_COUNTER_TYPE_NULL},
    c    : CounterRecord ]

Status == {"unused", "live", "freed"}

(* The types of the state; what the counters hold is in AllWhole. *)
Typed ==
  /\ initialized \in BOOLEAN
  /\ table \subseteq Handle
  /\ counters \in [Handle -> Entry]
  /\ blocks \subseteq Handle \X Parts
  /\ types \in [Type -> [status : Status, refcount : Int]]
  /\ ret \in {"MDCS_SUCCESS", "MDCS_ERROR"}
  /\ fault \in {"none", "null"} \union Type
  /\ inits \in Nat
  /\ released \subseteq UserType
  /\ uses \in [Type -> Nat]

(* An allocated counter is one that mdcs_counter_register completed, and     *)
(* holds pushed items only.                                                  *)
Whole(h) ==
  /\ counters[h].name \in Name
  /\ counters[h].id = Hash(counters[h].name)
  /\ counters[h].t \in Type
  /\ Shape(counters[h].c)
  /\ Content(counters[h].c) \in Seq(Item)
  /\ << h, "data" >> \in blocks
  /\ << h, "buffer" >> \in blocks <=> counters[h].c.max_buffer_size # 0

(* Every allocated counter is. *)
AllWhole == \A h \in Handle : Live(h) => Whole(h)

(* The table lists allocated counters, no id twice, and none before mdcs_init. *)
Listed ==
  /\ ~initialized => table = {}
  /\ \A h \in table : Live(h)
  /\ \A g, h \in table : counters[g].id = counters[h].id => g = h

(* A type that was not released, and of which one counter was made at most.  *)
Careful(t) == t \in UserType \ released /\ uses[t] <= 1

(* The one reference of a type stands for the one counter of a careful       *)
(* program: it is given back with that counter, and not before.              *)
OneReference(t) ==
  /\ types[t].status = "live" => types[t].refcount = 1
  /\ types[t].status = "freed" =>
       uses[t] = 1 /\ \A h \in Handle : Live(h) => TypeOf(h) # t
  /\ \A g, h \in Handle :
       Live(g) /\ Live(h) /\ TypeOf(g) = t /\ TypeOf(h) = t => g = h

(* What reference counts and histories say of the types: a built-in type is *)
(* never freed, a type in use was registered, and one of a careful program    *)
(* has one reference.                                                        *)
Referenced ==
  /\ \A t \in BuiltInType : types[t].status = "live" /\ types[t].refcount < 0
  /\ \A h \in Handle : Live(h) => uses[TypeOf(h)] >= 1
  /\ \A t \in UserType : types[t].status = "unused" => uses[t] = 0
  /\ \A t \in UserType : Careful(t) => OneReference(t)

(* The invariant. *)
IInv ==
  /\ Typed /\ AllWhole /\ Listed
  /\ BlocksAccounted
  /\ Referenced
  /\ FreedTypeNeedsCause

-----------------------------------------------------------------------------
(* The kinds of steps a call can be *)

(* Nothing of the service changes. *)
Quiet == UNCHANGED << initialized, table, heapVars, historyVars >>

(* What the calls return. *)
Codes == {"MDCS_SUCCESS", "MDCS_ERROR"}

(* The call changes nothing of the service. *)
Looks == Quiet /\ fault' = fault /\ ret' \in Codes

(* mdcs_finalize, or a call on a counter, reads a counter type that was freed. *)
ReadsFreed ==
  /\ Quiet /\ ret' = ret /\ fault' \in Type
  /\ \/ FinalizeReadsFreed(fault')
     \/ \E h \in Handle : Live(h) /\ TypeOf(h) = fault' /\ ~Usable(fault')

(* mdcs_init. *)
Starts ==
  /\ initialized' = TRUE
  /\ table' = {}
  /\ inits' = inits + 1
  /\ orphans' = orphans \union table
  /\ Returns("MDCS_SUCCESS")
  /\ UNCHANGED << heapVars, leaked, released, uses >>

(* mdcs_finalize. *)
Finishes ==
  /\ \A t \in Type : ~FinalizeReadsFreed(t)
  /\ types' = [t \in Type |-> Dereferenced(types[t], Cardinality(UsersOf(t)))]
  /\ blocks' = blocks \ BlocksOf(table)
  /\ counters' = [h \in Handle |-> IF h \in table THEN NoCounter ELSE counters[h]]
  /\ table' = {}
  /\ initialized' = FALSE
  /\ Returns("MDCS_SUCCESS")
  /\ UNCHANGED historyVars

(* mdcs_counter_type_create. *)
Creates(t) ==
  /\ t \in UserType
  /\ types[t].status = "unused"
  /\ types' = [types EXCEPT ![t] = [status |-> "live", refcount |-> 1]]
  /\ Returns("MDCS_SUCCESS")
  /\ UNCHANGED << initialized, table, counters, blocks, historyVars >>

(* mdcs_counter_type_destroy. *)
Releases(t) ==
  /\ t \in UserType
  /\ types[t].status # "unused"
  /\ \/ types' = [types EXCEPT ![t] = Dereferenced(@, 1)] /\ Returns("MDCS_SUCCESS")
     \/ fault' = t /\ UNCHANGED << types, ret >>
  /\ released' = released \union {t}
  /\ UNCHANGED << initialized, table, counters, blocks, inits, orphans, leaked, uses >>

(* The registration gets past its early returns with the address h. *)
Begins(t, h) ==
  /\ t \in Type /\ h \in Handle
  /\ initialized
  /\ types[t].status # "unused"
  /\ BlocksOf({h}) = {}

(* It reads a freed type, or resets NULL data. *)
CrashesOn(t) ==
  /\ t \in Type
  /\ types[t].status # "unused"
  /\ \E denied \in SUBSET Parts : RegisterFaults(t, denied)

(* It fails after it has allocated the counter. *)
GivesUpOn(t, h) ==
  Begins(t, h) /\ Usable(t) /\ \E denied \in SUBSET Parts : RegisterGivesUp(h, denied)

(* It adds the counter to the table. *)
Succeeds(n, t, h) ==
  /\ n \in Name /\ Begins(t, h) /\ Usable(t) /\ ~Taken(n)
  /\ \E buffer_size \in BufferSizes, denied \in SUBSET {"name"} :
       RegisterSucceeds(n, t, buffer_size, h, denied)

(* What a call may make of a counter: it keeps its shape and its size, and   *)
(* holds pushed items only.                                                  *)
Keeps(h, c) ==
  /\ Shape(c)
  /\ Content(c) \in Seq(Item)
  /\ c.max_buffer_size = counters[h].c.max_buffer_size

(* A push, digest, read or reset of the counter. *)
Updates(h) ==
  /\ h \in Handle /\ Live(h)
  /\ \E c \in CounterRecord :
       Keeps(h, c) /\ counters' = [counters EXCEPT ![h].c = c]
  /\ Returns("MDCS_SUCCESS")
  /\ UNCHANGED << initialized, table, blocks, types, historyVars >>

(* The items that stay buffered after a reset_f are pushed items too. *)
LEMMA ResetKeeps ==
  ASSUME NEW c, Shape(c), Content(c) \in Seq(Item)
  PROVE  /\ Shape(WasReset(c))
         /\ Content(WasReset(c)) \in Seq(Item)
         /\ WasReset(c).max_buffer_size = c.max_buffer_size
<1> DEFINE d == WasReset(c)
<1>1. /\ d \in CounterRecord /\ d.num_buffered = c.num_buffered /\ d.data = << >>
      /\ d.buffer = c.buffer /\ d.max_buffer_size = c.max_buffer_size
  <2>1. c \in CounterRecord /\ << >> \in Seq(Memory)
    BY DEF Shape
  <2>2. d = [c EXCEPT !.data = << >>]
    BY DEF WasReset
  <2> QED
    BY <2>1, <2>2 DEF CounterRecord
<1> HIDE DEF d
<1>2. Shape(d)
  BY <1>1 DEF Shape
<1>3. c.data \in Seq(Memory) /\ Buffered(c) \in Seq(Memory)
  BY BufferedType DEF Shape, CounterRecord
<1>4. Buffered(c) \in Seq(Item)
  <2>1. /\ Content(c) = c.data \o Buffered(c)
        /\ Len(Content(c)) = Len(c.data) + Len(Buffered(c))
        /\ \A k \in 1..Len(c.data) + Len(Buffered(c)) :
             Content(c)[k] = IF k <= Len(c.data) THEN c.data[k]
                             ELSE Buffered(c)[k - Len(c.data)]
    BY <1>3, ConcatProperties DEF Content
  <2>2. Len(c.data) \in Nat /\ Len(Buffered(c)) \in Nat
    BY <1>3, LenProperties
  <2>3. ASSUME NEW j \in 1..Len(Buffered(c)) PROVE Buffered(c)[j] \in Item
    <3>1. /\ Len(c.data) + j \in 1..Len(c.data) + Len(Buffered(c))
          /\ ~(Len(c.data) + j <= Len(c.data))
          /\ (Len(c.data) + j) - Len(c.data) = j
      BY <2>2
    <3>2. Content(c)[Len(c.data) + j] = Buffered(c)[j]
      BY <2>1, <3>1
    <3>3. Content(c)[Len(c.data) + j] \in Item
      BY <2>1, <3>1, ElementOfSeq
    <3> QED
      BY <3>2, <3>3
  <2>4. \A s \in Seq(Memory) : (\A j \in 1..Len(s) : s[j] \in Item) => s \in Seq(Item)
    OBVIOUS
  <2> QED
    BY <1>3, <2>3, <2>4
<1>5. Content(d) = Buffered(c)
  <2>1. Content(d) = << >> \o Buffered(c)
    BY <1>1 DEF Content, Buffered
  <2> QED
    BY <1>3, <2>1, ConcatEmptySeq
<1> QED
  BY <1>1, <1>2, <1>4, <1>5 DEF d

(* mdcs_counter_push, _digest, _value and _reset make of a whole counter a   *)
(* whole counter.                                                            *)
LEMMA CallsKeep ==
  ASSUME AllWhole, NEW h \in Handle, Live(h)
  PROVE  /\ \A x \in Item : Keeps(h, Pushed(counters[h].c, x))
         /\ Keeps(h, Digested(counters[h].c))
         /\ Keeps(h, WasReset(counters[h].c))
<1> DEFINE c == counters[h].c
<1>1. Shape(c) /\ Content(c) \in Seq(Item)
  BY DEF AllWhole, Whole
<1> HIDE DEF c
<1>2. ASSUME NEW x \in Item
      PROVE  /\ Shape(Pushed(c, x))
             /\ Content(Pushed(c, x)) \in Seq(Item)
             /\ Pushed(c, x).max_buffer_size = c.max_buffer_size
  <2>1. x \in Memory
    BY DEF Memory
  <2>2. Append(Content(c), x) \in Seq(Item)
    BY <1>1
  <2> QED
    BY <1>1, <2>1, <2>2, PushAppends
<1>3. /\ Shape(Digested(c))
      /\ Content(Digested(c)) \in Seq(Item)
      /\ Digested(c).max_buffer_size = c.max_buffer_size
  BY <1>1, DigestKeepsContent
<1>4. /\ Shape(WasReset(c))
      /\ Content(WasReset(c)) \in Seq(Item)
      /\ WasReset(c).max_buffer_size = c.max_buffer_size
  BY <1>1, ResetKeeps
<1> QED
  BY <1>2, <1>3, <1>4 DEF Keeps, c

(* Every call is a step of one of the kinds. *)
LEMMA StepKinds ==
  ASSUME Typed, AllWhole, Next
  PROVE  \/ Looks
         \/ ReadsFreed
         \/ Starts
         \/ Finishes
         \/ \E t \in UserType : Creates(t) \/ Releases(t)
         \/ \E t \in Type : CrashesOn(t)
         \/ \E t \in Type, h \in Handle : GivesUpOn(t, h)
         \/ \E n \in Name, t \in Type, h \in Handle : Succeeds(n, t, h)
         \/ \E h \in Handle : Updates(h)
<1> USE DEF heapVars, historyVars, Quiet
<1>1. Fails => Looks
  BY DEF Fails, Looks, Returns, Codes
<1>2. ASSUME MdcsInit \/ MdcsInitialized PROVE Looks \/ Starts
  BY <1>1, <1>2 DEF MdcsInit, MdcsInitialized, Starts, Looks, Returns, Codes
<1>3. ASSUME Finalize PROVE Looks \/ ReadsFreed \/ Finishes
  <2>1. ASSUME NEW t \in Type, FinalizeReadsFreed(t), Faults(t) PROVE ReadsFreed
    BY <2>1 DEF ReadsFreed, Faults
  <2> QED
    BY <1>1, <1>3, <2>1 DEF Finalize, Finishes
<1>4. ASSUME NEW t \in UserType, TypeCreate(t) PROVE Looks \/ Creates(t)
  BY <1>1, <1>4 DEF TypeCreate, Creates
<1>5. ASSUME NEW t \in UserType \union {MDCS_COUNTER_TYPE_NULL}, TypeDestroy(t)
      PROVE  Looks \/ (t \in UserType /\ Releases(t))
  BY <1>1, <1>5 DEF TypeDestroy, Releases, Looks, Returns, Codes
<1>6. ASSUME NEW n \in Name, NEW t \in Type, NEW buffer_size \in BufferSizes, NEW h \in Handle,
             NEW denied \in SUBSET Parts, Register(n, t, buffer_size, h, denied)
      PROVE  Looks \/ CrashesOn(t) \/ GivesUpOn(t, h) \/ Succeeds(n, t, h)
  <2>1. CASE RegisterFails(n, denied)
    BY <1>1, <2>1 DEF RegisterFails
  <2>2. CASE ~RegisterFails(n, denied)
    <3>1. /\ Begins(t, h) /\ ~Taken(n) /\ "struct" \notin denied
          /\ IF Usable(t) /\ "buffer" \in denied
             THEN RegisterGivesUp(h, denied)
             ELSE IF ~Usable(t) \/ "data" \in denied
                  THEN RegisterFaults(t, denied)
                  ELSE RegisterSucceeds(n, t, buffer_size, h, denied)
      BY <1>6, <2>2 DEF Register, Begins
    <3>2. CASE Usable(t) /\ "buffer" \in denied
      BY <3>1, <3>2 DEF GivesUpOn
    <3>3. CASE ~Usable(t) \/ ("data" \in denied /\ "buffer" \notin denied)
      BY <3>1, <3>3 DEF CrashesOn, Begins
    <3>4. CASE Usable(t) /\ "data" \notin denied /\ "buffer" \notin denied
      <4>1. denied \in SUBSET {"name"}
        BY <3>1, <3>4 DEF Parts
      <4> QED
        BY <3>1, <3>4, <4>1 DEF Succeeds
    <3> QED
      BY <3>2, <3>3, <3>4
  <2> QED
    BY <2>1, <2>2
<1>7. ASSUME NEW n \in Name, FindByName(n) PROVE Looks
  BY <1>7 DEF FindByName, FindById, Looks, Returns, Codes
<1>8. ASSUME NEW h \in Handle, NEW c, Live(h), Keeps(h, c), Leaves(h, c)
      PROVE  ReadsFreed \/ Updates(h)
  <2>1. CASE Usable(TypeOf(h))
    BY <1>8, <2>1 DEF Leaves, Updates, Keeps, Shape
  <2>2. CASE ~Usable(TypeOf(h))
    <3>1. TypeOf(h) \in Type
      BY <1>8 DEF AllWhole, Whole, TypeOf
    <3>2. Faults(TypeOf(h))
      BY <1>8, <2>2 DEF Leaves
    <3> QED
      BY <1>8, <2>2, <3>1, <3>2 DEF ReadsFreed, Faults
  <2> QED
    BY <2>1, <2>2
<1>9. ASSUME NEW h \in Handle \union {MDCS_COUNTER_NULL},
             (\E x \in Item : Push(h, x)) \/ Digest(h) \/ Value(h) \/ Reset(h)
      PROVE  Looks \/ ReadsFreed \/ (h \in Handle /\ Updates(h))
  <2>1. CASE Refused(h)
    BY <1>1, <1>9, <2>1 DEF Push, Digest, Value, Reset
  <2>2. CASE ~Refused(h)
    <3>1. h \in Handle /\ Live(h)
      BY <1>9, <2>2 DEF Push, Digest, Value, Reset, Refused
    <3>2. CASE \E x \in Item : Push(h, x)
      BY <1>8, <2>2, <3>1, <3>2, CallsKeep DEF Push
    <3>3. CASE Digest(h)
      BY <1>8, <2>2, <3>1, <3>3, CallsKeep DEF Digest, Looks, Returns, Codes
    <3>4. CASE Value(h)
      BY <1>8, <2>2, <3>1, <3>4, CallsKeep DEF Value
    <3>5. CASE Reset(h)
      BY <1>8, <2>2, <3>1, <3>5, CallsKeep DEF Reset
    <3> QED
      BY <1>9, <3>2, <3>3, <3>4, <3>5
  <2> QED
    BY <2>1, <2>2
<1> QED
  BY <1>2, <1>3, <1>4, <1>5, <1>6, <1>7, <1>9 DEF Next

-----------------------------------------------------------------------------
(* The invariant *)

(* The empty table of a program that has not called mdcs_init yet. *)
LEMMA InvInit == Init => IInv
<1> SUFFICES ASSUME Init PROVE IInv
  OBVIOUS
<1>1. NoCounter \in Entry
  <2>1. Allocated(0) \in CounterRecord
    <3>1. << Garbage >> \in Seq(Memory) /\ [i \in 1..0 |-> Garbage] \in Seq(Memory)
      BY DEF Memory
    <3> QED
      BY <3>1 DEF Allocated, CounterRecord
  <2> QED
    BY <2>1 DEF NoCounter, Entry
<1>2. Typed
  <2>1. counters \in [Handle -> Entry]
    BY <1>1 DEF Init
  <2>2. types \in [Type -> [status : Status, refcount : Int]]
    BY DEF Init, Status
  <2>3. uses \in [Type -> Nat]
    BY DEF Init
  <2> QED
    BY <2>1, <2>2, <2>3 DEF Init, Typed
<1>3. \A h \in Handle : ~Live(h)
  BY DEF Init, Live
<1>4. AllWhole /\ Listed /\ BlocksAccounted
  BY <1>3 DEF Init, AllWhole, Listed, BlocksAccounted
<1>5. Referenced
  <2>1. \A t \in BuiltInType : types[t].status = "live" /\ types[t].refcount < 0
    BY DEF Init, Type
  <2>2. \A t \in UserType : types[t].status = "unused" /\ uses[t] = 0
    BY ServiceAssumption DEF Init, Type
  <2> QED
    BY <1>3, <2>1, <2>2 DEF Referenced, OneReference
<1>6. FreedTypeNeedsCause
  BY <1>5, ServiceAssumption DEF Init, Referenced, FreedTypeNeedsCause, Usable, Type
<1> QED
  BY <1>2, <1>4, <1>5, <1>6 DEF IInv

(* A call on a counter touches the data of that counter only. *)
LEMMA UpdateEffect ==
  ASSUME Typed, NEW h \in Handle, Updates(h)
  PROVE  /\ counters' \in [Handle -> Entry]
         /\ Keeps(h, counters'[h].c)
         /\ \A g \in Handle : /\ counters'[g].id = counters[g].id
                              /\ counters'[g].name = counters[g].name
                              /\ counters'[g].t = counters[g].t
                              /\ g # h => counters'[g] = counters[g]
<1>1. PICK c \in CounterRecord : Keeps(h, c) /\ counters' = [counters EXCEPT ![h].c = c]
  BY DEF Updates
<1>2. counters[h] \in Entry
  BY DEF Typed
<1>3. /\ [counters[h] EXCEPT !.c = c] \in Entry
      /\ [counters[h] EXCEPT !.c = c].c = c
      /\ [counters[h] EXCEPT !.c = c].id = counters[h].id
      /\ [counters[h] EXCEPT !.c = c].name = counters[h].name
      /\ [counters[h] EXCEPT !.c = c].t = counters[h].t
  BY <1>2 DEF Entry
<1> DEFINE e == [counters[h] EXCEPT !.c = c]
<1>4. counters' = [counters EXCEPT ![h] = e]
  BY <1>1
<1> HIDE DEF e
<1>5. \A g \in Handle : counters'[g] = IF g = h THEN e ELSE counters[g]
  BY <1>4 DEF Typed
<1>6. counters' \in [Handle -> Entry]
  BY <1>3, <1>4 DEF Typed, e
<1> QED
  BY <1>1, <1>3, <1>5, <1>6 DEF e

(* The blocks that mdcs_counter_register takes are all those of its counter. *)
LEMMA RegisterBlocks ==
  ASSUME Typed, NEW n \in Name, NEW t \in Type, NEW h \in Handle, Succeeds(n, t, h)
  PROVE  /\ blocks \subseteq blocks' /\ blocks' \subseteq Handle \X Parts
         /\ \A b \in blocks' : b \in blocks \/ b[1] = h
<1>1. PICK buffer_size \in BufferSizes, denied \in SUBSET {"name"} :
        RegisterSucceeds(n, t, buffer_size, h, denied)
  BY DEF Succeeds
<1> QED
  BY <1>1 DEF RegisterSucceeds, NewBlocks, Parts, Typed

(* What mdcs_counter_register puts at the address malloc gave it, as reset_f *)
(* leaves it: no item yet.                                                   *)
LEMMA RegisterEffect ==
  ASSUME Typed, NEW n \in Name, NEW t \in Type, NEW h \in Handle, Succeeds(n, t, h)
  PROVE  /\ counters' \in [Handle -> Entry]
         /\ counters'[h].name = n /\ counters'[h].id = Hash(n) /\ counters'[h].t = t
         /\ Shape(counters'[h].c)
         /\ Content(counters'[h].c) \in Seq(Item)
         /\ counters' = [counters EXCEPT ![h] = counters'[h]]
         /\ << h, "struct" >> \in blocks' /\ << h, "data" >> \in blocks'
         /\ << h, "buffer" >> \in blocks' <=> counters'[h].c.max_buffer_size # 0
<1>1. PICK buffer_size \in BufferSizes, denied \in SUBSET {"name"} :
        RegisterSucceeds(n, t, buffer_size, h, denied)
  BY DEF Succeeds
<1>2. buffer_size \in Nat
  BY ServiceAssumption
<1> DEFINE slots == [i \in 1..buffer_size |-> Garbage]
           c == WasReset(Allocated(buffer_size))
           e == [name |-> n, id |-> Hash(n), t |-> t, c |-> c]
<1>3. slots \in Seq(Memory) /\ Len(slots) = buffer_size
  BY <1>2 DEF Memory
<1>4. Allocated(buffer_size) = [data |-> << Garbage >>, buffer |-> slots,
                                max_buffer_size |-> buffer_size, num_buffered |-> 0]
  BY DEF Allocated
<1>5. ASSUME NEW b \in Seq(Memory), Len(b) = buffer_size,
             NEW d, d = [data |-> << >>, buffer |-> b,
                         max_buffer_size |-> buffer_size, num_buffered |-> 0]
      PROVE  Shape(d) /\ Content(d) \in Seq(Item) /\ d.max_buffer_size = buffer_size
  <2>1. Shape(d)
    BY <1>2, <1>5 DEF Shape, CounterRecord
  <2>2. Buffered(d) = << >>
    BY <1>2, <1>5 DEF Buffered
  <2>3. Content(d) = << >> \o << >>
    BY <1>5, <2>2 DEF Content
  <2> QED
    BY <1>5, <2>1, <2>3
<1> HIDE DEF slots
<1>6. Shape(c) /\ Content(c) \in Seq(Item) /\ c.max_buffer_size = buffer_size
  <2>1. c = [data |-> << >>, buffer |-> slots,
             max_buffer_size |-> buffer_size, num_buffered |-> 0]
    BY <1>4 DEF WasReset
  <2> QED
    BY <1>3, <1>5, <2>1
<1> HIDE DEF c
<1>7. e \in Entry /\ e.c = c /\ e.name = n /\ e.id = Hash(n) /\ e.t = t
  BY <1>6 DEF Entry, Shape, Id
<1>8. counters' = [counters EXCEPT ![h] = e]
  BY <1>1 DEF RegisterSucceeds, c
<1> HIDE DEF e
<1>9. /\ counters' \in [Handle -> Entry]
      /\ counters'[h] = e
  BY <1>7, <1>8 DEF Typed
<1>10. blocks' = blocks \union NewBlocks(h, buffer_size, denied) /\ BlocksOf({h}) = {}
  BY <1>1 DEF RegisterSucceeds, Succeeds, Begins
<1>11. << h, "struct" >> \in blocks' /\ << h, "data" >> \in blocks'
  BY <1>10 DEF NewBlocks, Parts
<1>12. << h, "buffer" >> \in blocks' <=> buffer_size # 0
  <2>1. << h, "buffer" >> \notin blocks
    BY <1>10 DEF BlocksOf
  <2> QED
    BY <1>1, <1>10, <2>1 DEF NewBlocks, Parts
<1> QED
  BY <1>6, <1>7, <1>8, <1>9, <1>11, <1>12

(* It is of the type it was registered with, and no other counter changes.   *)
LEMMA RegisteredType ==
  ASSUME Typed, NEW n \in Name, NEW t \in Type, NEW h \in Handle, Succeeds(n, t, h)
  PROVE  counters' = [counters EXCEPT ![h] = counters'[h]] /\ counters'[h].t = t
<1>1. counters' = [counters EXCEPT ![h] = counters'[h]]
  BY RegisterEffect
<1>2. PICK c : counters' = [counters EXCEPT ![h] = [name |-> n, id |-> Hash(n), t |-> t, c |-> c]]
  BY DEF Succeeds, RegisterSucceeds
<1>3. counters'[h].t = t
  BY <1>2 DEF Typed
<1> QED
  BY <1>1, <1>3

(* What an address still allocated after mdcs_finalize was before it: a      *)
(* counter that is not in the table, and is left as it was.                  *)
LEMMA FinishEffect ==
  ASSUME Typed, Finishes
  PROVE  /\ counters' \in [Handle -> Entry]
         /\ blocks' \subseteq blocks
         /\ \A b \in blocks' : b[1] \notin table
         /\ \A b \in blocks : b[1] \notin table => b \in blocks'
         /\ \A h \in Handle \ table : counters'[h] = counters[h]
<1>1. NoCounter \in Entry
  <2>1. Allocated(0) \in CounterRecord
    <3>1. << Garbage >> \in Seq(Memory) /\ [i \in 1..0 |-> Garbage] \in Seq(Memory)
      BY DEF Memory
    <3> QED
      BY <3>1 DEF Allocated, CounterRecord
  <2> QED
    BY <2>1 DEF NoCounter, Entry
<1>2. blocks' = blocks \ BlocksOf(table)
  BY DEF Finishes
<1>3. counters' = [h \in Handle |-> IF h \in table THEN NoCounter ELSE counters[h]]
  BY DEF Finishes
<1>4. counters' \in [Handle -> Entry] /\ \A h \in Handle \ table : counters'[h] = counters[h]
  BY <1>1, <1>3 DEF Typed
<1> QED
  BY <1>2, <1>4 DEF BlocksOf

(* The types of the state are inductive together with what a counter is. *)
LEMMA TypedNext == Typed /\ AllWhole /\ [Next]_vars => Typed'
<1> SUFFICES ASSUME Typed, AllWhole, [Next]_vars PROVE Typed'
  OBVIOUS
<1> USE DEF Quiet, heapVars, historyVars, Returns
<1>1. CASE Looks \/ ReadsFreed \/ UNCHANGED vars
  BY <1>1 DEF Typed, Looks, ReadsFreed, Codes, vars
<1>2. CASE Starts
  BY <1>2 DEF Typed, Starts
<1>3. ASSUME NEW t \in Type, NEW k \in Nat
      PROVE  Dereferenced(types[t], k) \in [status : Status, refcount : Int]
  BY DEF Dereferenced, Typed, Status
<1>4. CASE Finishes
  <2>1. \A t \in Type : Cardinality(UsersOf(t)) \in Nat
    BY ServiceAssumption, FS_Subset, FS_CardinalityType DEF UsersOf, Typed
  <2>2. types' \in [Type -> [status : Status, refcount : Int]]
    BY <1>3, <1>4, <2>1 DEF Finishes
  <2>3. counters' \in [Handle -> Entry] /\ blocks' \subseteq blocks
    BY <1>4, FinishEffect
  <2> QED
    BY <1>4, <2>2, <2>3 DEF Typed, Finishes
<1>5. ASSUME NEW t \in UserType, Creates(t) PROVE Typed'
  <2>1. [status |-> "live", refcount |-> 1] \in [status : Status, refcount : Int]
    BY DEF Status
  <2> QED
    BY <1>5, <2>1 DEF Typed, Creates
<1>6. ASSUME NEW t \in UserType, Releases(t) PROVE Typed'
  <2>1. Dereferenced(types[t], 1) \in [status : Status, refcount : Int] /\ t \in Type
    BY <1>3 DEF Type
  <2>2. types' \in [Type -> [status : Status, refcount : Int]]
    BY <1>6, <2>1 DEF Releases, Typed
  <2>3. fault' \in {"none", "null"} \union Type /\ ret' \in Codes
    BY <1>6, <2>1 DEF Releases, Typed, Codes
  <2> QED
    BY <1>6, <2>2, <2>3 DEF Typed, Releases, Codes
<1>7. ASSUME NEW t \in Type, CrashesOn(t) PROVE Typed'
  BY <1>7 DEF Typed, CrashesOn, RegisterFaults
<1>8. ASSUME NEW t \in Type, NEW h \in Handle, GivesUpOn(t, h) PROVE Typed'
  BY <1>8 DEF Typed, GivesUpOn, RegisterGivesUp, Lost, Parts
<1>9. ASSUME NEW n \in Name, NEW t \in Type, NEW h \in Handle, Succeeds(n, t, h) PROVE Typed'
  <2>1. counters' \in [Handle -> Entry] /\ blocks' \subseteq Handle \X Parts
    BY <1>9, RegisterEffect, RegisterBlocks
  <2> QED
    BY <1>9, <2>1 DEF Typed, Succeeds, RegisterSucceeds
<1>10. ASSUME NEW h \in Handle, Updates(h) PROVE Typed'
  <2>1. counters' \in [Handle -> Entry]
    BY <1>10, UpdateEffect
  <2> QED
    BY <1>10, <2>1 DEF Typed, Updates
<1> QED
  BY <1>1, <1>2, <1>4, <1>5, <1>6, <1>7, <1>8, <1>9, <1>10, StepKinds

(* No call leaves an allocated counter half made: a failed registration      *)
(* takes no address that has one, and an address is used again only when     *)
(* every block of its counter was freed.                                     *)
LEMMA WholeNext == Typed /\ AllWhole /\ Listed /\ [Next]_vars => AllWhole'
<1> SUFFICES ASSUME Typed, AllWhole, Listed, [Next]_vars PROVE AllWhole'
  OBVIOUS
<1> USE DEF Quiet, heapVars, historyVars
<1>1. CASE UNCHANGED << counters, blocks >>
  BY <1>1 DEF AllWhole, Whole, Live
<1>2. CASE Finishes
  BY <1>2, FinishEffect DEF AllWhole, Whole, Live
<1>3. ASSUME NEW t \in Type, NEW h \in Handle, GivesUpOn(t, h) PROVE AllWhole'
  <2>1. PICK lost \in SUBSET ({h} \X {"name", "data"}) :
          /\ counters' = counters
          /\ blocks' = blocks \union lost
          /\ BlocksOf({h}) = {}
    BY <1>3 DEF GivesUpOn, RegisterGivesUp, Lost, Begins
  <2>2. ASSUME NEW g \in Handle, Live(g)' PROVE Live(g) /\ g # h
    <3>1. << g, "struct" >> \in blocks /\ << g, "struct" >>[1] = g
      BY <2>1, <2>2 DEF Live
    <3> QED
      BY <2>1, <3>1 DEF Live, BlocksOf
  <2>3. ASSUME NEW g \in Handle, g # h, NEW p \in Parts
        PROVE  << g, p >> \in blocks' <=> << g, p >> \in blocks
    BY <2>1, <2>3
  <2> QED
    BY <2>1, <2>2, <2>3 DEF AllWhole, Whole, Parts
<1>4. ASSUME NEW n \in Name, NEW t \in Type, NEW h \in Handle, Succeeds(n, t, h) PROVE AllWhole'
  <2>1. /\ counters'[h].name = n /\ counters'[h].id = Hash(n) /\ counters'[h].t = t
        /\ Shape(counters'[h].c)
        /\ Content(counters'[h].c) \in Seq(Item)
        /\ << h, "struct" >> \in blocks' /\ << h, "data" >> \in blocks'
        /\ << h, "buffer" >> \in blocks' <=> counters'[h].c.max_buffer_size # 0
    BY <1>4, RegisterEffect
  <2>2. Whole(h)'
    BY <2>1 DEF Whole
  <2>3. /\ \A g \in Handle : g # h => counters'[g] = counters[g]
        /\ blocks \subseteq blocks'
        /\ \A b \in blocks' : b \in blocks \/ b[1] = h
    <3>1. \A g \in Handle : g # h => counters'[g] = counters[g]
      <4>1. counters' = [counters EXCEPT ![h] = counters'[h]]
        BY <1>4, RegisterEffect
      <4> QED
        BY <4>1 DEF Typed
    <3>2. blocks \subseteq blocks' /\ \A b \in blocks' : b \in blocks \/ b[1] = h
      BY <1>4, RegisterBlocks
    <3> QED
      BY <3>1, <3>2
  <2>4. ASSUME NEW g \in Handle, Live(g)', g # h PROVE Whole(g)'
    <3>1. \A p \in Parts : << g, p >> \in blocks' <=> << g, p >> \in blocks
      BY <2>3, <2>4
    <3>2. Live(g)
      BY <2>4, <3>1 DEF Live, Parts
    <3> QED
      BY <2>3, <2>4, <3>1, <3>2 DEF AllWhole, Whole, Parts
  <2> QED
    BY <2>2, <2>4 DEF AllWhole
<1>5. ASSUME NEW h \in Handle, Updates(h) PROVE AllWhole'
  <2>1. blocks' = blocks /\ Live(h)
    BY <1>5 DEF Updates
  <2>2. ASSUME NEW g \in Handle, Live(g) PROVE Whole(g)'
    <3>1. Whole(g)
      BY <2>2 DEF AllWhole
    <3>2. CASE g # h
      BY <1>5, <2>1, <3>1, <3>2, UpdateEffect DEF Whole
    <3>3. CASE g = h
      BY <1>5, <2>1, <3>1, <3>3, UpdateEffect DEF Whole, Keeps
    <3> QED
      BY <3>2, <3>3
  <2> QED
    BY <2>1, <2>2 DEF AllWhole, Live
<1> QED
  <2>1. \/ Looks \/ ReadsFreed \/ Starts \/ UNCHANGED vars
        \/ \E t \in UserType : Creates(t) \/ Releases(t)
        \/ \E t \in Type : CrashesOn(t)
        => UNCHANGED << counters, blocks >>
    BY DEF Looks, ReadsFreed, Starts, vars, Creates, Releases, CrashesOn, RegisterFaults
  <2> QED
    BY <1>1, <1>2, <1>3, <1>4, <1>5, <2>1, StepKinds

(* The table never lists two counters of one id, nor an address without a    *)
(* counter: a registration adds the address it has just filled, under an id  *)
(* that no counter of the table has.                                         *)
LEMMA ListedNext == Typed /\ AllWhole /\ Listed /\ [Next]_vars => Listed'
<1> SUFFICES ASSUME Typed, AllWhole, Listed, [Next]_vars PROVE Listed'
  OBVIOUS
<1> USE DEF Quiet, heapVars, historyVars
<1>1. CASE UNCHANGED << initialized, table, counters >> /\ blocks \subseteq blocks'
  BY <1>1 DEF Listed, Live
<1>2. CASE table' = {}
  BY <1>2 DEF Listed
<1>3. ASSUME NEW n \in Name, NEW t \in Type, NEW h \in Handle, Succeeds(n, t, h) PROVE Listed'
  <2>1. /\ initialized' = initialized /\ initialized
        /\ table' = table \union {h}
        /\ \A g \in table : counters[g].id # Hash(n)
        /\ h \notin table
    <3>1. initialized' = initialized /\ table' = table \union {h}
      BY <1>3 DEF Succeeds, RegisterSucceeds
    <3>2. initialized /\ ~Taken(n) /\ BlocksOf({h}) = {}
      BY <1>3 DEF Succeeds, Begins
    <3>3. h \notin table
      <4>1. << h, "struct" >> \in blocks => << h, "struct" >> \in BlocksOf({h})
        BY DEF BlocksOf
      <4> QED
        BY <3>2, <4>1 DEF Listed, Live
    <3>4. \A g \in table : counters[g].id # Hash(n)
      BY <3>2 DEF Taken, WithId
    <3> QED
      BY <3>1, <3>2, <3>3, <3>4
  <2>2. counters'[h].id = Hash(n) /\ << h, "struct" >> \in blocks' /\ blocks \subseteq blocks'
    BY <1>3, RegisterEffect, RegisterBlocks
  <2>3. \A g \in table : counters'[g] = counters[g]
    <3>1. counters' = [counters EXCEPT ![h] = counters'[h]]
      BY <1>3, RegisterEffect
    <3> QED
      BY <2>1, <3>1 DEF Typed
  <2> QED
    BY <2>1, <2>2, <2>3 DEF Listed, Live
<1>4. ASSUME NEW h \in Handle, Updates(h) PROVE Listed'
  <2>1. UNCHANGED << initialized, table, blocks >>
    BY <1>4 DEF Updates
  <2>2. \A g \in table : counters'[g].id = counters[g].id
    BY <1>4, UpdateEffect DEF Typed
  <2> QED
    BY <2>1, <2>2 DEF Listed, Live
<1> QED
  <2>1. \/ Looks \/ ReadsFreed \/ UNCHANGED vars
        \/ \E t \in UserType : Creates(t) \/ Releases(t)
        \/ \E t \in Type : CrashesOn(t)
        \/ \E t \in Type, h \in Handle : GivesUpOn(t, h)
        => UNCHANGED << initialized, table, counters >> /\ blocks \subseteq blocks'
    BY DEF Looks, ReadsFreed, vars, Creates, Releases, CrashesOn, RegisterFaults,
           GivesUpOn, RegisterGivesUp
  <2>2. Starts \/ Finishes => table' = {}
    BY DEF Starts, Finishes
  <2> QED
    BY <1>1, <1>2, <1>3, <1>4, <2>1, <2>2, StepKinds

(* A block leaves the heap with its counter, and the only calls that lose    *)
(* one say so: a registration that gives up, and a second mdcs_init.         *)
LEMMA AccountedNext == Typed /\ AllWhole /\ BlocksAccounted /\ [Next]_vars => BlocksAccounted'
<1> SUFFICES ASSUME Typed, AllWhole, BlocksAccounted, [Next]_vars PROVE BlocksAccounted'
  OBVIOUS
<1> USE DEF Quiet, heapVars, historyVars
<1>1. CASE UNCHANGED << table, blocks, orphans, leaked >>
  BY <1>1 DEF BlocksAccounted
<1>2. CASE Starts
  BY <1>2 DEF BlocksAccounted, Starts
<1>3. CASE Finishes
  BY <1>3 DEF BlocksAccounted, Finishes, BlocksOf
<1>4. ASSUME NEW t \in Type, NEW h \in Handle, GivesUpOn(t, h) PROVE BlocksAccounted'
  BY <1>4 DEF BlocksAccounted, GivesUpOn, RegisterGivesUp, Lost
<1>5. ASSUME NEW n \in Name, NEW t \in Type, NEW h \in Handle, Succeeds(n, t, h)
      PROVE  BlocksAccounted'
  <2>1. \A b \in blocks' : b \in blocks \/ b[1] = h
    BY <1>5, RegisterBlocks
  <2>2. table' = table \union {h} /\ leaked' = leaked /\ orphans' = orphans
    BY <1>5 DEF Succeeds, RegisterSucceeds
  <2> QED
    BY <2>1, <2>2 DEF BlocksAccounted
<1> QED
  <2>1. \/ Looks \/ ReadsFreed \/ UNCHANGED vars
        \/ \E t \in UserType : Creates(t) \/ Releases(t)
        \/ \E t \in Type : CrashesOn(t)
        \/ \E h \in Handle : Updates(h)
        => UNCHANGED << table, blocks, orphans, leaked >>
    BY DEF Looks, ReadsFreed, vars, Creates, Releases, CrashesOn, RegisterFaults, Updates
  <2> QED
    BY <1>1, <1>2, <1>3, <1>4, <1>5, <2>1, StepKinds

(* A built-in type is never freed: every reference given back makes its      *)
(* count more negative.                                                      *)
LEMMA BuiltInNext ==
  ASSUME Typed, AllWhole, \A t \in BuiltInType : types[t].status = "live" /\ types[t].refcount < 0,
         [Next]_vars
  PROVE  \A t \in BuiltInType : types'[t].status = "live" /\ types'[t].refcount < 0
<1> USE DEF Quiet, heapVars, historyVars
<1> SUFFICES ASSUME NEW t \in BuiltInType
             PROVE  types'[t].status = "live" /\ types'[t].refcount < 0
  OBVIOUS
<1>1. t \in Type /\ t \notin UserType /\ types[t].status = "live" /\ types[t].refcount < 0
  BY ServiceAssumption DEF Type
<1>2. CASE types'[t] = types[t]
  BY <1>1, <1>2
<1>3. CASE Finishes
  <2>1. Cardinality(UsersOf(t)) \in Nat
    BY ServiceAssumption, FS_Subset, FS_CardinalityType DEF UsersOf, Typed
  <2>2. types[t].refcount \in Int
    BY <1>1 DEF Typed
  <2>3. types'[t] = Dereferenced(types[t], Cardinality(UsersOf(t)))
    BY <1>1, <1>3 DEF Finishes
  <2> QED
    BY <1>1, <2>1, <2>2, <2>3 DEF Dereferenced
<1> QED
  <2>1. \/ Looks \/ ReadsFreed \/ Starts \/ UNCHANGED vars
        \/ \E u \in Type : CrashesOn(u)
        \/ \E u \in Type, h \in Handle : GivesUpOn(u, h)
        \/ \E n \in Name, u \in Type, h \in Handle : Succeeds(n, u, h)
        \/ \E h \in Handle : Updates(h)
        => types' = types
    BY DEF Looks, ReadsFreed, Starts, vars, CrashesOn, RegisterFaults,
           GivesUpOn, RegisterGivesUp, Succeeds, RegisterSucceeds, Updates
  <2>2. (\E u \in UserType : Creates(u) \/ Releases(u)) => types'[t] = types[t]
    BY <1>1 DEF Creates, Releases, Typed
  <2> QED
    BY <1>2, <1>3, <2>1, <2>2, StepKinds

-----------------------------------------------------------------------------
(* References to counter types *)

(* Neither a release nor a registration is ever taken back. *)
LEMMA HistoryGrows ==
  ASSUME Typed, AllWhole, [Next]_vars
  PROVE  /\ released \subseteq released'
         /\ \A t \in Type : uses[t] \in Nat /\ uses'[t] \in Nat /\ uses[t] <= uses'[t]
<1> USE DEF Quiet, heapVars, historyVars
<1>1. uses \in [Type -> Nat] /\ uses' \in [Type -> Nat]
  BY TypedNext DEF Typed
<1>2. CASE uses' = uses /\ released \subseteq released'
  BY <1>1, <1>2
<1>3. ASSUME NEW t \in Type, uses' = [uses EXCEPT ![t] = @ + 1], released' = released
      PROVE  /\ released \subseteq released'
             /\ \A u \in Type : uses[u] \in Nat /\ uses'[u] \in Nat /\ uses[u] <= uses'[u]
  BY <1>1, <1>3
<1> QED
  <2>1. \/ Looks \/ ReadsFreed \/ Starts \/ Finishes \/ UNCHANGED vars
        \/ \E t \in UserType : Creates(t) \/ Releases(t)
        \/ \E t \in Type, h \in Handle : GivesUpOn(t, h)
        \/ \E h \in Handle : Updates(h)
        => uses' = uses /\ released \subseteq released'
    BY DEF Looks, ReadsFreed, Starts, Finishes, vars, Creates, Releases, GivesUpOn,
           RegisterGivesUp, Updates
  <2>2. \/ \E t \in Type : CrashesOn(t)
        \/ \E n \in Name, t \in Type, h \in Handle : Succeeds(n, t, h)
        => \E t \in Type : uses' = [uses EXCEPT ![t] = @ + 1] /\ released' = released
    BY DEF CrashesOn, RegisterFaults, Succeeds, RegisterSucceeds
  <2> QED
    BY <1>2, <1>3, <2>1, <2>2, StepKinds

(* The step allocates no counter of the type. *)
NoneNewOf(t) ==
  \A h \in Handle : Live(h)' /\ TypeOf(h)' = t => Live(h) /\ TypeOf(h) = t

(* Only a registration that succeeds allocates a counter, and of its own     *)
(* type.                                                                     *)
LEMMA CountersOfType ==
  ASSUME Typed, AllWhole, Listed, [Next]_vars,
         NEW t, \A n \in Name, h \in Handle : ~Succeeds(n, t, h)
  PROVE  NoneNewOf(t)
<1> USE DEF Quiet, heapVars, historyVars
<1>1. CASE UNCHANGED << counters, blocks >>
  BY <1>1 DEF NoneNewOf, Live, TypeOf
<1>2. CASE Finishes
  <2>1. ASSUME NEW h \in Handle, Live(h)' PROVE h \notin table /\ Live(h)
    <3>1. << h, "struct" >> \in blocks'
      BY <2>1 DEF Live
    <3>2. << h, "struct" >>[1] = h
      OBVIOUS
    <3> QED
      BY <1>2, <3>1, <3>2, FinishEffect DEF Live
  <2>2. \A h \in Handle : Live(h)' => counters'[h] = counters[h]
    BY <1>2, <2>1, FinishEffect
  <2> QED
    BY <2>1, <2>2 DEF NoneNewOf, TypeOf
<1>3. ASSUME NEW u \in Type, NEW h \in Handle, GivesUpOn(u, h) PROVE NoneNewOf(t)
  <2>1. PICK lost \in SUBSET ({h} \X {"name", "data"}) :
          counters' = counters /\ blocks' = blocks \union lost
    BY <1>3 DEF GivesUpOn, RegisterGivesUp, Lost
  <2>2. \A g \in Handle : Live(g)' => Live(g)
    BY <2>1 DEF Live
  <2> QED
    BY <2>1, <2>2 DEF NoneNewOf, TypeOf
<1>4. ASSUME NEW n \in Name, NEW u \in Type, NEW h \in Handle, Succeeds(n, u, h)
      PROVE  NoneNewOf(t)
  <2>1. u # t
    BY <1>4
  <2>2. counters' = [counters EXCEPT ![h] = counters'[h]] /\ counters'[h].t = u
    BY <1>4, RegisteredType
  <2>3. \A g \in Handle : g # h => counters'[g] = counters[g]
    BY <2>2 DEF Typed
  <2>4. ASSUME NEW g \in Handle, g # h, Live(g)' PROVE Live(g)
    <3>1. << g, "struct" >> \in blocks' /\ << g, "struct" >>[1] = g
      BY <2>4 DEF Live
    <3>2. \A b \in blocks' : b \in blocks \/ b[1] = h
      BY <1>4, RegisterBlocks
    <3> QED
      BY <2>4, <3>1, <3>2 DEF Live
  <2> QED
    BY <2>1, <2>2, <2>3, <2>4 DEF NoneNewOf, TypeOf
<1>5. ASSUME NEW h \in Handle, Updates(h) PROVE NoneNewOf(t)
  <2>1. blocks' = blocks
    BY <1>5 DEF Updates
  <2>2. \A g \in Handle : counters'[g].t = counters[g].t
    BY <1>5, UpdateEffect
  <2> QED
    BY <2>1, <2>2 DEF NoneNewOf, Live, TypeOf
<1> QED
  <2>1. \/ Looks \/ ReadsFreed \/ Starts \/ UNCHANGED vars
        \/ \E u \in UserType : Creates(u) \/ Releases(u)
        \/ \E u \in Type : CrashesOn(u)
        => UNCHANGED << counters, blocks >>
    BY DEF Looks, ReadsFreed, Starts, vars, Creates, Releases, CrashesOn, RegisterFaults
  <2> QED
    BY <1>1, <1>2, <1>3, <1>4, <1>5, <2>1, StepKinds

(* An allocated counter has been registered. *)
LEMMA RegisteredNext ==
  ASSUME Typed, AllWhole, Listed, Referenced, [Next]_vars
  PROVE  \A h \in Handle : Live(h)' => uses'[TypeOf(h)'] >= 1
<1> SUFFICES ASSUME NEW h \in Handle, Live(h)' PROVE uses'[TypeOf(h)'] >= 1
  OBVIOUS
<1> DEFINE t == TypeOf(h)'
<1>1. t \in Type
  BY WholeNext DEF AllWhole, Whole, TypeOf
<1>2. CASE NoneNewOf(t)
  <2>1. Live(h) /\ TypeOf(h) = t
    BY <1>2 DEF NoneNewOf
  <2>2. uses[t] >= 1
    BY <2>1 DEF Referenced
  <2> QED
    BY <1>1, <2>2, HistoryGrows
<1>3. ASSUME NEW n \in Name, NEW g \in Handle, Succeeds(n, t, g) PROVE uses'[t] >= 1
  <2>1. uses' = [uses EXCEPT ![t] = @ + 1]
    BY <1>3 DEF Succeeds, RegisterSucceeds
  <2> QED
    BY <1>1, <2>1 DEF Typed
<1> QED
  BY <1>2, <1>3, CountersOfType

(* A type that is in use is counted as registered. *)
LEMMA UnusedNext ==
  ASSUME Typed, AllWhole, Referenced, [Next]_vars, NEW t \in UserType,
         types'[t].status = "unused"
  PROVE  uses'[t] = 0
<1> USE DEF Quiet, heapVars, historyVars
<1>1. t \in Type
  BY DEF Type
<1>2. types[t].status = "unused"
  <2>1. CASE types'[t] = types[t]
    BY <2>1
  <2>2. CASE Finishes
    BY <1>1, <2>2 DEF Finishes, Dereferenced
  <2>3. ASSUME NEW u \in UserType, Creates(u) \/ Releases(u) PROVE types[t].status = "unused"
    BY <1>1, <2>3 DEF Creates, Releases, Dereferenced, Typed
  <2> QED
    <3>1. \/ Looks \/ ReadsFreed \/ Starts \/ UNCHANGED vars
          \/ \E u \in Type : CrashesOn(u)
          \/ \E u \in Type, h \in Handle : GivesUpOn(u, h)
          \/ \E n \in Name, u \in Type, h \in Handle : Succeeds(n, u, h)
          \/ \E h \in Handle : Updates(h)
          => types' = types
      BY DEF Looks, ReadsFreed, Starts, vars, CrashesOn, RegisterFaults,
             GivesUpOn, RegisterGivesUp, Succeeds, RegisterSucceeds, Updates
    <3> QED
      BY <2>1, <2>2, <2>3, <3>1, StepKinds
<1>3. uses[t] = 0
  BY <1>2 DEF Referenced
<1>4. uses'[t] = uses[t]
  <2>1. ASSUME NEW u \in Type, u # t, uses' = [uses EXCEPT ![u] = @ + 1] PROVE uses'[t] = uses[t]
    BY <1>1, <2>1 DEF Typed
  <2>2. \/ Looks \/ ReadsFreed \/ Starts \/ Finishes \/ UNCHANGED vars
        \/ \E u \in UserType : Creates(u) \/ Releases(u)
        \/ \E u \in Type, h \in Handle : GivesUpOn(u, h)
        \/ \E h \in Handle : Updates(h)
        => uses' = uses
    BY DEF Looks, ReadsFreed, Starts, Finishes, vars, Creates, Releases, GivesUpOn,
           RegisterGivesUp, Updates
  <2>3. \/ \E u \in Type : CrashesOn(u)
        \/ \E n \in Name, u \in Type, h \in Handle : Succeeds(n, u, h)
        => \E u \in Type : u # t /\ uses' = [uses EXCEPT ![u] = @ + 1]
    BY <1>2 DEF CrashesOn, RegisterFaults, Succeeds, RegisterSucceeds, Begins
  <2> QED
    BY <2>1, <2>2, <2>3, StepKinds
<1> QED
  BY <1>3, <1>4

(* A careful program has at most one counter of each of its types. *)
LEMMA OneUser ==
  ASSUME Typed, Listed, NEW t \in UserType, OneReference(t)
  PROVE  \/ UsersOf(t) = {} /\ Cardinality(UsersOf(t)) = 0
         \/ \E h \in table : /\ UsersOf(t) = {h} /\ Cardinality(UsersOf(t)) = 1
                             /\ Live(h) /\ TypeOf(h) = t
<1>1. CASE UsersOf(t) = {}
  BY <1>1, FS_EmptySet
<1>2. CASE UsersOf(t) # {}
  <2>1. PICK h \in table : h \in UsersOf(t) /\ TypeOf(h) = t
    BY <1>2 DEF UsersOf
  <2>2. \A g \in UsersOf(t) : g = h
    BY <2>1 DEF UsersOf, OneReference, Listed, Typed
  <2>3. UsersOf(t) = {h}
    BY <2>1, <2>2
  <2>4. Cardinality(UsersOf(t)) = 1
    BY <2>3, FS_Singleton
  <2> QED
    BY <2>1, <2>3, <2>4 DEF Listed
<1> QED
  BY <1>1, <1>2

(* A step that leaves a type alone and allocates no counter of it keeps the  *)
(* reference.                                                                *)
LEMMA ReferenceStays ==
  ASSUME Typed, Referenced, NEW t \in UserType, Careful(t), Careful(t)', uses[t] <= uses'[t],
         uses'[t] \in Nat, types'[t] = types[t], NoneNewOf(t)
  PROVE  OneReference(t)'
<1>1. OneReference(t)
  BY DEF Referenced
<1>2. uses[t] = 1 => uses'[t] = 1
  BY DEF Careful
<1> QED
  BY <1>1, <1>2 DEF OneReference, NoneNewOf

(* The one reference of a careful program's type is kept until its one       *)
(* counter is finalized.                                                     *)
LEMMA ReferenceNext ==
  ASSUME Typed, AllWhole, Listed, Referenced, [Next]_vars, NEW t \in UserType, Careful(t)'
  PROVE  OneReference(t)'
<1> USE DEF Quiet, heapVars, historyVars
<1>1. /\ t \in Type /\ Careful(t) /\ OneReference(t)
      /\ uses[t] \in Nat /\ uses'[t] \in Nat /\ uses[t] <= uses'[t]
  <2>1. t \in Type
    BY DEF Type
  <2>2. /\ released \subseteq released'
        /\ uses[t] \in Nat /\ uses'[t] \in Nat /\ uses[t] <= uses'[t]
    BY <2>1, HistoryGrows
  <2>3. Careful(t)
    BY <2>2 DEF Careful
  <2> QED
    BY <2>1, <2>2, <2>3 DEF Referenced
<1>2. CASE types'[t] = types[t] /\ NoneNewOf(t)
  BY <1>1, <1>2, ReferenceStays
<1>3. CASE Finishes
  <2>1. NoneNewOf(t)
    <3>1. ASSUME NEW n \in Name, NEW h \in Handle, Succeeds(n, t, h) PROVE FALSE
      BY <1>3, <3>1 DEF Finishes, Succeeds, Begins, RegisterSucceeds
    <3> QED
      BY <3>1, CountersOfType
  <2>2. types'[t] = Dereferenced(types[t], Cardinality(UsersOf(t))) /\ uses' = uses
    BY <1>1, <1>3 DEF Finishes
  <2>3. CASE UsersOf(t) = {} /\ Cardinality(UsersOf(t)) = 0
    <3>1. types'[t] = types[t]
      BY <1>1, <2>2, <2>3 DEF Dereferenced, Typed
    <3> QED
      BY <1>2, <2>1, <3>1
  <2>4. ASSUME NEW h \in table, UsersOf(t) = {h}, Cardinality(UsersOf(t)) = 1,
               Live(h), TypeOf(h) = t
        PROVE  OneReference(t)'
    <3>1. h \in Handle /\ uses[t] >= 1 /\ types[t].status # "freed"
      BY <1>1, <2>4 DEF Typed, Referenced, OneReference
    <3>2. types[t].status = "live" /\ types[t].refcount = 1
      <4>1. types[t].status # "unused"
        BY <1>1, <3>1 DEF Referenced
      <4>2. types[t].status \in Status
        BY <1>1 DEF Typed
      <4> QED
        BY <1>1, <3>1, <4>1, <4>2 DEF OneReference, Status
    <3>3. types'[t] = [status |-> "freed", refcount |-> 0]
      BY <2>2, <2>4, <3>2 DEF Dereferenced
    <3>4. uses'[t] = 1
      BY <1>1, <2>2, <3>1 DEF Careful
    <3>5. ASSUME NEW g \in Handle, Live(g)', TypeOf(g)' = t PROVE FALSE
      <4>1. Live(g) /\ TypeOf(g) = t
        BY <2>1, <3>5 DEF NoneNewOf
      <4>2. g = h
        BY <1>1, <2>4, <3>1, <4>1 DEF OneReference
      <4>3. << g, "struct" >> \in blocks' /\ << g, "struct" >>[1] = g
        BY <3>5 DEF Live
      <4> QED
        BY <1>3, <4>2, <4>3, FinishEffect
    <3> QED
      BY <3>3, <3>4, <3>5 DEF OneReference
  <2> QED
    BY <1>1, <2>3, <2>4, OneUser
<1>4. ASSUME NEW u \in UserType, Creates(u) PROVE OneReference(t)'
  <2>1. NoneNewOf(t)
    BY <1>4 DEF Creates, NoneNewOf, Live, TypeOf
  <2>2. CASE u # t
    <3>1. types'[t] = types[t]
      BY <1>1, <1>4, <2>2 DEF Creates, Typed
    <3> QED
      BY <1>2, <2>1, <3>1
  <2>3. CASE u = t
    <3>1. types'[t] = [status |-> "live", refcount |-> 1]
      BY <1>1, <1>4, <2>3 DEF Creates, Typed
    <3> QED
      BY <1>1, <2>1, <3>1 DEF OneReference, NoneNewOf
  <2> QED
    BY <2>2, <2>3
<1>5. ASSUME NEW u \in UserType, Releases(u) PROVE OneReference(t)'
  <2>1. u # t
    BY <1>5 DEF Releases, Careful
  <2>2. types'[t] = types[t]
    BY <1>1, <1>5, <2>1 DEF Releases, Typed
  <2>3. NoneNewOf(t)
    BY <1>5 DEF Releases, NoneNewOf, Live, TypeOf
  <2> QED
    BY <1>2, <2>2, <2>3
<1>6. ASSUME NEW n \in Name, NEW h \in Handle, Succeeds(n, t, h) PROVE OneReference(t)'
  <2>1. /\ types' = types /\ types[t].status = "live" /\ uses' = [uses EXCEPT ![t] = @ + 1]
    BY <1>6 DEF Succeeds, RegisterSucceeds, Usable
  <2>2. uses'[t] = uses[t] + 1
    BY <1>1, <2>1 DEF Typed
  <2>3. uses[t] = 0
    BY <1>1, <2>2 DEF Careful
  <2>4. \A g \in Handle : Live(g) => TypeOf(g) # t
    BY <2>3 DEF Referenced
  <2>5. ASSUME NEW g \in Handle, Live(g)', TypeOf(g)' = t PROVE g = h
    <3>1. SUFFICES ASSUME g # h PROVE FALSE
      OBVIOUS
    <3>2. counters' = [counters EXCEPT ![h] = counters'[h]]
      BY <1>6, RegisterEffect, <1>1
    <3>3. TypeOf(g) = t
      BY <2>5, <3>1, <3>2 DEF Typed, TypeOf
    <3>4. << g, "struct" >> \in blocks' /\ << g, "struct" >>[1] = g
      BY <2>5 DEF Live
    <3>5. \A b \in blocks' : b \in blocks \/ b[1] = h
      BY <1>1, <1>6, RegisterBlocks
    <3> QED
      BY <2>4, <3>1, <3>3, <3>4, <3>5 DEF Live
  <2> QED
    BY <1>1, <2>1, <2>5 DEF OneReference
<1> QED
  <2>1. \/ Looks \/ ReadsFreed \/ Starts \/ UNCHANGED vars
        \/ \E u \in Type : CrashesOn(u)
        \/ \E u \in Type, h \in Handle : GivesUpOn(u, h)
        \/ \E n \in Name, u \in Type, h \in Handle : Succeeds(n, u, h)
        \/ \E h \in Handle : Updates(h)
        => types' = types
    BY DEF Looks, ReadsFreed, Starts, vars, CrashesOn, RegisterFaults,
           GivesUpOn, RegisterGivesUp, Succeeds, RegisterSucceeds, Updates
  <2>2. CASE \A n \in Name, h \in Handle : ~Succeeds(n, t, h)
    BY <1>2, <1>3, <1>4, <1>5, <2>1, <2>2, CountersOfType, StepKinds
  <2> QED
    BY <1>6, <2>2

(* The type of an allocated counter is there, unless the program was not     *)
(* careful with that type.                                                   *)
LEMMA UsableInUse ==
  ASSUME Typed, AllWhole, Referenced, NEW h \in Handle, Live(h),
         TypeOf(h) \in UserType => Careful(TypeOf(h))
  PROVE  TypeOf(h) \in Type /\ Usable(TypeOf(h))
<1>1. TypeOf(h) \in Type
  BY DEF AllWhole, Whole, TypeOf
<1>2. CASE TypeOf(h) \in BuiltInType
  BY <1>1, <1>2 DEF Referenced, Usable
<1>3. CASE TypeOf(h) \in UserType
  <2>1. uses[TypeOf(h)] >= 1 /\ OneReference(TypeOf(h))
    BY <1>3 DEF Referenced
  <2>2. types[TypeOf(h)].status \notin {"unused", "freed"}
    BY <1>3, <2>1 DEF Referenced, OneReference
  <2>3. types[TypeOf(h)].status \in Status
    BY <1>1 DEF Typed
  <2> QED
    BY <1>1, <2>2, <2>3 DEF Usable, Status
<1> QED
  BY <1>1, <1>2, <1>3 DEF Type

(* Whoever reads a freed type released it or registered it twice. *)
LEMMA FreedTypeNext ==
  ASSUME Typed, AllWhole, Listed, Referenced, FreedTypeNeedsCause, [Next]_vars,
         NEW t \in Type, fault' = t
  PROVE  t \in UserType /\ ~Careful(t)'
<1> USE DEF Quiet, heapVars, historyVars
<1>1. SUFFICES ASSUME t \in UserType => Careful(t)' PROVE FALSE
  OBVIOUS
<1>2. /\ t \in Type /\ (t \in UserType => Careful(t) /\ OneReference(t))
      /\ uses[t] \in Nat /\ uses'[t] \in Nat /\ uses[t] <= uses'[t]
  <2>1. /\ released \subseteq released'
        /\ uses[t] \in Nat /\ uses'[t] \in Nat /\ uses[t] <= uses'[t]
    BY HistoryGrows
  <2>2. t \in UserType => Careful(t)
    BY <1>1, <2>1 DEF Careful
  <2> QED
    BY <2>1, <2>2 DEF Referenced
<1>3. fault' # fault
  <2>1. fault \in Type => fault \in UserType /\ (fault \in released \/ uses[fault] > 1)
    BY DEF FreedTypeNeedsCause
  <2>2. ASSUME fault' = fault PROVE FALSE
    <3>1. t \in UserType /\ (t \in released \/ uses[t] > 1)
      BY <1>2, <2>1, <2>2
    <3> QED
      BY <1>2, <3>1 DEF Careful
  <2> QED
    BY <2>2
<1>4. ASSUME NEW h \in Handle, Live(h), TypeOf(h) = t PROVE Usable(t)
  BY <1>2, <1>4, UsableInUse
<1>5. ~FinalizeReadsFreed(t)
  <2> SUFFICES ASSUME FinalizeReadsFreed(t) PROVE FALSE
    OBVIOUS
  <2>1. Cardinality(UsersOf(t)) > 0 /\ Cardinality(UsersOf(t)) \in Nat
    BY ServiceAssumption, FS_Subset, FS_CardinalityType DEF FinalizeReadsFreed, UsersOf, Typed
  <2>2. PICK h \in table : TypeOf(h) = t
    <3>1. UsersOf(t) # {}
      BY <2>1, FS_EmptySet
    <3> QED
      BY <3>1 DEF UsersOf
  <2>3. Usable(t)
    BY <1>4, <2>2 DEF Listed, Typed
  <2>4. types[t].refcount \in 1..Cardinality(UsersOf(t)) - 1
    BY <2>3 DEF FinalizeReadsFreed
  <2>5. CASE t \in BuiltInType
    BY <2>4, <2>5 DEF Referenced
  <2>6. CASE t \in UserType
    BY <1>2, <2>1, <2>4, <2>6, OneUser
  <2> QED
    BY <1>2, <2>5, <2>6 DEF Type
<1>6. ASSUME NEW u \in UserType, Releases(u) PROVE FALSE
  <2>1. fault' = u /\ released' = released \union {u}
    BY <1>3, <1>6 DEF Releases, Returns
  <2> QED
    BY <1>1, <1>6, <2>1 DEF Careful
<1>7. ASSUME NEW u \in Type, CrashesOn(u) PROVE FALSE
  <2>1. /\ u = t /\ ~Usable(t) /\ types[t].status # "unused"
        /\ uses' = [uses EXCEPT ![t] = @ + 1]
    BY <1>2, <1>7, ServiceAssumption DEF CrashesOn, RegisterFaults, Type
  <2>2. t \in UserType
    BY <1>2, <2>1 DEF Referenced, Type, Usable
  <2>3. types[t].status = "freed"
    BY <1>2, <2>1 DEF Typed, Status, Usable
  <2>4. uses[t] = 1
    BY <1>2, <2>2, <2>3 DEF OneReference
  <2>5. uses'[t] = uses[t] + 1
    BY <1>2, <2>1 DEF Typed
  <2> QED
    BY <1>1, <2>2, <2>4, <2>5 DEF Careful
<1> QED
  <2>1. \/ Looks \/ Starts \/ Finishes \/ UNCHANGED vars
        \/ \E u \in UserType : Creates(u)
        \/ \E u \in Type, h \in Handle : GivesUpOn(u, h)
        \/ \E n \in Name, u \in Type, h \in Handle : Succeeds(n, u, h)
        \/ \E h \in Handle : Updates(h)
        => fault' = fault
    BY DEF Looks, Starts, Finishes, vars, Creates, GivesUpOn, RegisterGivesUp,
           Succeeds, RegisterSucceeds, Updates, Returns
  <2>2. ~ReadsFreed
    BY <1>4, <1>5 DEF ReadsFreed
  <2> QED
    BY <1>3, <1>6, <1>7, <2>1, <2>2, StepKinds

(* The invariant is inductive. *)
LEMMA InvNext == IInv /\ [Next]_vars => IInv'
<1> SUFFICES ASSUME IInv, [Next]_vars PROVE IInv'
  OBVIOUS
<1>1. Typed /\ AllWhole /\ Listed /\ BlocksAccounted /\ Referenced /\ FreedTypeNeedsCause
  BY DEF IInv
<1>2. Typed' /\ AllWhole' /\ Listed' /\ BlocksAccounted'
  BY <1>1, TypedNext, WholeNext, ListedNext, AccountedNext
<1>3. Referenced'
  <2>1. \A t \in BuiltInType : types'[t].status = "live" /\ types'[t].refcount < 0
    BY <1>1, BuiltInNext DEF Referenced
  <2>2. \A h \in Handle : Live(h)' => uses'[TypeOf(h)'] >= 1
    BY <1>1, RegisteredNext
  <2>3. \A t \in UserType : types'[t].status = "unused" => uses'[t] = 0
    BY <1>1, UnusedNext
  <2>4. \A t \in UserType : Careful(t)' => OneReference(t)'
    BY <1>1, ReferenceNext
  <2> QED
    BY <2>1, <2>2, <2>3, <2>4 DEF Referenced
<1>4. FreedTypeNeedsCause'
  <2>1. \A t \in BuiltInType : Usable(t)'
    BY <1>3 DEF Referenced, Usable
  <2>2. ASSUME fault' \in Type
        PROVE  fault' \in UserType /\ (fault' \in released' \/ uses'[fault'] > 1)
    <3>1. PICK t \in Type : fault' = t
      BY <2>2
    <3>2. t \in UserType /\ ~Careful(t)'
      BY <1>1, <3>1, FreedTypeNext
    <3>3. uses'[t] \in Nat
      BY <1>2 DEF Typed
    <3> QED
      BY <3>1, <3>2, <3>3 DEF Careful
  <2> QED
    BY <2>1, <2>2 DEF FreedTypeNeedsCause
<1> QED
  BY <1>2, <1>3, <1>4 DEF IInv

-----------------------------------------------------------------------------
(* What holds of the service *)

(* The state is of its types, and every counter a call can reach has a       *)
(* buffer of max_buffer_size slots and counts no more items than that.       *)
THEOREM TypeCorrect == Spec => []TypeOK
<1>1. IInv => TypeOK
  BY DEF IInv, Typed, AllWhole, Whole, Shape, TypeOK, Status
<1> QED
  BY <1>1, InvInit, InvNext, PTL DEF Spec

(* Every counter that a lookup finds is the only one of its id and is whole, *)
(* whatever allocations failed and whatever addresses malloc gave again.     *)
THEOREM LookupsAreSound == Spec => []TableSound
<1>1. IInv => TableSound
  BY DEF IInv, Typed, AllWhole, Listed, Whole, Live, TableSound
<1> QED
  BY <1>1, InvInit, InvNext, PTL DEF Spec

(* No block is lost but by a registration that gives up its counter or by a  *)
(* second mdcs_init.                                                         *)
THEOREM NoOtherLeak == Spec => []BlocksAccounted
<1> QED
  BY InvInit, InvNext, PTL DEF Spec, IInv

(* For any number of counters, types and finalizations, a built-in type is   *)
(* never freed, and a type that a call meets freed is one that the program   *)
(* released or registered twice itself.                                      *)
THEOREM FreedTypeHasCause == Spec => []FreedTypeNeedsCause
<1> QED
  BY InvInit, InvNext, PTL DEF Spec, IInv

(* A registration never takes an id from the counter that has it, and no     *)
(* call but mdcs_finalize and mdcs_init removes a counter from the table.    *)
THEOREM BindingsAreStable == Spec => BindingStable
<1> USE DEF Quiet, heapVars, historyVars
<1>1. ASSUME IInv, [Next]_vars, NEW name \in Name,
             WithId(Hash(name)) # {}, initialized', inits' = inits
      PROVE  WithId(Hash(name))' = WithId(Hash(name))
  <2>1. Typed /\ AllWhole /\ Listed
    BY <1>1 DEF IInv
  <2>2. CASE UNCHANGED << table, counters >>
    BY <2>2 DEF WithId
  <2>3. ~Starts /\ ~Finishes
    BY <1>1, <2>1 DEF Starts, Finishes, Typed
  <2>4. ASSUME NEW n \in Name, NEW t \in Type, NEW h \in Handle, Succeeds(n, t, h)
        PROVE  WithId(Hash(name))' = WithId(Hash(name))
    <3>1. table' = table \union {h} /\ WithId(Hash(n)) = {} /\ BlocksOf({h}) = {}
      BY <2>4 DEF Succeeds, RegisterSucceeds, Begins, Taken
    <3>2. h \notin table
      <4>1. << h, "struct" >> \in blocks => << h, "struct" >> \in BlocksOf({h})
        BY DEF BlocksOf
      <4> QED
        BY <2>1, <3>1, <4>1 DEF Listed, Live
    <3>3. counters' = [counters EXCEPT ![h] = counters'[h]]
      BY <2>1, <2>4, RegisterEffect
    <3>4. counters'[h].id = Hash(n)
      BY <2>1, <2>4, RegisterEffect
    <3>5. Hash(n) # Hash(name)
      BY <1>1, <3>1
    <3>6. \A g \in table : counters'[g] = counters[g]
      BY <2>1, <3>2, <3>3 DEF Typed
    <3> QED
      BY <3>1, <3>4, <3>5, <3>6 DEF WithId
  <2>5. ASSUME NEW h \in Handle, Updates(h)
        PROVE  WithId(Hash(name))' = WithId(Hash(name))
    <3>1. table' = table
      BY <2>5 DEF Updates
    <3>2. \A g \in table : counters'[g].id = counters[g].id
      BY <2>1, <2>5, UpdateEffect DEF Typed
    <3> QED
      BY <3>1, <3>2 DEF WithId
  <2>6. \/ Looks \/ ReadsFreed \/ UNCHANGED vars
        \/ \E t \in UserType : Creates(t) \/ Releases(t)
        \/ \E t \in Type : CrashesOn(t)
        \/ \E t \in Type, h \in Handle : GivesUpOn(t, h)
        => UNCHANGED << table, counters >>
    BY DEF Looks, ReadsFreed, vars, Creates, Releases, CrashesOn, RegisterFaults,
           GivesUpOn, RegisterGivesUp
  <2> QED
    BY <1>1, <2>1, <2>2, <2>3, <2>4, <2>5, <2>6, StepKinds
<1>2. IInv /\ [Next]_vars =>
        [\A n \in Name :
           WithId(Hash(n)) # {} /\ initialized' /\ inits' = inits
           => WithId(Hash(n))' = WithId(Hash(n))]_vars
  BY <1>1
<1> QED
  BY <1>2, InvInit, InvNext, PTL DEF Spec, BindingStable

(* MDCS_ERROR means that nothing happened which a lookup, a type or a        *)
(* counter could tell, also when an allocation failed half-way.              *)
THEOREM ErrorsChangeNothing == Spec => ErrorsAreInert
<1> USE DEF Quiet, heapVars, historyVars
<1>1. ASSUME IInv, Next, ret' = "MDCS_ERROR"
      PROVE  /\ UNCHANGED << initialized, table, types >>
             /\ \A h \in Handle : Live(h) => Live(h)' /\ counters'[h] = counters[h]
  <2>1. \/ Looks \/ ReadsFreed
        \/ \E t \in UserType : Releases(t)
        \/ \E t \in Type : CrashesOn(t)
        \/ \E t \in Type, h \in Handle : GivesUpOn(t, h)
    BY <1>1, StepKinds DEF IInv, Starts, Finishes, Creates, Succeeds, RegisterSucceeds, Updates,
                           Returns
  <2>2. UNCHANGED << initialized, table, types, counters >> /\ blocks \subseteq blocks'
    BY <1>1, <2>1 DEF Looks, ReadsFreed, Releases, CrashesOn, RegisterFaults,
                      GivesUpOn, RegisterGivesUp, Returns
  <2> QED
    BY <2>2 DEF Live
<1>2. IInv /\ [Next]_vars =>
        [ret' = "MDCS_ERROR" =>
           /\ UNCHANGED << initialized, table, types >>
           /\ \A h \in Handle : Live(h) => Live(h)' /\ counters'[h] = counters[h]]_vars
  BY <1>1
<1> QED
  BY <1>2, InvInit, InvNext, PTL DEF Spec, ErrorsAreInert
=============================================================================
