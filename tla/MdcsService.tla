---------------------------- MODULE MdcsService ----------------------------
(***************************************************************************)
(* The service of one process: mdcs-service.c with its global table        *)
(* g_mdcs->counter_hash, its counters and its counter types, as the heap   *)
(* sees them.  An action is one call of one function, made by the          *)
(* application or by an RPC handler (module MdcsRpc).  No call yields, so  *)
(* under one execution stream each of them is one step.                    *)
(*                                                                         *)
(* Every malloc may fail.  Reading freed memory, or calling a function     *)
(* through a null pointer, is a fault, after which nothing more is said.   *)
(* The application is a correct one: it passes handles and types that it   *)
(* got from MDCS, releases a type once, and registers no counter with a    *)
(* type it has released.                                                   *)
(***************************************************************************)
EXTENDS Counter, FiniteSets

CONSTANTS
  Name,              \* the names of counters
  Hash(_),           \* mdcs_hash_string
  Handle,            \* the addresses of counters
  MDCS_COUNTER_NULL, \* the null handle
  MDCS_COUNTER_TYPE_NULL, \* the null type
  BuiltInType,       \* MDCS_COUNTER_LAST_DOUBLE and the like: static objects
  UserType,          \* the addresses mdcs_counter_type_create may return
  BufferSizes,       \* the buffer_size arguments of mdcs_counter_register
  MaxItems,          \* bound: no push on a counter that holds this many items
  MaxInits           \* bound: how often mdcs_init is called

ASSUME ServiceAssumption ==
  /\ MDCS_COUNTER_NULL \notin Handle
  /\ IsFiniteSet(Handle)
  /\ BuiltInType \intersect UserType = {}
  /\ MDCS_COUNTER_TYPE_NULL \notin BuiltInType \union UserType
  /\ {"none", "null"} \intersect (BuiltInType \union UserType) = {}
  /\ BufferSizes \subseteq Nat
  /\ MaxItems \in Nat
  /\ MaxInits \in Nat

Type == BuiltInType \union UserType
Id == {Hash(n) : n \in Name}

VARIABLES
  initialized, \* whether g_mdcs is not MDCS_NULL
  table,       \* g_mdcs->counter_hash: the counters a lookup can find
  counters,    \* the counter at each address
  blocks,      \* the heap blocks of counters that malloc gave out
  types,       \* the counter type at each address
  ret,         \* what the last call returned
  fault,       \* "none", or what the last call met: the freed type, or "null"
  inits,       \* history: how many mdcs_init calls succeeded
  orphans,     \* history: the counters of tables that mdcs_init replaced
  leaked,      \* history: the blocks that a failed registration left behind
  released,    \* history: the types given to mdcs_counter_type_destroy
  uses         \* history: how many registrations of a type returned no error

heapVars == << counters, blocks, types >>
historyVars == << inits, orphans, leaked, released, uses >>
vars == << initialized, table, heapVars, ret, fault, historyVars >>

-----------------------------------------------------------------------------
(* A counter has up to four blocks: struct mdcs_counter_s, the copy of its *)
(* name, its internal data and its buffer.                                 *)
Parts == {"struct", "name", "data", "buffer"}

(* A mistake in mdcs_finalize, for the mutants: the name is not freed. *)
BlocksButNames(H) == {b \in blocks : b[1] \in H /\ b[2] # "name"}

BlocksOf(H) == {b \in blocks : b[1] \in H}

Live(h) == << h, "struct" >> \in blocks
TypeOf(h) == counters[h].t
UsersOf(t) == {h \in table : TypeOf(h) = t}
Usable(t) == types[t].status = "live"

(* HASH_FIND; the table holds at most one counter of an id. *)
WithId(id) == {h \in table : counters[h].id = id}

Returns(code) == ret' = code /\ UNCHANGED fault
Fails == /\ Returns("MDCS_ERROR")
         /\ UNCHANGED << initialized, table, heapVars, historyVars >>
Faults(what) == /\ fault' = what
                /\ UNCHANGED << initialized, table, heapVars, ret, historyVars >>
Running == fault = "none"

(* What stands at an address where no counter is allocated. *)
NoCounter == [name |-> << >>, id |-> 0, t |-> MDCS_COUNTER_TYPE_NULL, c |-> Allocated(0)]

Init ==
  /\ initialized = FALSE
  /\ table = {}
  /\ counters = [h \in Handle |-> NoCounter]
  /\ blocks = {}
  /\ types = [t \in Type |-> IF t \in BuiltInType
                             THEN [status |-> "live", refcount |-> -1]
                             ELSE [status |-> "unused", refcount |-> 0]]
  /\ ret = "MDCS_SUCCESS"
  /\ fault = "none"
  /\ inits = 0
  /\ orphans = {}
  /\ leaked = {}
  /\ released = {}
  /\ uses = [t \in Type |-> 0]

-----------------------------------------------------------------------------
(* mdcs_init.  A second call replaces g_mdcs and starts with an empty table. *)
MdcsInit ==
  /\ Running
  /\ \/ Fails  \* malloc
     \/ /\ inits < MaxInits
        /\ initialized' = TRUE
        /\ table' = {}
        /\ inits' = inits + 1
        /\ orphans' = orphans \union table
        /\ Returns("MDCS_SUCCESS")
        /\ UNCHANGED << heapVars, leaked, released, uses >>

(* mdcs_initialized only tells whether g_mdcs is there. *)
MdcsInitialized ==
  /\ Running
  /\ Returns("MDCS_SUCCESS")
  /\ UNCHANGED << initialized, table, heapVars, historyVars >>

(* A mistake, for the mutants: a type is freed whenever nobody is counted to *)
(* refer to it, and of a built-in type nobody is.                            *)
DereferencedBelowZero(type, n) ==
  LET refcount == type.refcount - n
  IN  [ status   |-> IF n > 0 /\ refcount <= 0 THEN "freed" ELSE type.status,
        refcount |-> refcount ]

(* What n calls of mdcs_counter_type_destroy leave of a live type. *)
Dereferenced(type, n) ==
  LET refcount == type.refcount - n
  IN  [ status   |-> IF n > 0 /\ refcount = 0 THEN "freed" ELSE type.status,
        refcount |-> refcount ]

(* The loop of mdcs_finalize calls destroy_f of the counter's type and then  *)
(* drops a reference to it, counter by counter: it reads a freed type when   *)
(* the type was freed before, or when the references run out on the way.     *)
FinalizeReadsFreed(t) ==
  LET users == Cardinality(UsersOf(t))
  IN  /\ users > 0
      /\ \/ ~Usable(t)
         \/ types[t].refcount \in 1..users - 1

Finalize ==
  /\ Running
  /\ \/ ~initialized /\ Fails
     \/ /\ initialized
        /\ \E t \in Type : FinalizeReadsFreed(t) /\ Faults(t)
     \/ /\ initialized
        /\ \A t \in Type : ~FinalizeReadsFreed(t)
        /\ types' = [t \in Type |-> Dereferenced(types[t], Cardinality(UsersOf(t)))]
        /\ blocks' = blocks \ BlocksOf(table)
        /\ counters' = [h \in Handle |-> IF h \in table THEN NoCounter ELSE counters[h]]
        /\ table' = {}
        /\ initialized' = FALSE
        /\ Returns("MDCS_SUCCESS")
        /\ UNCHANGED historyVars

TypeCreate(t) ==
  /\ Running
  /\ \/ Fails  \* not initialised, or malloc
     \/ /\ initialized
        /\ types[t].status = "unused"
        /\ types' = [types EXCEPT ![t] = [status |-> "live", refcount |-> 1]]
        /\ Returns("MDCS_SUCCESS")
        /\ UNCHANGED << initialized, table, counters, blocks, historyVars >>

(* The reference to give back is the one mdcs_counter_type_create made. *)
TypeDestroy(t) ==
  /\ Running
  /\ \/ ~initialized /\ Fails
     \/ /\ initialized
        /\ t = MDCS_COUNTER_TYPE_NULL
        /\ Returns("MDCS_SUCCESS")
        /\ UNCHANGED << initialized, table, heapVars, historyVars >>
     \/ /\ initialized
        /\ t \in UserType \ released
        /\ types[t].status # "unused"
        /\ IF Usable(t)
           THEN /\ types' = [types EXCEPT ![t] = Dereferenced(@, 1)]
                /\ Returns("MDCS_SUCCESS")
           ELSE /\ fault' = t
                /\ UNCHANGED << types, ret >>
        /\ released' = released \union {t}
        /\ UNCHANGED << initialized, table, counters, blocks, inits, orphans, leaked, uses >>

-----------------------------------------------------------------------------
(* mdcs_counter_register, with the blocks that malloc and strdup deny it. *)

(* The blocks of a new counter; a denied strdup leaves its name NULL. *)
NewBlocks(h, buffer_size, denied) ==
  {h} \X ((Parts \ denied) \ IF buffer_size = 0 THEN {"buffer"} ELSE {})

(* A mistake, for the mutants: the name is not looked up first. *)
NeverTaken(n) == FALSE

(* Hash collision or a counter with the same name already exists. *)
Taken(n) == WithId(Hash(n)) # {}

(* Nothing has been allocated, or the first malloc failed. *)
RegisterFails(n, denied) ==
  /\ \/ denied = {} /\ (~initialized \/ Taken(n))
     \/ denied = {"struct"}
  /\ Fails

(* type->create_f is read from a freed type, or reset_f gets the NULL that *)
(* create_f returned.                                                      *)
RegisterFaults(t, denied) ==
  /\ \/ ~Usable(t) /\ fault' = t
     \/ Usable(t) /\ "data" \in denied /\ fault' = "null"
  /\ uses' = [uses EXCEPT ![t] = @ + 1]
  /\ UNCHANGED << initialized, table, heapVars, ret, inits, orphans, leaked, released >>

(* Only the struct is freed. *)
Lost(h, denied) == {h} \X ({"name", "data"} \ denied)

(* A mistake, for the mutants: HASH_ADD comes before the malloc that fails. *)
RegisterGivesUpListed(h, denied) ==
  /\ blocks' = blocks \union Lost(h, denied)
  /\ leaked' = leaked \union Lost(h, denied)
  /\ table' = table \union {h}
  /\ Returns("MDCS_ERROR")
  /\ UNCHANGED << initialized, counters, types, inits, orphans, released, uses >>

(* Without a buffer the counter is given up, its name and its data are not. *)
RegisterGivesUp(h, denied) ==
  /\ blocks' = blocks \union Lost(h, denied)
  /\ leaked' = leaked \union Lost(h, denied)
  /\ Returns("MDCS_ERROR")
  /\ UNCHANGED << initialized, table, counters, types, inits, orphans, released, uses >>

RegisterSucceeds(n, t, buffer_size, h, denied) ==
  /\ blocks' = blocks \union NewBlocks(h, buffer_size, denied)
  /\ counters' = [counters EXCEPT ![h] =
       [name |-> n, id |-> Hash(n), t |-> t, c |-> WasReset(Allocated(buffer_size))]]
  /\ table' = table \union {h}
  /\ uses' = [uses EXCEPT ![t] = @ + 1]
  /\ Returns("MDCS_SUCCESS")
  /\ UNCHANGED << initialized, types, inits, orphans, leaked, released >>

(* The NULL data of a counter without its buffer is never touched. *)
Register(n, t, buffer_size, h, denied) ==
  /\ Running
  /\ \/ RegisterFails(n, denied)
     \/ /\ initialized
        /\ ~Taken(n)
        /\ "struct" \notin denied
        /\ "buffer" \in denied => buffer_size # 0
        /\ types[t].status # "unused"
        /\ t \notin released
        /\ BlocksOf({h}) = {}
        /\ IF Usable(t) /\ "buffer" \in denied
           THEN RegisterGivesUp(h, denied)
           ELSE IF ~Usable(t) \/ "data" \in denied
                THEN RegisterFaults(t, denied)
                ELSE RegisterSucceeds(n, t, buffer_size, h, denied)

(* mdcs_counter_find_by_id and mdcs_counter_find_by_name *)
FindById(id) ==
  /\ Running
  /\ Returns(IF initialized /\ WithId(id) # {} THEN "MDCS_SUCCESS" ELSE "MDCS_ERROR")
  /\ UNCHANGED << initialized, table, heapVars, historyVars >>

FindByName(n) == FindById(Hash(n))

-----------------------------------------------------------------------------
(* mdcs_counter_push, _digest, _value and _reset begin alike. *)
Refused(h) == ~initialized \/ h = MDCS_COUNTER_NULL

(* The call reads the counter's type and leaves the counter as c. *)
Leaves(h, c) ==
  IF Usable(TypeOf(h))
  THEN /\ counters' = [counters EXCEPT ![h].c = c]
       /\ Returns("MDCS_SUCCESS")
       /\ UNCHANGED << initialized, table, blocks, types, historyVars >>
  ELSE Faults(TypeOf(h))

Push(h, x) ==
  /\ Running
  /\ IF Refused(h)
     THEN Fails
     ELSE /\ Live(h)
          /\ Len(Content(counters[h].c)) < MaxItems
          /\ Leaves(h, Pushed(counters[h].c, x))

(* With nothing buffered the type is not read. *)
Digest(h) ==
  /\ Running
  /\ IF Refused(h)
     THEN Fails
     ELSE /\ Live(h)
          /\ IF counters[h].c.num_buffered = 0
             THEN /\ Returns("MDCS_SUCCESS")
                  /\ UNCHANGED << initialized, table, heapVars, historyVars >>
             ELSE Leaves(h, Digested(counters[h].c))

Value(h) ==
  /\ Running
  /\ IF Refused(h) THEN Fails ELSE Live(h) /\ Leaves(h, Digested(counters[h].c))

Reset(h) ==
  /\ Running
  /\ IF Refused(h) THEN Fails ELSE Live(h) /\ Leaves(h, WasReset(counters[h].c))

Next ==
  \/ MdcsInit
  \/ MdcsInitialized
  \/ Finalize
  \/ \E t \in UserType : TypeCreate(t)
  \/ \E t \in UserType \union {MDCS_COUNTER_TYPE_NULL} : TypeDestroy(t)
  \/ \E n \in Name, t \in Type, buffer_size \in BufferSizes, h \in Handle,
        denied \in SUBSET Parts : Register(n, t, buffer_size, h, denied)
  \/ \E n \in Name : FindByName(n)
  \/ \E h \in Handle \union {MDCS_COUNTER_NULL} :
       \/ \E x \in Item : Push(h, x)
       \/ Digest(h)
       \/ Value(h)
       \/ Reset(h)

Spec == Init /\ [][Next]_vars

-----------------------------------------------------------------------------
(* The types of the state, and the shape of every counter the program can   *)
(* reach: its buffer has max_buffer_size slots and counts no more items.    *)
TypeOK ==
  /\ initialized \in BOOLEAN
  /\ table \subseteq Handle
  /\ \A h \in Handle : Live(h) =>
       /\ counters[h].name \in Name
       /\ counters[h].t \in Type
       /\ counters[h].c \in CounterRecord
       /\ Len(counters[h].c.buffer) = counters[h].c.max_buffer_size
       /\ counters[h].c.num_buffered <= counters[h].c.max_buffer_size
  /\ blocks \subseteq Handle \X Parts
  /\ types \in [Type -> [status : {"unused", "live", "freed"}, refcount : Int]]
  /\ ret \in {"MDCS_SUCCESS", "MDCS_ERROR"}
  /\ fault \in {"none", "null"} \union Type

(* A lookup finds at most one counter, and the one it finds is whole: every  *)
(* counter of the table has its id from its name, is allocated with its data *)
(* and its buffer, and holds pushed items only, nothing malloc left there.   *)
(* This must survive failed registrations, finalizations and reuse of the    *)
(* addresses of freed counters (mdcs_counter_register, mdcs_finalize).       *)
TableSound ==
  /\ ~initialized => table = {}
  /\ \A g, h \in table : counters[g].id = counters[h].id => g = h
  /\ \A h \in table :
       /\ << h, "struct" >> \in blocks /\ << h, "data" >> \in blocks
       /\ counters[h].id = Hash(counters[h].name)
       /\ << h, "buffer" >> \in blocks <=> counters[h].c.max_buffer_size # 0
       /\ Content(counters[h].c) \in Seq(Item)

(* Which blocks of the heap can be lost: those that a registration without   *)
(* a buffer left behind, and the counters of a table that a second mdcs_init *)
(* replaced.  Every other block belongs to a counter of the table, so that   *)
(* mdcs_finalize frees it.                                                   *)
BlocksAccounted ==
  \A b \in blocks : b \in leaked \/ b[1] \in table \union orphans

(* A built-in type is never freed, however many counters and finalizations  *)
(* drop references to it, and a program meets a freed type only if it        *)
(* released that very type with mdcs_counter_type_destroy or gave it to two  *)
(* registrations: the one reference that mdcs_counter_type_create counts is  *)
(* enough for one counter (refcount, mdcs_finalize).                         *)
FreedTypeNeedsCause ==
  /\ \A t \in BuiltInType : Usable(t)
  /\ fault \in Type =>
       /\ fault \in UserType
       /\ fault \in released \/ uses[fault] > 1

(* While the service stays initialised, an id that a lookup resolves keeps   *)
(* its counter: no registration, failed or not, under the same name or one   *)
(* of the same hash, rebinds it.                                             *)
BindingStable ==
  [][\A n \in Name :
       WithId(Hash(n)) # {} /\ initialized' /\ inits' = inits
       => WithId(Hash(n))' = WithId(Hash(n))]_vars

(* A call that returns MDCS_ERROR has no effect the program can see: the     *)
(* table, the types and every allocated counter are as before, whichever     *)
(* allocation failed half-way.                                               *)
ErrorsAreInert ==
  [][ret' = "MDCS_ERROR" =>
       /\ UNCHANGED << initialized, table, types >>
       /\ \A h \in Handle : Live(h) => Live(h)' /\ counters'[h] = counters[h]]_vars

(* What mdcs.h:112-114 says of mdcs_counter_type_destroy ("only destroyes    *)
(* the counter type if no existing counter use this type"): the type of an   *)
(* allocated counter is not freed.                                           *)
UsedTypesSurvive == \A h \in Handle : Live(h) => Usable(TypeOf(h))

(* What mdcs.h:184-188 says of mdcs_counter_find_by_name ("Finds a counter   *)
(* by its name"): the counter found for a name has that name.                *)
FoundHasTheName ==
  \A n \in Name : \A h \in WithId(Hash(n)) : counters[h].name = n
=============================================================================
