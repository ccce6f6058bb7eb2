# MDCS in TLA+

MDCS (Margo Diagnostics Counters Service) is a C library that lets a Margo
service keep named counters and lets other processes read and reset them by
RPC. This directory holds a TLA+ model of it, TLC configurations that check the
model on small instances, and TLAPS proofs of what holds for every instance.

## The system

| Part | Source | State | Operations |
|---|---|---|---|
| counter | `src/src/mdcs-service.c`, `mdcs-counter.h` | internal data, a buffer of `max_buffer_size` items, `num_buffered` | `mdcs_counter_push`, `_digest`, `_value`, `_reset` |
| counter types | `mdcs-counters.c`, `test/range-tracker.c` | the internal data of LAST, STAT and range counters | `create_f`, `destroy_f`, `reset_f`, `push_one_f`, `push_multi_f`, `get_value_f` |
| service | `mdcs-service.c`, `mdcs-global-data.h`, `mdcs-counter-type.h` | `g_mdcs` with the table of counters, the types with their `refcount`, the heap | `mdcs_init`, `_initialized`, `_finalize`, `_counter_type_create`, `_counter_type_destroy`, `_counter_register`, `_counter_find_by_id`, `_counter_find_by_name` |
| name hash | `mdcs-hash-string.c` | none | `mdcs_hash_string` |
| RPC server | `mdcs-rpc.c`, `mdcs-rpc-types.h` | the handlers under way and their private buffers | `mdcs_rpc_get_counter`, `mdcs_rpc_reset_counter` |
| RPC client | `mdcs-client.c` | the call under way and the caller's value buffer | `mdcs_remote_counter_get_id`, `_fetch`, `_reset` |
| hash table | `uthash.h` (vendored) | buckets of chains, and the list of all entries in order of insertion | `HASH_FIND`, `HASH_ADD`, `HASH_DEL`, `HASH_ITER` |
| printers, build, examples | `mdcs-error.h`, `CMakeLists.txt`, `test/` | function pointers | none that matters here |

The parts share memory and call each other directly: a push digests a full
buffer through the type's function pointers, a handler looks a counter up in
the global table and reads it like a local caller, the client waits in
`margo_forward` for what the handler sends with `margo_respond`, after the
handler has written the client's value buffer with `margo_bulk_transfer`.
Nothing is locked, nothing is persisted, and no call has a timeout.

### What is hard here

* *Buffers.* An item is in one of two places, and pushes, digests, reads and
  resets move it or leave it there. Slots keep old items after a digest.
* *Lifetimes.* Counters point to types that are counted by hand; registration
  has several steps that may fail; initialisation may happen twice.
* *Numbers.* Running averages and variances, differences and squares that
  overflow, marks such as `INT_MAX` that are also items.
* *Handlers.* A handler stops in the middle, for its bulk transfer, while the
  server goes on; every way out of it must answer, because the client waits
  without a timeout.
* *The table.* `uthash` grows by moving every entry, from estimates that also
  decide when to stop growing; `mdcs_finalize` frees the entry it walks on.
* *Threads.* `mdcs_init` takes any Argobots pool. With several execution streams
  calls overlap and the unlocked fields race. `StreamCounter` models that for one
  counter. All other modules assume **one execution stream**, the default of the
  example server (`margo_init(..., 0, 0)`), where a thread runs from one blocking
  call to the next.

### What makes each part correct

* counter: a buffer changes nothing a reader can see; what was read once is not
  counted again after a reset.
* counter types: the value is the stated function of the items since the reset,
  whether they came alone or in batches.
* service: a lookup finds at most one counter and a whole one; a binding is
  stable; failing calls have no effect; no freed memory is used; blocks are freed.
* hash table: it is the set of the registered counters, whatever moved; nothing
  leads to a freed one.
* RPC: a fetched value is one the counter had during the call; the answer says
  whether the value was written; each call returns, once.
* several streams: a race may cost items, or make a LAST type read before its
  buffer, but nothing outside the buffer is written; where no race happened,
  nothing is lost.

## Modules

| Module | Models | State and actions |
|---|---|---|
| `Counter` | `struct mdcs_counter_s` and the effect of the four calls on it | no state; `Allocated`, `Pushed`, `Digested`, `WasReset` map a counter to a counter |
| `CounterSpec` | the abstract counter: a log, of which up to `window` last items lag behind | `Push`, `CatchUp`, `Read`, `Reset` |
| `MdcsCounter` | one registered counter under any sequence of calls | one action per call; `log`, `stale`, `seen` are history |
| `Counter_proofs` | lemmas about the operators of `Counter` and about sequences | |
| `MdcsCounter_proofs` | theorems about `MdcsCounter` | |
| `Rational` | exact rational arithmetic for the `double` fields | |
| `CounterTypes` | the functions of the LAST, STAT and range types | operators on their data |
| `TypedCounter` | `MdcsCounter` with the internal data of a built-in type beside it | `type`, `data`; each action is one of `MdcsCounter` and what it does to the data |
| `Induction` | induction over the naturals, for sets of numbers; the history of a loop | |
| `TypedCounter_proofs` | theorems about the counter types, and the lemmas on rationals and loops they need | |
| `StreamCounter` | one counter on several execution streams: a pusher, and readers that fetch and digest | `multi` is what the type's `push_multi_f` does; `pc`, `n`, `i` are where each stream is and its locals; one action per load or store, `DigestOutside` for the `items[count-1]` of no items; `pushed`, `due`, `dirty`, `raced` are history |
| `StreamCounter_proofs` | theorems about `StreamCounter` | |
| `CounterTable` | the abstract table of counters: a set that is filled, and emptied by a finalization | `Add`, `Start`, `Remove`, `End` |
| `UtHash` | the table as `uthash.h` links it | `head`, `tbl`, `hh`; `Register` is the lookup and `HASH_ADD` of a registration, `Iter*` the loop of `mdcs_finalize` with its `HASH_DEL` and `free` |
| `UtHash_proofs` | theorems about `UtHash`, with lemmas on linked lists and sequences | |
| `MdcsHash` | `mdcs_hash_string` | operator on byte sequences |
| `MdcsService` | `mdcs-service.c` with table, types and heap | one action per function |
| `MdcsService_proofs` | theorems about `MdcsService` | |
| `MdcsRpc` | clients, handlers and messages on top of `MdcsService` | `RemoteFetch`, `RemoteReset`, `GetCounter`, `Transfer`, `Respond`, `ResetCounter`, `Return`, and every step of the service |
| `MdcsRpc_proofs` | theorems about `MdcsRpc`, with those of the service | |
| `MC*` | values of the constants for TLC | |

`MdcsCounter` and `MdcsService` both extend `Counter`: what is checked and
proved of one counter is what `MdcsService` does to each of its counters.
`MdcsRpc` extends `MdcsService` and its handlers use the service's actions
(`FindById`, `Value`, `Reset`) as parts of their own steps. `TypedCounter`
extends `MdcsCounter`, so that one run checks the counter, its refinement and
every type's data on it. `MdcsService` keeps the table as a set; `UtHash` shows
that this is what the macros make of it, by implementing `CounterTable`.

How the model abstracts:

* The data of a counter in `Counter` is the sequence of items it absorbed since
  its last `reset_f`. The data of each real type is a function of that sequence;
  `TypedCounter` says which. An unwritten slot of a buffer, and data before its
  first reset, hold the value `Garbage`, which is no item.
* Memory is a set of blocks: a counter has up to four (`struct`, `name`, `data`,
  `buffer`). An address is used again once nothing of its last counter is left.
  A type's address is used once.
* Allocations fail in any combination: `Register` takes the set of the blocks
  that `malloc`, `strdup` and `create_f` deny it. Without a buffer the
  registration is given up before `reset_f` meets data that are NULL.
* Undefined behaviour ends a behaviour: `fault` becomes the type that was read
  after it was freed, or `"null"` (NULL data passed to `reset_f`). In
  `StreamCounter` what lies before the buffer is `Garbage`. `CHECK_DEADLOCK FALSE` is
  set in the `service` and `rpc` runs for that reason.
* The application is a correct one by the library's own rules: it passes handles
  and types it was given, releases a type once, and does not register with a type
  it released. It may release a type at any time, for `mdcs.h` says so.
* Signed overflow wraps, as in the compiled code. Doubles are exact.
* Mercury delivers requests and responses once, in any order. `MayFail` names
  the calls that may fail. `"margo_get_input"` stands for the three exits at the
  start of `mdcs_rpc_get_counter`, `"margo_forward"` for `margo_create` too.

## Runs

| Run | Shows | Bounds |
|---|---|---|
| `counter` | buffering is invisible (`BufferTransparent`, `ReadIsComplete`), read items do not survive a reset, `MdcsCounter` implements `CounterSpec` (`Promise`), and LAST, STAT and range data fit their definitions | 3 items of 4 bits, both ends among them, so that differences and squares overflow; buffers of 0..3, `MaxLog` 3: the largest buffer fills, smaller ones are digested and start over; batches of up to 3 |
| `streams` | with readers on other streams no slot outside the buffer is written (`SlotsInBounds`) and none is absorbed before it was written (`NothingInvented`, which names the one exception); nothing is lost or repeated, and fetches are complete, unless a call stored `num_buffered` over a change it had not seen | 1 pusher, 2 readers, buffers of 1 and 2, 3 pushes: the larger buffer fills and starts over; types without `push_multi_f`, with one that goes through the items, and with one that takes the last; 3.95 million states, about a minute on two cores |
| `uthash` | exact lookups, the integrity check of uthash (`HASH_FSCK`), bounded chains until uthash gives up expanding, no link to a freed counter, and `UtHash` implements `CounterTable`, its liveness included | 7 counters with 3 hash values, one initial bucket, threshold 2 (32 and 10 in the code): the table expands five times, to 32 buckets, and reaches the point where it gives up expanding; all orders of registration, with and without finalizations between |
| `service` | sound table, accounted blocks, stable bindings, inert errors, no freed type without a cause of its own | 2 addresses, 3 names of which 2 collide, 1 built-in and 1 user type, `MaxInits` 2, buffers of 0 and 1: initialise, finalize, initialise again with everything in between; every set of allocations may fail |
| `rpc` | fetched values are linearizable, answers match deliveries, no answer is stale, every call returns unless a call of its handler failed | 2 clients, 1 counter, a user type, 2 sizes, every Margo call and allocation may fail; the counter's name hashes to 0, so that remote resets reach it |
| `counter_reset` | **violated**: a reset erases the buffer | |
| `types_avg` | **violated**: the average is the mean | |
| `service_type` | **violated**: destroying a type spares types in use | |
| `service_name` | **violated**: a lookup by name finds that name | |
| `rpc_reset` | **violated**: a remote reset resets the counter it names | |
| `rpc_error` | **violated**: MDCS_SUCCESS means a value | |
| `rpc_hang` | **violated**: a call returns when an allocation fails on the server | |

Each violated run checks one statement of `mdcs.h` or `README.md`; the
counterexample is what the code does. `PROJECT.json` quotes both sides.

What holds beside the violated statements is as telling. The variance and the
average of a STAT counter are both wrong after the second item, yet
`avg^2 + var` is always the exact mean of the squares (`SecondMomentIsExact`):
only the one division is wrong. A reset leaves the buffer, yet a reader who
reads and then resets never counts an item twice (`ReadItemsDoNotSurvive`),
because a read empties the buffer. A type is freed under its counters, yet
never in a program that keeps its types and gives each user type to one
registration: the type that a call meets freed is a user type, and it is that
very type which was released or registered more than once. A built-in type is
never freed (`FreedTypeNeedsCause`). Registrations count in `uses` once they
return no error.

*Several streams.* `StreamCounter` takes the data race for what a build can make
of it: stores become visible in program order (as on x86), and where the compiler
may keep a value or load it again both happen. Items are lost or absorbed twice
there; `mdcs.h` promises nothing about it. `dirty` and `raced` name the pattern:
some call stored `num_buffered` after another had changed it since this call
looked. Whatever overlaps without that pattern is exact.

One outcome is worse than a lost item. `mdcs_counter_digest` compares
`num_buffered` with 0 (line 259) and may load it again for `push_multi_f`
(line 261). When another digest has emptied the buffer in between, the LAST types
are asked for the last of no items, `items[count-1]`, and take what lies before the
buffer for the counter's value. `NothingInvented` says that this is the only way
that something nobody pushed is absorbed, and that the call which does it ends up in
the pattern above: it stores 0 over a change it had not seen.

*Bounds.* `MaxLog`, `MaxItems`, `MaxInits`, `MaxPushes` bound pushes and
initialisations in the guards. Addresses are symmetric in `service.cfg`, readers
in `streams.cfg` (no liveness is checked there). The hash runs modulo 2^16; "Aa" and
"B@" collide modulo anything.

*Fairness.* `UtHash` assumes that a loop of `mdcs_finalize` that has begun runs
on. In `MdcsRpc`, `Fairness` is weak fairness of
handling a request, completing a transfer, resuming a handler and returning a
response, per client. Mercury's progress loop and the Argobots scheduler run
whatever is ready, and once one of these steps is enabled for a client nothing
but that step, or a crash, takes it away. No fairness is assumed of any call of
an application.

## Proofs

The theorems hold for every value of the constants that the named assumptions
of the modules allow: any sets of items, names, types, addresses, clients and
streams, any set of buffer sizes, any width of an integer, any hash function,
any initial size and threshold of the table of counters, any bounds on pushes
and initialisations. The assumptions are `GarbageAssumption`
(unwritten memory is no item), `CounterAssumption` and `StreamAssumption` (buffer
sizes are naturals, on several streams not 0; items there are numbers of
pushes), `WidthAssumption` and
`ItemsAssumption` (an item is an integer of `Width` > 0 bits), `ServiceAssumption`
(markers are no members of the sets they mark, finitely many addresses),
`UtHashAssumption` (`NULL` is no counter, hash values are naturals, the initial
number of buckets is a power of two and the threshold is not 0) and
`RpcAssumption` (a type has one value size, and `NoValue` is no value). TLC
evaluates each of them. Each inductive invariant was an invariant of a TLC run
before it was proved, that of `UtHash` for the sequences which the walks along the
links give. `TypedInv` is the exception, for its set of rationals is infinite: the
run checks what it says of each type as properties.

| Module | Theorems | Inductive invariant |
|---|---|---|
| `MdcsCounter_proofs` | `TypeCorrect`, `Transparency`, `ReadsAreComplete`, `NothingReadTwice`, `Implements` (the refinement of `CounterSpec`) | `Inv`, with `SeenAbsorbed` |
| `TypedCounter_proofs` | `TypedRunsTheCounter` (`TypedSpec => Spec`), `TypedTypeCorrect`, `LastOfAll`, `StatsExact`, `SecondMoment`, `RangeExact` | `TypedInv` |
| `StreamCounter_proofs` | `TypeCorrect`, `InBounds`, `OnlyOutsideIsInvented`, `ExactWithoutRace`, `ReadsAreComplete` | `IInv` |
| `MdcsService_proofs` | `TypeCorrect`, `LookupsAreSound`, `NoOtherLeak`, `FreedTypeHasCause`, `BindingsAreStable`, `ErrorsChangeNothing` | `IInv` |
| `MdcsRpc_proofs` | `ServerRunsTheService` (`RpcSpec => Spec`), `ServedTableIsSound`, `RpcTypeCorrect`, `FetchesAreLinearizable`, `AnswersMatch`, `NothingStale` | `RpcInv` |
| `UtHash_proofs` | `HashInvariant`, `HashTypeCorrect`, `FsckPasses`, `LookupIsExact`, `ChainsStayBounded`, `NothingFreedIsUsed`, `TableIsASet` (the refinement of the safety part of `CounterTable`) | `IInv` |

*The counter.* `TypeOK` alone is not inductive: a read returns the absorbed
items, and that they are items and not garbage follows from `BufferTransparent`,
which equates them with the log. `SeenAbsorbed` adds that what a read returned is
in the absorbed part, never in the buffer. The argument goes through
`DigestKeepsContent`, `StoreAppends` and `PushAppends`, which the service and the
streams use again.

*The counter types.* `Fits(t, d, s)` says what the data `d` of type `t` is when
it has absorbed the items `s`. One push preserves it (`PushOneFits`), so a batch
does, by induction over its length (`PushEachFits`), so each call of the counter
does. The loops are recursive functions; that these exist, and what they compute,
is proved with `InductionTo`, which says of a set of numbers what the induction
theorems of the library say of an operator. `SecondMoment` needs some arithmetic
of fractions. `Ratio` is the fraction with the least denominator, so that equal
fractions are equal values (`RatioEqual`) and `+`, `-` and `*` are those of any
fractions that represent them. Whatever the new average is, it is squared,
subtracted and added again (`SecondMomentPush`, `MinusPlus`): that is why a wrong
average leaves the sum right. For `int64` items the theorem asks, as the
property does, that each product `x*x` fits.

*Several streams.* `Bounded` says that nobody counts or writes a slot outside the
buffer, or counts one that was never written, wherever each stream is in its call.
The data take `Garbage` only in `DigestOutside`, where `n` is 0; a stream that is
not `dirty` has an `n` that is not 0 there (`SyncedAt`), so that this stream is
dirty, and stays so until it stores.
The other parts hold as long as races leave them alone. A stream that is not
`dirty` still knows the counter: its `n` is the count, and a digest has handed over
the items it says it has (`Synced`). Every item whose push has returned is in the
data or in the buffer (`Complete`). Unless a race has happened or can no longer be
avoided (`Doomed`), at most one stream is about to store `num_buffered`, and the data
and the buffer hold exactly the items pushed, in order, but for those of a digest
that has not stored yet, which are in both (`Exact`).

*The service.* `Typed` and `AllWhole` describe a counter that registration
completed. `Listed` makes ids unique in the table. `Referenced` connects
reference counts with history: a built-in type keeps a negative count and is never
freed; the one reference of a user type that was not released and registered at
most once is given back with its only counter, so that it is freed after that
counter and not before. `FreedTypeNeedsCause` is inductive only with it: a step
that meets the freed type `t` meets it in spite of that one reference, unless `t`
itself was released or used twice (`FreedTypeNext`). The lemma
`StepKinds` sorts the steps by what they do to the state (look, start, finish,
create, release, crash, give up, succeed, update one counter), and each conjunct is
proved against these kinds.

*Remote access.* Every handler step is a step of the service or changes nothing of
it, which gives `RpcSpec => Spec`, and with it every theorem on the service. For the
messages, a call is in one place at a time, as a request, a handler or a response
(`InOnePlace`), none of them outlives it, and each carries what belongs to the call
its client waits for (`Matched`).

*The hash table.* What the code does to pointers, the proof says of sequences.
`TableInv` names one sequence that the list of all entries is, from head to tail
(`Enlisted`), and one for each bucket that its chain is (`ChainsOf`): linked forwards
and backwards, without repetition, holding exactly the allocated counters, those of
a bucket being the ones that hash to it. A walk along a link then meets that sequence
(`WalkAlong`, by induction over its length), so that lookups, counts and the
integrity check are facts about sequences. The lemmas say what an operation makes
of them: an entry behind a list (`EnlistedLast`), before a chain (`Prepended`), out of
either (`EnlistedWithout`, `ChainsWithout`). An expansion is a loop over all entries
(`LoopExists`), and after k turns the new buckets hold the first k of them.

`ChainsStayBounded` needs an argument of its own. A bucket asks for an expansion when
its chain has `(expand_mult + 1) * THRESH` entries, and `HASH_ADD` expands at most
once, so why is once enough? `Within` gives each of the n buckets a weight `w[b]`, at
least its `expand_mult`, such that its chain is shorter than `(w[b] + 1) * THRESH` and
the weights add up to at most n. So the table has room for one entry more below
`2 * n * THRESH` (`RoomForOne`), the ideal length for 2n buckets is at most `THRESH`
(`IdealChainHolds`), and after the expansion the shares `count \div ideal_chain_maxlen`
are such weights again (`WithinOnceExpanded`). The bound of `ChainsBounded` is `<=`, not
`<`: the expansion may leave a bucket exactly at its length, where the next addition
expands again; the run `uthash` reaches such states. The numbers of buckets and
entries are naturals there: 2^31 buckets of 16 bytes are out of reach.

`LoopInv` says where `mdcs_finalize` is: on the head, having saved what follows it. That
is why nothing freed is reached, and why the loop ends with an empty table. For the
refinement, the list holds exactly the allocated counters (`ListHoldsLive`), and each
step adds or removes the one it says, or none.

Left to TLC:

* liveness: `AnsweredUnlessItFailed`, and the end of a finalization in
  `CounterTable`, which is the part of `ImplementsTable` that is not proved;
* `AverageIsMean` and the other violated statements, which are false.

## Not modelled

* Resets on other streams than the pusher's, though the handler of a remote reset
  runs in the same pool. `StreamCounter` is about the items since the last reset: a
  `reset_f` between two steps of a digest would drop an unknown part of its batch, and
  `pushed`, `due` and the numbers in the data would have to restart with it, for many
  times the states. Without races, `MdcsCounter` has the resets.
* Several streams that push, and registration, lookup and finalization on several
  streams: nothing is locked and nothing is promised. Two pushers write past the
  buffer, two registrations of one name both succeed.
* Items that are torn while they are copied, and weaker memory than program order
  of stores.
* The rest of `uthash`: sorting, replacing, selecting, ordered insertion, Bloom
  filters, and recovery from failing allocations are not compiled in. Its hash
  functions only choose buckets: `HashValue` is any function. A failing
  allocation inside `HASH_ADD` ends the process.
* The value of a variance after an `int64` square has wrapped: `CounterTypes`
  computes it and the run `counter` reaches it, but no property says what it is.
* Rounding of doubles; the printers; `margo_init` and `margo_finalize`; a client
  or server that uses a library call before `mdcs_init` where the code would
  dereference NULL (`mdcs-client.c:37`).
* A `margo_forward` that gives up while its handler is at work: the handler would
  write to a buffer the caller may have left. The code sets no timeout and
  cancels nothing, so it cannot start this by itself.

## Plan

Done: `Counter`, `CounterSpec`, `MdcsCounter` and its proofs, `CounterTypes` with
`TypedCounter`, `MdcsHash`, `MdcsService`, `MdcsRpc`, `StreamCounter`, `UtHash`
with `CounterTable`; the proofs of each.

All safety properties that the runs check are proved. What could follow: resets in
`StreamCounter`, several streams that push, once the code says what they may expect,
and a `UtHash` whose calls overlap on several streams.
