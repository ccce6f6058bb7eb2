------------------------------- MODULE UtHash -------------------------------
(***************************************************************************)
(* The hash table of counters as uthash.h keeps it: buckets that hold      *)
(* doubly linked chains, and through all entries a second doubly linked    *)
(* list in order of insertion.  An action is one use that mdcs-service.c   *)
(* makes of it: the HASH_FIND and HASH_ADD of mdcs_counter_register, and   *)
(* the steps of the HASH_ITER loop of mdcs_finalize, which deletes and     *)
(* frees the counter it stands on.                                         *)
(*                                                                         *)
(* An entry is the address of a counter, which stands for its handle hh    *)
(* and its id too.  A failing malloc of uthash ends the process            *)
(* (uthash_fatal), so that it leads to no state.  The links of a freed     *)
(* counter are cleared, for nobody may read them (NoUseAfterFree).         *)
(***************************************************************************)
EXTENDS Integers, Sequences, FiniteSets, Functions

CONSTANTS
  Entry,      \* the counters
  NULL,
  HashValue,  \* HASH_JEN of the id of each counter
  HASH_INITIAL_NUM_BUCKETS_LOG2,
  HASH_BKT_CAPACITY_THRESH

ASSUME UtHashAssumption ==
  /\ NULL \notin Entry
  /\ HashValue \in [Entry -> Nat]
  /\ HASH_INITIAL_NUM_BUCKETS_LOG2 \in Nat
  /\ HASH_BKT_CAPACITY_THRESH \in Nat \ {0}

VARIABLES
  head,   \* g_mdcs->counter_hash
  tbl,    \* the UT_hash_table of the head, with its buckets
  hh,     \* the links of the handles, field by field
  live,   \* the counters that are allocated
  pc,     \* where mdcs_finalize is: "idle", "body" or "next"
  el, tmp \* current_counter and tmp of its loop

vars == << head, tbl, hh, live, pc, el, tmp >>

Pointer == Entry \union {NULL}

(* The entries met from e on, following one of the links. *)
Walk(link, e) ==
  LET from[x \in Pointer] == IF x = NULL THEN << >> ELSE << x >> \o from[link[x]]
  IN  from[e]

EmptyBuckets(n) == [b \in 0..n - 1 |-> [hh_head |-> NULL, count |-> 0, expand_mult |-> 0]]

(* What stands for a table that is not there. *)
NoTable ==
  [ buckets |-> << >>, num_buckets |-> 0, log2_num_buckets |-> 0, num_items |-> 0,
    tail |-> NULL, ideal_chain_maxlen |-> 0, nonideal_items |-> 0,
    ineff_expands |-> 0, noexpand |-> FALSE ]

Init ==
  /\ head = NULL
  /\ tbl = NoTable
  /\ LET unlinked == [e \in Entry |-> NULL]
     IN  hh = [prev |-> unlinked, next |-> unlinked, hh_prev |-> unlinked, hh_next |-> unlinked]
  /\ live = {}
  /\ pc = "idle"
  /\ el = NULL
  /\ tmp = NULL

-----------------------------------------------------------------------------
(* HASH_TO_BKT: the number of buckets is a power of two. *)
ToBkt(e, num_bkts) == HashValue[e] % num_bkts

Chain(b) == Walk(hh.hh_next, tbl.buckets[b].hh_head)

(* HASH_FIND: the entry with the id of e, or NULL. *)
Find(e) ==
  IF head # NULL /\ e \in Range(Chain(ToBkt(e, tbl.num_buckets))) THEN e ELSE NULL

(* HASH_MAKE_TABLE *)
NewTable(e) ==
  [NoTable EXCEPT
     !.tail             = e,
     !.num_buckets      = 2^HASH_INITIAL_NUM_BUCKETS_LOG2,
     !.log2_num_buckets = HASH_INITIAL_NUM_BUCKETS_LOG2,
     !.buckets          = EmptyBuckets(2^HASH_INITIAL_NUM_BUCKETS_LOG2)]

(* The operators below take and return a table together with the links. *)

(* A mistake, for the mutants: the tail stays where it was. *)
ListedKeepingTail(e) ==
  IF head = NULL
  THEN [tbl |-> NewTable(e), hh |-> [hh EXCEPT !.next[e] = NULL, !.prev[e] = NULL]]
  ELSE [tbl |-> tbl,
        hh  |-> [hh EXCEPT !.next[e] = NULL, !.prev[e] = tbl.tail, !.next[tbl.tail] = e]]

(* HASH_APPEND_LIST, and the first entry's table *)
Listed(e) ==
  IF head = NULL
  THEN [tbl |-> NewTable(e), hh |-> [hh EXCEPT !.next[e] = NULL, !.prev[e] = NULL]]
  ELSE [tbl |-> [tbl EXCEPT !.tail = e],
        hh  |-> [hh EXCEPT !.next[e] = NULL, !.prev[e] = tbl.tail, !.next[tbl.tail] = e]]

(* How an entry becomes the first of a chain. *)
PutFirst(s, b, e) ==
  LET bkt   == s.tbl.buckets[b]
      first == bkt.hh_head
      back  == s.hh.hh_prev
  IN  [s EXCEPT
         !.tbl.buckets[b] = [bkt EXCEPT !.hh_head = e, !.count = @ + 1],
         !.hh.hh_next[e]  = first,
         !.hh.hh_prev     = [x \in Entry |-> IF x = first THEN e
                                             ELSE IF x = e THEN NULL ELSE back[x]]]

(* A mistake, for the mutants of PROJECT.json: the mask of the old buckets. *)
RehashedByOldMask(s, e) == PutFirst(s, ToBkt(e, s.tbl.num_buckets \div 2), e)

(* One turn of the inner loop of HASH_EXPAND_BUCKETS. *)
Rehashed(s, e) ==
  LET b     == ToBkt(e, s.tbl.num_buckets)
      p     == PutFirst(s, b, e)
      count == p.tbl.buckets[b].count
      ideal == p.tbl.ideal_chain_maxlen
  IN  IF count > ideal
      THEN [p EXCEPT !.tbl.nonideal_items = @ + 1,
                     !.tbl.buckets[b].expand_mult = count \div ideal]
      ELSE p

(* The entries of a table by twice its buckets, rounded up. *)
IdealChain(t) ==
  (t.num_items \div 2^(t.log2_num_buckets + 1))
  + (IF t.num_items % (2 * t.num_buckets) # 0 THEN 1 ELSE 0)

(* A mistake, for the mutants: the bucket is never expanded.                 *)
AddedLate(s, e) ==
  LET b == ToBkt(e, s.tbl.num_buckets)
  IN  PutFirst([s EXCEPT !.tbl.num_items = @ + 1], b, e)

(* The entries in the order in which a loop over the buckets, and in each    *)
(* over its chain, meets them.                                               *)
InBuckets(s) ==
  LET upTo[n \in 0..s.tbl.num_buckets] ==
        IF n = 0 THEN << >>
        ELSE upTo[n - 1] \o Walk(s.hh.hh_next, s.tbl.buckets[n - 1].hh_head)
  IN  upTo[s.tbl.num_buckets]

(* HASH_EXPAND_BUCKETS: the chains of the old buckets, front to back, go to  *)
(* twice as many new ones.                                                   *)
Expanded(s) ==
  LET n     == s.tbl.num_buckets
      order == InBuckets(s)
      fresh == [s EXCEPT !.tbl.buckets            = EmptyBuckets(2 * n),
                         !.tbl.num_buckets        = 2 * n,
                         !.tbl.log2_num_buckets   = @ + 1,
                         !.tbl.ideal_chain_maxlen = IdealChain(s.tbl),
                         !.tbl.nonideal_items     = 0]
      loop[k \in 0..Len(order)] ==
        IF k = 0 THEN fresh ELSE Rehashed(loop[k - 1], order[k])
      moved == loop[Len(order)]
      ineff == IF moved.tbl.nonideal_items > moved.tbl.num_items \div 2
               THEN moved.tbl.ineff_expands + 1 ELSE 0
  IN  [moved EXCEPT !.tbl.ineff_expands = ineff, !.tbl.noexpand = @ \/ ineff > 1]

(* HASH_ADD_TO_TABLE and HASH_ADD_TO_BKT *)
Added(s, e) ==
  LET b   == ToBkt(e, s.tbl.num_buckets)
      p   == PutFirst([s EXCEPT !.tbl.num_items = @ + 1], b, e)
      bkt == p.tbl.buckets[b]
  IN  IF /\ bkt.count >= (bkt.expand_mult + 1) * HASH_BKT_CAPACITY_THRESH
         /\ ~p.tbl.noexpand
      THEN Expanded(p)
      ELSE p

(* HASH_ADD in mdcs_counter_register, after its lookup has found nothing. *)
Register(e) ==
  /\ pc = "idle"
  /\ Find(e) = NULL
  /\ LET s == Added(Listed(e), e) IN tbl' = s.tbl /\ hh' = s.hh
  /\ head' = IF head = NULL THEN e ELSE head
  /\ live' = live \union {e}
  /\ UNCHANGED << pc, el, tmp >>

-----------------------------------------------------------------------------
(* Mistakes, for the mutants: a successor keeps its link back to the deleted *)
(* entry, in the list or in its chain.                                       *)
UnlistedForward(d) ==
  [hh EXCEPT !.next = [x \in Entry |-> IF x = hh.prev[d] THEN hh.next[d] ELSE hh.next[x]]]

UnchainedForward(links, d) ==
  [links EXCEPT
     !.hh_next = [x \in Entry |-> IF x = hh.hh_prev[d] THEN hh.hh_next[d] ELSE hh.hh_next[x]]]

(* HASH_DELETE_HH: its parts for the list and, by HASH_DEL_IN_BKT, the chain. *)
Unlisted(d) ==
  [hh EXCEPT !.next = [x \in Entry |-> IF x = hh.prev[d] THEN hh.next[d] ELSE hh.next[x]],
             !.prev = [x \in Entry |-> IF x = hh.next[d] THEN hh.prev[d] ELSE hh.prev[x]]]

Unchained(links, d) ==
  [links EXCEPT
     !.hh_next = [x \in Entry |-> IF x = hh.hh_prev[d] THEN hh.hh_next[d] ELSE hh.hh_next[x]],
     !.hh_prev = [x \in Entry |-> IF x = hh.hh_next[d] THEN hh.hh_prev[d] ELSE hh.hh_prev[x]]]

Without(d) ==
  LET b   == ToBkt(d, tbl.num_buckets)
      bkt == tbl.buckets[b]
  IN  [tbl EXCEPT
         !.tail       = IF d = @ THEN hh.prev[d] ELSE @,
         !.num_items  = @ - 1,
         !.buckets[b] = [bkt EXCEPT !.count   = @ - 1,
                                    !.hh_head = IF d = @ THEN hh.hh_next[d] ELSE @]]

(* The links that nobody may follow any more. *)
Freed(links, e) == [field \in DOMAIN links |-> [links[field] EXCEPT ![e] = NULL]]

IsOnly(d) == hh.prev[d] = NULL /\ hh.next[d] = NULL

(* HASH_DEL(counter_hash, d); ... free(d) *)
DeleteAndFree(d) ==
  /\ IF IsOnly(d)
     THEN /\ head' = NULL
          /\ tbl' = NoTable
          /\ hh' = Freed(hh, d)
     ELSE /\ head' = IF hh.prev[d] = NULL THEN hh.next[d] ELSE head
          /\ tbl' = Without(d)
          /\ hh' = Freed(Unchained(Unlisted(d), d), d)
  /\ live' = live \ {d}

(* HASH_ITER(hh, head, el, tmp), split where the loop of mdcs_finalize turns. *)
NextOf(e) == IF e = NULL THEN NULL ELSE hh.next[e]

IterStart ==
  /\ pc = "idle"
  /\ pc' = "body"
  /\ el' = head
  /\ tmp' = NextOf(head)
  /\ UNCHANGED << head, tbl, hh, live >>

IterBody ==
  /\ pc = "body"
  /\ el # NULL
  /\ DeleteAndFree(el)
  /\ pc' = "next"
  /\ UNCHANGED << el, tmp >>

(* A mistake, for the mutants: the loop reads the counter it has freed. *)
IterNextFromFreed ==
  /\ pc = "next"
  /\ pc' = "body"
  /\ el' = hh.next[el]
  /\ tmp' = NextOf(hh.next[el])
  /\ UNCHANGED << head, tbl, hh, live >>

IterNext ==
  /\ pc = "next"
  /\ pc' = "body"
  /\ el' = tmp
  /\ tmp' = NextOf(tmp)
  /\ UNCHANGED << head, tbl, hh, live >>

IterEnd ==
  /\ pc = "body"
  /\ el = NULL
  /\ pc' = "idle"
  /\ UNCHANGED << head, tbl, hh, live, el, tmp >>

Next ==
  \/ \E e \in Entry : Register(e)
  \/ IterStart
  \/ IterBody
  \/ IterNext
  \/ IterEnd

(* A finalization that has begun runs on. *)
Spec ==
  /\ Init
  /\ [][Next]_vars
  /\ WF_vars(IterBody \/ IterNext \/ IterEnd)

-----------------------------------------------------------------------------
(* What HASH_FSCK computes, which uthash compiles in with HASH_DEBUG: each   *)
(* list is linked backwards as it is forwards, and the counts are exact.     *)
BackLinked(link, seq) ==
  \A i \in 1..Len(seq) : link[seq[i]] = IF i = 1 THEN NULL ELSE seq[i - 1]

HASH_FSCK ==
  head # NULL =>
    LET list == Walk(hh.next, head)
    IN  /\ \A b \in DOMAIN tbl.buckets :
             /\ BackLinked(hh.hh_prev, Chain(b))
             /\ tbl.buckets[b].count = Len(Chain(b))
        /\ tbl.num_items = Len(InBuckets([tbl |-> tbl, hh |-> hh]))
        /\ BackLinked(hh.prev, list)
        /\ tbl.num_items = Len(list)

(* The types of the pointers; a table has a power of two of buckets, its     *)
(* tail is the last entry of the list, and no table stands without a head.   *)
TypeOK ==
  /\ head \in Pointer
  /\ live \subseteq Entry
  /\ pc \in {"idle", "body", "next"}
  /\ el \in Pointer /\ tmp \in Pointer
  /\ hh \in [{"prev", "next", "hh_prev", "hh_next"} -> [Entry -> Pointer]]
  /\ head = NULL <=> tbl = NoTable
  /\ head # NULL =>
       /\ tbl.num_buckets = 2^tbl.log2_num_buckets
       /\ DOMAIN tbl.buckets = 0..tbl.num_buckets - 1
       /\ tbl.tail \in Entry /\ hh.next[tbl.tail] = NULL

(* The integrity check that uthash itself states (HASH_FSCK) holds after     *)
(* every HASH_ADD, with or without an expansion, and every HASH_DEL.         *)
PassesFsck == HASH_FSCK

(* A lookup finds exactly the registered counters, whatever expansions moved *)
(* them to other buckets and however many of their hash values share one     *)
(* (HASH_FIND in mdcs_counter_find_by_id, HASH_EXPAND_BUCKETS).              *)
LookupExact == \A e \in Entry : Find(e) = IF e \in live THEN e ELSE NULL

(* Until uthash gives up expanding, no chain exceeds the length its bucket   *)
(* is allowed (HASH_BKT_CAPACITY_THRESH by expand_mult + 1): an expansion,   *)
(* which HASH_ADD_TO_BKT makes of one bucket's length, keeps all within it.  *)
ChainsBounded ==
  ~tbl.noexpand =>
    \A b \in DOMAIN tbl.buckets :
      tbl.buckets[b].count <= (tbl.buckets[b].expand_mult + 1) * HASH_BKT_CAPACITY_THRESH

(* The loop of mdcs_finalize frees the entry it stands on, and no pointer    *)
(* that anything follows afterwards leads to freed memory: not the next      *)
(* entry it saved, not the head or tail, not a link of a remaining entry.    *)
NoUseAfterFree ==
  /\ {head, tbl.tail, tmp} \subseteq live \union {NULL}
  /\ pc = "body" => el \in live \union {NULL}
  /\ \A field \in DOMAIN hh, e \in live : hh[field][e] \in live \union {NULL}

(* The table is the set of counters that MdcsService takes it for: what was  *)
(* added stays, and the loop of mdcs_finalize removes every counter, each    *)
(* once, and ends.                                                           *)
Table ==
  INSTANCE CounterTable WITH
    entries    <- Range(Walk(hh.next, head)),
    finalizing <- pc # "idle"

ImplementsTable == Table!Spec
=============================================================================
